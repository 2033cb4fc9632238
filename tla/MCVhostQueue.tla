---------------------------- MODULE MCVhostQueue ----------------------------
(* Instances of VhostQueue for TLC.                                        *)
EXTENDS VhostQueue
=============================================================================
