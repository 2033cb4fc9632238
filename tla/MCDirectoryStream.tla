-------------------------- MODULE MCDirectoryStream --------------------------
(* Instances of DirectoryStream for TLC.                                   *)
EXTENDS DirectoryStream

NoFlags == {}
NoChunk == {}
=============================================================================
