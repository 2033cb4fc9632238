---------------------------- MODULE MCChainCalls ----------------------------
(* Instances of ChainCalls for TLC.                                        *)
EXTENDS ChainCalls

\* The ways to cut a few words into at most three slices.
Cuts(lens, most) == {s \in BoundedSeq(lens, 3) : Sum(s) <= most}

SomeReadable == {<<1, 2>>, <<1, 0, 1>>}
SomeWritable == Cuts(1 .. 3, 5) \cup Cuts(0 .. 2, 4)
=============================================================================
