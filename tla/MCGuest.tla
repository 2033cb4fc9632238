------------------------------ MODULE MCGuest -------------------------------
(* Instances of Guest for TLC.                                             *)
EXTENDS Guest, TLC

OneChunk == {<<1>>}
WriteFlags == {{}, {"O_WRONLY"}, {"O_WRONLY", "O_APPEND"}}
HandleSymmetry == Permutations(Handles)

\* No action reads the last reply, so states that differ only there are merged;
\* action properties are evaluated on every step all the same.
WithoutReply == <<opened_files, opened_files_map, opened_files_writer, store, known, handles>>
=============================================================================
