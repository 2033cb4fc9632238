---------------------------- MODULE MCFilesystem ----------------------------
(* Instances of Filesystem for TLC.                                        *)
EXTENDS Filesystem

OneChunk == {<<1>>}
CreateOnly == {{"O_WRONLY", "O_CREAT"}}
\* No action reads the last reply, so states that differ only there are merged;
\* action properties are evaluated on every step all the same.
WithoutReply == <<opened_files, opened_files_map, opened_files_writer, store>>
=============================================================================
