---------------------------- MODULE MCBulkRename ----------------------------
(***************************************************************************)
(* Inputs for checking BulkRename with TLC: a tree r -> {a, b}, a -> c,  *)
(* b -> d; in b a symlink to a directory o outside the tree and one back  *)
(* to the root.  input_filename is unversioned in b.  Every directory     *)
(* starts with no file, input_filename, both names, or another file.      *)
(***************************************************************************)
EXTENDS BulkRename

MCDirs == {"r", "a", "b", "c", "d", "o"}

MCLinks == {<<"b", "o">>, <<"b", "r">>}

MCTree == [node |-> MCDirs,
           edge |-> {<<"r", "a">>, <<"r", "b">>, <<"a", "c">>, <<"b", "d">>} \cup MCLinks]

MCVersioned == MCDirs \ {"b"}

\* Directory a cannot be listed (permissions).
MCReadableButA == MCDirs \ {"a"}

MCFileStates == [MCDirs -> {{}, {"in"}, {"in", "out"}, {"other"}}]
=============================================================================
