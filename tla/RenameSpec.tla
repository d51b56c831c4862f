----------------------------- MODULE RenameSpec -----------------------------
(***************************************************************************)
(* What svn-bulk-rename.py promises of its walk, without the walk: each   *)
(* directory os.walk(root_dir) can reach is handled once, in some order,  *)
(* and handling it renames input_filename there if it is present.  The    *)
(* first svn mv that fails ends the script; otherwise the script ends     *)
(* once every reachable directory has been handled.  Which directories    *)
(* are reachable (Walkable) is a parameter: the detailed walk derives it  *)
(* from the tree, the symlinks and the directories it can list.           *)
(***************************************************************************)

CONSTANTS
  Dirs,        \* every directory
  Walkable,    \* the directories the walk must handle
  Versioned,   \* directories whose input_filename svn has under version control
  FileStates,  \* the possible initial files: functions dir -> set of names
  In, Out      \* input_filename and output_filename

ASSUME Walkable \subseteq Dirs

VARIABLES
  argv_ok,   \* len(sys.argv) == 4
  files,     \* dir -> names of the plain files in it
  todo,      \* the walkable directories not yet handled
  renamed,   \* the directories where svn mv has run
  status     \* "walking", "done", "usage" or "failed"

vars == <<argv_ok, files, todo, renamed, status>>

\* svn mv refuses an unversioned source and an existing target.
MvSucceeds(d) == d \in Versioned /\ Out \notin files[d]

Init ==
  /\ argv_ok \in BOOLEAN
  /\ files \in FileStates
  /\ todo = Walkable
  /\ renamed = {}
  /\ status = "walking"

Usage ==
  /\ status = "walking" /\ ~argv_ok
  /\ status' = "usage"
  /\ UNCHANGED <<argv_ok, files, todo, renamed>>

\* Any directory not yet handled is handled next: no match, a rename, or
\* a failed svn mv that ends the script.
Handle(d) ==
  /\ status = "walking" /\ argv_ok /\ d \in todo
  /\ todo' = todo \ {d}
  /\ \/ In \notin files[d] /\ UNCHANGED <<files, renamed, status>>
     \/ /\ In \in files[d] /\ MvSucceeds(d)
        /\ files' = [files EXCEPT ![d] = (@ \ {In}) \cup {Out}]
        /\ renamed' = renamed \cup {d}
        /\ UNCHANGED status
     \/ /\ In \in files[d] /\ ~MvSucceeds(d)
        /\ status' = "failed"
        /\ UNCHANGED <<files, renamed>>
  /\ UNCHANGED argv_ok

Finish ==
  /\ status = "walking" /\ argv_ok /\ todo = {}
  /\ status' = "done"
  /\ UNCHANGED <<argv_ok, files, todo, renamed>>

Next == Usage \/ (\E d \in Dirs : Handle(d)) \/ Finish

\* The script always gets to its end.
Spec == Init /\ [][Next]_vars /\ WF_vars(Next)
=============================================================================
