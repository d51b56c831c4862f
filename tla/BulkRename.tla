----------------------------- MODULE BulkRename -----------------------------
(***************************************************************************)
(* src/ivp/scripts/util/svn-bulk-rename.py: for every directory that      *)
(* os.walk(root_dir) yields, if input_filename is among its files, run    *)
(* svn mv dir/input_filename dir/output_filename under check_call.        *)
(*                                                                         *)
(* os.walk (Python 2, topdown, onerror=None, followlinks=False) is a      *)
(* depth-first walk: it lists a directory, yields it (the loop body runs  *)
(* before any child is listed), then walks each child directory in the    *)
(* order listdir returned it, skipping directories that are symlinks.  A  *)
(* directory listdir cannot read is skipped without a word.  The walk is  *)
(* the stack of directories still to walk.  The order of listdir is not   *)
(* specified, so every order of the children is a possible walk.           *)
(***************************************************************************)
EXTENDS Integers, Sequences, SequencesExt, FiniteSets, Graphs

CONSTANTS
  Tree,        \* the directories: [node, edge], an edge parent -> child entry
  Links,       \* the edges of Tree that are symlinks to a directory
  Root,        \* root_dir
  Readable,    \* directories listdir can read
  Versioned,   \* directories whose input_filename svn has under version control
  FileStates,  \* the possible initial files: functions dir -> set of names
  In, Out      \* input_filename and output_filename

ASSUME Links \subseteq Tree.edge /\ Root \in Tree.node

VARIABLES
  argv_ok,   \* len(sys.argv) == 4
  files,     \* dir -> names of the plain files in it
  stack,     \* the directories os.walk still has to walk, next first
  renamed,   \* the directories where svn mv has run
  status     \* "walking", "done", "usage" or "failed"

vars == <<argv_ok, files, stack, renamed, status>>

Dirs == Tree.node

\* Mutant: every entry listdir returns is descended into, files included.
WalkedChildrenAndFiles(d) ==
  {c \in Successors(Tree, d) : <<d, c>> \notin Links} \cup files[d]

\* Mutant: os.walk(followlinks=True), descending into symlinked directories.
WalkedChildrenFollowLinks(d) == Successors(Tree, d)

\* The child directories os.walk descends into: not the symlinks.
WalkedChildren(d) == {c \in Successors(Tree, d) : <<d, c>> \notin Links}

\* svn mv refuses an unversioned source and an existing target.
SvnMvSucceeds(d) == d \in Versioned /\ Out \notin files[d]

-----------------------------------------------------------------------------
Init ==
  /\ argv_ok \in BOOLEAN
  /\ files \in FileStates
  /\ stack = <<Root>>
  /\ renamed = {}
  /\ status = "walking"

\* Lines 7-11: print_usage exits.
Usage ==
  /\ status = "walking" /\ ~argv_ok
  /\ status' = "usage"
  /\ UNCHANGED <<argv_ok, files, stack, renamed>>

\* os.walk: listdir fails, the directory and all below it are skipped.
Unlisted ==
  /\ status = "walking" /\ argv_ok
  /\ stack # <<>> /\ Head(stack) \notin Readable
  /\ stack' = Tail(stack)
  /\ UNCHANGED <<argv_ok, files, renamed, status>>

\* Lines 17-30: os.walk yields d; the body runs, then d's child
\* directories, in listing order, are walked before the rest of the stack.
Visit ==
  LET d == Head(stack) IN
  /\ status = "walking" /\ argv_ok
  /\ stack # <<>> /\ d \in Readable
  /\ \E order \in SetToSeqs(WalkedChildren(d)) : stack' = order \o Tail(stack)
  /\ \/ /\ In \notin files[d]
        /\ UNCHANGED <<files, renamed, status>>
     \/ /\ In \in files[d] /\ SvnMvSucceeds(d)
        /\ files' = [files EXCEPT ![d] = (@ \ {In}) \cup {Out}]
        /\ renamed' = renamed \cup {d}
        /\ UNCHANGED status
     \/ /\ In \in files[d] /\ ~SvnMvSucceeds(d)
        \* check_call raises CalledProcessError; nothing catches it.
        /\ status' = "failed"
        /\ UNCHANGED <<files, renamed>>
  /\ UNCHANGED argv_ok

\* The walk is over; the script ends.
Finish ==
  /\ status = "walking" /\ argv_ok /\ stack = <<>>
  /\ status' = "done"
  /\ UNCHANGED <<argv_ok, files, stack, renamed>>

Next == Usage \/ Unlisted \/ Visit \/ Finish

\* A single-threaded script: it runs to its end.
Spec == Init /\ [][Next]_vars /\ WF_vars(Next)

-----------------------------------------------------------------------------
Names == {In, Out, "other"}

\* The walk's stack never holds more directories than the tree has.
TypeOK ==
  /\ argv_ok \in BOOLEAN
  /\ files \in [Dirs -> SUBSET Names]
  /\ stack \in Seq(Dirs) /\ Len(stack) <= Cardinality(Dirs)
  /\ renamed \subseteq Dirs
  /\ status \in {"walking", "done", "usage", "failed"}

\* The directories under root_dir: reachable from it through real
\* directories, not through symlinks.
RealTree == [node |-> Dirs, edge |-> Tree.edge \ Links]
UnderRoot == {Root} \cup Descendants(RealTree, Root)

\* When the script ends without an error, no directory under root_dir
\* still holds input_filename: every match was renamed.
RenamesAllOnSuccess ==
  status = "done" => \A d \in UnderRoot : In \notin files[d]

\* The directories a walk started at s reaches: none if s cannot be
\* listed, else s and what it reaches from each real subdirectory.  The
\* real directories form a tree, so the recursion ends.
RECURSIVE WalkFrom(_)
WalkFrom(s) ==
  IF s \notin Readable THEN {}
  ELSE {s} \cup UNION {WalkFrom(c) : c \in Successors(RealTree, s)}

\* The directories still to be yielded: those below the stack's entries.
WalkRemaining == UNION {WalkFrom(stack[i]) : i \in 1..Len(stack)}

Walk == INSTANCE RenameSpec
          WITH Dirs <- Dirs, Walkable <- WalkFrom(Root), todo <- WalkRemaining

\* The walk implements RenameSpec: every directory os.walk can reach
\* under root_dir is handled exactly once and no other is; a failed svn
\* mv ends the script; a run that ends normally has handled them all (so
\* a match survives it only in or below a directory listdir could not
\* read); and the script always gets to its end.
WalkRefinesSpec == Walk!Spec
=============================================================================
