----------------------------- MODULE VhostStore -----------------------------
(***************************************************************************)
(* What the apply listener promises to whoever shares the host with it: a  *)
(* store of vhost files that is changed by one transaction at a time.  A   *)
(* transaction puts one file in place, or takes one away, such that nginx  *)
(* accepts the whole tree, and then ends in one of four ways: nginx loads  *)
(* the tree, or the tree is put back, or the transaction is given up with  *)
(* the file left in place (the process died, or the disk failed while the  *)
(* old file was written back) for the next transaction to load, or its file*)
(* is lost, which can happen only if its old content was not kept when the *)
(* transaction began.                                                      *)
(*                                                                         *)
(* There are no goroutines, no mutex and no overlay here.  ApplyStore shows*)
(* that ApplyPipeline implements this specification.                       *)
(***************************************************************************)
CONSTANTS
  Refs,        \* the names of the files
  NoFile,      \* the content of a name that has no file
  NoTree,      \* no transaction is open
  Content(_),  \* what a transaction may put in place of a file
  InitTrees,   \* the trees nginx may be running on at the start
  Accepts(_)   \* the verdict of nginx -t on a tree

VARIABLES
  tree,    \* the files on disk
  served,  \* the files nginx has loaded
  undo,    \* the tree to go back to while a transaction is open, or NoTree
  kept     \* whether the open transaction can go back to it

vars == <<tree, served, undo, kept>>

Init == tree \in InitTrees /\ served = tree /\ undo = NoTree /\ kept = TRUE

\* One file is replaced or removed, and nginx accepts the result.  The old
\* content is kept if there is none; it may be impossible to keep otherwise.
Change(r, f) ==
  /\ undo = NoTree
  /\ tree' = [tree EXCEPT ![r] = f]
  /\ Accepts(tree')
  /\ undo' = tree
  /\ kept' \in {TRUE, f = NoFile \/ tree[r] = NoFile}
  /\ UNCHANGED served

Close == undo # NoTree /\ undo' = NoTree /\ kept' = TRUE

Load == Close /\ served' = tree /\ UNCHANGED tree

PutBack == Close /\ kept /\ tree' = undo /\ UNCHANGED served

GiveUp == Close /\ UNCHANGED <<tree, served>>

\* The file the transaction changed is gone; the others are as they were.
Lose(r) ==
  /\ Close /\ ~kept
  /\ tree' = [undo EXCEPT ![r] = NoFile]
  /\ \A s \in Refs \ {r} : tree[s] = undo[s]
  /\ UNCHANGED served

Next ==
  \/ \E r \in Refs : Lose(r) \/ \E f \in Content(r) : Change(r, f)
  \/ Load \/ PutBack \/ GiveUp

Spec == Init /\ [][Next]_vars
=============================================================================
