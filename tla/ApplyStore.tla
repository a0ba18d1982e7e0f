----------------------------- MODULE ApplyStore -----------------------------
(***************************************************************************)
(* ApplyPipeline implements VhostStore.  A transaction is open from the    *)
(* rename that puts the file in place to the reload that loads it or the   *)
(* write-back that takes it out again; the tree to go back to is the one   *)
(* the goroutine found, which it can do if it holds a backup of its file.  *)
(***************************************************************************)
EXTENDS ApplyPipeline

CONSTANT NoTree
ASSUME NoTreeAssumption == NoTree \notin Trees

\* Where a goroutine has changed conf.d and nginx has not loaded it yet.
Pending == {"a_reload", "a_restore", "d_reload", "d_restore"}

Undo == IF mu # NoProc /\ pc[mu] \in Pending
          THEN base[mu] ELSE NoTree
Kept == Undo # NoTree => backup[mu] # Unread

\* What an apply or a delete may put in place of the file of r.
Content(r) == {Rendered(j) : j \in {k \in Payloads : k.ref = r}} \cup {NoFile}

Store == INSTANCE VhostStore WITH tree <- disk, undo <- Undo, kept <- Kept

\* However many requests interleave, fail half way, or die with the process,
\* runApplyLocked and deleteApp look like a store that changes one file at a
\* time to a tree nginx accepts, and that loads it, puts the old file back, or
\* gives up: what is put back is what was there, a file is lost only if it could
\* not be read before it was replaced, and nothing is changed while another
\* change is neither loaded nor taken back.
StoreSpec == Store!Spec

-----------------------------------------------------------------------------
(* What comments and messages of the code say and the code does not do.     *)

\* server.go: the 503 after a failed reload says "reload failed, reverted".
RevertedIsReverted ==
  [][\A p \in Procs : Answered(p, {"reverted"}) => disk' = base[p]]_vars

\* server.go: a payload is refused as stale against the "last applied revision"
\* of its pipeline_ref.
StaleMeansOlder ==
  [][\A p \in Procs :
       (Answered(p, {"conflict"}) /\ ~Claimed(p) /\ ~Refused(p))
         => served[target[p]] # NoFile /\ served[target[p]].rev >= job[p].rev]_vars
=============================================================================
