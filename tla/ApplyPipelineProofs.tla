------------------------ MODULE ApplyPipelineProofs ------------------------
(***************************************************************************)
(* Proofs about ApplyPipeline: for any number of goroutines, refs, payloads*)
(* and initial trees, and for any verdict of nginx -t.                     *)
(*                                                                         *)
(* The inductive invariant says that the goroutine that holds Server.mu    *)
(* knows the tree it works on: conf.d is the tree it found when it took    *)
(* the mutex until it promotes its file, and that tree with its own file   *)
(* replaced from then on.  From that, what it tested is what it promotes   *)
(* and what it restores is what it found, if it could read it.             *)
(***************************************************************************)
EXTENDS ApplyStore, TLAPS

\* The arguments of a call in progress.
CallInv ==
  \A p \in Procs :
    /\ pc[p] \in ApplyAt => job[p] \in Payloads /\ target[p] = job[p].ref
    /\ pc[p] \in DeleteAt => target[p] \in Refs
    /\ pc[p] \in DeleteAt \cup {"idle"} => backup[p] # Unread
    /\ pc[p] = "done" => target[p] \in Refs

\* An answer is given exactly while a call is finished and not yet returned.
AnswerInv == \A p \in Procs : answer[p] = "none" <=> pc[p] # "done"

\* The file a call puts in place of its target.
Replacement(p) == IF pc[p] \in ApplyAt THEN Rendered(job[p]) ELSE NoFile

Before == {"a_check", "a_stage", "a_test", "a_promote",
           "d_check", "d_stage", "d_test", "d_promote"}
After  == {"a_reload", "a_restore", "a_record", "d_reload", "d_restore", "d_record"}

\* The backup of a call is what it found, or missing because it could not be read.
Saved(p) ==
  \/ backup[p] = base[p][target[p]]
  \/ pc[p] \in ApplyAt /\ backup[p] = Unread /\ base[p][target[p]] # NoFile

\* What the goroutine in the critical section knows of conf.d.
TreeInv ==
  \A p \in Procs :
    /\ pc[p] \in Before \cup Pending => Accepts(base[p]) \/ lost
    /\ pc[p] \in Before => disk = base[p]
    /\ pc[p] \in {"a_test", "a_promote", "d_test", "d_promote"} =>
         overlay[p] = [base[p] EXCEPT ![target[p]] = Replacement(p)]
    /\ pc[p] \in {"a_promote", "d_promote"} => Accepts(overlay[p])
    /\ pc[p] \in After =>
         Accepts(disk) /\ disk = [base[p] EXCEPT ![target[p]] = Replacement(p)]
    /\ pc[p] \in {"a_promote", "d_stage", "d_test", "d_promote"} \cup After =>
         Saved(p)
    /\ pc[p] \in {"a_record", "d_record"} => served = disk

IInv == TypeOK /\ MutexInv /\ CallInv /\ AnswerInv /\ TreeInv /\ DiskAccepted

-----------------------------------------------------------------------------
(* Facts about files and trees *)

LEMMA PayloadFields ==
  ASSUME NEW j \in Payloads
  PROVE  /\ j.ref \in Refs /\ j.repo \in Repos /\ j.rev \in Nat \ {0}
         /\ j.key \in Keys /\ j.domains \in SUBSET Domains /\ j.body \in Bodies
BY PayloadsAssumption DEF PayloadType

LEMMA RenderedIsFile ==
  ASSUME NEW j \in Payloads
  PROVE  Rendered(j) \in File
BY PayloadFields DEF Rendered, File

LEMMA ReplacedIsTree ==
  ASSUME NEW t \in Trees, NEW r \in Refs, NEW f \in File \cup {NoFile}
  PROVE  [t EXCEPT ![r] = f] \in Trees
BY DEF Trees

LEMMA TreeFile ==
  ASSUME NEW t \in Trees, NEW r \in Refs
  PROVE  t[r] \in File \cup {NoFile}
BY DEF Trees

LEMMA BareIsTree == Bare \in Trees
BY DEF Bare, Trees

-----------------------------------------------------------------------------
(* Type correctness *)

LEMMA InitTyped == Init => TypeOK /\ CallInv
<1>. SUFFICES ASSUME Init PROVE TypeOK /\ CallInv
  OBVIOUS
<1>1. disk \in Trees /\ served \in Trees
  BY InitTreesAssumption DEF Init
<1>2. TypeOK
  BY <1>1, BareIsTree DEF Init, TypeOK, Answers
<1>3. CallInv
  BY NullAssumption DEF Init, CallInv, ApplyAt, DeleteAt
<1>. QED  BY <1>2, <1>3

LEMMA StepTyped == TypeOK /\ CallInv /\ [Next]_vars => TypeOK' /\ CallInv'
<1>. SUFFICES ASSUME TypeOK, CallInv, [Next]_vars PROVE TypeOK' /\ CallInv'
  OBVIOUS
<1>. USE DEF TypeOK, CallInv, state, locals, Goto, Return
<1>1. ASSUME NEW p \in Procs, NEW j \in Payloads, ApplyCall(p, j)
      PROVE  TypeOK' /\ CallInv'
  BY <1>1, PayloadFields DEF ApplyCall, ApplyAt, DeleteAt
<1>2. ASSUME NEW p \in Procs, NEW r \in Refs, DeleteCall(p, r)
      PROVE  TypeOK' /\ CallInv'
  BY <1>2 DEF DeleteCall, ApplyAt, DeleteAt
<1>3. ASSUME NEW p \in Procs, Locking(p) PROVE TypeOK' /\ CallInv'
  BY <1>3 DEF Locking, ApplyLock, DeleteLock, Lock, ApplyAt, DeleteAt
<1>4. ASSUME NEW p \in Procs, Respond(p) PROVE TypeOK' /\ CallInv'
  BY <1>4, BareIsTree, NullAssumption DEF Respond, ApplyAt, DeleteAt, Answers
<1>5. ASSUME NEW p \in Procs, ApplyStep(p) PROVE TypeOK' /\ CallInv'
  <2>. USE DEF ApplyAt, DeleteAt, Answers
  <2>0. pc[p] \in ApplyAt => job[p] \in Payloads /\ target[p] \in Refs
    BY PayloadFields
  <2>1. CASE ApplyNoop(p)
    BY <2>0, <2>1 DEF ApplyNoop
  <2>2. CASE ApplyConflict(p)
    BY <2>0, <2>2 DEF ApplyConflict
  <2>3. CASE ApplyDumpFails(p)
    BY <2>0, <2>3 DEF ApplyDumpFails
  <2>4. CASE ApplyAdmit(p)
    BY <2>0, <2>4 DEF ApplyAdmit
  <2>5. CASE ApplyStage(p)
    BY <2>0, <2>5, RenderedIsFile, ReplacedIsTree DEF ApplyStage, Staged
  <2>6. CASE ApplyStageFails(p)
    BY <2>0, <2>6 DEF ApplyStageFails
  <2>7. CASE ApplyTest(p)
    BY <2>0, <2>7, TreeFile DEF ApplyTest
  <2>8. CASE ApplyTestFails(p)
    BY <2>0, <2>8 DEF ApplyTestFails
  <2>9. CASE ApplyPromote(p)
    BY <2>0, <2>9, RenderedIsFile, ReplacedIsTree DEF ApplyPromote
  <2>10. CASE ApplyPromoteFails(p)
    BY <2>0, <2>10 DEF ApplyPromoteFails
  <2>11. CASE ApplyReload(p)
    BY <2>0, <2>11 DEF ApplyReload, ReloadOk
  <2>12. CASE ApplyReloadFails(p)
    BY <2>0, <2>12 DEF ApplyReloadFails
  <2>13. CASE ApplyRestore(p)
    BY <2>0, <2>13, ReplacedIsTree DEF ApplyRestore, Reverted
  <2>14. CASE ApplyRestoreFails(p)
    BY <2>0, <2>14 DEF ApplyRestoreFails
  <2>15. CASE ApplyRecord(p)
    BY <2>0, <2>15, PayloadFields DEF ApplyRecord
  <2>16. CASE ApplyTestUnread(p)
    BY <2>0, <2>16 DEF ApplyTestUnread
  <2>. QED  BY <1>5, <2>1, <2>2, <2>3, <2>4, <2>5, <2>6, <2>7, <2>8, <2>9, <2>10, <2>11,
               <2>12, <2>13, <2>14, <2>15, <2>16 DEF ApplyStep
<1>6. ASSUME NEW p \in Procs, DeleteStep(p) PROVE TypeOK' /\ CallInv'
  <2>. USE DEF ApplyAt, DeleteAt, Answers
  <2>0. pc[p] \in DeleteAt => target[p] \in Refs
    OBVIOUS
  <2>1. CASE DeleteMissing(p)
    BY <2>0, <2>1 DEF DeleteMissing
  <2>2. CASE DeleteUnmanaged(p)
    BY <2>0, <2>2 DEF DeleteUnmanaged
  <2>3. CASE DeleteAdmit(p)
    BY <2>0, <2>3, TreeFile, NullAssumption DEF DeleteAdmit
  <2>4. CASE DeleteStage(p)
    BY <2>0, <2>4, ReplacedIsTree DEF DeleteStage, Staged
  <2>5. CASE DeleteStageFails(p)
    BY <2>0, <2>5 DEF DeleteStageFails
  <2>6. CASE DeleteTest(p)
    BY <2>0, <2>6 DEF DeleteTest
  <2>7. CASE DeleteTestFails(p)
    BY <2>0, <2>7 DEF DeleteTestFails
  <2>8. CASE DeleteRemove(p)
    BY <2>0, <2>8, ReplacedIsTree DEF DeleteRemove
  <2>9. CASE DeleteRemoveFails(p)
    BY <2>0, <2>9 DEF DeleteRemoveFails
  <2>10. CASE DeleteReload(p)
    BY <2>0, <2>10 DEF DeleteReload, ReloadOk
  <2>11. CASE DeleteReloadFails(p)
    BY <2>0, <2>11 DEF DeleteReloadFails
  <2>12. CASE DeleteRestore(p)
    BY <2>0, <2>12, ReplacedIsTree DEF DeleteRestore
  <2>13. CASE DeleteRestoreFails(p)
    BY <2>0, <2>13 DEF DeleteRestoreFails
  <2>14. CASE DeleteRecord(p)
    BY <2>0, <2>14 DEF DeleteRecord
  <2>. QED  BY <1>6, <2>1, <2>2, <2>3, <2>4, <2>5, <2>6, <2>7, <2>8, <2>9, <2>10, <2>11,
               <2>12, <2>13, <2>14 DEF DeleteStep
<1>7. CASE Crash
  BY <1>7, BareIsTree, NullAssumption DEF Crash, ApplyAt, DeleteAt, Answers
<1>8. CASE UNCHANGED vars
  BY <1>8 DEF vars
<1>. QED
  BY <1>1, <1>2, <1>3, <1>4, <1>5, <1>6, <1>7, <1>8 DEF Next, Work

\* Every variable keeps its type: conf.d, what nginx serves and the three maps
\* of Server hold what their declarations say, whatever fails.
THEOREM Typing == Spec => []TypeOK
<1>. QED  BY InitTyped, StepTyped, PTL DEF Spec

-----------------------------------------------------------------------------
(* The mutex and the answers *)

LEMMA StepMutex == TypeOK /\ MutexInv /\ AnswerInv /\ [Next]_vars => MutexInv' /\ AnswerInv'
<1>. SUFFICES ASSUME TypeOK, MutexInv, AnswerInv, [Next]_vars PROVE MutexInv' /\ AnswerInv'
  OBVIOUS
<1>. USE DEF TypeOK, MutexInv, AnswerInv, Goto, Return, Inside, ApplyAt, DeleteAt
<1>1. ASSUME NEW p \in Procs, NEW j \in Payloads, ApplyCall(p, j)
      PROVE MutexInv' /\ AnswerInv'
  BY <1>1 DEF ApplyCall
<1>2. ASSUME NEW p \in Procs, NEW r \in Refs, DeleteCall(p, r) PROVE MutexInv' /\ AnswerInv'
  BY <1>2 DEF DeleteCall
<1>3. ASSUME NEW p \in Procs, Locking(p) PROVE MutexInv' /\ AnswerInv'
  BY <1>3, NullAssumption DEF Locking, ApplyLock, DeleteLock, Lock
<1>4. ASSUME NEW p \in Procs, Respond(p) PROVE MutexInv' /\ AnswerInv'
  BY <1>4 DEF Respond
<1>5. ASSUME NEW p \in Procs, ApplyStep(p) PROVE MutexInv' /\ AnswerInv'
  <2>1. CASE ApplyNoop(p)
    BY <2>1, NullAssumption DEF ApplyNoop
  <2>2. CASE ApplyConflict(p)
    BY <2>2, NullAssumption DEF ApplyConflict
  <2>3. CASE ApplyDumpFails(p)
    BY <2>3, NullAssumption DEF ApplyDumpFails
  <2>4. CASE ApplyAdmit(p)
    BY <2>4 DEF ApplyAdmit
  <2>5. CASE ApplyStage(p)
    BY <2>5 DEF ApplyStage
  <2>6. CASE ApplyStageFails(p)
    BY <2>6, NullAssumption DEF ApplyStageFails
  <2>7. CASE ApplyTest(p)
    BY <2>7 DEF ApplyTest
  <2>8. CASE ApplyTestFails(p)
    BY <2>8, NullAssumption DEF ApplyTestFails
  <2>9. CASE ApplyPromote(p)
    BY <2>9 DEF ApplyPromote
  <2>10. CASE ApplyPromoteFails(p)
    BY <2>10, NullAssumption DEF ApplyPromoteFails
  <2>11. CASE ApplyReload(p)
    BY <2>11 DEF ApplyReload
  <2>12. CASE ApplyReloadFails(p)
    BY <2>12, NullAssumption DEF ApplyReloadFails
  <2>13. CASE ApplyRestore(p)
    BY <2>13, NullAssumption DEF ApplyRestore
  <2>14. CASE ApplyRestoreFails(p)
    BY <2>14, NullAssumption DEF ApplyRestoreFails
  <2>15. CASE ApplyRecord(p)
    BY <2>15, NullAssumption DEF ApplyRecord
  <2>16. CASE ApplyTestUnread(p)
    BY <2>16 DEF ApplyTestUnread
  <2>. QED  BY <1>5, <2>1, <2>2, <2>3, <2>4, <2>5, <2>6, <2>7, <2>8, <2>9, <2>10, <2>11,
               <2>12, <2>13, <2>14, <2>15, <2>16 DEF ApplyStep
<1>6. ASSUME NEW p \in Procs, DeleteStep(p) PROVE MutexInv' /\ AnswerInv'
  <2>1. CASE DeleteMissing(p)
    BY <2>1, NullAssumption DEF DeleteMissing
  <2>2. CASE DeleteUnmanaged(p)
    BY <2>2, NullAssumption DEF DeleteUnmanaged
  <2>3. CASE DeleteAdmit(p)
    BY <2>3 DEF DeleteAdmit
  <2>4. CASE DeleteStage(p)
    BY <2>4 DEF DeleteStage
  <2>5. CASE DeleteStageFails(p)
    BY <2>5, NullAssumption DEF DeleteStageFails
  <2>6. CASE DeleteTest(p)
    BY <2>6 DEF DeleteTest
  <2>7. CASE DeleteTestFails(p)
    BY <2>7, NullAssumption DEF DeleteTestFails
  <2>8. CASE DeleteRemove(p)
    BY <2>8 DEF DeleteRemove
  <2>9. CASE DeleteRemoveFails(p)
    BY <2>9, NullAssumption DEF DeleteRemoveFails
  <2>10. CASE DeleteReload(p)
    BY <2>10 DEF DeleteReload
  <2>11. CASE DeleteReloadFails(p)
    BY <2>11, NullAssumption DEF DeleteReloadFails
  <2>12. CASE DeleteRestore(p)
    BY <2>12, NullAssumption DEF DeleteRestore
  <2>13. CASE DeleteRestoreFails(p)
    BY <2>13, NullAssumption DEF DeleteRestoreFails
  <2>14. CASE DeleteRecord(p)
    BY <2>14, NullAssumption DEF DeleteRecord
  <2>. QED  BY <1>6, <2>1, <2>2, <2>3, <2>4, <2>5, <2>6, <2>7, <2>8, <2>9, <2>10, <2>11,
               <2>12, <2>13, <2>14 DEF DeleteStep
<1>7. CASE Crash
  BY <1>7, NullAssumption DEF Crash
<1>8. CASE UNCHANGED vars
  BY <1>8 DEF vars
<1>. QED
  BY <1>1, <1>2, <1>3, <1>4, <1>5, <1>6, <1>7, <1>8 DEF Next, Work

-----------------------------------------------------------------------------
(* The tree under the mutex *)

LEMMA RestoredTree ==
  ASSUME NEW t \in Trees, NEW r \in Refs, NEW f
  PROVE  [[t EXCEPT ![r] = f] EXCEPT ![r] = t[r]] = t
BY DEF Trees

LEMMA ReplacedTwice ==
  ASSUME NEW t \in Trees, NEW r \in Refs, NEW f, NEW g
  PROVE  [[t EXCEPT ![r] = f] EXCEPT ![r] = g] = [t EXCEPT ![r] = g]
BY DEF Trees

\* A write-back leaves the tree the call found, or that tree without the file the
\* call could not read.
LEMMA RestoredBase ==
  ASSUME TypeOK, CallInv, TreeInv, NEW p \in Procs, pc[p] \in {"a_restore", "d_restore"}
  PROVE  /\ base[p] \in Trees /\ target[p] \in Refs
         /\ backup[p] # Unread => [disk EXCEPT ![target[p]] = backup[p]] = base[p]
         /\ backup[p] # Unread => [disk EXCEPT ![target[p]] = Reverted(p)] = base[p]
         /\ backup[p] = Unread =>
              /\ pc[p] = "a_restore"
              /\ [disk EXCEPT ![target[p]] = Reverted(p)] =
                   [base[p] EXCEPT ![target[p]] = NoFile]
<1>1. /\ base[p] \in Trees /\ target[p] \in Refs
      /\ disk = [base[p] EXCEPT ![target[p]] = Replacement(p)] /\ Saved(p)
  BY PayloadFields DEF TypeOK, CallInv, TreeInv, After, ApplyAt, DeleteAt
<1>2. base[p][target[p]] # Unread
  BY <1>1, TreeFile, NullAssumption
<1>3. CASE backup[p] = Unread
  <2>1. pc[p] = "a_restore" /\ Reverted(p) = NoFile
    BY <1>1, <1>2, <1>3 DEF Saved, Reverted, ApplyAt
  <2>. QED  BY <1>1, <1>3, <2>1, ReplacedTwice
<1>4. CASE backup[p] # Unread
  <2>1. backup[p] = base[p][target[p]] /\ Reverted(p) = backup[p]
    BY <1>1, <1>4 DEF Saved, Reverted
  <2>. QED  BY <1>1, <1>4, <2>1, RestoredTree
<1>. QED  BY <1>3, <1>4

\* Staging: the overlay is conf.d as the goroutine found it, with its own file replaced.
LEMMA StagedTree ==
  ASSUME TreeInv, NEW p \in Procs, pc[p] \in {"a_stage", "d_stage"},
         pc'[p] = (IF pc[p] = "a_stage" THEN "a_test" ELSE "d_test"),
         overlay'[p] = [disk EXCEPT ![target[p]] = Replacement(p)],
         UNCHANGED <<disk, served, job, target, backup, base, lost>>,
         \A q \in Procs : q # p => pc'[q] = pc[q] /\ overlay'[q] = overlay[q]
  PROVE  TreeInv'
<1>. DEFINE Part(q) ==
       /\ pc[q] \in Before \cup Pending => Accepts(base[q]) \/ lost
       /\ pc[q] \in Before => disk = base[q]
       /\ pc[q] \in {"a_test", "a_promote", "d_test", "d_promote"} =>
            overlay[q] = [base[q] EXCEPT ![target[q]] = Replacement(q)]
       /\ pc[q] \in {"a_promote", "d_promote"} => Accepts(overlay[q])
       /\ pc[q] \in After =>
            Accepts(disk) /\ disk = [base[q] EXCEPT ![target[q]] = Replacement(q)]
       /\ pc[q] \in {"a_promote", "d_stage", "d_test", "d_promote"} \cup After =>
            Saved(q)
       /\ pc[q] \in {"a_record", "d_record"} => served = disk
<1>1. \A q \in Procs : Part(q)
  BY DEF TreeInv
<1>2. ASSUME NEW q \in Procs, q # p PROVE Part(q)'
  <2>1. Replacement(q)' = Replacement(q) /\ Saved(q)' = Saved(q)
    BY <1>2 DEF Replacement, Rendered, Saved
  <2>. QED  BY <1>1, <1>2, <2>1
<1>3. Part(p)'
  <2>1. Replacement(p)' = Replacement(p) /\ (Saved(p) => Saved(p)')
    BY DEF Replacement, Rendered, ApplyAt, Saved
  <2>2. pc[p] \in Before /\ pc'[p] \notin After
    BY DEF Before, After
  <2>3. disk = base[p] /\ (Accepts(base[p]) \/ lost)
    BY <1>1, <2>2
  <2>. QED  BY <1>1, <2>1, <2>2, <2>3
<1>. QED  BY <1>2, <1>3 DEF TreeInv

LEMMA StepTree == IInv /\ [Next]_vars => TreeInv' /\ DiskAccepted'
<1>. SUFFICES ASSUME IInv, [Next]_vars PROVE TreeInv' /\ DiskAccepted'
  OBVIOUS
<1>. USE DEF IInv, TypeOK, MutexInv, CallInv, TreeInv, state, locals, DiskAccepted, Goto,
             Return, Inside, Before, After, ApplyAt, DeleteAt, Replacement, Saved, Pending
<1>0. \A p \in Procs : pc[p] \in ApplyAt \cup DeleteAt => target[p] \in Refs
  BY PayloadFields DEF IInv
<1>1. ASSUME NEW p \in Procs, NEW j \in Payloads, ApplyCall(p, j)
      PROVE TreeInv' /\ DiskAccepted'
  BY <1>1, <1>0, PayloadFields DEF ApplyCall
<1>2. ASSUME NEW p \in Procs, NEW r \in Refs, DeleteCall(p, r)
      PROVE TreeInv' /\ DiskAccepted'
  BY <1>2, <1>0 DEF DeleteCall
<1>3. ASSUME NEW p \in Procs, Locking(p) PROVE TreeInv' /\ DiskAccepted'
  BY <1>3, <1>0 DEF Locking, ApplyLock, DeleteLock, Lock
<1>4. ASSUME NEW p \in Procs, Respond(p) PROVE TreeInv' /\ DiskAccepted'
  BY <1>4, <1>0 DEF Respond
<1>5. ASSUME NEW p \in Procs, ApplyStep(p) PROVE TreeInv' /\ DiskAccepted'
  <2>1. CASE ApplyNoop(p)
    BY <2>1, <1>0 DEF ApplyNoop
  <2>2. CASE ApplyConflict(p)
    BY <2>2, <1>0 DEF ApplyConflict
  <2>3. CASE ApplyDumpFails(p)
    BY <2>3, <1>0 DEF ApplyDumpFails
  <2>4. CASE ApplyAdmit(p)
    BY <2>4, <1>0 DEF ApplyAdmit
  <2>5. CASE ApplyStage(p)
    <3>1. DiskAccepted'
      BY <2>5 DEF ApplyStage
    <3>2. TreeInv'
      <4>. HIDE DEF TreeInv, CallInv, MutexInv, DiskAccepted
      <4>. QED  BY <2>5, StagedTree DEF ApplyStage, Staged
    <3>. QED  BY <3>1, <3>2
  <2>6. CASE ApplyStageFails(p)
    BY <2>6, <1>0 DEF ApplyStageFails
  <2>7. CASE ApplyTest(p)
    BY <2>7, <1>0 DEF ApplyTest
  <2>8. CASE ApplyTestFails(p)
    BY <2>8, <1>0 DEF ApplyTestFails
  <2>9. CASE ApplyPromote(p)
    <3>1. /\ Replacement(p) = Rendered(job[p]) /\ Replacement(p)' = Replacement(p)
          /\ disk = base[p] /\ Accepts(overlay[p]) /\ Accepts(served)
          /\ overlay[p] = [base[p] EXCEPT ![target[p]] = Replacement(p)]
          /\ Saved(p) /\ Saved(p)' /\ (Accepts(base[p]) \/ lost)
      BY <2>9 DEF ApplyPromote
    <3>2. /\ disk' = [disk EXCEPT ![target[p]] = Rendered(job[p])]
          /\ UNCHANGED <<served, target, backup, base, lost>>
          /\ pc'[p] \in {"a_reload", "d_reload"}
      BY <2>9 DEF ApplyPromote
    <3>3. \A q \in Procs : q # p => pc'[q] \notin Inside
      BY <2>9 DEF ApplyPromote
    <3>. HIDE DEF IInv, Replacement, Saved
    <3>4. disk' = overlay[p]
      BY <3>1, <3>2
    <3>5. DiskAccepted'
      BY <3>1, <3>2, <3>4
    <3>. QED  BY <3>1, <3>2, <3>3, <3>4, <3>5
  <2>10. CASE ApplyPromoteFails(p)
    BY <2>10, <1>0 DEF ApplyPromoteFails
  <2>11. CASE ApplyReload(p)
    <3>1. /\ served' = disk /\ UNCHANGED <<disk, job, target, backup, base>>
          /\ Accepts(disk) /\ disk = [base[p] EXCEPT ![target[p]] = Replacement(p)] /\ Saved(p)
          /\ Replacement(p)' = Replacement(p) /\ Saved(p)' = Saved(p)
          /\ pc'[p] \in {"a_record", "d_record"}
      BY <2>11 DEF ApplyReload, ReloadOk
    <3>2. \A q \in Procs : q # p => pc'[q] \notin Inside
      BY <2>11 DEF ApplyReload
    <3>. HIDE DEF IInv, Replacement, Saved
    <3>. QED  BY <3>1, <3>2
  <2>12. CASE ApplyReloadFails(p)
    BY <2>12, <1>0 DEF ApplyReloadFails
  <2>13. CASE ApplyRestore(p)
    <3>1. /\ pc[p] \in {"a_restore", "d_restore"} /\ served' = served /\ Accepts(served)
          /\ Accepts(base[p]) \/ lost
          /\ \A q \in Procs : pc'[q] \notin Inside
      BY <2>13 DEF ApplyRestore
    <3>2. (disk' = base[p] /\ (lost => lost')) \/ lost'
      <4>. HIDE DEF TreeInv, CallInv
      <4>1. disk' = base[p] \/ backup[p] = Unread
        BY <2>13, <3>1, RestoredBase DEF ApplyRestore
      <4>2. lost' <=> (lost \/ backup[p] = Unread)
        BY <2>13 DEF ApplyRestore
      <4>. QED  BY <4>1, <4>2
    <3>. HIDE DEF IInv, Replacement, Saved
    <3>3. DiskAccepted'
      BY <3>1, <3>2
    <3>. QED  BY <3>1, <3>3
  <2>14. CASE ApplyRestoreFails(p)
    BY <2>14, <1>0 DEF ApplyRestoreFails
  <2>15. CASE ApplyRecord(p)
    BY <2>15, <1>0 DEF ApplyRecord
  <2>16. CASE ApplyTestUnread(p)
    BY <2>16, <1>0 DEF ApplyTestUnread
  <2>. QED  BY <1>5, <2>1, <2>2, <2>3, <2>4, <2>5, <2>6, <2>7, <2>8, <2>9, <2>10, <2>11,
               <2>12, <2>13, <2>14, <2>15, <2>16 DEF ApplyStep
<1>6. ASSUME NEW p \in Procs, DeleteStep(p) PROVE TreeInv' /\ DiskAccepted'
  <2>1. CASE DeleteMissing(p)
    BY <2>1, <1>0 DEF DeleteMissing
  <2>2. CASE DeleteUnmanaged(p)
    BY <2>2, <1>0 DEF DeleteUnmanaged
  <2>3. CASE DeleteAdmit(p)
    BY <2>3, <1>0 DEF DeleteAdmit
  <2>4. CASE DeleteStage(p)
    <3>1. DiskAccepted'
      BY <2>4 DEF DeleteStage
    <3>2. TreeInv'
      <4>. HIDE DEF TreeInv, CallInv, MutexInv, DiskAccepted
      <4>. QED  BY <2>4, StagedTree DEF DeleteStage, Staged
    <3>. QED  BY <3>1, <3>2
  <2>5. CASE DeleteStageFails(p)
    BY <2>5, <1>0 DEF DeleteStageFails
  <2>6. CASE DeleteTest(p)
    BY <2>6, <1>0 DEF DeleteTest
  <2>7. CASE DeleteTestFails(p)
    BY <2>7, <1>0 DEF DeleteTestFails
  <2>8. CASE DeleteRemove(p)
    <3>1. /\ Replacement(p) = NoFile /\ Replacement(p)' = Replacement(p)
          /\ disk = base[p] /\ Accepts(overlay[p]) /\ Accepts(served)
          /\ overlay[p] = [base[p] EXCEPT ![target[p]] = Replacement(p)]
          /\ Saved(p) /\ Saved(p)' /\ (Accepts(base[p]) \/ lost)
      BY <2>8 DEF DeleteRemove
    <3>2. /\ disk' = [disk EXCEPT ![target[p]] = NoFile]
          /\ UNCHANGED <<served, target, backup, base, lost>>
          /\ pc'[p] \in {"a_reload", "d_reload"}
      BY <2>8 DEF DeleteRemove
    <3>3. \A q \in Procs : q # p => pc'[q] \notin Inside
      BY <2>8 DEF DeleteRemove
    <3>. HIDE DEF IInv, Replacement, Saved
    <3>4. disk' = overlay[p]
      BY <3>1, <3>2
    <3>5. DiskAccepted'
      BY <3>1, <3>2, <3>4
    <3>. QED  BY <3>1, <3>2, <3>3, <3>4, <3>5
  <2>9. CASE DeleteRemoveFails(p)
    BY <2>9, <1>0 DEF DeleteRemoveFails
  <2>10. CASE DeleteReload(p)
    <3>1. /\ served' = disk /\ UNCHANGED <<disk, job, target, backup, base>>
          /\ Accepts(disk) /\ disk = [base[p] EXCEPT ![target[p]] = Replacement(p)] /\ Saved(p)
          /\ Replacement(p)' = Replacement(p) /\ Saved(p)' = Saved(p)
          /\ pc'[p] \in {"a_record", "d_record"}
      BY <2>10 DEF DeleteReload, ReloadOk
    <3>2. \A q \in Procs : q # p => pc'[q] \notin Inside
      BY <2>10 DEF DeleteReload
    <3>. HIDE DEF IInv, Replacement, Saved
    <3>. QED  BY <3>1, <3>2
  <2>11. CASE DeleteReloadFails(p)
    BY <2>11, <1>0 DEF DeleteReloadFails
  <2>12. CASE DeleteRestore(p)
    <3>1. /\ pc[p] \in {"a_restore", "d_restore"} /\ served' = served /\ Accepts(served)
          /\ Accepts(base[p]) \/ lost
          /\ \A q \in Procs : pc'[q] \notin Inside
      BY <2>12 DEF DeleteRestore
    <3>2. disk' = base[p] /\ lost' = lost
      <4>1. backup[p] # Unread
        BY <2>12 DEF DeleteRestore
      <4>. HIDE DEF TreeInv, CallInv
      <4>. QED  BY <2>12, <3>1, <4>1, RestoredBase DEF DeleteRestore
    <3>. HIDE DEF IInv, Replacement, Saved
    <3>3. DiskAccepted'
      BY <3>1, <3>2
    <3>. QED  BY <3>1, <3>3
  <2>13. CASE DeleteRestoreFails(p)
    BY <2>13, <1>0 DEF DeleteRestoreFails
  <2>14. CASE DeleteRecord(p)
    BY <2>14, <1>0 DEF DeleteRecord
  <2>. QED  BY <1>6, <2>1, <2>2, <2>3, <2>4, <2>5, <2>6, <2>7, <2>8, <2>9, <2>10, <2>11,
               <2>12, <2>13, <2>14 DEF DeleteStep
<1>7. CASE Crash
  BY <1>7 DEF Crash
<1>8. CASE UNCHANGED vars
  BY <1>8 DEF vars
<1>. QED
  BY <1>1, <1>2, <1>3, <1>4, <1>5, <1>6, <1>7, <1>8 DEF Next, Work

LEMMA InitInv == Init => IInv
<1>. SUFFICES ASSUME Init PROVE IInv
  OBVIOUS
<1>1. MutexInv /\ AnswerInv /\ TreeInv
  BY NullAssumption DEF Init, MutexInv, AnswerInv, TreeInv, Inside, Before, After,
                        Pending, ApplyAt, DeleteAt
<1>2. DiskAccepted
  BY InitTreesAssumption DEF Init, DiskAccepted
<1>. QED  BY <1>1, <1>2, InitTyped DEF IInv

LEMMA StepInv == IInv /\ [Next]_vars => IInv'
BY StepTyped, StepMutex, StepTree DEF IInv

LEMMA Invariance == Spec => []IInv
BY InitInv, StepInv, PTL DEF Spec

\* The mutex of the listener is held by whoever is inside the critical section
\* and by nobody else, on every path through runApplyLocked and deleteApp.
THEOREM Mutex == Spec => []MutexInv
BY Invariance, PTL DEF IInv

\* Whatever interleaves, fails or dies, nginx serves a tree that nginx -t accepts,
\* and so is conf.d: runApplyLocked and deleteApp never load an untested tree, and
\* leave one only by a revert that had no old file to write back because it could
\* not be read.
THEOREM AlwaysAccepted == Spec => []DiskAccepted
<1>1. IInv => DiskAccepted
  BY DEF IInv
<1>. QED  BY <1>1, Invariance, PTL

-----------------------------------------------------------------------------
(* What an answer means *)


LEMMA StepAnswers == IInv /\ [Next]_vars => NoTraceStep /\ SuccessStep
<1>. SUFFICES ASSUME IInv, [Next]_vars PROVE NoTraceStep /\ SuccessStep
  OBVIOUS
<1>. USE DEF IInv, TypeOK, CallInv, AnswerInv, TreeInv, state, locals, Goto, Return,
             Inside, Before, After, ApplyAt, DeleteAt, Replacement, NoTraceStep,
             SuccessStep, Answered
<1>0. \A p \in Procs : pc[p] \in ApplyAt \cup DeleteAt => target[p] \in Refs
  BY PayloadFields DEF IInv
<1>1. ASSUME NEW p \in Procs, NEW j \in Payloads, ApplyCall(p, j)
      PROVE NoTraceStep /\ SuccessStep
  BY <1>1 DEF ApplyCall
<1>2. ASSUME NEW p \in Procs, NEW r \in Refs, DeleteCall(p, r)
      PROVE NoTraceStep /\ SuccessStep
  BY <1>2 DEF DeleteCall
<1>3. ASSUME NEW p \in Procs, Locking(p) PROVE NoTraceStep /\ SuccessStep
  BY <1>3 DEF Locking, ApplyLock, DeleteLock, Lock
<1>4. ASSUME NEW p \in Procs, Respond(p) PROVE NoTraceStep /\ SuccessStep
  BY <1>4 DEF Respond
<1>5. ASSUME NEW p \in Procs, ApplyStep(p) PROVE NoTraceStep /\ SuccessStep
  <2>1. CASE ApplyNoop(p)
    BY <2>1, <1>0 DEF ApplyNoop
  <2>2. CASE ApplyConflict(p)
    BY <2>2, <1>0 DEF ApplyConflict
  <2>3. CASE ApplyDumpFails(p)
    BY <2>3, <1>0 DEF ApplyDumpFails
  <2>4. CASE ApplyAdmit(p)
    BY <2>4, <1>0 DEF ApplyAdmit
  <2>5. CASE ApplyStage(p)
    BY <2>5, <1>0 DEF ApplyStage
  <2>6. CASE ApplyStageFails(p)
    BY <2>6, <1>0 DEF ApplyStageFails
  <2>7. CASE ApplyTest(p)
    BY <2>7, <1>0 DEF ApplyTest
  <2>8. CASE ApplyTestFails(p)
    BY <2>8, <1>0 DEF ApplyTestFails
  <2>9. CASE ApplyPromote(p)
    BY <2>9, <1>0 DEF ApplyPromote
  <2>10. CASE ApplyPromoteFails(p)
    BY <2>10, <1>0 DEF ApplyPromoteFails
  <2>11. CASE ApplyReload(p)
    BY <2>11, <1>0 DEF ApplyReload
  <2>12. CASE ApplyReloadFails(p)
    BY <2>12, <1>0 DEF ApplyReloadFails
  <2>13. CASE ApplyRestore(p)
    <3>1. /\ pc[p] \in {"a_restore", "d_restore"} /\ UNCHANGED <<served, state>>
          /\ \A q \in Procs : q # p => answer'[q] = answer[q]
          /\ answer'[p] = "reverted"
      BY <2>13 DEF ApplyRestore
    <3>. HIDE DEF IInv, TreeInv, CallInv, TypeOK, Replacement
    <3>2. \/ disk' = base[p]
          \/ /\ pc[p] = "a_restore" /\ backup[p] = Unread
             /\ disk' = [base[p] EXCEPT ![target[p]] = NoFile]
      BY <2>13, <3>1, RestoredBase DEF ApplyRestore, IInv
    <3>. QED  BY <3>1, <3>2
  <2>14. CASE ApplyRestoreFails(p)
    BY <2>14, <1>0 DEF ApplyRestoreFails
  <2>15. CASE ApplyRecord(p)
    <3>1. /\ disk = [base[p] EXCEPT ![target[p]] = Rendered(job[p])] /\ served = disk
          /\ base[p] \in Trees /\ target[p] \in Refs
      BY <2>15, <1>0 DEF ApplyRecord
    <3>2. /\ UNCHANGED <<disk, served>> /\ answer'[p] = "reloaded"
          /\ \A q \in Procs : q # p => answer'[q] = answer[q]
      BY <2>15 DEF ApplyRecord
    <3>. HIDE DEF IInv, Replacement
    <3>3. served'[target[p]] = Rendered(job[p])
      BY <3>1, <3>2 DEF Trees
    <3>. QED  BY <3>1, <3>2, <3>3
  <2>16. CASE ApplyTestUnread(p)
    BY <2>16, <1>0 DEF ApplyTestUnread
  <2>. QED  BY <1>5, <2>1, <2>2, <2>3, <2>4, <2>5, <2>6, <2>7, <2>8, <2>9, <2>10, <2>11,
               <2>12, <2>13, <2>14, <2>15, <2>16 DEF ApplyStep
<1>6. ASSUME NEW p \in Procs, DeleteStep(p) PROVE NoTraceStep /\ SuccessStep
  <2>1. CASE DeleteMissing(p)
    BY <2>1, <1>0 DEF DeleteMissing
  <2>2. CASE DeleteUnmanaged(p)
    BY <2>2, <1>0 DEF DeleteUnmanaged
  <2>3. CASE DeleteAdmit(p)
    BY <2>3, <1>0 DEF DeleteAdmit
  <2>4. CASE DeleteStage(p)
    BY <2>4, <1>0 DEF DeleteStage
  <2>5. CASE DeleteStageFails(p)
    BY <2>5, <1>0 DEF DeleteStageFails
  <2>6. CASE DeleteTest(p)
    BY <2>6, <1>0 DEF DeleteTest
  <2>7. CASE DeleteTestFails(p)
    BY <2>7, <1>0 DEF DeleteTestFails
  <2>8. CASE DeleteRemove(p)
    BY <2>8, <1>0 DEF DeleteRemove
  <2>9. CASE DeleteRemoveFails(p)
    BY <2>9, <1>0 DEF DeleteRemoveFails
  <2>10. CASE DeleteReload(p)
    BY <2>10, <1>0 DEF DeleteReload
  <2>11. CASE DeleteReloadFails(p)
    BY <2>11, <1>0 DEF DeleteReloadFails
  <2>12. CASE DeleteRestore(p)
    <3>1. /\ pc[p] \in {"a_restore", "d_restore"} /\ UNCHANGED <<served, state>>
          /\ \A q \in Procs : q # p => answer'[q] = answer[q]
          /\ answer'[p] = "reverted"
      BY <2>12 DEF DeleteRestore
    <3>. HIDE DEF IInv, TreeInv, CallInv, TypeOK, Replacement
    <3>2. \/ disk' = base[p]
          \/ /\ pc[p] = "a_restore" /\ backup[p] = Unread
             /\ disk' = [base[p] EXCEPT ![target[p]] = NoFile]
      BY <2>12, <3>1, RestoredBase DEF DeleteRestore, IInv
    <3>. QED  BY <3>1, <3>2
  <2>13. CASE DeleteRestoreFails(p)
    BY <2>13, <1>0 DEF DeleteRestoreFails
  <2>14. CASE DeleteRecord(p)
    <3>1. /\ disk = [base[p] EXCEPT ![target[p]] = NoFile] /\ served = disk
          /\ base[p] \in Trees /\ target[p] \in Refs
      BY <2>14, <1>0 DEF DeleteRecord
    <3>2. /\ UNCHANGED <<disk, served>> /\ answer'[p] = "deleted"
          /\ \A q \in Procs : q # p => answer'[q] = answer[q]
      BY <2>14 DEF DeleteRecord
    <3>. HIDE DEF IInv, Replacement
    <3>3. served'[target[p]] = NoFile
      BY <3>1, <3>2 DEF Trees
    <3>. QED  BY <3>1, <3>2, <3>3
  <2>. QED  BY <1>6, <2>1, <2>2, <2>3, <2>4, <2>5, <2>6, <2>7, <2>8, <2>9, <2>10, <2>11,
               <2>12, <2>13, <2>14 DEF DeleteStep
<1>7. CASE Crash
  BY <1>7 DEF Crash
<1>8. CASE UNCHANGED vars
  BY <1>8 DEF vars
<1>. QED
  BY <1>1, <1>2, <1>3, <1>4, <1>5, <1>6, <1>7, <1>8 DEF Next, Work

\* A call answered with an error leaves no trace, for every interleaving of
\* goroutines, unless the write-back after a failed reload fails or, because the
\* old file could not be read, there is nothing to write back.
THEOREM NoTrace == Spec => FailureLeavesNoTrace
BY Invariance, StepAnswers, PTL DEF Spec, FailureLeavesNoTrace

\* An answer 200 reloaded or deleted describes what nginx serves.
THEOREM Success == Spec => SuccessIsServed
BY Invariance, StepAnswers, PTL DEF Spec, SuccessIsServed

-----------------------------------------------------------------------------
(* Disjoint server names *)

\* A file of tree t declares a domain only if the map has no other owner for it.
OwnersRespected(t) ==
  \A d \in Domains, r \in Refs :
    (domainOwner[d] # NoRef /\ domainOwner[d] # r) => Fold[d] \notin Names(t, r)

\* Every name of a payload is free in t for the app of ref r.
Free(t, r, ds) == \A d \in ds, s \in Refs : s # r => Fold[d] \notin Names(t, s)

Admitted == {"a_stage", "a_test", "a_promote", "a_reload", "a_restore", "a_record"}

\* The map has an owner only for names that a payload spells.
OwnersSpelt ==
  \A d \in Domains : domainOwner[d] # NoRef => \E j \in Payloads : d \in j.domains

DomainInv ==
  /\ NamesDisjoint
  /\ OwnersSpelt
  /\ OwnersRespected(disk)
  /\ \A p \in Procs : pc[p] \in Inside => Disjoint(base[p]) /\ OwnersRespected(base[p])
  /\ \A p \in Procs : pc[p] \in Admitted =>
       /\ Free(base[p], target[p], job[p].domains)
       /\ ~Claimed(p)

LEMMA NamesKept ==
  ASSUME NEW t \in Trees, NEW r \in Refs, NEW f, NEW s \in Refs, s # r
  PROVE  Names([t EXCEPT ![r] = f], s) = Names(t, s)
BY DEF Names, Trees

LEMMA NamesRemoved ==
  ASSUME NEW t \in Trees, NEW r \in Refs
  PROVE  Names([t EXCEPT ![r] = NoFile], r) = {}
BY DEF Names, Trees

LEMMA NamesRendered ==
  ASSUME NEW t \in Trees, NEW j \in Payloads
  PROVE  Names([t EXCEPT ![j.ref] = Rendered(j)], j.ref) = {Fold[d] : d \in j.domains}
<1>1. Rendered(j) # NoFile /\ Rendered(j).domains = j.domains
  BY RenderedIsFile, NullAssumption DEF Rendered
<1>2. [t EXCEPT ![j.ref] = Rendered(j)][j.ref] = Rendered(j)
  BY PayloadFields DEF Trees
<1>. QED  BY <1>1, <1>2 DEF Names

\* Replacing a file by one whose names are free keeps a tree disjoint.
LEMMA ApplyDisjoint ==
  ASSUME NEW t \in Trees, NEW j \in Payloads, Disjoint(t), Free(t, j.ref, j.domains)
  PROVE  Disjoint([t EXCEPT ![j.ref] = Rendered(j)])
<1>. DEFINE u == [t EXCEPT ![j.ref] = Rendered(j)]
<1>1. SUFFICES ASSUME NEW r \in Refs, NEW s \in Refs, r # s
               PROVE  Names(u, r) \cap Names(u, s) = {}
  BY DEF Disjoint
<1>2. \A q \in Refs : q # j.ref => Names(u, q) = Names(t, q)
  BY NamesKept, PayloadFields
<1>3. Names(u, j.ref) = {Fold[d] : d \in j.domains}
  BY NamesRendered
<1>4. \A q \in Refs : q # j.ref => Names(u, q) \cap Names(u, j.ref) = {}
  BY <1>2, <1>3 DEF Free
<1>. HIDE DEF u
<1>5. CASE r = j.ref \/ s = j.ref
  BY <1>4, <1>5, <1>1
<1>6. CASE r # j.ref /\ s # j.ref
  BY <1>2, <1>6, <1>1 DEF Disjoint
<1>. QED  BY <1>5, <1>6

LEMMA DeleteDisjoint ==
  ASSUME NEW t \in Trees, NEW r \in Refs, Disjoint(t)
  PROVE  Disjoint([t EXCEPT ![r] = NoFile])
BY NamesKept, NamesRemoved DEF Disjoint

\* Steps that change neither a tree nor an owner, and take nobody further in.
LEMMA DomainFrame ==
  ASSUME DomainInv, UNCHANGED <<disk, served, domainOwner>>,
         \A p \in Procs : pc'[p] \in Inside => pc[p] \in Inside /\ base'[p] = base[p],
         \A p \in Procs : pc'[p] \in Admitted =>
           pc[p] \in Admitted /\ job'[p] = job[p] /\ target'[p] = target[p]
  PROVE  DomainInv'
BY DEF DomainInv, NamesDisjoint, OwnersRespected, OwnersSpelt, Claimed, Admitted, Inside, ApplyAt,
       DeleteAt

\* The check of runApplyLocked admits only payloads whose names are free.
LEMMA AdmitFree ==
  ASSUME IInv, DomainInv, NEW p \in Procs, ApplyAdmit(p)
  PROVE  Free(base[p], target[p], job[p].domains)
<1>1. disk = base[p] /\ job[p] \in Payloads /\ target[p] \in Refs
  BY PayloadFields DEF IInv, TreeInv, CallInv, ApplyAdmit, Before, ApplyAt
<1>2. SUFFICES ASSUME NEW d \in job[p].domains, NEW s \in Refs, s # target[p],
                      Fold[d] \in Names(disk, s)
               PROVE  FALSE
  BY <1>1 DEF Free
<1>3. d \in Domains
  BY <1>1, PayloadFields
<1>4. CASE domainOwner[d] = NoRef
  <2>1. s \in Declare(d) /\ target[p] \in Declare(d)
    BY <1>2, <1>4 DEF ApplyAdmit, Clear, Unknown, Declare, Ours
  <2>. QED  BY <2>1, <1>2, <1>1 DEF Declare, DomainInv, NamesDisjoint, Disjoint
<1>5. CASE domainOwner[d] # NoRef
  <2>1. domainOwner[d] = target[p]
    BY <1>5 DEF ApplyAdmit, Claimed
  <2>. QED  BY <2>1, <1>2, <1>3, <1>5 DEF DomainInv, OwnersRespected
<1>. QED  BY <1>4, <1>5

\* The file that is promoted declares no domain that another app owns.
LEMMA PromoteOwners ==
  ASSUME OneSpelling, NEW t \in Trees, NEW j \in Payloads, OwnersRespected(t),
         OwnersSpelt, \A d \in j.domains : domainOwner[d] \in {NoRef, j.ref}
  PROVE  OwnersRespected([t EXCEPT ![j.ref] = Rendered(j)])
<1>. DEFINE u == [t EXCEPT ![j.ref] = Rendered(j)]
<1>1. SUFFICES ASSUME NEW d \in Domains, NEW r \in Refs,
                      domainOwner[d] # NoRef, domainOwner[d] # r, Fold[d] \in Names(u, r)
               PROVE  FALSE
  BY DEF OwnersRespected
<1>2. CASE r # j.ref
  BY <1>1, <1>2, NamesKept, PayloadFields DEF OwnersRespected
<1>3. CASE r = j.ref
  <2>1. PICK e \in j.domains : Fold[d] = Fold[e]
    BY <1>1, <1>3, NamesRendered
  <2>2. e = d
    BY <1>1, <2>1 DEF OneSpelling, OwnersSpelt
  <2>. QED  BY <2>2, <1>1, <1>3
<1>. QED  BY <1>2, <1>3

LEMMA DeleteOwners ==
  ASSUME NEW t \in Trees, NEW r \in Refs, OwnersRespected(t)
  PROVE  OwnersRespected([t EXCEPT ![r] = NoFile])
BY NamesKept, NamesRemoved DEF OwnersRespected

LEMMA StepDomain == OneSpelling /\ IInv /\ DomainInv /\ [Next]_vars => DomainInv'
<1>. SUFFICES ASSUME OneSpelling, IInv, DomainInv, [Next]_vars PROVE DomainInv'
  OBVIOUS
<1>. USE DEF IInv
<1>1. ASSUME NEW p \in Procs, NEW j \in Payloads, ApplyCall(p, j) PROVE DomainInv'
  BY <1>1, DomainFrame DEF ApplyCall, Goto, state, Inside, Admitted, ApplyAt, DeleteAt,
                           TypeOK
<1>2. ASSUME NEW p \in Procs, NEW r \in Refs, DeleteCall(p, r) PROVE DomainInv'
  BY <1>2, DomainFrame DEF DeleteCall, Goto, state, Inside, Admitted, ApplyAt, DeleteAt,
                           TypeOK
<1>3. ASSUME NEW p \in Procs, Locking(p) PROVE DomainInv'
  <2>1. /\ UNCHANGED <<disk, served, domainOwner, job, target>>
        /\ base' = [base EXCEPT ![p] = disk]
        /\ \A q \in Procs : q # p => pc'[q] = pc[q]
        /\ pc'[p] \notin Admitted
    BY <1>3 DEF Locking, ApplyLock, DeleteLock, Lock, Goto, state, TypeOK, Admitted
  <2>. QED  BY <2>1 DEF DomainInv, NamesDisjoint, OwnersRespected, OwnersSpelt, Claimed, TypeOK
<1>4. ASSUME NEW p \in Procs, Respond(p) PROVE DomainInv'
  BY <1>4, DomainFrame DEF Respond, Goto, state, Inside, Admitted, ApplyAt, DeleteAt,
                           TypeOK
<1>5. ASSUME NEW p \in Procs, ApplyStep(p) PROVE DomainInv'
  <2>1. CASE ApplyNoop(p)
    BY <2>1, DomainFrame DEF ApplyNoop, Goto, Return, state, locals, Inside, Admitted,
                               ApplyAt, DeleteAt, TypeOK
  <2>2. CASE ApplyConflict(p)
    BY <2>2, DomainFrame DEF ApplyConflict, Goto, Return, state, locals, Inside, Admitted,
                               ApplyAt, DeleteAt, TypeOK
  <2>3. CASE ApplyDumpFails(p)
    BY <2>3, DomainFrame DEF ApplyDumpFails, Goto, Return, state, locals, Inside, Admitted,
                               ApplyAt, DeleteAt, TypeOK
  <2>4. CASE ApplyAdmit(p)
    <3>1. Free(base[p], target[p], job[p].domains) /\ ~Claimed(p)
      BY <2>4, AdmitFree DEF ApplyAdmit
    <3>2. /\ UNCHANGED <<disk, served, domainOwner, base, job, target>>
          /\ \A q \in Procs : q # p => pc'[q] = pc[q]
          /\ pc[p] \in Inside
      BY <2>4 DEF ApplyAdmit, Goto, state, locals, Inside, ApplyAt, TypeOK
    <3>. QED  BY <3>1, <3>2 DEF DomainInv, NamesDisjoint, OwnersRespected, OwnersSpelt, Claimed,
                              Admitted, Inside, ApplyAt, DeleteAt
  <2>5. CASE ApplyStage(p)
    BY <2>5, DomainFrame DEF ApplyStage, Goto, Return, state, locals, Inside, Admitted,
                               ApplyAt, DeleteAt, TypeOK
  <2>6. CASE ApplyStageFails(p)
    BY <2>6, DomainFrame DEF ApplyStageFails, Goto, Return, state, locals, Inside, Admitted,
                               ApplyAt, DeleteAt, TypeOK
  <2>7. CASE ApplyTest(p)
    BY <2>7, DomainFrame DEF ApplyTest, Goto, Return, state, locals, Inside, Admitted,
                               ApplyAt, DeleteAt, TypeOK
  <2>8. CASE ApplyTestFails(p)
    BY <2>8, DomainFrame DEF ApplyTestFails, Goto, Return, state, locals, Inside, Admitted,
                               ApplyAt, DeleteAt, TypeOK
  <2>9. CASE ApplyPromote(p)
    <3>1. /\ job[p] \in Payloads /\ target[p] = job[p].ref /\ base[p] \in Trees
          /\ disk = base[p]
      BY <2>9 DEF ApplyPromote, CallInv, TreeInv, TypeOK, Before, ApplyAt
    <3>2. /\ Free(base[p], target[p], job[p].domains) /\ ~Claimed(p)
          /\ Disjoint(base[p]) /\ OwnersRespected(base[p]) /\ OwnersSpelt
      BY <2>9 DEF ApplyPromote, DomainInv, Admitted, Inside, ApplyAt
    <3>3. /\ disk' = [disk EXCEPT ![target[p]] = Rendered(job[p])]
          /\ UNCHANGED <<served, domainOwner, base, job, target>>
          /\ \A q \in Procs : (q # p => pc'[q] = pc[q])
          /\ pc[p] = "a_promote" /\ pc'[p] = "a_reload"
      BY <2>9 DEF ApplyPromote, Goto, state, locals, TypeOK
    <3>4. Disjoint(disk')
      BY <3>1, <3>2, <3>3, ApplyDisjoint
    <3>5. \A d \in job[p].domains : domainOwner[d] \in {NoRef, job[p].ref}
      BY <3>1, <3>2 DEF Claimed
    <3>6. OwnersRespected(disk')
      BY <3>1, <3>2, <3>3, <3>5, PromoteOwners
    <3>. QED  BY <3>3, <3>4, <3>6 DEF DomainInv, NamesDisjoint, OwnersRespected, OwnersSpelt,
                                    Claimed, Admitted, Inside, ApplyAt, DeleteAt
  <2>10. CASE ApplyPromoteFails(p)
    BY <2>10, DomainFrame DEF ApplyPromoteFails, Goto, Return, state, locals, Inside,
       Admitted,
                               ApplyAt, DeleteAt, TypeOK
  <2>11. CASE ApplyReload(p)
    <3>1. /\ served' = disk /\ UNCHANGED <<disk, domainOwner, base, job, target>>
          /\ \A q \in Procs : (q # p => pc'[q] = pc[q])
          /\ pc[p] \in Inside /\ (pc'[p] \in Admitted => pc[p] \in Admitted)
      BY <2>11 DEF ApplyReload, ReloadOk, Goto, state, locals, Inside, Admitted, ApplyAt,
                   DeleteAt, TypeOK
    <3>. QED  BY <3>1 DEF DomainInv, NamesDisjoint, OwnersRespected, OwnersSpelt, Claimed
  <2>12. CASE ApplyReloadFails(p)
    BY <2>12, DomainFrame DEF ApplyReloadFails, Goto, Return, state, locals, Inside,
       Admitted,
                               ApplyAt, DeleteAt, TypeOK
  <2>13. CASE ApplyRestore(p)
    <3>1. /\ pc[p] \in {"a_restore", "d_restore"}
          /\ Disjoint(base[p]) /\ OwnersRespected(base[p])
      BY <2>13 DEF ApplyRestore, DomainInv, Inside, ApplyAt, DeleteAt
    <3>2. /\ UNCHANGED <<served, domainOwner>>
          /\ \A q \in Procs : pc'[q] \notin Inside /\ pc'[q] \notin Admitted
      BY <2>13 DEF ApplyRestore, Goto, Return, state, locals, Inside, Admitted, ApplyAt,
         DeleteAt, TypeOK, MutexInv
    <3>3. /\ base[p] \in Trees /\ target[p] \in Refs
          /\ disk' = base[p] \/ disk' = [base[p] EXCEPT ![target[p]] = NoFile]
      BY <2>13, <3>1, RestoredBase DEF ApplyRestore
    <3>4. Disjoint(disk') /\ OwnersRespected(disk')
      BY <3>1, <3>3, DeleteDisjoint, DeleteOwners
    <3>. QED  BY <3>2, <3>4 DEF DomainInv, NamesDisjoint, OwnersRespected, OwnersSpelt
  <2>14. CASE ApplyRestoreFails(p)
    BY <2>14, DomainFrame DEF ApplyRestoreFails, Goto, Return, state, locals, Inside,
       Admitted,
                               ApplyAt, DeleteAt, TypeOK
  <2>15. CASE ApplyRecord(p)
    <3>1. /\ job[p] \in Payloads /\ target[p] = job[p].ref /\ base[p] \in Trees
          /\ disk = [base[p] EXCEPT ![target[p]] = Rendered(job[p])]
          /\ Free(base[p], target[p], job[p].domains)
      BY <2>15 DEF ApplyRecord, CallInv, TreeInv, TypeOK, After, ApplyAt, Replacement,
                   DomainInv, Admitted
    <3>2. /\ UNCHANGED <<disk, served>>
          /\ domainOwner' = [d \in Domains |-> IF d \in job[p].domains
                                               THEN target[p] ELSE domainOwner[d]]
          /\ \A q \in Procs : pc'[q] \notin Inside /\ pc'[q] \notin Admitted
      BY <2>15 DEF ApplyRecord, Goto, Return, Inside, Admitted, ApplyAt, DeleteAt, TypeOK,
                   MutexInv
    <3>3. \A d \in job[p].domains, r \in Refs : r # target[p] => Fold[d] \notin Names(disk, r)
      BY <3>1, NamesKept, PayloadFields DEF Free
    <3>4. OwnersSpelt'
      BY <3>1, <3>2 DEF DomainInv, OwnersSpelt
    <3>. QED  BY <3>2, <3>3, <3>4 DEF DomainInv, NamesDisjoint, OwnersRespected
  <2>16. CASE ApplyTestUnread(p)
    BY <2>16, DomainFrame DEF ApplyTestUnread, Goto, Return, state, locals, Inside, Admitted,
                               ApplyAt, DeleteAt, TypeOK
  <2>. QED  BY <1>5, <2>1, <2>2, <2>3, <2>4, <2>5, <2>6, <2>7, <2>8, <2>9, <2>10, <2>11,
               <2>12, <2>13, <2>14, <2>15, <2>16 DEF ApplyStep
<1>6. ASSUME NEW p \in Procs, DeleteStep(p) PROVE DomainInv'
  <2>1. CASE DeleteMissing(p)
    BY <2>1, DomainFrame DEF DeleteMissing, Goto, Return, state, locals, Inside, Admitted,
                               ApplyAt, DeleteAt, TypeOK
  <2>2. CASE DeleteUnmanaged(p)
    BY <2>2, DomainFrame DEF DeleteUnmanaged, Goto, Return, state, locals, Inside, Admitted,
                               ApplyAt, DeleteAt, TypeOK
  <2>3. CASE DeleteAdmit(p)
    BY <2>3, DomainFrame DEF DeleteAdmit, Goto, Return, state, locals, Inside, Admitted,
                               ApplyAt, DeleteAt, TypeOK
  <2>4. CASE DeleteStage(p)
    BY <2>4, DomainFrame DEF DeleteStage, Goto, Return, state, locals, Inside, Admitted,
                               ApplyAt, DeleteAt, TypeOK
  <2>5. CASE DeleteStageFails(p)
    BY <2>5, DomainFrame DEF DeleteStageFails, Goto, Return, state, locals, Inside,
       Admitted,
                               ApplyAt, DeleteAt, TypeOK
  <2>6. CASE DeleteTest(p)
    BY <2>6, DomainFrame DEF DeleteTest, Goto, Return, state, locals, Inside, Admitted,
                               ApplyAt, DeleteAt, TypeOK
  <2>7. CASE DeleteTestFails(p)
    BY <2>7, DomainFrame DEF DeleteTestFails, Goto, Return, state, locals, Inside, Admitted,
                               ApplyAt, DeleteAt, TypeOK
  <2>8. CASE DeleteRemove(p)
    <3>1. /\ target[p] \in Refs /\ disk \in Trees
      BY <2>8 DEF DeleteRemove, CallInv, TypeOK, DeleteAt
    <3>2. /\ disk' = [disk EXCEPT ![target[p]] = NoFile]
          /\ UNCHANGED <<served, domainOwner, base, job, target>>
          /\ \A q \in Procs : (q # p => pc'[q] = pc[q])
          /\ pc[p] \in Inside /\ pc'[p] \notin Admitted
      BY <2>8 DEF DeleteRemove, Goto, state, locals, Inside, Admitted, DeleteAt, TypeOK
    <3>3. Disjoint(disk') /\ OwnersRespected(disk')
      BY <3>1, <3>2, DeleteDisjoint, DeleteOwners DEF DomainInv, NamesDisjoint
    <3>. QED  BY <3>2, <3>3 DEF DomainInv, NamesDisjoint, OwnersRespected, OwnersSpelt, Claimed
  <2>9. CASE DeleteRemoveFails(p)
    BY <2>9, DomainFrame DEF DeleteRemoveFails, Goto, Return, state, locals, Inside,
       Admitted,
                               ApplyAt, DeleteAt, TypeOK
  <2>10. CASE DeleteReload(p)
    <3>1. /\ served' = disk /\ UNCHANGED <<disk, domainOwner, base, job, target>>
          /\ \A q \in Procs : (q # p => pc'[q] = pc[q])
          /\ pc[p] \in Inside /\ (pc'[p] \in Admitted => pc[p] \in Admitted)
      BY <2>10 DEF DeleteReload, ReloadOk, Goto, state, locals, Inside, Admitted, ApplyAt,
                   DeleteAt, TypeOK
    <3>. QED  BY <3>1 DEF DomainInv, NamesDisjoint, OwnersRespected, OwnersSpelt, Claimed
  <2>11. CASE DeleteReloadFails(p)
    BY <2>11, DomainFrame DEF DeleteReloadFails, Goto, Return, state, locals, Inside,
       Admitted,
                               ApplyAt, DeleteAt, TypeOK
  <2>12. CASE DeleteRestore(p)
    <3>1. /\ pc[p] \in {"a_restore", "d_restore"}
          /\ Disjoint(base[p]) /\ OwnersRespected(base[p])
      BY <2>12 DEF DeleteRestore, DomainInv, Inside, ApplyAt, DeleteAt
    <3>2. /\ UNCHANGED <<served, domainOwner>>
          /\ \A q \in Procs : pc'[q] \notin Inside /\ pc'[q] \notin Admitted
      BY <2>12 DEF DeleteRestore, Goto, Return, state, locals, Inside, Admitted, ApplyAt,
         DeleteAt, TypeOK, MutexInv
    <3>3. /\ base[p] \in Trees /\ target[p] \in Refs
          /\ disk' = base[p] \/ disk' = [base[p] EXCEPT ![target[p]] = NoFile]
      BY <2>12, <3>1, RestoredBase DEF DeleteRestore
    <3>4. Disjoint(disk') /\ OwnersRespected(disk')
      BY <3>1, <3>3, DeleteDisjoint, DeleteOwners
    <3>. QED  BY <3>2, <3>4 DEF DomainInv, NamesDisjoint, OwnersRespected, OwnersSpelt
  <2>13. CASE DeleteRestoreFails(p)
    BY <2>13, DomainFrame DEF DeleteRestoreFails, Goto, Return, state, locals, Inside,
       Admitted,
                               ApplyAt, DeleteAt, TypeOK
  <2>14. CASE DeleteRecord(p)
    <3>1. /\ UNCHANGED <<disk, served>>
          /\ domainOwner' = [d \in Domains |-> IF domainOwner[d] = target[p]
                                               THEN NoRef ELSE domainOwner[d]]
          /\ \A q \in Procs : pc'[q] \notin Inside /\ pc'[q] \notin Admitted
      BY <2>14 DEF DeleteRecord, Goto, Return, Inside, Admitted, ApplyAt, DeleteAt, TypeOK,
                   MutexInv
    <3>. QED  BY <3>1 DEF DomainInv, NamesDisjoint, OwnersRespected, OwnersSpelt
  <2>. QED  BY <1>6, <2>1, <2>2, <2>3, <2>4, <2>5, <2>6, <2>7, <2>8, <2>9, <2>10, <2>11,
               <2>12, <2>13, <2>14 DEF DeleteStep
<1>7. CASE Crash
  <2>1. /\ UNCHANGED <<disk, served>> /\ domainOwner' = [d \in Domains |-> NoRef]
        /\ \A q \in Procs : pc'[q] \notin Inside /\ pc'[q] \notin Admitted
    BY <1>7 DEF Crash, Inside, Admitted, ApplyAt, DeleteAt
  <2>. QED  BY <2>1 DEF DomainInv, NamesDisjoint, OwnersRespected, OwnersSpelt
<1>8. CASE UNCHANGED vars
  BY <1>8, DomainFrame DEF vars, state, locals
<1>. QED
  BY <1>1, <1>2, <1>3, <1>4, <1>5, <1>6, <1>7, <1>8 DEF Next, Work

LEMMA InitDomain == Init => DomainInv
BY InitTreesAssumption DEF Init, DomainInv, NamesDisjoint, OwnersRespected, OwnersSpelt, Inside,
                           Admitted, ApplyAt, DeleteAt

\* If clients spell every name in one way, no two files of conf.d, and no two
\* vhosts that nginx serves, ever declare the same server_name: the in-memory
\* fast path of checkDomainCollision and the scan of the live tree agree, across
\* restarts, failed reloads, lost files and apps that drop a domain.
THEOREM NoCollision == Spec => []DomainsDisjoint
<1>1. CASE OneSpelling
  <2>1. Init => IInv /\ DomainInv
    BY InitInv, InitDomain
  <2>2. IInv /\ DomainInv /\ [Next]_vars => (IInv /\ DomainInv)'
    BY <1>1, StepInv, StepDomain
  <2>3. IInv /\ DomainInv => DomainsDisjoint
    BY DEF DomainInv, DomainsDisjoint
  <2>. QED  BY <2>1, <2>2, <2>3, PTL DEF Spec
<1>2. CASE ~OneSpelling
  <2>1. DomainsDisjoint
    BY <1>2 DEF DomainsDisjoint
  <2>. QED  BY <2>1, PTL
<1>. QED  BY <1>1, <1>2

-----------------------------------------------------------------------------
(* Acknowledged revisions do not go back *)

\* A pipeline is deployed from one repository.  Two pipelines may share one.
OneRepo == \A j, k \in Payloads : j.ref = k.ref => j.repo = k.repo

\* Nothing in tree t is older than what nginx serves and the listener has
\* acknowledged: t can be loaded.
Fresh(t) ==
  \A j \in Payloads :
    (/\ t[j.ref] # NoFile /\ served[j.ref] # NoFile
     /\ served[j.ref].rev > 0 /\ appliedRevision[j.repo] = served[j.ref].rev)
      => t[j.ref].rev >= served[j.ref].rev

\* Inside, with what nginx serves and the map as the call found them.
Undecided == Before \cup {"a_reload", "a_restore", "d_reload", "d_restore"}
\* Past the revision check, and not yet recorded.
Guarded   == {"a_stage", "a_test", "a_promote", "a_reload", "a_restore"}

\* A file that a failed write-back left in conf.d, and the tree a write-back
\* returns to, are no step back either: a reload for another app loads them.
RevisionInv ==
  /\ Fresh(disk)
  /\ \A p \in Procs : pc[p] \in Undecided => Fresh(base[p])
  /\ \A p \in Procs : pc[p] \in Guarded => job[p].rev > appliedRevision[job[p].repo]

LEMMA UndecidedInside == Undecided \subseteq Inside /\ Guarded \subseteq Undecided
BY DEF Undecided, Guarded, Before, Inside, ApplyAt, DeleteAt

LEMMA DiskTyped ==
  ASSUME TypeOK, NEW j \in Payloads
  PROVE  /\ disk[j.ref] # NoFile => disk[j.ref].rev \in Nat
         /\ served[j.ref] # NoFile => served[j.ref].rev \in Nat
         /\ appliedRevision[j.repo] \in Nat
<1>1. disk[j.ref] \in File \cup {NoFile} /\ served[j.ref] \in File \cup {NoFile}
  BY PayloadFields, TreeFile DEF TypeOK
<1>2. appliedRevision[j.repo] \in Nat
  BY PayloadFields DEF TypeOK
<1>. QED  BY <1>1, <1>2 DEF File

\* Steps that change no tree and no revision, and take nobody further in.
LEMMA RevisionFrame ==
  ASSUME RevisionInv, UNCHANGED <<disk, served, appliedRevision>>,
         \A p \in Procs : pc'[p] \in Undecided => pc[p] \in Undecided /\ base'[p] = base[p],
         \A p \in Procs : pc'[p] \in Guarded => pc[p] \in Guarded /\ job'[p] = job[p]
  PROVE  RevisionInv'
<1>1. Fresh(disk)'
  BY DEF RevisionInv, Fresh
<1>2. ASSUME NEW p \in Procs, pc'[p] \in Undecided PROVE Fresh(base[p])'
  BY <1>2 DEF RevisionInv, Fresh
<1>3. ASSUME NEW p \in Procs, pc'[p] \in Guarded
      PROVE  (job[p].rev > appliedRevision[job[p].repo])'
  BY <1>3 DEF RevisionInv
<1>. QED  BY <1>1, <1>2, <1>3 DEF RevisionInv, Undecided, Guarded, Before

\* The file of an admitted payload is newer than what the map holds for its repo.
LEMMA FreshRendered ==
  ASSUME OneRepo, TypeOK, NEW t \in Trees, Fresh(t), NEW k \in Payloads,
         k.rev > appliedRevision[k.repo]
  PROVE  Fresh([t EXCEPT ![k.ref] = Rendered(k)])
<1>. DEFINE u == [t EXCEPT ![k.ref] = Rendered(k)]
<1>. SUFFICES ASSUME NEW j \in Payloads,
                     u[j.ref] # NoFile, served[j.ref] # NoFile, served[j.ref].rev > 0,
                     appliedRevision[j.repo] = served[j.ref].rev
              PROVE  u[j.ref].rev >= served[j.ref].rev
  BY DEF Fresh
<1>1. CASE j.ref = k.ref
  <2>1. u[j.ref].rev = k.rev /\ j.repo = k.repo
    BY <1>1, PayloadFields DEF Trees, Rendered, OneRepo
  <2>. QED  BY <2>1, PayloadFields, DiskTyped
<1>2. CASE j.ref # k.ref
  <2>1. u[j.ref] = t[j.ref]
    BY <1>2, PayloadFields DEF Trees
  <2>. QED  BY <2>1 DEF Fresh
<1>. QED  BY <1>1, <1>2

LEMMA FreshRemoved ==
  ASSUME NEW t \in Trees, Fresh(t), NEW r \in Refs
  PROVE  Fresh([t EXCEPT ![r] = NoFile])
BY PayloadFields DEF Fresh, Trees

LEMMA StepRevision == OneRepo /\ IInv /\ RevisionInv /\ [Next]_vars => RevisionInv'
<1>. SUFFICES ASSUME OneRepo, IInv, RevisionInv, [Next]_vars PROVE RevisionInv'
  OBVIOUS
<1>. USE DEF IInv
<1>1. ASSUME NEW p \in Procs, NEW j \in Payloads, ApplyCall(p, j) PROVE RevisionInv'
  BY <1>1, RevisionFrame DEF ApplyCall, Goto, state, Undecided, Guarded, Before, TypeOK
<1>2. ASSUME NEW p \in Procs, NEW r \in Refs, DeleteCall(p, r) PROVE RevisionInv'
  BY <1>2, RevisionFrame DEF DeleteCall, Goto, state, Undecided, Guarded, Before, TypeOK
<1>3. ASSUME NEW p \in Procs, Locking(p) PROVE RevisionInv'
  <2>1. /\ UNCHANGED <<disk, served, appliedRevision, job>>
        /\ base' = [base EXCEPT ![p] = disk]
        /\ \A q \in Procs : q # p => pc'[q] = pc[q]
        /\ pc'[p] \notin Guarded
    BY <1>3 DEF Locking, ApplyLock, DeleteLock, Lock, Goto, state, TypeOK, Guarded
  <2>2. \A q \in Procs : base'[q] = IF q = p THEN disk ELSE base[q]
    BY <2>1 DEF TypeOK
  <2>. QED  BY <2>1, <2>2 DEF RevisionInv, Fresh
<1>4. ASSUME NEW p \in Procs, Respond(p) PROVE RevisionInv'
  BY <1>4, RevisionFrame DEF Respond, Goto, state, Undecided, Guarded, Before, TypeOK
<1>5. ASSUME NEW p \in Procs, ApplyStep(p) PROVE RevisionInv'
  <2>1. CASE ApplyNoop(p)
    BY <2>1, RevisionFrame DEF ApplyNoop, Goto, Return, state, locals, Undecided,
       Guarded, Before, TypeOK
  <2>2. CASE ApplyConflict(p)
    BY <2>2, RevisionFrame DEF ApplyConflict, Goto, Return, state, locals, Undecided,
       Guarded, Before, TypeOK
  <2>3. CASE ApplyDumpFails(p)
    BY <2>3, RevisionFrame DEF ApplyDumpFails, Goto, Return, state, locals, Undecided,
       Guarded, Before, TypeOK
  <2>4. CASE ApplyAdmit(p)
    <3>1. job[p].rev > appliedRevision[job[p].repo]
      BY <2>4, PayloadFields DEF ApplyAdmit, Stale, CallInv, ApplyAt, TypeOK
    <3>2. /\ UNCHANGED <<disk, served, appliedRevision, base, job>>
          /\ \A q \in Procs : q # p => pc'[q] = pc[q]
          /\ pc[p] \in Undecided
      BY <2>4 DEF ApplyAdmit, Goto, state, locals, Undecided, Before, TypeOK
    <3>. QED  BY <3>1, <3>2 DEF RevisionInv, Fresh
  <2>5. CASE ApplyStage(p)
    BY <2>5, RevisionFrame DEF ApplyStage, Goto, Return, state, locals, Undecided,
       Guarded, Before, TypeOK
  <2>6. CASE ApplyStageFails(p)
    BY <2>6, RevisionFrame DEF ApplyStageFails, Goto, Return, state, locals, Undecided,
       Guarded, Before, TypeOK
  <2>7. CASE ApplyTest(p)
    BY <2>7, RevisionFrame DEF ApplyTest, Goto, Return, state, locals, Undecided,
       Guarded, Before, TypeOK
  <2>8. CASE ApplyTestFails(p)
    BY <2>8, RevisionFrame DEF ApplyTestFails, Goto, Return, state, locals, Undecided,
       Guarded, Before, TypeOK
  <2>9. CASE ApplyPromote(p)
    <3>1. /\ job[p] \in Payloads /\ target[p] = job[p].ref
          /\ pc[p] \in Guarded /\ pc[p] \in Undecided
          /\ pc'[p] \in Guarded /\ pc'[p] \in Undecided
      BY <2>9 DEF ApplyPromote, Goto, CallInv, Guarded, Undecided, Before, ApplyAt, TypeOK
    <3>2. /\ disk' = [disk EXCEPT ![target[p]] = Rendered(job[p])]
          /\ UNCHANGED <<served, appliedRevision, base, job>>
          /\ \A q \in Procs : q # p => pc'[q] = pc[q]
      BY <2>9 DEF ApplyPromote, Goto, state, locals, TypeOK
    <3>3. job[p].rev > appliedRevision[job[p].repo]
      BY <3>1 DEF RevisionInv
    <3>4. Fresh(disk')
      BY <3>1, <3>2, <3>3, FreshRendered DEF RevisionInv, TypeOK
    <3>. QED  BY <3>1, <3>2, <3>4 DEF RevisionInv, Fresh
  <2>10. CASE ApplyPromoteFails(p)
    BY <2>10, RevisionFrame DEF ApplyPromoteFails, Goto, Return, state, locals,
       Undecided, Guarded, Before, TypeOK
  <2>11. CASE ApplyReload(p)
    <3>1. /\ served' = disk /\ UNCHANGED <<disk, appliedRevision, base, job>>
          /\ \A q \in Procs : q # p => pc'[q] = pc[q]
          /\ pc'[p] = "a_record" /\ pc[p] \in Inside
      BY <2>11 DEF ApplyReload, ReloadOk, Goto, state, locals, Inside, ApplyAt, DeleteAt, TypeOK
    <3>2. \A q \in Procs : pc'[q] \notin Undecided /\ pc'[q] \notin Guarded
      BY <3>1, UndecidedInside DEF MutexInv, Undecided, Guarded, Before
    <3>. QED  BY <3>1, <3>2, DiskTyped DEF RevisionInv, Fresh
  <2>12. CASE ApplyReloadFails(p)
    BY <2>12, RevisionFrame DEF ApplyReloadFails, Goto, Return, state, locals,
       Undecided, Guarded, Before, TypeOK
  <2>13. CASE ApplyRestore(p)
    <3>1. /\ pc[p] \in {"a_restore", "d_restore"} /\ pc[p] \in Undecided /\ pc'[p] = "done"
          /\ UNCHANGED <<served, appliedRevision, base, job>>
          /\ \A q \in Procs : q # p => pc'[q] = pc[q]
      BY <2>13 DEF ApplyRestore, Goto, Return, state, locals, Undecided, TypeOK
    <3>2. /\ base[p] \in Trees /\ target[p] \in Refs
          /\ disk' = base[p] \/ disk' = [base[p] EXCEPT ![target[p]] = NoFile]
      BY <2>13, <3>1, RestoredBase DEF ApplyRestore
    <3>3. Fresh(disk')
      BY <3>1, <3>2, FreshRemoved DEF RevisionInv
    <3>. QED  BY <3>1, <3>3 DEF RevisionInv, Fresh, Undecided, Guarded, Before
  <2>14. CASE ApplyRestoreFails(p)
    BY <2>14, RevisionFrame DEF ApplyRestoreFails, Goto, Return, state, locals,
       Undecided, Guarded, Before, TypeOK
  <2>15. CASE ApplyRecord(p)
    <3>1. /\ served = disk /\ UNCHANGED <<disk, served, base, job>>
          /\ \A q \in Procs : q # p => pc'[q] = pc[q]
          /\ pc'[p] = "done" /\ pc[p] \in Inside
      BY <2>15 DEF ApplyRecord, Goto, Return, locals, Inside, ApplyAt, TreeInv, TypeOK
    <3>2. \A q \in Procs : pc'[q] \notin Undecided /\ pc'[q] \notin Guarded
      BY <3>1, UndecidedInside DEF MutexInv, Undecided, Guarded, Before
    <3>. QED  BY <3>1, <3>2, DiskTyped DEF RevisionInv, Fresh
  <2>16. CASE ApplyTestUnread(p)
    BY <2>16, RevisionFrame DEF ApplyTestUnread, Goto, Return, state, locals, Undecided,
       Guarded, Before, TypeOK
  <2>. QED  BY <1>5, <2>1, <2>2, <2>3, <2>4, <2>5, <2>6, <2>7, <2>8, <2>9, <2>10, <2>11,
          <2>12, <2>13, <2>14, <2>15, <2>16 DEF ApplyStep
<1>6. ASSUME NEW p \in Procs, DeleteStep(p) PROVE RevisionInv'
  <2>1. CASE DeleteMissing(p)
    BY <2>1, RevisionFrame DEF DeleteMissing, Goto, Return, state, locals, Undecided,
       Guarded, Before, TypeOK
  <2>2. CASE DeleteUnmanaged(p)
    BY <2>2, RevisionFrame DEF DeleteUnmanaged, Goto, Return, state, locals, Undecided,
       Guarded, Before, TypeOK
  <2>3. CASE DeleteAdmit(p)
    BY <2>3, RevisionFrame DEF DeleteAdmit, Goto, Return, state, locals, Undecided,
       Guarded, Before, TypeOK
  <2>4. CASE DeleteStage(p)
    BY <2>4, RevisionFrame DEF DeleteStage, Goto, Return, state, locals, Undecided,
       Guarded, Before, TypeOK
  <2>5. CASE DeleteStageFails(p)
    BY <2>5, RevisionFrame DEF DeleteStageFails, Goto, Return, state, locals, Undecided,
       Guarded, Before, TypeOK
  <2>6. CASE DeleteTest(p)
    BY <2>6, RevisionFrame DEF DeleteTest, Goto, Return, state, locals, Undecided,
       Guarded, Before, TypeOK
  <2>7. CASE DeleteTestFails(p)
    BY <2>7, RevisionFrame DEF DeleteTestFails, Goto, Return, state, locals, Undecided,
       Guarded, Before, TypeOK
  <2>8. CASE DeleteRemove(p)
    <3>1. /\ target[p] \in Refs /\ pc[p] \in Undecided
          /\ pc'[p] \in Undecided /\ pc'[p] \notin Guarded
      BY <2>8 DEF DeleteRemove, Goto, CallInv, Guarded, Undecided, Before, DeleteAt, TypeOK
    <3>2. /\ disk' = [disk EXCEPT ![target[p]] = NoFile]
          /\ UNCHANGED <<served, appliedRevision, base, job>>
          /\ \A q \in Procs : q # p => pc'[q] = pc[q]
      BY <2>8 DEF DeleteRemove, Goto, state, locals, TypeOK
    <3>3. Fresh(disk')
      BY <3>1, <3>2, FreshRemoved DEF RevisionInv, TypeOK
    <3>. QED  BY <3>1, <3>2, <3>3 DEF RevisionInv, Fresh
  <2>9. CASE DeleteRemoveFails(p)
    BY <2>9, RevisionFrame DEF DeleteRemoveFails, Goto, Return, state, locals,
       Undecided, Guarded, Before, TypeOK
  <2>10. CASE DeleteReload(p)
    <3>1. /\ served' = disk /\ UNCHANGED <<disk, appliedRevision, base, job>>
          /\ \A q \in Procs : q # p => pc'[q] = pc[q]
          /\ pc'[p] = "d_record" /\ pc[p] \in Inside
      BY <2>10 DEF DeleteReload, ReloadOk, Goto, state, locals, Inside, ApplyAt, DeleteAt, TypeOK
    <3>2. \A q \in Procs : pc'[q] \notin Undecided /\ pc'[q] \notin Guarded
      BY <3>1, UndecidedInside DEF MutexInv, Undecided, Guarded, Before
    <3>. QED  BY <3>1, <3>2, DiskTyped DEF RevisionInv, Fresh
  <2>11. CASE DeleteReloadFails(p)
    BY <2>11, RevisionFrame DEF DeleteReloadFails, Goto, Return, state, locals,
       Undecided, Guarded, Before, TypeOK
  <2>12. CASE DeleteRestore(p)
    <3>1. /\ pc[p] \in {"a_restore", "d_restore"} /\ pc[p] \in Undecided /\ pc'[p] = "done"
          /\ UNCHANGED <<served, appliedRevision, base, job>>
          /\ \A q \in Procs : q # p => pc'[q] = pc[q]
      BY <2>12 DEF DeleteRestore, Goto, Return, state, locals, Undecided, TypeOK
    <3>2. /\ base[p] \in Trees /\ target[p] \in Refs
          /\ disk' = base[p] \/ disk' = [base[p] EXCEPT ![target[p]] = NoFile]
      BY <2>12, <3>1, RestoredBase DEF DeleteRestore
    <3>3. Fresh(disk')
      BY <3>1, <3>2, FreshRemoved DEF RevisionInv
    <3>. QED  BY <3>1, <3>3 DEF RevisionInv, Fresh, Undecided, Guarded, Before
  <2>13. CASE DeleteRestoreFails(p)
    BY <2>13, RevisionFrame DEF DeleteRestoreFails, Goto, Return, state, locals,
       Undecided, Guarded, Before, TypeOK
  <2>14. CASE DeleteRecord(p)
    <3>1. /\ served = disk /\ UNCHANGED <<disk, served, base, job>>
          /\ \A q \in Procs : q # p => pc'[q] = pc[q]
          /\ pc'[p] = "done" /\ pc[p] \in Inside
      BY <2>14 DEF DeleteRecord, Goto, Return, locals, Inside, DeleteAt, TreeInv, TypeOK
    <3>2. \A q \in Procs : pc'[q] \notin Undecided /\ pc'[q] \notin Guarded
      BY <3>1, UndecidedInside DEF MutexInv, Undecided, Guarded, Before
    <3>. QED  BY <3>1, <3>2, DiskTyped DEF RevisionInv, Fresh
  <2>. QED  BY <1>6, <2>1, <2>2, <2>3, <2>4, <2>5, <2>6, <2>7, <2>8, <2>9, <2>10, <2>11,
          <2>12, <2>13, <2>14 DEF DeleteStep
<1>7. CASE Crash
  <2>1. /\ \A k \in Repos : appliedRevision'[k] = 0
        /\ served' = served
        /\ \A q \in Procs : pc'[q] = "idle"
    BY <1>7 DEF Crash
  <2>. QED  BY <2>1, PayloadFields DEF RevisionInv, Fresh, Undecided, Guarded, Before
<1>8. CASE UNCHANGED vars
  BY <1>8, RevisionFrame DEF vars, state, locals
<1>. QED
  BY <1>1, <1>2, <1>3, <1>4, <1>5, <1>6, <1>7, <1>8 DEF Next, Work

LEMMA InitRevision == Init => RevisionInv
<1>. SUFFICES ASSUME Init PROVE RevisionInv
  OBVIOUS
<1>1. \A k \in Repos : appliedRevision[k] = 0
  BY DEF Init
<1>. QED  BY <1>1, PayloadFields DEF Init, RevisionInv, Fresh, Undecided, Guarded, Before

\* Only a reload changes what nginx serves, and it loads conf.d.
LEMMA ServedFromDisk == Next => served' \in {served, disk}
BY DEF Next, Work, Locking, ApplyCall, DeleteCall, ApplyLock, DeleteLock, Lock, Respond,
       Crash, ApplyStep, ApplyNoop, ApplyConflict, ApplyDumpFails, ApplyAdmit, ApplyStage,
       ApplyStageFails, ApplyTest, ApplyTestUnread, ApplyTestFails, ApplyPromote, ApplyPromoteFails,
       ApplyReload, ApplyReloadFails, ApplyRestore, ApplyRestoreFails, ApplyRecord,
       ReloadOk, DeleteStep, DeleteMissing, DeleteUnmanaged, DeleteAdmit, DeleteStage,
       DeleteStageFails, DeleteTest, DeleteTestFails, DeleteRemove, DeleteRemoveFails,
       DeleteReload, DeleteReloadFails, DeleteRestore, DeleteRestoreFails, DeleteRecord

\* If a pipeline has one repository, nginx never goes back from a revision that
\* runApplyLocked has acknowledged: not by a late payload, not by a write-back,
\* and not by the reload for another app when a failed write-back has left a
\* file in conf.d; repositories may be shared by pipelines.
THEOREM NotRegressed == OneRepo => (Spec => AcknowledgedNotRegressed)
<1>. SUFFICES ASSUME OneRepo PROVE Spec => AcknowledgedNotRegressed
  OBVIOUS
<1>1. Init => IInv /\ RevisionInv
  BY InitInv, InitRevision
<1>2. IInv /\ RevisionInv /\ [Next]_vars => (IInv /\ RevisionInv)'
  BY StepInv, StepRevision
<1>3. IInv /\ RevisionInv /\ [Next]_vars => [RevisionStep]_vars
  <2>. SUFFICES ASSUME IInv, RevisionInv, Next,
                       NEW j \in Payloads,
                       served[j.ref] # NoFile, served'[j.ref] # NoFile,
                       served[j.ref].rev > 0, appliedRevision[j.repo] = served[j.ref].rev
                PROVE  served'[j.ref].rev >= served[j.ref].rev
    BY DEF RevisionStep
  <2>1. CASE served' = served
    BY <2>1, DiskTyped DEF IInv
  <2>2. CASE served' = disk
    BY <2>2 DEF RevisionInv, Fresh
  <2>. QED  BY <2>1, <2>2, ServedFromDisk
<1>. QED  BY <1>1, <1>2, <1>3, PTL DEF Spec, AcknowledgedNotRegressed

-----------------------------------------------------------------------------
(* The pipeline implements the store.  The step simulation needs IInv:      *)
(* without it the backup of a goroutine need not be what conf.d held, and   *)
(* the tree it promotes need not be the one nginx tested.                   *)

\* While a transaction is open, the tree to go back to is the one the goroutine
\* found when it took the mutex.
LEMMA OpenUndo ==
  ASSUME IInv, NEW p \in Procs, pc[p] \in Pending
  PROVE  /\ mu = p /\ target[p] \in Refs /\ base[p] \in Trees
         /\ Undo = base[p] /\ Undo # NoTree /\ Kept = (backup[p] # Unread)
<1>1. mu = p /\ mu # NoProc
  BY NullAssumption DEF IInv, MutexInv, Pending, Inside, ApplyAt, DeleteAt
<1>2. target[p] \in Refs
  BY PayloadFields DEF IInv, CallInv, Pending, ApplyAt, DeleteAt
<1>3. base[p] \in Trees
  BY DEF IInv, TypeOK
<1>4. Undo = base[p]
  BY <1>1 DEF Undo
<1>5. Undo # NoTree
  BY <1>3, <1>4, NoTreeAssumption
<1>. QED  BY <1>1, <1>2, <1>3, <1>4, <1>5 DEF Kept

\* A goroutine that is elsewhere in the critical section has no transaction open.
LEMMA ClosedUndo ==
  ASSUME IInv, NEW p \in Procs, pc[p] \in Inside \ Pending
  PROVE  mu = p /\ Undo = NoTree /\ Kept = TRUE
BY DEF IInv, MutexInv, Undo, Kept

LEMMA InitStore == Init => Store!Init
<1>. SUFFICES ASSUME Init PROVE Store!Init
  OBVIOUS
<1>1. Undo = NoTree /\ Kept = TRUE
  BY DEF Init, Undo, Kept
<1>. QED  BY <1>1 DEF Init, Store!Init

\* A step that changes neither conf.d nor what nginx serves and ends in a place
\* with no transaction open, from such a place, is not seen.
LEMMA Quiet ==
  ASSUME IInv, NEW p \in Procs, pc[p] \in Inside \ Pending,
         UNCHANGED <<disk, served>>,
         mu' = NoProc \/ (mu' = mu /\ pc'[p] \notin Pending)
  PROVE  UNCHANGED Store!vars
<1>1. mu = p /\ Undo = NoTree /\ Kept = TRUE
  BY ClosedUndo
<1>2. Undo' = NoTree /\ Kept' = TRUE
  BY <1>1 DEF Undo, Kept
<1>. QED  BY <1>1, <1>2 DEF Store!vars

\* A goroutine that puts a file in place opens a transaction.
LEMMA Opens ==
  ASSUME IInv, NEW p \in Procs, pc[p] \in {"a_promote", "d_promote"},
         NEW f \in Content(target[p]), f = Replacement(p), target[p] \in Refs,
         disk' = [disk EXCEPT ![target[p]] = f],
         UNCHANGED <<served, mu, target, backup, base>>, pc'[p] \in Pending
  PROVE  Store!Next
<1>1. pc[p] \in Inside \ Pending
  BY DEF Inside, Pending, ApplyAt, DeleteAt
<1>2. mu = p /\ Undo = NoTree /\ mu # NoProc
  BY <1>1, ClosedUndo, NullAssumption
<1>3. /\ disk = base[p] /\ base[p] \in Trees
      /\ overlay[p] = [base[p] EXCEPT ![target[p]] = f]
      /\ Accepts(overlay[p]) /\ Saved(p)
  BY DEF IInv, TypeOK, TreeInv, Before
<1>4. Accepts(disk')
  BY <1>3
<1>5. Undo' = disk /\ Undo' # NoTree
  BY <1>2, <1>3, NoTreeAssumption DEF Undo
<1>6. Kept' = (backup[p] # Unread)
  BY <1>2, <1>5 DEF Kept
<1>7. disk[target[p]] # Unread
  BY <1>3, TreeFile, NullAssumption
<1>8. backup[p] = Unread => disk[target[p]] # NoFile /\ f # NoFile
  <2>1. ASSUME backup[p] = Unread PROVE pc[p] \in ApplyAt /\ disk[target[p]] # NoFile
    BY <1>3, <1>7, <2>1 DEF Saved
  <2>2. ASSUME pc[p] \in ApplyAt PROVE f # NoFile
    BY <2>2, RenderedIsFile, NullAssumption DEF Replacement, IInv, CallInv
  <2>. QED  BY <2>1, <2>2
<1>9. Kept' \in {TRUE, f = NoFile \/ disk[target[p]] = NoFile}
  BY <1>6, <1>8
<1>10. Store!Change(target[p], f)
  BY <1>2, <1>4, <1>5, <1>9 DEF Store!Change
<1>. QED  BY <1>10 DEF Store!Next

\* A goroutine that loads the tree, puts the old file back, has none to put back
\* or gives up closes it.
LEMMA Closes ==
  ASSUME IInv, NEW p \in Procs, pc[p] \in Pending,
         mu' = NoProc \/ (mu' = mu /\ pc'[p] \notin Pending),
         \/ served' = disk /\ disk' = disk
         \/ served' = served /\ disk' = base[p] /\ backup[p] # Unread
         \/ /\ served' = served /\ disk' = [base[p] EXCEPT ![target[p]] = NoFile]
            /\ backup[p] = Unread
         \/ UNCHANGED <<disk, served>>
  PROVE  Store!Next
<1>1. /\ mu = p /\ Undo # NoTree /\ Undo = base[p] /\ Kept = (backup[p] # Unread)
      /\ target[p] \in Refs /\ base[p] \in Trees
  BY OpenUndo
<1>2. Undo' = NoTree /\ Kept' = TRUE
  BY <1>1 DEF Undo, Kept
<1>3. \A s \in Refs \ {target[p]} : disk[s] = base[p][s]
  <2>1. disk = [base[p] EXCEPT ![target[p]] = Replacement(p)]
    BY DEF IInv, TreeInv, Pending, After
  <2>. QED  BY <1>1, <2>1 DEF Trees
<1>. QED  BY <1>1, <1>2, <1>3 DEF Store!Next, Store!Close, Store!Load, Store!PutBack,
                                 Store!GiveUp, Store!Lose

LEMMA StepStore == IInv /\ [Next]_vars => [Store!Next]_Store!vars
<1>. SUFFICES ASSUME IInv, [Next]_vars PROVE Store!Next \/ UNCHANGED Store!vars
  OBVIOUS
<1>. USE DEF Goto, Return, state, locals
<1>0. /\ pc \in [Procs -> ApplyAt \cup DeleteAt \cup {"idle", "done"}]
      /\ target \in [Procs -> Refs \cup {NoRef}]
      /\ backup \in [Procs -> File \cup {NoFile, Unread}]
      /\ base \in [Procs -> Trees]
  BY DEF IInv, TypeOK
<1>m. \A p \in Procs : pc[p] \in Inside <=> mu = p
  BY DEF IInv, MutexInv
<1>c. \A p \in Procs : pc[p] \in ApplyAt => job[p] \in Payloads /\ target[p] = job[p].ref
  BY DEF IInv, CallInv
<1>r. \A p \in Procs : pc[p] \in ApplyAt \cup DeleteAt => target[p] \in Refs
  BY PayloadFields DEF IInv, CallInv
<1>n. NoProc \notin Procs
  BY NullAssumption
<1>t. mu \in Procs \cup {NoProc}
  BY DEF IInv, TypeOK
\* A goroutine outside the critical section disturbs nothing.
<1>o. ASSUME NEW p \in Procs, pc[p] \notin Inside, pc'[p] \notin Pending,
             UNCHANGED <<disk, served>>,
             \A q \in Procs : q # p => /\ pc'[q] = pc[q] /\ target'[q] = target[q]
                                         /\ backup'[q] = backup[q] /\ base'[q] = base[q],
             mu' = mu \/ (mu = NoProc /\ mu' = p)
      PROVE  UNCHANGED Store!vars
  <2>1. mu # p
    BY <1>o, <1>m
  <2>2. Undo' = Undo /\ Kept' = Kept
    BY <1>o, <1>t, <1>n, <2>1 DEF Undo, Kept
  <2>. QED  BY <1>o, <2>2 DEF Store!vars
<1>1. ASSUME NEW p \in Procs, NEW j \in Payloads, ApplyCall(p, j) PROVE UNCHANGED Store!vars
  <2>1. pc[p] \notin Inside /\ pc'[p] \notin Pending
    BY <1>1, <1>0 DEF ApplyCall, Inside, Pending, ApplyAt, DeleteAt
  <2>. QED  BY <1>1, <1>0, <1>o, <2>1 DEF ApplyCall
<1>2. ASSUME NEW p \in Procs, NEW r \in Refs, DeleteCall(p, r) PROVE UNCHANGED Store!vars
  <2>1. pc[p] \notin Inside /\ pc'[p] \notin Pending
    BY <1>2, <1>0 DEF DeleteCall, Inside, Pending, ApplyAt, DeleteAt
  <2>. QED  BY <1>2, <1>0, <1>o, <2>1 DEF DeleteCall
<1>3. ASSUME NEW p \in Procs, Locking(p) PROVE UNCHANGED Store!vars
  <2>1. pc[p] \notin Inside /\ pc'[p] \notin Pending
    BY <1>3, <1>0 DEF Locking, ApplyLock, DeleteLock, Lock, Inside, Pending, ApplyAt,
       DeleteAt
  <2>. QED  BY <1>3, <1>0, <1>o, <2>1 DEF Locking, ApplyLock, DeleteLock, Lock
<1>4. ASSUME NEW p \in Procs, Respond(p) PROVE UNCHANGED Store!vars
  <2>1. pc[p] \notin Inside /\ pc'[p] \notin Pending
    BY <1>4, <1>0 DEF Respond, Inside, Pending, ApplyAt, DeleteAt
  <2>. QED  BY <1>4, <1>0, <1>o, <2>1 DEF Respond
<1>5. ASSUME NEW p \in Procs, ApplyStep(p) PROVE Store!Next \/ UNCHANGED Store!vars
  <2>1. CASE ApplyNoop(p)
    <3>1. pc[p] \in Inside \ Pending /\ (mu' = NoProc \/ (mu' = mu /\ pc'[p] \notin Pending))
      BY <2>1, <1>0 DEF ApplyNoop, Inside, Pending, ApplyAt, DeleteAt
    <3>. QED  BY <2>1, <3>1, Quiet DEF ApplyNoop
  <2>2. CASE ApplyConflict(p)
    <3>1. pc[p] \in Inside \ Pending /\ (mu' = NoProc \/ (mu' = mu /\ pc'[p] \notin Pending))
      BY <2>2, <1>0 DEF ApplyConflict, Inside, Pending, ApplyAt, DeleteAt
    <3>. QED  BY <2>2, <3>1, Quiet DEF ApplyConflict
  <2>3. CASE ApplyDumpFails(p)
    <3>1. pc[p] \in Inside \ Pending /\ (mu' = NoProc \/ (mu' = mu /\ pc'[p] \notin Pending))
      BY <2>3, <1>0 DEF ApplyDumpFails, Inside, Pending, ApplyAt, DeleteAt
    <3>. QED  BY <2>3, <3>1, Quiet DEF ApplyDumpFails
  <2>4. CASE ApplyAdmit(p)
    <3>1. pc[p] \in Inside \ Pending /\ (mu' = NoProc \/ (mu' = mu /\ pc'[p] \notin Pending))
      BY <2>4, <1>0 DEF ApplyAdmit, Inside, Pending, ApplyAt, DeleteAt
    <3>. QED  BY <2>4, <3>1, Quiet DEF ApplyAdmit
  <2>5. CASE ApplyStage(p)
    <3>1. pc[p] \in Inside \ Pending /\ (mu' = NoProc \/ (mu' = mu /\ pc'[p] \notin Pending))
      BY <2>5, <1>0 DEF ApplyStage, Inside, Pending, ApplyAt, DeleteAt
    <3>. QED  BY <2>5, <3>1, Quiet DEF ApplyStage
  <2>6. CASE ApplyStageFails(p)
    <3>1. pc[p] \in Inside \ Pending /\ (mu' = NoProc \/ (mu' = mu /\ pc'[p] \notin Pending))
      BY <2>6, <1>0 DEF ApplyStageFails, Inside, Pending, ApplyAt, DeleteAt
    <3>. QED  BY <2>6, <3>1, Quiet DEF ApplyStageFails
  <2>7. CASE ApplyTest(p)
    <3>1. pc[p] \in Inside \ Pending /\ (mu' = NoProc \/ (mu' = mu /\ pc'[p] \notin Pending))
      BY <2>7, <1>0 DEF ApplyTest, Inside, Pending, ApplyAt, DeleteAt
    <3>. QED  BY <2>7, <3>1, Quiet DEF ApplyTest
  <2>8. CASE ApplyTestFails(p)
    <3>1. pc[p] \in Inside \ Pending /\ (mu' = NoProc \/ (mu' = mu /\ pc'[p] \notin Pending))
      BY <2>8, <1>0 DEF ApplyTestFails, Inside, Pending, ApplyAt, DeleteAt
    <3>. QED  BY <2>8, <3>1, Quiet DEF ApplyTestFails
  <2>9. CASE ApplyPromoteFails(p)
    <3>1. pc[p] \in Inside \ Pending /\ (mu' = NoProc \/ (mu' = mu /\ pc'[p] \notin Pending))
      BY <2>9, <1>0 DEF ApplyPromoteFails, Inside, Pending, ApplyAt, DeleteAt
    <3>. QED  BY <2>9, <3>1, Quiet DEF ApplyPromoteFails
  <2>10. CASE ApplyRecord(p)
    <3>1. pc[p] \in Inside \ Pending /\ (mu' = NoProc \/ (mu' = mu /\ pc'[p] \notin Pending))
      BY <2>10, <1>0 DEF ApplyRecord, Inside, Pending, ApplyAt, DeleteAt
    <3>. QED  BY <2>10, <3>1, Quiet DEF ApplyRecord
  <2>11. CASE ApplyReload(p)
    <3>1. pc[p] \in Pending /\ (mu' = NoProc \/ (mu' = mu /\ pc'[p] \notin Pending))
      BY <2>11, <1>0 DEF ApplyReload, Pending
    <3>. QED  BY <2>11, <3>1, Closes DEF ApplyReload, ReloadOk
  <2>12. CASE ApplyRestore(p)
    <3>1. pc[p] \in Pending /\ (mu' = NoProc \/ (mu' = mu /\ pc'[p] \notin Pending))
      BY <2>12, <1>0 DEF ApplyRestore, Pending
    <3>. QED  BY <2>12, <3>1, Closes, RestoredBase DEF ApplyRestore, IInv
  <2>13. CASE ApplyRestoreFails(p)
    <3>1. pc[p] \in Pending /\ (mu' = NoProc \/ (mu' = mu /\ pc'[p] \notin Pending))
      BY <2>13, <1>0 DEF ApplyRestoreFails, Pending
    <3>. QED  BY <2>13, <3>1, Closes DEF ApplyRestoreFails
  <2>14. CASE ApplyReloadFails(p)
    <3>1. pc[p] \in Pending /\ pc'[p] \in Pending
      BY <2>14, <1>0 DEF ApplyReloadFails, Pending
    <3>2. mu = p /\ UNCHANGED <<disk, served, mu, target, backup, base>>
      BY <2>14, <3>1, OpenUndo DEF ApplyReloadFails
    <3>3. Undo' = Undo /\ Kept' = Kept
      BY <3>1, <3>2 DEF Undo, Kept
    <3>. QED  BY <3>2, <3>3 DEF Store!vars
  <2>15. CASE ApplyPromote(p)
    <3>1. pc[p] \in {"a_promote", "d_promote"} /\ pc'[p] \in Pending
      BY <2>15, <1>0 DEF ApplyPromote, Pending
    <3>2. target[p] \in Refs /\ Rendered(job[p]) = Replacement(p)
      BY <2>15, <1>r DEF ApplyPromote, Replacement, ApplyAt, DeleteAt
    <3>3. Rendered(job[p]) \in Content(target[p])
      BY <2>15, <1>c DEF ApplyPromote, Content, ApplyAt
    <3>4. /\ disk' = [disk EXCEPT ![target[p]] = Rendered(job[p])]
          /\ UNCHANGED <<served, mu, target, backup, base>>
      BY <2>15 DEF ApplyPromote
    <3>. QED  BY <3>1, <3>2, <3>3, <3>4, Opens
  <2>16. CASE ApplyTestUnread(p)
    <3>1. pc[p] \in Inside \ Pending /\ (mu' = NoProc \/ (mu' = mu /\ pc'[p] \notin Pending))
      BY <2>16, <1>0 DEF ApplyTestUnread, Inside, Pending, ApplyAt, DeleteAt
    <3>. QED  BY <2>16, <3>1, Quiet DEF ApplyTestUnread
  <2>. QED
    BY <1>5, <2>1, <2>2, <2>3, <2>4, <2>5, <2>6, <2>7, <2>8, <2>9, <2>10, <2>11, <2>12,
       <2>13, <2>14, <2>15, <2>16 DEF ApplyStep
<1>6. ASSUME NEW p \in Procs, DeleteStep(p) PROVE Store!Next \/ UNCHANGED Store!vars
  <2>1. CASE DeleteMissing(p)
    <3>1. pc[p] \in Inside \ Pending /\ (mu' = NoProc \/ (mu' = mu /\ pc'[p] \notin Pending))
      BY <2>1, <1>0 DEF DeleteMissing, Inside, Pending, ApplyAt, DeleteAt
    <3>. QED  BY <2>1, <3>1, Quiet DEF DeleteMissing
  <2>2. CASE DeleteUnmanaged(p)
    <3>1. pc[p] \in Inside \ Pending /\ (mu' = NoProc \/ (mu' = mu /\ pc'[p] \notin Pending))
      BY <2>2, <1>0 DEF DeleteUnmanaged, Inside, Pending, ApplyAt, DeleteAt
    <3>. QED  BY <2>2, <3>1, Quiet DEF DeleteUnmanaged
  <2>3. CASE DeleteAdmit(p)
    <3>1. pc[p] \in Inside \ Pending /\ (mu' = NoProc \/ (mu' = mu /\ pc'[p] \notin Pending))
      BY <2>3, <1>0 DEF DeleteAdmit, Inside, Pending, ApplyAt, DeleteAt
    <3>. QED  BY <2>3, <3>1, Quiet DEF DeleteAdmit
  <2>4. CASE DeleteStage(p)
    <3>1. pc[p] \in Inside \ Pending /\ (mu' = NoProc \/ (mu' = mu /\ pc'[p] \notin Pending))
      BY <2>4, <1>0 DEF DeleteStage, Inside, Pending, ApplyAt, DeleteAt
    <3>. QED  BY <2>4, <3>1, Quiet DEF DeleteStage
  <2>5. CASE DeleteStageFails(p)
    <3>1. pc[p] \in Inside \ Pending /\ (mu' = NoProc \/ (mu' = mu /\ pc'[p] \notin Pending))
      BY <2>5, <1>0 DEF DeleteStageFails, Inside, Pending, ApplyAt, DeleteAt
    <3>. QED  BY <2>5, <3>1, Quiet DEF DeleteStageFails
  <2>6. CASE DeleteTest(p)
    <3>1. pc[p] \in Inside \ Pending /\ (mu' = NoProc \/ (mu' = mu /\ pc'[p] \notin Pending))
      BY <2>6, <1>0 DEF DeleteTest, Inside, Pending, ApplyAt, DeleteAt
    <3>. QED  BY <2>6, <3>1, Quiet DEF DeleteTest
  <2>7. CASE DeleteTestFails(p)
    <3>1. pc[p] \in Inside \ Pending /\ (mu' = NoProc \/ (mu' = mu /\ pc'[p] \notin Pending))
      BY <2>7, <1>0 DEF DeleteTestFails, Inside, Pending, ApplyAt, DeleteAt
    <3>. QED  BY <2>7, <3>1, Quiet DEF DeleteTestFails
  <2>8. CASE DeleteRemoveFails(p)
    <3>1. pc[p] \in Inside \ Pending /\ (mu' = NoProc \/ (mu' = mu /\ pc'[p] \notin Pending))
      BY <2>8, <1>0 DEF DeleteRemoveFails, Inside, Pending, ApplyAt, DeleteAt
    <3>. QED  BY <2>8, <3>1, Quiet DEF DeleteRemoveFails
  <2>9. CASE DeleteRecord(p)
    <3>1. pc[p] \in Inside \ Pending /\ (mu' = NoProc \/ (mu' = mu /\ pc'[p] \notin Pending))
      BY <2>9, <1>0 DEF DeleteRecord, Inside, Pending, ApplyAt, DeleteAt
    <3>. QED  BY <2>9, <3>1, Quiet DEF DeleteRecord
  <2>10. CASE DeleteReload(p)
    <3>1. pc[p] \in Pending /\ (mu' = NoProc \/ (mu' = mu /\ pc'[p] \notin Pending))
      BY <2>10, <1>0 DEF DeleteReload, Pending
    <3>. QED  BY <2>10, <3>1, Closes DEF DeleteReload, ReloadOk
  <2>11. CASE DeleteRestore(p)
    <3>1. pc[p] \in Pending /\ (mu' = NoProc \/ (mu' = mu /\ pc'[p] \notin Pending))
      BY <2>11, <1>0 DEF DeleteRestore, Pending
    <3>. QED  BY <2>11, <3>1, Closes, RestoredBase DEF DeleteRestore, IInv
  <2>12. CASE DeleteRestoreFails(p)
    <3>1. pc[p] \in Pending /\ (mu' = NoProc \/ (mu' = mu /\ pc'[p] \notin Pending))
      BY <2>12, <1>0 DEF DeleteRestoreFails, Pending
    <3>. QED  BY <2>12, <3>1, Closes DEF DeleteRestoreFails
  <2>13. CASE DeleteReloadFails(p)
    <3>1. pc[p] \in Pending /\ pc'[p] \in Pending
      BY <2>13, <1>0 DEF DeleteReloadFails, Pending
    <3>2. mu = p /\ UNCHANGED <<disk, served, mu, target, backup, base>>
      BY <2>13, <3>1, OpenUndo DEF DeleteReloadFails
    <3>3. Undo' = Undo /\ Kept' = Kept
      BY <3>1, <3>2 DEF Undo, Kept
    <3>. QED  BY <3>2, <3>3 DEF Store!vars
  <2>14. CASE DeleteRemove(p)
    <3>1. pc[p] \in {"a_promote", "d_promote"} /\ pc'[p] \in Pending
      BY <2>14, <1>0 DEF DeleteRemove, Pending
    <3>2. target[p] \in Refs /\ NoFile = Replacement(p)
      BY <2>14, <1>r DEF DeleteRemove, Replacement, ApplyAt, DeleteAt
    <3>3. NoFile \in Content(target[p])
      BY <2>14, <1>c DEF DeleteRemove, Content, ApplyAt
    <3>4. /\ disk' = [disk EXCEPT ![target[p]] = NoFile]
          /\ UNCHANGED <<served, mu, target, backup, base>>
      BY <2>14 DEF DeleteRemove
    <3>. QED  BY <3>1, <3>2, <3>3, <3>4, Opens
  <2>. QED
    BY <1>6, <2>1, <2>2, <2>3, <2>4, <2>5, <2>6, <2>7, <2>8, <2>9, <2>10, <2>11, <2>12,
       <2>13, <2>14 DEF DeleteStep
<1>7. CASE Crash
  <2>1. Undo' = NoTree /\ Kept' = TRUE /\ UNCHANGED <<disk, served>>
    BY <1>7 DEF Crash, Undo, Kept
  <2>2. CASE Undo = NoTree
    BY <2>1, <2>2 DEF Store!vars, Kept
  <2>3. CASE Undo # NoTree
    BY <2>1, <2>3 DEF Store!Next, Store!Close, Store!GiveUp
  <2>. QED  BY <2>2, <2>3
<1>8. CASE UNCHANGED vars
  <2>1. Undo' = Undo /\ Kept' = Kept
    BY <1>8 DEF vars, locals, Undo, Kept
  <2>. QED  BY <1>8, <2>1 DEF vars, Store!vars
<1>. QED
  BY <1>1, <1>2, <1>3, <1>4, <1>5, <1>6, <1>7, <1>8 DEF Next, Work

\* Every behaviour of the listener is one of the transactional store: the
\* goroutines that run runApplyLocked and deleteApp, with their failures and
\* with crashes, change conf.d and nginx as VhostStore allows and no other way.
THEOREM Implements == Spec => StoreSpec
<1>1. Spec => Store!Init
  BY InitStore, PTL DEF Spec
<1>2. Spec => [][Store!Next]_Store!vars
  BY Invariance, StepStore, PTL DEF Spec
<1>. QED  BY <1>1, <1>2, PTL DEF StoreSpec, Store!Spec
=============================================================================
