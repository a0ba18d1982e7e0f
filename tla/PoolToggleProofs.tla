-------------------------- MODULE PoolToggleProofs --------------------------
(***************************************************************************)
(* PoolToggle for any number of handlers, upstreams, backends and seconds. *)
(*                                                                         *)
(* The inductive invariant says what a handler that works alone knows of   *)
(* nginx.conf at each of its steps: it is what it read, then empty, then   *)
(* what it writes, and never anything else.  What a pool was acknowledged  *)
(* for is in all of them, because a request touches its own block only.    *)
(***************************************************************************)
EXTENDS PoolToggle, TLAPS

\* The handler has read the file.
HasRead == At \ {"idle", "read"}

\* The request in hand, and what becomes of the file because of it.
RequestInv(p) ==
  /\ pc[p] # "idle" => acked[pool[p]] = "unknown"
  /\ pc[p] \in HasRead => new[p] = SetPoolDown(original[p], pool[p], want[p])

\* nginx.conf, as a handler that works alone has left it.
ConfInv(p) ==
  /\ pc[p] \in {"backup", "open"} => conf = original[p]
  /\ pc[p] \in {"write", "r_write"} => conf = Empty
  /\ pc[p] \in {"test", "reload", "recheck", "r_open"} => conf = new[p]
  /\ pc[p] = "recheck" => served = conf /\ Whole(conf)
  /\ pc[p] = "r_reload" /\ Whole(conf) => conf \in {original[p], new[p]}

\* A whole file shows what was acknowledged.
Keeps(c) == Whole(c) => \A q \in Pools : acked[q] # "unknown" => Shows(c, q, acked[q])

KeptInv(p) == pc[p] \in HasRead => Keeps(original[p])

Alone ==
  /\ \A p, q \in Procs : (pc[p] # "idle" /\ pc[q] # "idle") => p = q
  /\ Keeps(conf) /\ Keeps(served)
  /\ \A p \in Procs : RequestInv(p) /\ ConfInv(p) /\ KeptInv(p)

AloneInv == ~overlapped => Alone

IInv == FileSound /\ AloneInv

-----------------------------------------------------------------------------
(* The file and its blocks *)

LEMMA Files ==
  /\ Empty \in Confs /\ Broken \in Confs /\ Wholes \subseteq Confs
  /\ ~Whole(Empty) /\ ~Whole(Broken)
  /\ \A c \in Confs : Whole(c) <=> c \in Wholes
BY DEF Empty, Broken, Confs, Wholes, Whole

LEMMA SetPoolDownType ==
  ASSUME NEW c \in Confs, NEW q \in Pools, NEW w \in Wants
  PROVE  SetPoolDown(c, q, w) \in Confs /\ (Whole(SetPoolDown(c, q, w)) <=> Whole(c))
<1>1. CASE Whole(c)
  <2>1. c \in Wholes /\ Of(q) \in SUBSET Backends
    BY <1>1, Files DEF Of
  <2>2. SetPoolDown(c, q, w) \in Wholes
    BY <1>1, <2>1 DEF SetPoolDown, Wholes
  <2>. QED  BY <1>1, <2>2, Files
<1>2. CASE ~Whole(c)
  BY <1>2 DEF SetPoolDown
<1>. QED  BY <1>1, <1>2

\* SetPoolDown does to its pool what it was asked for ...
LEMMA SetPoolDownShows ==
  ASSUME NEW c \in Wholes, NEW q \in Pools, NEW w \in Wants
  PROVE  Shows(SetPoolDown(c, q, w), q, w)
BY DEF SetPoolDown, Shows, Wholes, Whole, Wants

\* ... and to no other: the blocks are disjoint.
LEMMA SetPoolDownSpares ==
  ASSUME NEW c \in Wholes, NEW q \in Pools, NEW w \in Wants,
         NEW r \in Pools, r # q, NEW v, Shows(c, r, v)
  PROVE  Shows(SetPoolDown(c, q, w), r, v)
<1>1. Of(q) \cap Of(r) = {}
  BY DEF Of
<1>. QED  BY <1>1 DEF SetPoolDown, Shows, Wholes, Whole

-----------------------------------------------------------------------------
(* Type correctness *)

LEMMA AnyPoolType == AnyPool \in Pools
BY PoolOfAssumption DEF AnyPool

LEMMA ClockType == 0 \in Clock /\ Clock \subseteq Nat
BY ClockAssumption DEF Clock

LEMMA InitTyped == Init => TypeOK
<1>. SUFFICES ASSUME Init PROVE TypeOK
  OBVIOUS
<1>1. conf \in Confs /\ served \in Wholes
  BY Files DEF Init
<1>2. /\ backups \in [Clock -> Confs \cup {NoBackup}] /\ clock \in Clock
      /\ stamp \in [Procs -> Clock] /\ pool \in [Procs -> Pools]
  BY AnyPoolType, ClockType DEF Init
<1>3. original \in [Procs -> Confs] /\ new \in [Procs -> Confs]
  BY Files DEF Init
<1>4. /\ pc \in [Procs -> At] /\ want \in [Procs -> Wants] /\ answer \in [Procs -> Answers]
      /\ acked \in [Pools -> Wants \cup {"unknown"}]
  BY DEF Init, At, Wants, Answers
<1>5. overlapped \in BOOLEAN /\ excused \in BOOLEAN
  BY DEF Init
<1>. QED  BY <1>1, <1>2, <1>3, <1>4, <1>5 DEF TypeOK

LEMMA StepTyped ==
  ASSUME TypeOK, [Next]_vars
  PROVE  TypeOK'
<1>. USE DEF TypeOK, request, history, Goto, At, Answers, Wants
<1>1. ASSUME NEW p \in Procs, NEW q \in Pools, NEW w \in Wants, Call(p, q, w)
      PROVE  TypeOK'
  BY <1>1, Files, AnyPoolType, ClockType DEF Call
<1>2. ASSUME NEW p \in Procs, Step(p) PROVE TypeOK'
  <2>1. CASE ReadFails(p)
    BY <2>1, Files, AnyPoolType, ClockType DEF ReadFails, Answer
  <2>2. CASE Refuse(p)
    BY <2>2, Files, AnyPoolType, ClockType DEF Refuse, Answer
  <2>3. CASE Noop(p)
    BY <2>3, Files, AnyPoolType, ClockType DEF Noop, Answer
  <2>4. CASE Read(p)
    BY <2>4, SetPoolDownType DEF Read, Wants
  <2>5. CASE Backup(p)
    BY <2>5, Files, AnyPoolType, ClockType DEF Backup
  <2>6. CASE BackupFails(p)
    <3>1. backups' \in [Clock -> Confs \cup {NoBackup}]
      <4>1. PICK c \in {backups[stamp[p]], Empty, Broken} :
                 backups' = [backups EXCEPT ![stamp[p]] = c]
        BY <2>6 DEF BackupFails
      <4>2. c \in Confs \cup {NoBackup}
        BY <4>1, Files
      <4>. QED  BY <4>1, <4>2
    <3>. QED  BY <2>6, <3>1, Files, AnyPoolType, ClockType DEF BackupFails, Answer
  <2>7. CASE Open(p)
    BY <2>7, Files, AnyPoolType, ClockType DEF Open, Truncate
  <2>8. CASE Write(p)
    BY <2>8, Files, AnyPoolType, ClockType DEF Write, Overwrite
  <2>9. CASE WriteFails(p)
    BY <2>9, Files, AnyPoolType, ClockType DEF WriteFails, Answer
  <2>10. CASE Test(p)
    BY <2>10, Files, AnyPoolType, ClockType DEF Test
  <2>11. CASE TestFails(p)
    BY <2>11, Files, AnyPoolType, ClockType DEF TestFails
  <2>12. CASE Reload(p)
    BY <2>12, Files, AnyPoolType, ClockType DEF Reload
  <2>13. CASE ReloadFails(p)
    BY <2>13, Files, AnyPoolType, ClockType DEF ReloadFails
  <2>14. CASE Recheck(p)
    BY <2>14, Files, AnyPoolType, ClockType DEF Recheck, Answer
  <2>15. CASE RecheckFails(p)
    BY <2>15, Files, AnyPoolType, ClockType DEF RecheckFails
  <2>16. CASE RecheckUnreadable(p)
    BY <2>16, Files, AnyPoolType, ClockType DEF RecheckUnreadable, Answer
  <2>17. CASE RestoreOpen(p)
    BY <2>17, Files, AnyPoolType, ClockType DEF RestoreOpen, Truncate
  <2>18. CASE RestoreWrite(p)
    BY <2>18, Files, AnyPoolType, ClockType DEF RestoreWrite, Overwrite
  <2>19. CASE RestoreWriteFails(p)
    BY <2>19, Files, AnyPoolType, ClockType DEF RestoreWriteFails
  <2>20. CASE RestoreReload(p)
    BY <2>20, Files, AnyPoolType, ClockType DEF RestoreReload, Answer
  <2>21. CASE RestoreReloadFails(p)
    BY <2>21, Files, AnyPoolType, ClockType DEF RestoreReloadFails, Answer
  <2>. QED
    BY <1>2, <2>1, <2>2, <2>3, <2>4, <2>5, <2>6, <2>7, <2>8, <2>9, <2>10, <2>11, <2>12, <2>13,
       <2>14, <2>15, <2>16, <2>17, <2>18, <2>19, <2>20, <2>21 DEF Step
<1>3. CASE ApplyReload
  BY <1>3, Files, AnyPoolType, ClockType DEF ApplyReload
<1>4. CASE Crash
  BY <1>4, Files, AnyPoolType, ClockType DEF Crash
<1>5. CASE UNCHANGED vars
  BY <1>5 DEF vars
<1>. QED  BY <1>1, <1>2, <1>3, <1>4, <1>5 DEF Next

-----------------------------------------------------------------------------
(* The file and what nginx runs *)

LEMMA StepServed ==
  ASSUME TypeOK, FileIsServed, [Next]_vars
  PROVE  FileIsServed'
<1>. USE DEF TypeOK, FileIsServed, request, history, Goto
<1>1. ASSUME NEW p \in Procs, NEW q \in Pools, NEW w \in Wants, Call(p, q, w)
      PROVE  FileIsServed'
  BY <1>1 DEF Call
<1>2. ASSUME NEW p \in Procs, Step(p) PROVE FileIsServed'
  <2>1. CASE ReadFails(p)
    BY <2>1 DEF ReadFails, Answer
  <2>2. CASE Refuse(p)
    BY <2>2 DEF Refuse, Answer
  <2>3. CASE Noop(p)
    BY <2>3 DEF Noop, Answer
  <2>4. CASE Read(p)
    BY <2>4 DEF Read
  <2>5. CASE Backup(p)
    BY <2>5 DEF Backup
  <2>6. CASE BackupFails(p)
    BY <2>6 DEF BackupFails, Answer
  <2>7. CASE Open(p)
    BY <2>7 DEF Open, Truncate
  <2>8. CASE Write(p)
    BY <2>8 DEF Write, Overwrite
  <2>9. CASE WriteFails(p)
    BY <2>9 DEF WriteFails, Answer
  <2>10. CASE Test(p)
    BY <2>10 DEF Test
  <2>11. CASE TestFails(p)
    BY <2>11 DEF TestFails
  <2>12. CASE Reload(p)
    BY <2>12 DEF Reload
  <2>13. CASE ReloadFails(p)
    BY <2>13 DEF ReloadFails
  <2>14. CASE Recheck(p)
    BY <2>14 DEF Recheck, Answer
  <2>15. CASE RecheckFails(p)
    BY <2>15 DEF RecheckFails
  <2>16. CASE RecheckUnreadable(p)
    BY <2>16 DEF RecheckUnreadable, Answer
  <2>17. CASE RestoreOpen(p)
    BY <2>17 DEF RestoreOpen, Truncate
  <2>18. CASE RestoreWrite(p)
    BY <2>18 DEF RestoreWrite, Overwrite
  <2>19. CASE RestoreWriteFails(p)
    BY <2>19 DEF RestoreWriteFails
  <2>20. CASE RestoreReload(p)
    BY <2>20 DEF RestoreReload, Answer
  <2>21. CASE RestoreReloadFails(p)
    BY <2>21 DEF RestoreReloadFails, Answer
  <2>. QED
    BY <1>2, <2>1, <2>2, <2>3, <2>4, <2>5, <2>6, <2>7, <2>8, <2>9, <2>10, <2>11, <2>12, <2>13,
       <2>14, <2>15, <2>16, <2>17, <2>18, <2>19, <2>20, <2>21 DEF Step
<1>3. CASE ApplyReload
  BY <1>3 DEF ApplyReload
<1>4. CASE Crash
  BY <1>4 DEF Crash
<1>5. CASE UNCHANGED vars
  BY <1>5 DEF vars
<1>. QED  BY <1>1, <1>2, <1>3, <1>4, <1>5 DEF Next

-----------------------------------------------------------------------------
(* A handler that works alone *)

\* What a handler writes keeps what was acknowledged for the other pools, and shows what
\* was asked for its own.
LEMMA NewKeeps ==
  ASSUME TypeOK, NEW p \in Procs, pc[p] \in HasRead, RequestInv(p), KeptInv(p)
  PROVE  Keeps(new[p]) /\ (Whole(new[p]) => Shows(new[p], pool[p], want[p]))
<1>1. /\ original[p] \in Confs /\ pool[p] \in Pools /\ want[p] \in Wants
      /\ new[p] = SetPoolDown(original[p], pool[p], want[p]) /\ acked[pool[p]] = "unknown"
  BY DEF TypeOK, RequestInv, HasRead, At
<1>2. Whole(new[p]) => original[p] \in Wholes
  BY <1>1, SetPoolDownType, Files
<1>3. ASSUME Whole(new[p]), NEW q \in Pools, acked[q] # "unknown"
      PROVE  Shows(new[p], q, acked[q])
  BY <1>1, <1>2, <1>3, Files, SetPoolDownSpares DEF KeptInv, Keeps
<1>4. Whole(new[p]) => Shows(new[p], pool[p], want[p])
  BY <1>1, <1>2, SetPoolDownShows
<1>. QED  BY <1>3, <1>4 DEF Keeps

LEMMA StepBackup ==
  ASSUME TypeOK, AloneInv, BackupBeforeDamage, [Next]_vars
  PROVE  BackupBeforeDamage'
<1>. USE DEF TypeOK, AloneInv, Alone, BackupBeforeDamage, request, history, Goto
<1>1. ASSUME NEW p \in Procs, NEW q \in Pools, NEW w \in Wants, Call(p, q, w)
      PROVE  BackupBeforeDamage'
  BY <1>1 DEF Call
<1>2. ASSUME NEW p \in Procs, Step(p) PROVE BackupBeforeDamage'
  <2>1. CASE ReadFails(p)
    BY <2>1 DEF ReadFails, Answer
  <2>2. CASE Refuse(p)
    BY <2>2 DEF Refuse, Answer
  <2>3. CASE Noop(p)
    BY <2>3 DEF Noop, Answer
  <2>4. CASE Read(p)
    BY <2>4 DEF Read
  <2>5. CASE Backup(p)
    BY <2>5 DEF Backup
  <2>6. CASE BackupFails(p)
    BY <2>6 DEF BackupFails, Answer
  <2>7. CASE Open(p)
    BY <2>7 DEF Open, Truncate
  <2>8. CASE Write(p)
    BY <2>8 DEF Write, Overwrite
  <2>9. CASE WriteFails(p)
    BY <2>9 DEF WriteFails, Answer
  <2>10. CASE Test(p)
    BY <2>10 DEF Test
  <2>11. CASE TestFails(p)
    BY <2>11 DEF TestFails
  <2>12. CASE Reload(p)
    BY <2>12 DEF Reload
  <2>13. CASE ReloadFails(p)
    BY <2>13 DEF ReloadFails
  <2>14. CASE Recheck(p)
    BY <2>14 DEF Recheck, Answer
  <2>15. CASE RecheckFails(p)
    BY <2>15 DEF RecheckFails
  <2>16. CASE RecheckUnreadable(p)
    BY <2>16 DEF RecheckUnreadable, Answer
  <2>17. CASE RestoreOpen(p)
    BY <2>17 DEF RestoreOpen, Truncate
  <2>18. CASE RestoreWrite(p)
    BY <2>18 DEF RestoreWrite, Overwrite
  <2>19. CASE RestoreWriteFails(p)
    BY <2>19 DEF RestoreWriteFails
  <2>20. CASE RestoreReload(p)
    BY <2>20 DEF RestoreReload, Answer
  <2>21. CASE RestoreReloadFails(p)
    BY <2>21 DEF RestoreReloadFails, Answer
  <2>. QED
    BY <1>2, <2>1, <2>2, <2>3, <2>4, <2>5, <2>6, <2>7, <2>8, <2>9, <2>10, <2>11, <2>12, <2>13,
       <2>14, <2>15, <2>16, <2>17, <2>18, <2>19, <2>20, <2>21 DEF Step
<1>3. CASE ApplyReload
  BY <1>3 DEF ApplyReload
<1>4. CASE Crash
  BY <1>4 DEF Crash
<1>5. CASE UNCHANGED vars
  BY <1>5 DEF vars
<1>. QED  BY <1>1, <1>2, <1>3, <1>4, <1>5 DEF Next

LEMMA StepAlone ==
  ASSUME TypeOK, AloneInv, [Next]_vars
  PROVE  AloneInv'
<1>. USE DEF TypeOK, AloneInv, Alone, RequestInv, ConfInv, KeptInv, Keeps, HasRead, At, request,
       history, Goto
<1>1. ASSUME NEW p \in Procs, NEW q \in Pools, NEW w \in Wants, Call(p, q, w)
      PROVE  AloneInv'
  <2>. SUFFICES ASSUME ~overlapped' PROVE Alone'
    OBVIOUS
  <2>1. ~overlapped /\ \A o \in Procs : pc[o] = "idle"
    BY <1>1, Zenon DEF Call
  <2>2. \A o \in Procs : o # p => pc'[o] = "idle"
    BY <1>1, <2>1 DEF Call
  <2>3. pc'[p] = "read" /\ acked'[pool'[p]] = "unknown"
    BY <1>1 DEF Call
  <2>4. Keeps(conf)' /\ Keeps(served)'
    BY <1>1, <2>1 DEF Call
  <2>. QED  BY <2>2, <2>3, <2>4
<1>2. ASSUME NEW p \in Procs, Step(p) PROVE AloneInv'
  <2>1. CASE ReadFails(p)
    BY <2>1, Files DEF ReadFails, Answer
  <2>2. CASE Refuse(p)
    BY <2>2, Files DEF Refuse, Answer
  <2>3. CASE Noop(p)
    BY <2>3, Files DEF Noop, Answer
  <2>4. CASE Read(p)
    BY <2>4, Files DEF Read
  <2>5. CASE Backup(p)
    BY <2>5, Files DEF Backup
  <2>6. CASE BackupFails(p)
    BY <2>6, Files DEF BackupFails, Answer
  <2>7. CASE Open(p)
    BY <2>7, Files DEF Open, Truncate
  <2>8. CASE Write(p)
    BY <2>8, Files, NewKeeps DEF Write, Overwrite
  <2>9. CASE WriteFails(p)
    BY <2>9, Files DEF WriteFails, Answer
  <2>10. CASE Test(p)
    BY <2>10, Files DEF Test
  <2>11. CASE TestFails(p)
    BY <2>11, Files DEF TestFails
  <2>12. CASE Reload(p)
    BY <2>12, Files DEF Reload
  <2>13. CASE ReloadFails(p)
    BY <2>13, Files DEF ReloadFails
  <2>14. CASE Recheck(p)
    BY <2>14, Files, NewKeeps DEF Recheck, Answer
  <2>15. CASE RecheckFails(p)
    BY <2>15, Files DEF RecheckFails
  <2>16. CASE RecheckUnreadable(p)
    BY <2>16, Files DEF RecheckUnreadable, Answer
  <2>17. CASE RestoreOpen(p)
    BY <2>17, Files DEF RestoreOpen, Truncate
  <2>18. CASE RestoreWrite(p)
    BY <2>18, Files DEF RestoreWrite, Overwrite
  <2>19. CASE RestoreWriteFails(p)
    BY <2>19, Files, NewKeeps DEF RestoreWriteFails
  <2>20. CASE RestoreReload(p)
    BY <2>20, Files DEF RestoreReload, Answer
  <2>21. CASE RestoreReloadFails(p)
    BY <2>21, Files DEF RestoreReloadFails, Answer
  <2>. QED
    BY <1>2, <2>1, <2>2, <2>3, <2>4, <2>5, <2>6, <2>7, <2>8, <2>9, <2>10, <2>11, <2>12, <2>13,
       <2>14, <2>15, <2>16, <2>17, <2>18, <2>19, <2>20, <2>21 DEF Step
<1>3. CASE ApplyReload
  BY <1>3, Files DEF ApplyReload
<1>4. CASE Crash
  BY <1>4, Files DEF Crash
<1>5. CASE UNCHANGED vars
  BY <1>5 DEF vars
<1>. QED  BY <1>1, <1>2, <1>3, <1>4, <1>5 DEF Next

-----------------------------------------------------------------------------
(* The theorems *)

LEMMA InitInv == Init => IInv
<1>. SUFFICES ASSUME Init PROVE IInv
  OBVIOUS
<1>1. TypeOK
  BY InitTyped
<1>2. BackupBeforeDamage /\ FileIsServed
  BY DEF Init, BackupBeforeDamage, FileIsServed
<1>3. AloneInv
  BY DEF Init, AloneInv, Alone, RequestInv, ConfInv, KeptInv, Keeps, HasRead
<1>. QED  BY <1>1, <1>2, <1>3 DEF IInv, FileSound

LEMMA StepInv == IInv /\ [Next]_vars => IInv'
BY StepTyped, StepServed, StepBackup, StepAlone DEF IInv, FileSound

LEMMA Invariance == Spec => []IInv
<1>. QED  BY InitInv, StepInv, PTL DEF Spec

\* handlePool: whatever handlers, reloads of applies and crashes do, a handler that works
\* alone has a copy of the file before it harms it, and a file nobody works on is the one
\* nginx has loaded unless a caller was told otherwise.
THEOREM Sound == Spec => []FileSound
<1>1. IInv => FileSound
  BY DEF IInv
<1>. QED  BY Invariance, <1>1, PTL

\* handlePool: a change that was answered 200 is in nginx.conf and in what nginx runs
\* until the next request for the same pool, as long as toggles do not overlap.
THEOREM Acked == Spec => []AckedHolds
<1>1. IInv => AckedHolds
  <2>. SUFFICES ASSUME IInv, ~overlapped, NEW q \in Pools, acked[q] # "unknown"
                PROVE  AckedIn(q)
    BY DEF AckedHolds
  <2>1. Keeps(conf) /\ Keeps(served) /\ Whole(served)
    BY Files DEF IInv, FileSound, TypeOK, AloneInv, Alone
  <2>. QED  BY <2>1 DEF Keeps, AckedIn
<1>. QED  BY Invariance, <1>1, PTL

\* The action of RestoredIsLoaded.
Loaded ==
  \A p \in Procs : Answered(p, {"restored"}) =>
    served' = conf' /\ (overlapped \/ conf' \in {original[p], new[p]})

\* Only the reload of a restore answers "restored".
LEMMA WhoRestores ==
  ASSUME TypeOK, NEW p \in Procs, Next, Answered(p, {"restored"})
  PROVE  RestoreReload(p)
<1>. USE DEF TypeOK, Answered, Goto
<1>1. ASSUME NEW q \in Procs, NEW r \in Pools, NEW w \in Wants, Call(q, r, w)
      PROVE  FALSE
  BY <1>1 DEF Call
<1>2. ASSUME NEW q \in Procs, Step(q) PROVE RestoreReload(p)
  BY <1>2 DEF Step, ReadFails, Refuse, Noop, Read, Backup, BackupFails, Open, RestoreOpen,
     Truncate, Write, WriteFails, Test, TestFails, Reload, ReloadFails, Recheck,
     RecheckFails, RecheckUnreadable, RestoreWrite, RestoreWriteFails, RestoreReload,
     RestoreReloadFails, Answer
<1>3. CASE ApplyReload \/ Crash
  BY <1>3 DEF ApplyReload, Crash
<1>. QED  BY <1>1, <1>2, <1>3 DEF Next

\* handlePool, restore: an answer "restored": true says that nginx has loaded the file on
\* disk, which without overlapping toggles is the one the handler found or its own.
THEOREM Restored == Spec => RestoredIsLoaded
<1>1. IInv /\ [Next]_vars => [Loaded]_vars
  <2>. SUFFICES ASSUME IInv, Next, NEW p \in Procs, Answered(p, {"restored"})
                PROVE  served' = conf' /\ (overlapped \/ conf' \in {original[p], new[p]})
    BY DEF Loaded
  <2>1. RestoreReload(p)
    BY WhoRestores DEF IInv, FileSound
  <2>2. served' = conf /\ conf' = conf /\ pc[p] = "r_reload" /\ Whole(conf)
    BY <2>1 DEF RestoreReload
  <2>3. ~overlapped => conf \in {original[p], new[p]}
    BY <2>2 DEF IInv, AloneInv, Alone, ConfInv
  <2>. QED  BY <2>2, <2>3
<1>. QED  BY Invariance, <1>1, PTL DEF Spec, RestoredIsLoaded, Loaded
=============================================================================
