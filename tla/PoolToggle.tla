----------------------------- MODULE PoolToggle -----------------------------
(***************************************************************************)
(* POST /v1/pool, internal/lbserver/pool.go with internal/nginx/           *)
(* pooltoggle.go: take the backends of one upstream of the hand-written    *)
(* nginx.conf out of rotation, or give them back.                          *)
(*                                                                         *)
(* A whole nginx.conf is the set of backends marked `down` in it; the rest *)
(* of the file never changes.  os.WriteFile truncates and then writes, so  *)
(* the file can also be Empty (between the two) or Broken (a short write,  *)
(* or two writes that overlap); nginx loads neither.  The handler takes no *)
(* lock: every access to the file is an action of its own.                 *)
(***************************************************************************)
EXTENDS Naturals

CONSTANTS
  Procs,    \* request goroutines inside handlePool
  Pools,    \* upstream names a request may carry
  Backends, \* `server` directives of the file
  PoolOf,   \* the upstream block each backend is in
  MaxClock  \* bound on the seconds that pass between requests

Wants == {"up", "down"}
Clock == 0..MaxClock

Wholes   == [state : {"whole"}, down : SUBSET Backends]
Empty    == [state |-> "empty", down |-> {}]
Broken   == [state |-> "broken", down |-> {}]
NoBackup == [state |-> "absent", down |-> {}]
Confs    == Wholes \cup {Empty, Broken}
Whole(c) == c.state = "whole"

ASSUME PoolOfAssumption == PoolOf \in [Backends -> Pools] /\ Pools # {}
ASSUME ClockAssumption  == MaxClock \in Nat

VARIABLES
  conf,     \* nginx.conf
  served,   \* the configuration of nginx's last successful reload
  backups,  \* .nginx.conf.bak-<second>
  clock,    \* the second of the last request
  pc, pool, want, stamp, \* per goroutine: position, request, its `now`
  original, \* the file as the goroutine read it
  new,      \* res.Config, what it writes
  answer,   \* the HTTP answer of a goroutine that is done
  acked,    \* history: the state last answered 200 for a pool and not
            \* asked about since
  overlapped, \* history: two handlers have been active at the same time
  excused   \* history: since the last successful reload a call was answered
            \* with a failed write or a failed restore, or the process died

request == <<pool, want, stamp>>
history == <<acked, overlapped, excused>>
vars    == <<conf, served, backups, clock, pc, request, original, new, answer, history>>

At      == {"idle", "read", "backup", "open", "write", "test", "reload", "recheck",
            "r_open", "r_write", "r_reload"}
Answers == {"none", "ok", "noop", "invalid", "error", "restored", "not_restored"}

TypeOK ==
  /\ conf \in Confs /\ served \in Wholes
  /\ backups \in [Clock -> Confs \cup {NoBackup}]
  /\ clock \in Clock
  /\ pc \in [Procs -> At] /\ pool \in [Procs -> Pools] /\ want \in [Procs -> Wants]
  /\ stamp \in [Procs -> Clock]
  /\ original \in [Procs -> Confs] /\ new \in [Procs -> Confs]
  /\ answer \in [Procs -> Answers]
  /\ acked \in [Pools -> Wants \cup {"unknown"}]
  /\ overlapped \in BOOLEAN /\ excused \in BOOLEAN

\* The request fields of an idle goroutine, which mean nothing.
AnyPool == CHOOSE q \in Pools : TRUE

\* Any backends may be down when the listener starts.
Init ==
  /\ conf \in Wholes /\ served = conf
  /\ backups = [t \in Clock |-> NoBackup]
  /\ clock = 0
  /\ acked = [q \in Pools |-> "unknown"]
  /\ overlapped = FALSE /\ excused = FALSE
  /\ pc = [p \in Procs |-> "idle"]
  /\ pool = [p \in Procs |-> AnyPool] /\ want = [p \in Procs |-> "up"]
  /\ stamp = [p \in Procs |-> 0]
  /\ original = [p \in Procs |-> Empty] /\ new = [p \in Procs |-> Empty]
  /\ answer = [p \in Procs |-> "none"]

-----------------------------------------------------------------------------
(* internal/nginx/pooltoggle.go *)

Of(q) == {b \in Backends : PoolOf[b] = q}

\* Mutant of SetPoolDown: the walk runs past the end of the block.
SetPoolDownPastBlock(c, q, w) ==
  [c EXCEPT !.down = IF w = "down" THEN c.down \cup Of(q) ELSE {}]

\* The new contents.  A block of a Broken file can be complete and is then
\* edited in place; the file stays as broken as it was.
SetPoolDown(c, q, w) ==
  IF ~Whole(c) THEN c
  ELSE [c EXCEPT !.down = IF w = "down" THEN c.down \cup Of(q) ELSE c.down \ Of(q)]

\* The block is missing, not closed, or has no server directive; in a Broken
\* file it may or may not be found.
CanFind(c, q) == c # Empty /\ Of(q) # {}
CanMiss(c, q) == ~Whole(c) \/ Of(q) = {}

PoolIsDown(c, q) == Of(q) \subseteq c.down

-----------------------------------------------------------------------------
(* handlePool *)

Goto(p, l) == pc' = [pc EXCEPT ![p] = l]

\* writeJSON and return: the goroutine's locals are gone, another request may come.
Answer(p, a) ==
  /\ Goto(p, "idle")
  /\ answer' = [answer EXCEPT ![p] = a]
  /\ pool' = [pool EXCEPT ![p] = AnyPool] /\ want' = [want EXCEPT ![p] = "up"]
  /\ stamp' = [stamp EXCEPT ![p] = 0]
  /\ original' = [original EXCEPT ![p] = Empty] /\ new' = [new EXCEPT ![p] = Empty]

\* Authenticated, decoded: `now` names the backup.  Requests come in the same
\* second or a later one.
Call(p, q, w) ==
  /\ pc[p] = "idle"
  /\ Goto(p, "read")
  /\ clock' \in {clock, clock + 1} \cap Clock
  /\ pool'  = [pool EXCEPT ![p] = q]
  /\ want'  = [want EXCEPT ![p] = w]
  /\ stamp' = [stamp EXCEPT ![p] = clock']
  /\ acked' = [acked EXCEPT ![q] = "unknown"]
  /\ overlapped' = (overlapped \/ \E o \in Procs : pc[o] # "idle")
  /\ answer' = [answer EXCEPT ![p] = "none"]
  /\ UNCHANGED <<conf, served, backups, original, new, excused>>

ReadFails(p) ==
  /\ pc[p] = "read"
  /\ Answer(p, "error")
  /\ UNCHANGED <<conf, served, backups, clock, history>>

\* SetPoolDown returns an error.
Refuse(p) ==
  /\ pc[p] = "read" /\ CanMiss(conf, pool[p])
  /\ Answer(p, "invalid")
  /\ UNCHANGED <<conf, served, backups, clock, history>>

\* res.Changed == 0
Noop(p) ==
  /\ pc[p] = "read" /\ CanFind(conf, pool[p])
  /\ SetPoolDown(conf, pool[p], want[p]) = conf
  /\ Answer(p, "noop")
  /\ UNCHANGED <<conf, served, backups, clock, history>>

Read(p) ==
  /\ pc[p] = "read" /\ CanFind(conf, pool[p])
  /\ SetPoolDown(conf, pool[p], want[p]) # conf \/ conf = Broken
  /\ original' = [original EXCEPT ![p] = conf]
  /\ new' = [new EXCEPT ![p] = SetPoolDown(conf, pool[p], want[p])]
  /\ Goto(p, "backup")
  /\ UNCHANGED <<conf, served, backups, clock, request, answer, history>>

\* Mutant of Backup: the copy is left for later.
BackupLater(p) ==
  /\ pc[p] = "backup"
  /\ Goto(p, "open")
  /\ UNCHANGED <<conf, served, backups, clock, request, original, new, answer, history>>

Backup(p) ==
  /\ pc[p] = "backup"
  /\ backups' = [backups EXCEPT ![stamp[p]] = original[p]]
  /\ Goto(p, "open")
  /\ UNCHANGED <<conf, served, clock, request, original, new, answer, history>>

\* The copy cannot be created, or only a part of it can be written.
BackupFails(p) ==
  /\ pc[p] = "backup"
  /\ \E c \in {backups[stamp[p]], Empty, Broken} :
       backups' = [backups EXCEPT ![stamp[p]] = c]
  /\ Answer(p, "error")
  /\ UNCHANGED <<conf, served, clock, history>>

\* os.WriteFile(mainConf): the truncation ...
Truncate(p, from, to) ==
  /\ pc[p] = from
  /\ conf' = Empty
  /\ Goto(p, to)
  /\ UNCHANGED <<served, backups, clock, request, original, new, answer, history>>

\* ... and the write at offset 0, which leaves the tail of what another
\* goroutine has written since the truncation.
Overwrite(c) == conf' = c \/ (conf # Empty /\ conf' = Broken)

Open(p) == Truncate(p, "open", "write")

Write(p) ==
  /\ pc[p] = "write"
  /\ Overwrite(new[p])
  /\ Goto(p, "test")
  /\ UNCHANGED <<served, backups, clock, request, original, new, answer, history>>

\* os.WriteFile fails, before or after the truncation: the backup is removed.
WriteFails(p) ==
  /\ pc[p] \in {"open", "write"}
  /\ conf' \in {conf} \cup {c \in {Broken} : pc[p] = "write"}
  /\ backups' = [backups EXCEPT ![stamp[p]] = NoBackup]
  /\ Answer(p, "error")
  /\ excused' = TRUE /\ UNCHANGED <<acked, overlapped>>
  /\ UNCHANGED <<served, clock>>

\* `nginx -t` accepts the file, or could not run in the sandbox.
Test(p) ==
  /\ pc[p] = "test"
  /\ Goto(p, "reload")
  /\ UNCHANGED <<conf, served, backups, clock, request, original, new, answer, history>>

TestFails(p) ==
  /\ pc[p] = "test"
  /\ Goto(p, "r_open")
  /\ UNCHANGED <<conf, served, backups, clock, request, original, new, answer, history>>

Reload(p) ==
  /\ pc[p] = "reload" /\ Whole(conf)
  /\ served' = conf
  /\ excused' = FALSE /\ UNCHANGED <<acked, overlapped>>
  /\ Goto(p, "recheck")
  /\ UNCHANGED <<conf, backups, clock, request, original, new, answer>>

\* Mutant of ReloadFails: the error is logged and the handler goes on.
ReloadFailsIgnored(p) ==
  /\ pc[p] = "reload"
  /\ Goto(p, "recheck")
  /\ UNCHANGED <<conf, served, backups, clock, request, original, new, answer, history>>

ReloadFails(p) ==
  /\ pc[p] = "reload"
  /\ Goto(p, "r_open")
  /\ UNCHANGED <<conf, served, backups, clock, request, original, new, answer, history>>

\* Step 5: the file read again shows the state asked for.
Recheck(p) ==
  /\ pc[p] = "recheck" /\ CanFind(conf, pool[p])
  /\ Whole(conf) => (PoolIsDown(conf, pool[p]) <=> want[p] = "down")
  /\ Answer(p, "ok")
  /\ acked' = [acked EXCEPT ![pool[p]] = want[p]]
  /\ UNCHANGED <<conf, served, backups, clock, overlapped, excused>>

RecheckFails(p) ==
  /\ pc[p] = "recheck"
  /\ Whole(conf) => ~(PoolIsDown(conf, pool[p]) <=> want[p] = "down")
  /\ Goto(p, "r_open")
  /\ UNCHANGED <<conf, served, backups, clock, request, original, new, answer, history>>

RecheckUnreadable(p) ==
  /\ pc[p] = "recheck"
  /\ Answer(p, "error")
  /\ UNCHANGED <<conf, served, backups, clock, history>>

\* restore: the original is written back, the error of the write discarded.
RestoreOpen(p) == Truncate(p, "r_open", "r_write")

RestoreWrite(p) ==
  /\ pc[p] = "r_write"
  /\ Overwrite(original[p])
  /\ Goto(p, "r_reload")
  /\ UNCHANGED <<served, backups, clock, request, original, new, answer, history>>

RestoreWriteFails(p) ==
  /\ pc[p] \in {"r_open", "r_write"}
  /\ conf' \in {conf} \cup {c \in {Broken} : pc[p] = "r_write"}
  /\ Goto(p, "r_reload")
  /\ UNCHANGED <<served, backups, clock, request, original, new, answer, history>>

RestoreReload(p) ==
  /\ pc[p] = "r_reload" /\ Whole(conf)
  /\ served' = conf
  /\ excused' = FALSE /\ UNCHANGED <<acked, overlapped>>
  /\ Answer(p, "restored")
  /\ UNCHANGED <<conf, backups, clock>>

\* Mutant of RestoreReloadFails: "restored" is not taken back.
RestoreReloadFailsSilently(p) ==
  /\ pc[p] = "r_reload"
  /\ Answer(p, "restored")
  /\ excused' = TRUE /\ UNCHANGED <<acked, overlapped>>
  /\ UNCHANGED <<conf, served, backups, clock>>

RestoreReloadFails(p) ==
  /\ pc[p] = "r_reload"
  /\ Answer(p, "not_restored")
  /\ excused' = TRUE /\ UNCHANGED <<acked, overlapped>>
  /\ UNCHANGED <<conf, served, backups, clock>>

\* The process dies and is started again.
Crash ==
  /\ pc' = [p \in Procs |-> "idle"]
  /\ answer' = [p \in Procs |-> "none"]
  /\ pool' = [p \in Procs |-> AnyPool]
  /\ want' = [p \in Procs |-> "up"]
  /\ stamp' = [p \in Procs |-> 0]
  /\ original' = [p \in Procs |-> Empty]
  /\ new' = [p \in Procs |-> Empty]
  /\ excused' = TRUE /\ UNCHANGED <<acked, overlapped>>
  /\ UNCHANGED <<conf, served, backups, clock>>

\* An apply or a delete reloads nginx (runApplyLocked, deleteApp): it holds Server.mu,
\* which handlePool does not take, and so loads nginx.conf as it finds it.  One that
\* finds it damaged fails and is reverted, which changes nothing here.
ApplyReload ==
  /\ Whole(conf)
  /\ served' = conf
  /\ excused' = FALSE /\ UNCHANGED <<acked, overlapped>>
  /\ UNCHANGED <<conf, backups, clock, pc, request, original, new, answer>>

Step(p) ==
  \/ ReadFails(p) \/ Refuse(p) \/ Noop(p) \/ Read(p) \/ Backup(p) \/ BackupFails(p)
  \/ Open(p) \/ Write(p) \/ WriteFails(p) \/ Test(p) \/ TestFails(p)
  \/ Reload(p) \/ ReloadFails(p)
  \/ Recheck(p) \/ RecheckFails(p) \/ RecheckUnreadable(p)
  \/ RestoreOpen(p) \/ RestoreWrite(p) \/ RestoreWriteFails(p)
  \/ RestoreReload(p) \/ RestoreReloadFails(p)

Next ==
  \/ \E p \in Procs, q \in Pools, w \in Wants : Call(p, q, w)
  \/ \E p \in Procs : Step(p)
  \/ ApplyReload
  \/ Crash

Spec == Init /\ [][Next]_vars
-----------------------------------------------------------------------------
(* Properties *)

\* Every backend of q is in the state w.
Shows(c, q, w) == IF w = "down" THEN Of(q) \subseteq c.down
                                ELSE Of(q) \cap c.down = {}

AckedIn(q) == /\ Whole(conf) => Shows(conf, q, acked[q])
              /\ Shows(served, q, acked[q])

\* As long as toggles come one after the other, a change that was answered 200 is
\* in nginx.conf, and in what nginx serves, until the next request for the same
\* pool: no request for another pool, no failure, restore or restart undoes it.
\* (A nginx.conf that is not whole is the business of BackupBeforeDamage.)
AckedHolds == ~overlapped => \A q \in Pools : acked[q] # "unknown" => AckedIn(q)

\* From before the moment nginx.conf is truncated until the handler is done
\* with it, the backup it will name holds what it read, as long as toggles come
\* one after the other: a crash at any of these points leaves a copy beside the
\* file.
BackupBeforeDamage ==
  ~overlapped => \A p \in Procs :
    pc[p] \in {"open", "write", "test", "reload", "recheck", "r_open", "r_write",
               "r_reload"} => backups[stamp[p]] = original[p]

\* Handlers that overlap still agree on what nginx runs: unless a caller was told
\* of a failed write or restore, or the process died, the file on disk is the one
\* nginx has loaded whenever no handler is between its write and its reload.
FileIsServed ==
  conf # served => excused \/ \E p \in Procs : pc[p] \in
    {"write", "test", "reload", "r_open", "r_write", "r_reload"}

\* nginx.conf at any moment of handlePool: there is a copy of it before it is harmed, and
\* once nobody works on it nginx runs it.
FileSound == TypeOK /\ BackupBeforeDamage /\ FileIsServed

Answered(p, as) == answer[p] = "none" /\ answer'[p] \in as

\* An answer "restored": true is never given for a file nginx did not load: it
\* serves the file on disk, which without overlapping toggles is the original or
\* (the write-back failed) the one that was to replace it.
RestoredIsLoaded ==
  [][\A p \in Procs : Answered(p, {"restored"}) =>
        served' = conf' /\ (overlapped \/ conf' \in {original[p], new[p]})]_vars

-----------------------------------------------------------------------------
(* What comments of the code say and the code does not do. *)

\* pool.go: the last step reads the file again and checks "que a mudança está
\* lá" before it answers 200, and only a request for the pool changes it after.
AckedStays == \A q \in Pools : acked[q] # "unknown" => AckedIn(q)

\* pool.go: "o pool já estava nesse estado" - the pool nginx runs with was in
\* the state already.
NoopIsServed ==
  [][\A p \in Procs : Answered(p, {"noop"}) /\ Whole(conf)
        => Shows(served, pool[p], want[p])]_vars

=============================================================================
