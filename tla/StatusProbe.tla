---------------------------- MODULE StatusProbe ----------------------------
(***************************************************************************)
(* GET /v1/status and GET /v1/dump while conf.d changes under them:        *)
(* statusApps and confDirFiles scan the directory, upstreamHealthy probes  *)
(* backends through a cache, and RealRunner.Test runs nginx -t with a      *)
(* wrapper, a scratch directory and a pid file inside conf.d itself.  None *)
(* of it takes Server.mu.  A revert of the apply pipeline also calls Test  *)
(* on conf.d and drops the answer (kind "revert").                         *)
(*                                                                         *)
(* Files, backends and nginx are external: conf.d changes by whole files   *)
(* (WriteAtomic, os.Remove), backends come and go.                         *)
(***************************************************************************)
EXTENDS Naturals

CONSTANTS
  Requests,   \* goroutines of net/http
  Refs, Hosts,
  Down,       \* backends the configuration itself marks down
  NoFile, NoEntry,
  TTL,        \* HealthCacheTTL
  Dial,       \* HealthDialTimeout
  MaxRev, MaxTime, MaxChanges, MaxStarts \* bounds

ASSUME BoundsAssumption ==
  {Dial, MaxRev, MaxTime, MaxChanges, MaxStarts} \subseteq Nat /\ TTL \in Nat \ {0}
ASSUME DownAssumption == Down \subseteq Hosts

File   == [rev : 1..MaxRev, host : Hosts]
Idle   == [pc |-> "idle", kind |-> "status", todo |-> {}, probes |-> [h \in Hosts |-> NoEntry],
           apps |-> [r \in Refs |-> NoFile], health |-> [h \in Hosts |-> NoEntry], verdict |-> FALSE]

Entries == [healthy : BOOLEAN, at : 0..MaxTime]
Probes  == [at : 0..MaxTime, step : {"lookup", "dial", "store"}, up : BOOLEAN]
ASSUME NoneAssumption == NoFile \notin File /\ NoEntry \notin Entries \cup Probes

VARIABLES
  now,
  disk,      \* conf.d: Refs -> File or NoFile
  valid,     \* nginx would take the files of conf.d as they are
  alive,     \* which backends accept a connection
  changes,   \* what has changed or failed so far
  starts,
  healthMu,  \* the lock is held
  cache,     \* healthCache
  wrapper,   \* .nginx-test.conf: "absent", "empty", "full", or "left" by a failed write
  tmp,       \* the scratch directory exists
  req,       \* Requests -> what a handler has in its hands
  rows,      \* the names confDirFiles puts into its answer
  unlisted,  \* os.ReadDir failed: the dump says so, /v1/status does not
  unread,    \* history: the files that were there and could not be read
  was,       \* history: when a backend was last seen up, and down
  witness,   \* history: what each file has been since the request began
  alone,     \* history: no other Test overlapped this request's
  told       \* history: what nginx would have said since the request began

world == <<disk, valid, alive>>
reading == <<rows, unlisted, unread>>
files == <<wrapper, tmp>>
past  == <<was, witness, alone, told>>
vars  == <<now, world, changes, starts, reading, healthMu, cache, files, req, past>>

TestPcs == {"fill", "mkdir", "read", "scratch", "rmtmp", "rmwrapper"}

TypeOK ==
  /\ now \in 0..MaxTime /\ changes \in 0..MaxChanges /\ starts \in 0..MaxStarts
  /\ disk \in [Refs -> File \cup {NoFile}]
  /\ alive \in [Hosts -> BOOLEAN] /\ healthMu \in BOOLEAN
  /\ cache \in [Hosts -> Entries \cup {NoEntry}]
  /\ wrapper \in {"absent", "empty", "full", "left"} /\ {valid, tmp} \subseteq BOOLEAN
  /\ \A q \in Requests :
       /\ req[q].pc \in {"idle", "list", "scan", "probe", "dump", "test", "done"} \cup TestPcs
       /\ req[q].todo \subseteq Refs
       /\ req[q].apps \in [Refs -> File \cup {NoFile}]
  /\ {rows, unread} \subseteq [Requests -> SUBSET Refs] /\ unlisted \in [Requests -> BOOLEAN]

\* A fresh host, or one with a file for every app.
Init ==
  /\ now = 0 /\ changes = 0 /\ starts = 0 /\ healthMu = FALSE
  /\ \E start \in {{NoFile}, {f \in File : f.rev = 1}} : disk \in [Refs -> start]
  /\ valid = TRUE /\ alive = [h \in Hosts |-> TRUE]
  /\ cache = [h \in Hosts |-> NoEntry]
  /\ wrapper = "absent" /\ tmp = FALSE
  /\ req = [q \in Requests |-> Idle]
  /\ rows = [q \in Requests |-> {}] /\ unread = rows /\ unlisted = [q \in Requests |-> FALSE]
  /\ was = [h \in Hosts |-> [v \in BOOLEAN |-> 0]]
  /\ witness = [q \in Requests |-> [r \in Refs |-> {}]]
  /\ alone = [q \in Requests |-> TRUE] /\ told = [q \in Requests |-> {}]

\* A probe of upstreamHealthy: when its goroutine read the clock, how far it is, and
\* what the dial found.
Probe == [at |-> now, step |-> "lookup", up |-> FALSE]
Probing(q, h, step) ==
  req[q].pc = "probe" /\ req[q].probes[h] # NoEntry /\ req[q].probes[h].step = step

Step(q, from, to) == req[q].pc = from /\ req' = [req EXCEPT ![q].pc = to]

-----------------------------------------------------------------------------
(* A request arrives, and the directory is scanned *)

Begin(q, kind) ==
  /\ req[q].pc \in {"idle", "done"} /\ starts < MaxStarts
  /\ starts' = starts + 1
  /\ req' = [req EXCEPT ![q] = [Idle EXCEPT !.kind = kind,
                                  !.pc = IF kind = "revert" THEN "test" ELSE "list"]]
  /\ rows' = [rows EXCEPT ![q] = {}] /\ unread' = [unread EXCEPT ![q] = {}]
  /\ unlisted' = [unlisted EXCEPT ![q] = FALSE]
  /\ witness' = [witness EXCEPT ![q] = [r \in Refs |-> {disk[r]}]]
  /\ told' = [told EXCEPT ![q] = {valid}]
  /\ UNCHANGED <<now, world, changes, healthMu, cache, files, was, alone>>

\* os.ReadDir.  An error leaves the list empty: statusApps answers the empty map,
\* confDirFiles no rows and the error.
List(q) ==
  /\ req[q].pc = "list"
  /\ \E error \in BOOLEAN :
       /\ error => changes < MaxChanges
       /\ changes' = IF error THEN changes + 1 ELSE changes
       /\ req' = [req EXCEPT ![q].pc = "scan",
                    ![q].todo = IF error THEN {} ELSE {r \in Refs : disk[r] # NoFile}]
       /\ unlisted' = [unlisted EXCEPT ![q] = error]
  /\ UNCHANGED <<now, world, starts, rows, unread, healthMu, cache, files, past>>

\* The dump has a row for every file of the list, /v1/status needs its text.
Row(q, r) == rows' = IF req[q].kind = "dump" THEN [rows EXCEPT ![q] = @ \cup {r}] ELSE rows

\* Mutant of ReadGone: the scan ends where a file cannot be read.
ReadGoneStops(q, r) == req' = [req EXCEPT ![q].todo = {}] /\ Row(q, r)
\* Mutant of ReadGone: the dump leaves the file out as /v1/status does.
ReadGoneSkips(q, r) == req' = [req EXCEPT ![q].todo = @ \ {r}] /\ rows' = rows

\* os.ReadFile fails.  statusApps goes on without the file; confDirFiles keeps it in
\* its list, as one that is not managed.
ReadGone(q, r) == req' = [req EXCEPT ![q].todo = @ \ {r}] /\ Row(q, r)

\* /v1/status goes on to the file's backend, /v1/dump only notes it.
ReadText(q, r) ==
  /\ disk[r] # NoFile
  /\ req' = [req EXCEPT ![q].todo = @ \ {r}, ![q].apps[r] = disk[r],
                        ![q].pc = IF req[q].kind = "status" THEN "probe" ELSE @,
                        ![q].probes = IF req[q].kind = "status"
                                        THEN [@ EXCEPT ![disk[r].host] = Probe] ELSE @]
  /\ Row(q, r)
  /\ UNCHANGED <<unread, changes>>

\* A file that is there cannot be read, whatever the reason.
ReadFails(q, r) ==
  /\ disk[r] # NoFile
  /\ changes < MaxChanges /\ changes' = changes + 1
  /\ unread' = [unread EXCEPT ![q] = @ \cup {r}]
  /\ ReadGone(q, r)

\* The next file of the list, in any order.
ReadFile(q) ==
  /\ req[q].pc = "scan"
  /\ \E r \in req[q].todo :
       \/ ReadText(q, r)
       \/ ReadFails(q, r)
       \/ disk[r] = NoFile /\ ReadGone(q, r) /\ UNCHANGED <<unread, changes>>
  /\ UNCHANGED <<now, world, starts, unlisted, healthMu, cache, files, past>>

Scanned(q) ==
  /\ req[q].todo = {}
  /\ Step(q, "scan", IF req[q].kind = "status" THEN "test" ELSE "dump")
  /\ UNCHANGED <<now, world, changes, starts, reading, healthMu, cache, files, past>>

\* The dump (nginx -T, or the files when it cannot run: their text is in
\* ConfReaders) and probePools: a goroutine for every backend that is not down.
Dump(q) ==
  /\ req[q].pc = "dump"
  /\ req' = [req EXCEPT ![q].pc = "probe",
               ![q].probes = [h \in Hosts |->
                  IF h \notin Down /\ \E r \in Refs : disk[r] # NoFile /\ disk[r].host = h
                    THEN Probe ELSE NoEntry]]
  /\ UNCHANGED <<now, world, changes, starts, reading, healthMu, cache, files, past>>

-----------------------------------------------------------------------------
(* upstreamHealthy *)

Fresh(q, h) == cache[h] # NoEntry /\ req[q].probes[h].at < cache[h].at + TTL

\* Mutant of Unlock: the lock is kept when the cache answers.
UnlockMissOnly(q, h) == healthMu' = Fresh(q, h)

Unlock(q, h) == healthMu' = FALSE

\* What the probe returns; statusApps goes on with its scan, probePools waits.
Return(q, h, v) ==
  LET left == {g \in Hosts : req[q].probes[g] # NoEntry} \ {h} IN
  req' = [req EXCEPT ![q].health[h] = v, ![q].probes[h] = NoEntry,
            ![q].pc = IF req[q].kind = "status" THEN "scan"
                      ELSE IF left = {} THEN "done" ELSE @]

Hit(q, h) ==
  /\ Probing(q, h, "lookup") /\ ~healthMu /\ Fresh(q, h)
  /\ Unlock(q, h)
  /\ Return(q, h, cache[h].healthy)
  /\ UNCHANGED <<now, world, changes, starts, reading, cache, files, past>>

Miss(q, h) ==
  /\ Probing(q, h, "lookup") /\ ~healthMu /\ ~Fresh(q, h)
  /\ Unlock(q, h)
  /\ req' = [req EXCEPT ![q].probes[h].step = "dial"]
  /\ UNCHANGED <<now, world, changes, starts, reading, cache, files, past>>

\* Without the lock.
Dialled(q, h) ==
  /\ Probing(q, h, "dial")
  /\ req' = [req EXCEPT ![q].probes[h] = [@ EXCEPT !.step = "store", !.up = alive[h]]]
  /\ UNCHANGED <<now, world, changes, starts, reading, healthMu, cache, files, past>>

\* Mutant of Stamp: the entry is dated when it is stored.
StampAfter(q, h) == now

\* checkedAt is the time of the lookup.
Stamp(q, h) == req[q].probes[h].at

\* Over whatever is there by now.
Store(q, h) ==
  /\ Probing(q, h, "store") /\ ~healthMu
  /\ cache' = [cache EXCEPT ![h] = [healthy |-> req[q].probes[h].up, at |-> Stamp(q, h)]]
  /\ Return(q, h, req[q].probes[h].up)
  /\ UNCHANGED <<now, world, changes, starts, reading, healthMu, files, past>>

\* No backend in the configuration.
NothingToProbe(q) ==
  /\ \A h \in Hosts : req[q].probes[h] = NoEntry
  /\ Step(q, "probe", "done")
  /\ UNCHANGED <<now, world, changes, starts, reading, healthMu, cache, files, past>>

-----------------------------------------------------------------------------
(* RealRunner.Test on conf.d *)

Testing(q) == req[q].pc \in TestPcs

\* os.WriteFile creates or truncates, then writes.
OpenWrapper(q) ==
  /\ Step(q, "test", "fill")
  /\ wrapper' = "empty"
  /\ alone' = [p \in Requests |->
                 IF p = q THEN \A o \in Requests \ {q} : ~Testing(o)
                 ELSE alone[p] /\ ~Testing(p)]
  /\ UNCHANGED <<now, world, changes, starts, reading, healthMu, cache, tmp, was, witness, told>>

\* The directory cannot be written: Test returns before it has left anything.
OpenFails(q) ==
  /\ changes < MaxChanges /\ changes' = changes + 1
  /\ Step(q, "test", "done")
  /\ alone' = [alone EXCEPT ![q] = FALSE]
  /\ UNCHANGED <<now, disk, valid, alive, starts, reading, healthMu, cache, files, was, witness, told>>

\* The write fails: Test returns before it has deferred the removal.
FillFails(q) ==
  /\ changes < MaxChanges /\ changes' = changes + 1
  /\ Step(q, "fill", "done")
  /\ wrapper' = "left"
  /\ alone' = [alone EXCEPT ![q] = FALSE]
  /\ UNCHANGED <<now, disk, valid, alive, starts, reading, healthMu, cache, tmp, was, witness, told>>

FillWrapper(q) ==
  /\ Step(q, "fill", "mkdir")
  /\ wrapper' = "full"
  /\ UNCHANGED <<now, world, changes, starts, reading, healthMu, cache, tmp, past>>

\* Mutant of MakeTemp: nginx is left to find its scratch paths.
MakeTempNot == tmp' = tmp

\* os.MkdirAll
MakeTemp == tmp' = TRUE

Mkdir(q) ==
  /\ Step(q, "mkdir", "read")
  /\ MakeTemp
  /\ UNCHANGED <<now, world, changes, starts, reading, healthMu, cache, wrapper, past>>

\* os.MkdirAll fails: the wrapper is removed.
MkdirFails(q) ==
  /\ changes < MaxChanges /\ changes' = changes + 1
  /\ Step(q, "mkdir", "rmwrapper")
  /\ alone' = [alone EXCEPT ![q] = FALSE]
  /\ UNCHANGED <<now, disk, valid, alive, starts, reading, healthMu, cache, files, was, witness, told>>

\* nginx -t (external): it reads the wrapper and the files it includes ...
NginxReads(q) ==
  /\ req[q].pc = "read"
  /\ req' = [req EXCEPT ![q].pc = "scratch", ![q].verdict = (wrapper = "full" /\ valid)]
  /\ UNCHANGED <<now, world, changes, starts, reading, healthMu, cache, files, past>>

\* ... and makes its scratch directories, below one that must exist.
NginxScratch(q) ==
  /\ req[q].pc = "scratch"
  /\ req' = [req EXCEPT ![q].pc = "rmtmp", ![q].verdict = @ /\ tmp]
  /\ UNCHANGED <<now, world, changes, starts, reading, healthMu, cache, files, past>>

\* Mutant of RemoveTemp: os.Remove, which leaves a directory that is not empty.
RemoveTempIfEmpty == tmp' = tmp

\* The deferred removals, last first: the pid file, which nothing reads, and the
\* directory (os.RemoveAll), then the wrapper.
RemoveTemp == tmp' = FALSE

Rmtmp(q) ==
  /\ Step(q, "rmtmp", "rmwrapper")
  /\ RemoveTemp
  /\ UNCHANGED <<now, world, changes, starts, reading, healthMu, cache, wrapper, past>>

RemoveWrapper(q) ==
  /\ Step(q, "rmwrapper", "done")
  /\ wrapper' = "absent"
  /\ UNCHANGED <<now, world, changes, starts, reading, healthMu, cache, tmp, past>>

-----------------------------------------------------------------------------
(* The world *)

Active(q) == req[q].pc \notin {"idle", "done"}

\* An apply promotes a file, or a delete removes one.
ConfChanges(r) ==
  /\ changes < MaxChanges /\ changes' = changes + 1
  /\ \E f \in File \cup {NoFile} :
       /\ f # disk[r]
       /\ disk' = [disk EXCEPT ![r] = f]
       /\ witness' = [q \in Requests |->
                        IF Active(q) THEN [witness[q] EXCEPT ![r] = @ \cup {f}] ELSE witness[q]]
  /\ UNCHANGED <<now, valid, alive, starts, reading, healthMu, cache, files, req, was, alone, told>>

\* Somebody edits a file of conf.d, or a name it uses stops resolving.
ValidityChanges ==
  /\ changes < MaxChanges /\ changes' = changes + 1
  /\ valid' = ~valid
  /\ told' = [q \in Requests |-> IF Active(q) THEN told[q] \cup {~valid} ELSE told[q]]
  /\ UNCHANGED <<now, disk, alive, starts, reading, healthMu, cache, files, req, was, witness, alone>>

BackendChanges(h) ==
  /\ changes < MaxChanges /\ changes' = changes + 1
  /\ alive' = [alive EXCEPT ![h] = ~@]
  /\ was' = [was EXCEPT ![h][~alive[h]] = now]
  /\ UNCHANGED <<now, disk, valid, starts, reading, healthMu, cache, files, req, witness, alone, told>>

\* A dial that is under way ends before its timeout is over.
Tick ==
  /\ now < MaxTime
  /\ \A q \in Requests : \A h \in Hosts :
       req[q].probes[h] # NoEntry => now < req[q].probes[h].at + Dial
  /\ now' = now + 1
  /\ was' = [h \in Hosts |-> [was[h] EXCEPT ![alive[h]] = now + 1]]
  /\ UNCHANGED <<world, changes, starts, reading, healthMu, cache, files, req, witness, alone, told>>

Handler(q) ==
  \/ List(q) \/ ReadFile(q) \/ Scanned(q) \/ Dump(q)
  \/ \E h \in Hosts : Hit(q, h) \/ Miss(q, h) \/ Dialled(q, h) \/ Store(q, h)
  \/ NothingToProbe(q)
  \/ OpenWrapper(q) \/ FillWrapper(q) \/ Mkdir(q) \/ NginxReads(q) \/ NginxScratch(q)
  \/ Rmtmp(q) \/ RemoveWrapper(q)

Next ==
  \/ \E q \in Requests : Handler(q) \/ OpenFails(q) \/ FillFails(q) \/ MkdirFails(q)
  \/ \E q \in Requests, kind \in {"status", "dump", "revert"} : Begin(q, kind)
  \/ \E r \in Refs : ConfChanges(r)
  \/ ValidityChanges
  \/ \E h \in Hosts : BackendChanges(h)
  \/ Tick

\* A handler that can go on does: goroutines are scheduled, dials and nginx end.
Spec == Init /\ [][Next]_vars /\ \A q \in Requests : WF_vars(Handler(q))

-----------------------------------------------------------------------------
(* Properties *)

\* A backend that is reported up, or down, was so less than TTL before the request
\* asked, although two requests may dial the same backend and the older result may be
\* stored over the newer (upstreamHealthy: "an accepted (harmless) race").
HealthFresh ==
  [][\A q \in Requests, h \in Hosts :
       req[q].probes[h] # NoEntry /\ req'[q].probes[h] = NoEntry /\ Active(q)
         => was[h][req'[q].health[h]] + TTL > req[q].probes[h].at]_vars

\* What /v1/status and /v1/dump report of an app was in its file at some moment of the
\* request, whatever happens to other files between the listing and the reading.  An app
\* that /v1/status does not report had no file at some moment of the request, or its file
\* or the directory could not be read.  The dump is told apart from that: a file it does
\* not list was not there at some moment of the request, unless it says that the directory
\* could not be listed, and a file it lists, read or not, was there.
AppsWitnessed ==
  \A q \in Requests : req[q].pc = "done" /\ req[q].kind # "revert" =>
    \A r \in Refs :
      /\ \/ req[q].apps[r] \in witness[q][r]
         \/ req[q].apps[r] = NoFile /\ (unlisted[q] \/ r \in unread[q])
      /\ req[q].kind = "dump" =>
           IF r \in rows[q] THEN witness[q][r] # {NoFile}
           ELSE NoFile \in witness[q][r] \/ unlisted[q]

\* config_ok is true only if nginx would have said so during the request, and false
\* only if it would have said so, or if something got in the way of the test: another
\* test of conf.d, or a directory that cannot be written.
ConfigOkHonest ==
  \A q \in Requests : req[q].pc = "done" /\ req[q].kind = "status" =>
    /\ req[q].verdict => TRUE \in told[q]
    /\ ~req[q].verdict => FALSE \in told[q] \/ ~alone[q]

\* The tests clean up after one another: once none is under way, nothing of theirs
\* is left in the directory nginx includes, but for a wrapper that could not be written.
NoLitter ==
  (\A q \in Requests : ~Testing(q)) => wrapper \in {"absent", "left"} /\ ~tmp

\* GET /v1/status and GET /v1/dump are honest about the apps and about the configuration,
\* and leave nothing behind.
StatusHonest == TypeOK /\ AppsWitnessed /\ ConfigOkHonest /\ NoLitter

\* Every request is answered.
Answered == \A q \in Requests : Active(q) ~> ~Active(q)

\* "The test depends on the configuration alone" (RealRunner.Test).
TestDependsOnConfigAlone ==
  \A q \in Requests : req[q].pc = "done" /\ req[q].kind = "status" /\ told[q] = {TRUE}
    => req[q].verdict
=============================================================================
