--------------------------- MODULE ApplyPipeline ---------------------------
(***************************************************************************)
(* The critical section of the apply listener, internal/lbserver/server.go:*)
(* runApplyLocked (POST /v1/apply once submit has picked a payload),       *)
(* checkDomainCollision and deleteApp (DELETE /v1/app/{ref}).              *)
(*                                                                         *)
(* conf.d is a function from pipeline refs to files (the file of ref r is  *)
(* conf.d/r.conf).  A file is what the rest of the listener reads back from*)
(* it: its first line (the full managed-by header of an app, a managed-by  *)
(* header without app=, as the installer's 00-default.conf has, or no      *)
(* header), the revision in it, the server_names, and the rest of the vhost*)
(* as an opaque body.  nginx serves the tree of its last good reload.      *)
(*                                                                         *)
(* Every step that another goroutine, or a crash of the process, can       *)
(* separate from the next is an action of its own; the error returns of    *)
(* the code are separate actions too.                                      *)
(***************************************************************************)
EXTENDS Naturals, FiniteSets

CONSTANTS
  Procs,      \* request goroutines inside runApplyLocked or deleteApp
  Refs,       \* pipeline refs: one file name in conf.d each
  Repos,      \* repositories, the key of appliedRevision
  Domains,    \* server_name strings, as a payload spells them
  Fold,       \* Domains -> spelling-independent name (strings.EqualFold)
  Keys,       \* idempotency keys
  Bodies,     \* everything else a payload renders to
  Payloads,   \* validated payloads that clients may send
  InitTrees,  \* conf.d before the first start: no file of an app
  Accepts(_), \* the verdict of `nginx -t` on a tree
  Unread,     \* a backup that is missing although the file was there
  NoFile, NoRef, NoProc, NoJob

\* A conf.d file as ParseManagedConf, ParseDump and the DELETE handler see it.
File == [header : {"app", "bare", "none"}, rev : Nat, domains : SUBSET Domains,
         body : Bodies]

\* conf.d, or what nginx has loaded from it.
Trees == [Refs -> File \cup {NoFile}]

\* The fields of render.Payload this component reads; revision is positive,
\* domains non-empty (ValidatePayload ran before).
PayloadType == [ref : Refs, repo : Repos, rev : Nat \ {0}, key : Keys,
                domains : (SUBSET Domains) \ {{}}, body : Bodies]

\* The names a tree serves from the file of r.
Names(t, r) == IF t[r] = NoFile THEN {} ELSE {Fold[d] : d \in t[r].domains}

\* No two files of a tree declare the same server_name.
Disjoint(t) == \A r, s \in Refs : r # s => Names(t, r) \cap Names(t, s) = {}

ASSUME PayloadsAssumption == Payloads \subseteq PayloadType
ASSUME FoldAssumption     == Fold \in [Domains -> Domains]
\* repoRe demands a slash and pipelineRefRe forbids it: no repo is a ref.
ASSUME KeyspaceAssumption == Repos \cap Refs = {}
ASSUME NullAssumption     == NoFile \notin File /\ NoRef \notin Refs
                               /\ Unread \notin File \cup {NoFile}
                               /\ NoProc \notin Procs /\ NoJob \notin Payloads
\* nginx runs on a configuration it accepted, without colliding vhosts.
ASSUME InitTreesAssumption ==
  \A t \in InitTrees : t \in Trees /\ Accepts(t) /\ Disjoint(t)

VARIABLES
  disk,            \* conf.d
  served,          \* the tree of nginx's last successful reload
  appliedRevision, \* Server.appliedRevision; 0 stands for an absent key
  idempotency,     \* Server.idempotency: the keys recorded
  domainOwner,     \* Server.domainOwner; NoRef stands for an absent key
  mu,              \* the goroutine that holds Server.mu, or NoProc
  pc,              \* where each goroutine is
  job,             \* the payload a goroutine applies
  target,          \* the ref a goroutine applies or deletes
  overlay,         \* the staged tree handed to nginx -t
  backup,          \* the previous file, read before conf.d is changed
  answer,          \* the HTTP answer of a finished call
  base,            \* history: conf.d when the call took mu
  lost             \* history: since the last successful reload a revert has removed
                   \* a file because the old one had not been read

state   == <<appliedRevision, idempotency, domainOwner>>
locals  == <<job, target, overlay, backup, base>>
vars    == <<disk, served, state, mu, pc, locals, answer, lost>>

ApplyAt  == {"a_lock", "a_check", "a_stage", "a_test", "a_promote", "a_reload",
             "a_restore", "a_record"}
DeleteAt == {"d_lock", "d_check", "d_stage", "d_test", "d_promote", "d_reload",
             "d_restore", "d_record"}
Inside   == (ApplyAt \cup DeleteAt) \ {"a_lock", "d_lock"}
Answers  == {"none", "reloaded", "noop", "conflict", "invalid", "unavailable",
             "reverted", "deleted", "not_found"}

\* The empty conf.d: the value of the local tree variables of an idle goroutine.
Bare == [r \in Refs |-> NoFile]

TypeOK ==
  /\ disk \in Trees /\ served \in Trees
  /\ appliedRevision \in [Repos \cup Refs -> Nat]
  /\ idempotency \subseteq Keys
  /\ domainOwner \in [Domains -> Refs \cup {NoRef}]
  /\ mu \in Procs \cup {NoProc}
  /\ pc \in [Procs -> ApplyAt \cup DeleteAt \cup {"idle", "done"}]
  /\ job \in [Procs -> Payloads \cup {NoJob}]
  /\ target \in [Procs -> Refs \cup {NoRef}]
  /\ overlay \in [Procs -> Trees]
  /\ backup \in [Procs -> File \cup {NoFile, Unread}]
  /\ answer \in [Procs -> Answers]
  /\ base \in [Procs -> Trees]
  /\ lost \in BOOLEAN

Init ==
  /\ disk \in InitTrees /\ served = disk
  /\ appliedRevision = [k \in Repos \cup Refs |-> 0]
  /\ idempotency = {}
  /\ domainOwner = [d \in Domains |-> NoRef]
  /\ mu = NoProc
  /\ pc = [p \in Procs |-> "idle"]
  /\ job = [p \in Procs |-> NoJob]
  /\ target = [p \in Procs |-> NoRef]
  /\ overlay = [p \in Procs |-> Bare]
  /\ backup = [p \in Procs |-> NoFile]
  /\ answer = [p \in Procs |-> "none"]
  /\ base = [p \in Procs |-> Bare]
  /\ lost = FALSE

-----------------------------------------------------------------------------
(* Shared steps *)

Goto(p, l) == pc' = [pc EXCEPT ![p] = l]

\* Mutant of Return: an early return that forgets to unlock.
ReturnLocked(p, a) ==
  /\ Goto(p, "done")
  /\ answer' = [answer EXCEPT ![p] = a]
  /\ mu' = mu

\* Return an answer; the deferred s.mu.Unlock() runs.
Return(p, a) ==
  /\ Goto(p, "done")
  /\ answer' = [answer EXCEPT ![p] = a]
  /\ mu' = NoProc

\* Mutant of Lock: no mutex around the critical section.
LockUnserialised(p, at, l) ==
  /\ pc[p] = at
  /\ mu' = p
  /\ base' = [base EXCEPT ![p] = disk]
  /\ Goto(p, l)
  /\ UNCHANGED <<disk, served, state, job, target, overlay, backup, answer, lost>>

\* s.mu.Lock()
Lock(p, at, l) ==
  /\ pc[p] = at /\ mu = NoProc
  /\ mu' = p
  /\ base' = [base EXCEPT ![p] = disk]
  /\ Goto(p, l)
  /\ UNCHANGED <<disk, served, state, job, target, overlay, backup, answer, lost>>

\* writeJSON: the answer leaves, the goroutine ends.
Respond(p) ==
  /\ pc[p] = "done"
  /\ Goto(p, "idle")
  /\ job' = [job EXCEPT ![p] = NoJob]
  /\ target' = [target EXCEPT ![p] = NoRef]
  /\ overlay' = [overlay EXCEPT ![p] = Bare]
  /\ backup' = [backup EXCEPT ![p] = NoFile]
  /\ base' = [base EXCEPT ![p] = Bare]
  /\ answer' = [answer EXCEPT ![p] = "none"]
  /\ UNCHANGED <<disk, served, state, mu, lost>>

\* The tree CopyConfTree leaves in the overlay once f is written into it.
Staged(r, f) == [disk EXCEPT ![r] = f]

\* systemctl reload nginx: nginx loads the tree on disk.
ReloadOk == served' = disk /\ lost' = FALSE

-----------------------------------------------------------------------------
(* POST /v1/apply: runApplyLocked *)

\* renderVhost
Rendered(j) == [header |-> "app", rev |-> j.rev, domains |-> j.domains,
                body |-> j.body]

\* Mutant of ApplyCall: a payload that ValidatePayload should have refused.
ApplyCallUnvalidated(p, j) ==
  /\ pc[p] = "idle"
  /\ Goto(p, "a_lock")
  /\ job' = [job EXCEPT ![p] = [j EXCEPT !.rev = 0]]
  /\ target' = [target EXCEPT ![p] = j.ref]
  /\ UNCHANGED <<disk, served, state, mu, overlay, backup, answer, base, lost>>

ApplyCall(p, j) ==
  /\ pc[p] = "idle"
  /\ Goto(p, "a_lock")
  /\ job' = [job EXCEPT ![p] = j]
  /\ target' = [target EXCEPT ![p] = j.ref]
  /\ UNCHANGED <<disk, served, state, mu, overlay, backup, answer, base, lost>>

ApplyLock(p) == Lock(p, "a_lock", "a_check")

\* The early returns and the way on, in the order of the code: each one
\* presupposes that none before it was taken.
Seen(p)    == job[p].key \in idempotency
\* Mutant of Stale: the revision is looked up under the ref.
StaleByRef(p) == job[p].rev <= appliedRevision[job[p].ref]
Stale(p)   == job[p].rev <= appliedRevision[job[p].repo]
Claimed(p) == \E d \in job[p].domains : domainOwner[d] \notin {NoRef, target[p]}
Unknown(p) == {d \in job[p].domains : domainOwner[d] = NoRef}

\* FindDomainOwner scans the dump of the live tree for the first file that
\* declares d under any spelling; the order of the files is not modelled, so
\* any of the files that declare it may be the first.
Declare(d) == {r \in Refs : Fold[d] \in Names(disk, r)}
Ours(r, p) == disk[r].header = "app" /\ r = target[p]
Refused(p) == \E d \in Unknown(p) : \E r \in Declare(d) : ~Ours(r, p)
\* Mutant of Clear: any managed file counts as one of ours.
ClearIfManaged(p) == \A d \in Unknown(p) :
  Declare(d) = {} \/ \E r \in Declare(d) : disk[r].header = "app"
Clear(p)   == \A d \in Unknown(p) :
                Declare(d) = {} \/ \E r \in Declare(d) : Ours(r, p)

ApplyNoop(p) ==
  /\ pc[p] = "a_check" /\ Seen(p)
  /\ Return(p, "noop")
  /\ UNCHANGED <<disk, served, state, locals, lost>>

ApplyConflict(p) ==
  /\ pc[p] = "a_check" /\ ~Seen(p)
  /\ Stale(p) \/ Claimed(p) \/ Refused(p)
  /\ Return(p, "conflict")
  /\ UNCHANGED <<disk, served, state, locals, lost>>

\* Runner.DumpConfig fails: refuse what cannot be verified.
ApplyDumpFails(p) ==
  /\ pc[p] = "a_check" /\ ~Seen(p) /\ ~Stale(p) /\ ~Claimed(p)
  /\ Unknown(p) # {}
  /\ Return(p, "unavailable")
  /\ UNCHANGED <<disk, served, state, locals, lost>>

ApplyAdmit(p) ==
  /\ pc[p] = "a_check" /\ ~Seen(p) /\ ~Stale(p) /\ ~Claimed(p) /\ Clear(p)
  /\ Goto(p, "a_stage")
  /\ UNCHANGED <<disk, served, state, mu, locals, answer, lost>>

ApplyStage(p) ==
  /\ pc[p] = "a_stage"
  /\ overlay' = [overlay EXCEPT ![p] = Staged(target[p], Rendered(job[p]))]
  /\ Goto(p, "a_test")
  /\ UNCHANGED <<disk, served, state, mu, job, target, backup, answer, base, lost>>

\* Rendering fails (400), or MkdirTemp, CopyConfTree or WriteFile does (503).
ApplyStageFails(p) ==
  /\ pc[p] = "a_stage"
  /\ \E a \in {"invalid", "unavailable"} : Return(p, a)
  /\ UNCHANGED <<disk, served, state, locals, lost>>

\* Mutant of ApplyTest: the previous file is not kept.
ApplyTestNoBackup(p) ==
  /\ pc[p] = "a_test" /\ Accepts(overlay[p])
  /\ backup' = [backup EXCEPT ![p] = NoFile]
  /\ Goto(p, "a_promote")
  /\ UNCHANGED <<disk, served, state, mu, job, target, overlay, answer, base, lost>>

\* Runner.Test(overlay); the previous file is read right after it.
ApplyTest(p) ==
  /\ pc[p] = "a_test" /\ Accepts(overlay[p])
  /\ backup' = [backup EXCEPT ![p] = disk[target[p]]]
  /\ Goto(p, "a_promote")
  /\ UNCHANGED <<disk, served, state, mu, job, target, overlay, answer, base, lost>>

\* Any error of that read, not only a missing file, leaves hadBackup false.
ApplyTestUnread(p) ==
  /\ pc[p] = "a_test" /\ Accepts(overlay[p])
  /\ disk[target[p]] # NoFile
  /\ backup' = [backup EXCEPT ![p] = Unread]
  /\ Goto(p, "a_promote")
  /\ UNCHANGED <<disk, served, state, mu, job, target, overlay, answer, base, lost>>

\* nginx -t refuses the tree, or cannot run.
ApplyTestFails(p) ==
  /\ pc[p] = "a_test"
  /\ Return(p, "invalid")
  /\ UNCHANGED <<disk, served, state, locals, lost>>

ApplyPromote(p) ==
  /\ pc[p] = "a_promote"
  /\ disk' = [disk EXCEPT ![target[p]] = Rendered(job[p])]
  /\ Goto(p, "a_reload")
  /\ UNCHANGED <<served, state, mu, locals, answer, lost>>

\* WriteAtomic fails before its rename: the file is as it was.
ApplyPromoteFails(p) ==
  /\ pc[p] = "a_promote"
  /\ Return(p, "unavailable")
  /\ UNCHANGED <<disk, served, state, locals, lost>>

\* Mutant of ApplyReload: the error of the reload is ignored.
ApplyReloadIgnored(p) ==
  /\ pc[p] = "a_reload"
  /\ served' \in {disk, served}
  /\ Goto(p, "a_record")
  /\ UNCHANGED <<disk, state, mu, locals, answer, lost>>

ApplyReload(p) ==
  /\ pc[p] = "a_reload"
  /\ ReloadOk
  /\ Goto(p, "a_record")
  /\ UNCHANGED <<disk, state, mu, locals, answer>>

ApplyReloadFails(p) ==
  /\ pc[p] = "a_reload"
  /\ Goto(p, "a_restore")
  /\ UNCHANGED <<disk, served, state, mu, locals, answer, lost>>

\* The backup is written back, or without one the new file is removed; nginx is
\* tested, with the verdict thrown away, and not reloaded.
Reverted(p) == IF backup[p] = Unread THEN NoFile ELSE backup[p]

ApplyRestore(p) ==
  /\ pc[p] = "a_restore"
  /\ disk' = [disk EXCEPT ![target[p]] = Reverted(p)]
  /\ lost' = (lost \/ backup[p] = Unread)
  /\ Return(p, "reverted")
  /\ UNCHANGED <<served, state, locals>>

\* The error of the write-back is discarded: the new file stays.
ApplyRestoreFails(p) ==
  /\ pc[p] = "a_restore"
  /\ Return(p, "reverted")
  /\ UNCHANGED <<disk, served, state, locals, lost>>

ApplyRecord(p) ==
  /\ pc[p] = "a_record"
  /\ appliedRevision' = [appliedRevision EXCEPT ![job[p].repo] = job[p].rev]
  /\ idempotency' = idempotency \cup {job[p].key}
  /\ domainOwner' = [d \in Domains |-> IF d \in job[p].domains
                                       THEN target[p] ELSE domainOwner[d]]
  /\ Return(p, "reloaded")
  /\ UNCHANGED <<disk, served, locals, lost>>

-----------------------------------------------------------------------------
(* DELETE /v1/app/{ref}: deleteApp *)

DeleteCall(p, r) ==
  /\ pc[p] = "idle"
  /\ Goto(p, "d_lock")
  /\ target' = [target EXCEPT ![p] = r]
  /\ UNCHANGED <<disk, served, state, mu, job, overlay, backup, answer, base, lost>>

DeleteLock(p) == Lock(p, "d_lock", "d_check")

\* os.ReadFile fails: there is no such file, or there is and it cannot be read.
DeleteMissing(p) ==
  /\ pc[p] = "d_check"
  /\ Return(p, "not_found")
  /\ UNCHANGED <<disk, served, state, locals, lost>>

DeleteUnmanaged(p) ==
  /\ pc[p] = "d_check"
  /\ disk[target[p]] # NoFile /\ disk[target[p]].header = "none"
  /\ Return(p, "invalid")
  /\ UNCHANGED <<disk, served, state, locals, lost>>

DeleteAdmit(p) ==
  /\ pc[p] = "d_check"
  /\ disk[target[p]] # NoFile /\ disk[target[p]].header # "none"
  /\ backup' = [backup EXCEPT ![p] = disk[target[p]]]
  /\ Goto(p, "d_stage")
  /\ UNCHANGED <<disk, served, state, mu, job, target, overlay, answer, base, lost>>

DeleteStage(p) ==
  /\ pc[p] = "d_stage"
  /\ overlay' = [overlay EXCEPT ![p] = Staged(target[p], NoFile)]
  /\ Goto(p, "d_test")
  /\ UNCHANGED <<disk, served, state, mu, job, target, backup, answer, base, lost>>

DeleteStageFails(p) ==
  /\ pc[p] = "d_stage"
  /\ Return(p, "unavailable")
  /\ UNCHANGED <<disk, served, state, locals, lost>>

DeleteTest(p) ==
  /\ pc[p] = "d_test" /\ Accepts(overlay[p])
  /\ Goto(p, "d_promote")
  /\ UNCHANGED <<disk, served, state, mu, locals, answer, lost>>

DeleteTestFails(p) ==
  /\ pc[p] = "d_test"
  /\ Return(p, "invalid")
  /\ UNCHANGED <<disk, served, state, locals, lost>>

DeleteRemove(p) ==
  /\ pc[p] = "d_promote"
  /\ disk' = [disk EXCEPT ![target[p]] = NoFile]
  /\ Goto(p, "d_reload")
  /\ UNCHANGED <<served, state, mu, locals, answer, lost>>

DeleteRemoveFails(p) ==
  /\ pc[p] = "d_promote"
  /\ Return(p, "unavailable")
  /\ UNCHANGED <<disk, served, state, locals, lost>>

DeleteReload(p) ==
  /\ pc[p] = "d_reload"
  /\ ReloadOk
  /\ Goto(p, "d_record")
  /\ UNCHANGED <<disk, state, mu, locals, answer>>

DeleteReloadFails(p) ==
  /\ pc[p] = "d_reload"
  /\ Goto(p, "d_restore")
  /\ UNCHANGED <<disk, served, state, mu, locals, answer, lost>>

DeleteRestore(p) ==
  /\ pc[p] = "d_restore"
  /\ disk' = [disk EXCEPT ![target[p]] = backup[p]]
  /\ Return(p, "reverted")
  /\ UNCHANGED <<served, state, locals, lost>>

DeleteRestoreFails(p) ==
  /\ pc[p] = "d_restore"
  /\ Return(p, "reverted")
  /\ UNCHANGED <<disk, served, state, locals, lost>>

\* delete(s.appliedRevision, ref): the map's keys are repos, the key is a ref.
DeleteRecord(p) ==
  /\ pc[p] = "d_record"
  /\ appliedRevision' = [appliedRevision EXCEPT ![target[p]] = 0]
  /\ domainOwner' = [d \in Domains |-> IF domainOwner[d] = target[p]
                                       THEN NoRef ELSE domainOwner[d]]
  /\ Return(p, "deleted")
  /\ UNCHANGED <<disk, served, idempotency, locals, lost>>

-----------------------------------------------------------------------------
\* The process dies and systemd starts it again: New() builds empty maps,
\* conf.d and the running nginx are as they were.
Crash ==
  /\ appliedRevision' = [k \in Repos \cup Refs |-> 0]
  /\ idempotency' = {}
  /\ domainOwner' = [d \in Domains |-> NoRef]
  /\ mu' = NoProc
  /\ pc' = [p \in Procs |-> "idle"]
  /\ job' = [p \in Procs |-> NoJob]
  /\ target' = [p \in Procs |-> NoRef]
  /\ overlay' = [p \in Procs |-> Bare]
  /\ backup' = [p \in Procs |-> NoFile]
  /\ answer' = [p \in Procs |-> "none"]
  /\ base' = [p \in Procs |-> Bare]
  /\ UNCHANGED <<disk, served, lost>>

ApplyStep(p) ==
  \/ ApplyNoop(p) \/ ApplyConflict(p) \/ ApplyDumpFails(p) \/ ApplyAdmit(p)
  \/ ApplyStage(p) \/ ApplyStageFails(p)
  \/ ApplyTest(p) \/ ApplyTestUnread(p) \/ ApplyTestFails(p)
  \/ ApplyPromote(p) \/ ApplyPromoteFails(p)
  \/ ApplyReload(p) \/ ApplyReloadFails(p)
  \/ ApplyRestore(p) \/ ApplyRestoreFails(p) \/ ApplyRecord(p)

DeleteStep(p) ==
  \/ DeleteMissing(p) \/ DeleteUnmanaged(p) \/ DeleteAdmit(p)
  \/ DeleteStage(p) \/ DeleteStageFails(p) \/ DeleteTest(p) \/ DeleteTestFails(p)
  \/ DeleteRemove(p) \/ DeleteRemoveFails(p)
  \/ DeleteReload(p) \/ DeleteReloadFails(p)
  \/ DeleteRestore(p) \/ DeleteRestoreFails(p) \/ DeleteRecord(p)

Locking(p) == ApplyLock(p) \/ DeleteLock(p)
Work(p)    == ApplyStep(p) \/ DeleteStep(p) \/ Respond(p)

Next ==
  \/ \E p \in Procs, j \in Payloads : ApplyCall(p, j)
  \/ \E p \in Procs, r \in Refs : DeleteCall(p, r)
  \/ \E p \in Procs : Locking(p) \/ Work(p)
  \/ Crash

Spec == Init /\ [][Next]_vars

-----------------------------------------------------------------------------
(* Properties *)

\* Server.mu is held by the goroutine that is inside the critical section and by
\* nobody else: on no early return, failure or restore path does a call leave it
\* locked, or work on without it.
MutexInv == \A p \in Procs : pc[p] \in Inside <=> mu = p

\* What nginx serves is at every moment a tree `nginx -t` accepted, and so is
\* conf.d: what runApplyLocked and deleteApp promote is the overlay they tested,
\* also when a step fails half way, a write-back fails, or the process dies
\* between the rename and the reload.  The one way to a tree nobody tested is a
\* failed reload after the old file could not be read: the revert then removes
\* the vhost, and conf.d may be untested until the next successful reload.
DiskAccepted == Accepts(served) /\ (Accepts(disk) \/ lost)

\* No two payloads spell one name in two ways.
OneSpelling ==
  \A j, k \in Payloads : \A d \in j.domains, e \in k.domains :
    Fold[d] = Fold[e] => d = e

\* server.go refuses what it cannot check "rather than risk a duplicate
\* server_name": no two files of conf.d, and no two that nginx serves, collide.
NamesDisjoint == Disjoint(disk) /\ Disjoint(served)

\* As long as clients spell every name in one way, no two vhosts answer for the
\* same server_name: checkDomainCollision, with its in-memory fast path and its
\* scan of the live tree, keeps every file of conf.d (hand-written ones
\* included) disjoint from every other, restarts and dropped domains included.
\* The map is keyed by the spelling and the scan is not, so that two spellings
\* of a name, which ValidatePayload admits, can collide.
DomainsDisjoint == OneSpelling => NamesDisjoint

Answered(p, as) == answer[p] = "none" /\ answer'[p] \in as

\* A call that is answered with an error leaves conf.d as it found it when it
\* took the mutex, and what nginx serves and the three maps alone.  After a
\* failed reload there are two exceptions, both answered "reverted": the
\* write-back fails too, or there is nothing to write back since the old file
\* could not be read, and the app has no file any more.
NoTraceStep ==
  \A p \in Procs :
    Answered(p, {"conflict", "invalid", "unavailable", "reverted", "not_found"})
      => /\ \/ disk' = base[p]
            \/ ApplyRestoreFails(p) \/ DeleteRestoreFails(p)
            \/ /\ pc[p] = "a_restore" /\ backup[p] = Unread
               /\ disk' = [base[p] EXCEPT ![target[p]] = NoFile]
         /\ UNCHANGED <<served, state>>
FailureLeavesNoTrace == [][NoTraceStep]_vars

\* An answer 200 reloaded (deleted) is true when it is given: nginx serves the
\* rendered payload (nothing) for that app, and conf.d is what nginx serves.
SuccessStep ==
  \A p \in Procs :
    /\ Answered(p, {"reloaded"}) => served'[target[p]] = Rendered(job[p])
    /\ Answered(p, {"deleted"})  => served'[target[p]] = NoFile
    /\ Answered(p, {"reloaded", "deleted"}) => disk' = served'
SuccessIsServed == [][SuccessStep]_vars

\* While the process lives, nginx never goes from a revision the listener has
\* acknowledged for the app's repo to an older one.
RevisionStep ==
  \A j \in Payloads :
    LET r == j.ref IN
    (/\ served[r] # NoFile /\ served'[r] # NoFile
     /\ served[r].rev > 0 /\ appliedRevision[j.repo] = served[r].rev)
      => served'[r].rev >= served[r].rev
AcknowledgedNotRegressed == [][RevisionStep]_vars

-----------------------------------------------------------------------------
(* What comments of the code say and the code does not do: each of these is *)
(* refuted by a run.                                                        *)

\* nginx-app.conf.tmpl: "hand-written confs without it are never touched".
HandWrittenUntouched ==
  [][\A r \in Refs : (disk[r] # NoFile /\ disk[r].header = "none")
                       => disk'[r] = disk[r]]_vars

\* server.go: appliedRevision is "repo (pipeline_ref) -> last applied revision",
\* and deleteApp drops the entry of the app it deletes.
DeleteForgetsRevision ==
  [][\A p \in Procs, j \in Payloads :
       (DeleteRecord(p) /\ j.ref = target[p]) => appliedRevision'[j.repo] = 0]_vars

=============================================================================
