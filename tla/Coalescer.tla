----------------------------- MODULE Coalescer -----------------------------
(***************************************************************************)
(* The per-app coalescing slot of internal/lbserver/server.go: submit, and *)
(* the appSlot it shares between the requests of one pipeline_ref.         *)
(*                                                                         *)
(* The first request of an app becomes the leader and applies; the others  *)
(* leave their payload as the latest one if its revision is higher, and    *)
(* wait on a channel.  The leader applies until the payload it applied is  *)
(* still the latest, then hands its last result to everybody.              *)
(*                                                                         *)
(* runApplyLocked and deleteApp are one step each here, under the global   *)
(* mutex they take (their steps are module ApplyPipeline).  A payload      *)
(* pointer is the goroutine that made it: slot.latest == job compares      *)
(* goroutines.                                                             *)
(***************************************************************************)
EXTENDS Naturals, FiniteSets

CONSTANTS
  Procs,       \* request goroutines
  Refs,        \* pipeline refs
  Repos,       \* repositories, the keys of appliedRevision
  Keys,        \* idempotency keys
  Payloads,    \* what clients may send
  MaxQueueLen, \* Config.MaxQueueLen
  None

PayloadType == [ref : Refs, repo : Repos, rev : Nat \ {0}, key : Keys]

ASSUME NoneAssumption     == None \notin Procs /\ None \notin Refs \X Nat
ASSUME PayloadsAssumption == Payloads \subseteq PayloadType
ASSUME BoundAssumption    == MaxQueueLen \in Nat

VARIABLES
  running,  \* slot.running of each ref
  latest,   \* slot.latest: the goroutine whose payload it is, or None
  waiters,  \* slot.waiters: the goroutines whose channels are in the list
  app,      \* the revision nginx serves of each ref, 0 for no vhost
  counter,  \* Server.appliedRevision of each repo
  idempotency, \* Server.idempotency, with the payload that recorded the key, or None
  top,      \* history: the highest revision ever applied of each ref
  pc,       \* where each goroutine is
  ref, rev, repo, key, \* the payload a goroutine submits
  job,      \* the payload the leader is applying
  result,   \* what runApplyLocked returned to the leader
  answer    \* what submit returns

slot  == <<running, latest, waiters>>
mine  == <<ref, rev, repo, key>>
store == <<app, counter, idempotency, top>>
vars  == <<slot, store, pc, mine, job, result, answer>>

\* "reloaded" and "noop" are the two answers 200, "stale" the 409 of a revision
\* that is not above its repo's, "failed" any other error of the pipeline, "full"
\* the 503 of a full queue.
Results == {"none", "reloaded", "noop", "stale", "failed"}
Answers == Results \cup {"full"}
Labels  == {"idle", "submit", "wait", "take", "apply", "settle", "done"}
Leading == {"take", "apply", "settle"}

TypeOK ==
  /\ running \in [Refs -> BOOLEAN]
  /\ latest \in [Refs -> Procs \cup {None}]
  /\ waiters \in [Refs -> SUBSET Procs]
  /\ app \in [Refs -> Nat] /\ top \in [Refs -> Nat]
  /\ counter \in [Repos -> Nat]
  /\ idempotency \in [Keys -> (Refs \X Nat) \cup {None}]
  /\ pc \in [Procs -> Labels]
  /\ ref \in [Procs -> Refs \cup {None}]
  /\ rev \in [Procs -> Nat]
  /\ repo \in [Procs -> Repos \cup {None}]
  /\ key \in [Procs -> Keys \cup {None}]
  /\ job \in [Procs -> Procs \cup {None}]
  /\ result \in [Procs -> Results]
  /\ answer \in [Procs -> Answers]
  /\ \A p \in Procs : pc[p] \in {"apply", "settle"} => job[p] \in Procs

Init ==
  /\ running = [r \in Refs |-> FALSE]
  /\ latest = [r \in Refs |-> None]
  /\ waiters = [r \in Refs |-> {}]
  /\ app = [r \in Refs |-> 0] /\ top = app
  /\ counter = [k \in Repos |-> 0]
  /\ idempotency = [k \in Keys |-> None]
  /\ pc = [p \in Procs |-> "idle"]
  /\ ref = [p \in Procs |-> None]
  /\ rev = [p \in Procs |-> 0]
  /\ repo = [p \in Procs |-> None]
  /\ key = [p \in Procs |-> None]
  /\ job = [p \in Procs |-> None]
  /\ result = [p \in Procs |-> "none"]
  /\ answer = [p \in Procs |-> "none"]

Goto(p, l) == pc' = [pc EXCEPT ![p] = l]

\* handleApply passed a validated payload on.
Call(p, j) ==
  /\ pc[p] = "idle"
  /\ Goto(p, "submit")
  /\ ref' = [ref EXCEPT ![p] = j.ref]
  /\ rev' = [rev EXCEPT ![p] = j.rev]
  /\ repo' = [repo EXCEPT ![p] = j.repo]
  /\ key' = [key EXCEPT ![p] = j.key]
  /\ UNCHANGED <<slot, store, job, result, answer>>

\* The queue of the app is full: the payload is dropped, however new it is.
SubmitFull(p) ==
  /\ pc[p] = "submit" /\ running[ref[p]]
  /\ Cardinality(waiters[ref[p]]) >= MaxQueueLen
  /\ answer' = [answer EXCEPT ![p] = "full"]
  /\ Goto(p, "done")
  /\ UNCHANGED <<slot, store, mine, job, result>>

\* Mutant of Newer: an older payload replaces the latest one.
NewerAlways(p) == TRUE
\* The payload of p replaces the latest one.
Newer(p) == latest[ref[p]] = None \/ rev[p] > rev[latest[ref[p]]]

\* Mutant of HasRoom: one waiter too many.
HasRoomPlusOne(p) == Cardinality(waiters[ref[p]]) <= MaxQueueLen
HasRoom(p) == Cardinality(waiters[ref[p]]) < MaxQueueLen

SubmitWait(p) ==
  /\ pc[p] = "submit" /\ running[ref[p]] /\ HasRoom(p)
  /\ latest' = IF Newer(p) THEN [latest EXCEPT ![ref[p]] = p] ELSE latest
  /\ waiters' = [waiters EXCEPT ![ref[p]] = @ \cup {p}]
  /\ Goto(p, "wait")
  /\ UNCHANGED <<running, store, mine, job, result, answer>>

SubmitLead(p) ==
  /\ pc[p] = "submit" /\ ~running[ref[p]]
  /\ running' = [running EXCEPT ![ref[p]] = TRUE]
  /\ latest' = [latest EXCEPT ![ref[p]] = p]
  /\ Goto(p, "take")
  /\ UNCHANGED <<waiters, store, mine, job, result, answer>>

\* job := slot.latest, under slot.mu.
Take(p) ==
  /\ pc[p] = "take"
  /\ job' = [job EXCEPT ![p] = latest[ref[p]]]
  /\ Goto(p, "apply")
  /\ UNCHANGED <<slot, store, mine, result, answer>>

\* runApplyLocked(*job): a key that was recorded before is a no-op, whatever the
\* revision; a revision must be above the last one applied of the repo, by
\* whichever pipeline; anything else fails or is applied and recorded.
Apply(p) ==
  /\ pc[p] = "apply"
  /\ LET j == job[p] IN
     \/ /\ idempotency[key[j]] # None
        /\ result' = [result EXCEPT ![p] = "noop"]
        /\ UNCHANGED store
     \/ /\ idempotency[key[j]] = None /\ rev[j] <= counter[repo[j]]
        /\ result' = [result EXCEPT ![p] = "stale"]
        /\ UNCHANGED store
     \/ /\ idempotency[key[j]] = None /\ rev[j] > counter[repo[j]]
        /\ result' = [result EXCEPT ![p] = "failed"]
        /\ UNCHANGED store
     \/ /\ idempotency[key[j]] = None /\ rev[j] > counter[repo[j]]
        /\ app' = [app EXCEPT ![ref[j]] = rev[j]]
        /\ top' = [top EXCEPT ![ref[j]] = IF rev[j] > @ THEN rev[j] ELSE @]
        /\ counter' = [counter EXCEPT ![repo[j]] = rev[j]]
        /\ idempotency' = [idempotency EXCEPT ![key[j]] = <<ref[j], rev[j]>>]
        /\ result' = [result EXCEPT ![p] = "reloaded"]
  /\ Goto(p, "settle")
  /\ UNCHANGED <<slot, mine, job, answer>>

\* deleteApp succeeds, between any two steps of the requests.  It drops neither
\* the key nor, since that is kept under the repo, the revision.
Delete(r) ==
  /\ app[r] # 0
  /\ app' = [app EXCEPT ![r] = 0]
  /\ UNCHANGED <<slot, counter, idempotency, top, pc, mine, job, result, answer>>

\* The variables of the leader's loop go out of scope.
Leave(p, l) ==
  /\ Goto(p, l)
  /\ job' = [job EXCEPT ![p] = None]
  /\ result' = [result EXCEPT ![p] = "none"]

\* A newer job was coalesced in meanwhile: go round again.
Again(p) ==
  /\ pc[p] = "settle" /\ latest[ref[p]] # job[p]
  /\ Leave(p, "take")
  /\ UNCHANGED <<slot, store, mine, answer>>

\* Mutant of Settle: the waiters that are taken from the slot get no result.
SettleForgetful(p) ==
  /\ pc[p] = "settle" /\ latest[ref[p]] = job[p]
  /\ running' = [running EXCEPT ![ref[p]] = FALSE]
  /\ latest' = [latest EXCEPT ![ref[p]] = None]
  /\ waiters' = [waiters EXCEPT ![ref[p]] = {}]
  /\ answer' = [answer EXCEPT ![p] = result[p]]
  /\ Leave(p, "done")
  /\ UNCHANGED <<store, mine>>

\* Mutant of Settle: the slot is given up without looking for a newer payload.
SettleBlindly(p) ==
  /\ pc[p] = "settle"
  /\ running' = [running EXCEPT ![ref[p]] = FALSE]
  /\ latest' = [latest EXCEPT ![ref[p]] = None]
  /\ waiters' = [waiters EXCEPT ![ref[p]] = {}]
  /\ answer' = [q \in Procs |-> IF q = p \/ q \in waiters[ref[p]]
                                THEN result[p] ELSE answer[q]]
  /\ Leave(p, "done")
  /\ UNCHANGED <<store, mine>>

\* The latest payload is the one just applied: release the slot and send the
\* result into every waiter's channel.  The channels have room for one value,
\* so the sends never block the leader.
Settle(p) ==
  /\ pc[p] = "settle" /\ latest[ref[p]] = job[p]
  /\ running' = [running EXCEPT ![ref[p]] = FALSE]
  /\ latest' = [latest EXCEPT ![ref[p]] = None]
  /\ waiters' = [waiters EXCEPT ![ref[p]] = {}]
  /\ answer' = [q \in Procs |-> IF q = p \/ q \in waiters[ref[p]]
                                THEN result[p] ELSE answer[q]]
  /\ Leave(p, "done")
  /\ UNCHANGED <<store, mine>>

\* res := <-ch
Receive(p) ==
  /\ pc[p] = "wait" /\ answer[p] # "none"
  /\ Goto(p, "done")
  /\ UNCHANGED <<slot, store, mine, job, result, answer>>

\* The answer leaves; the goroutine may serve another request.
Respond(p) ==
  /\ pc[p] = "done"
  /\ Goto(p, "idle")
  /\ ref' = [ref EXCEPT ![p] = None]
  /\ rev' = [rev EXCEPT ![p] = 0]
  /\ repo' = [repo EXCEPT ![p] = None]
  /\ key' = [key EXCEPT ![p] = None]
  /\ answer' = [answer EXCEPT ![p] = "none"]
  /\ UNCHANGED <<slot, store, job, result>>

Work(p) == SubmitFull(p) \/ SubmitWait(p) \/ SubmitLead(p) \/ Take(p) \/ Apply(p)
             \/ Again(p) \/ Settle(p) \/ Receive(p) \/ Respond(p)

Next ==
  \/ \E p \in Procs, j \in Payloads : Call(p, j)
  \/ \E p \in Procs : Work(p)
  \/ \E r \in Refs : Delete(r)

Spec == Init /\ [][Next]_vars

\* Runnable goroutines run; the locks are held for a few instructions only.
FairSpec == Spec /\ \A p \in Procs : WF_vars(Work(p))

-----------------------------------------------------------------------------
(* Properties *)

\* What an answer 200 of submit tells its caller, although most callers never
\* applied anything.  "reloaded": the app was put at the caller's own revision or a
\* later one, and nothing but a delete has undone that.  "noop": some payload of
\* the app, not older than the caller's, has a key that a reload recorded; only if
\* it was recorded for that payload was the app ever where the caller wants it,
\* and it need not be there now.
CoveredStep ==
  \A p \in Procs :
    /\ (answer[p] = "none" /\ answer'[p] = "reloaded") =>
         top'[ref[p]] >= rev[p] /\ (app'[ref[p]] = 0 \/ app'[ref[p]] >= rev[p])
    /\ (answer[p] = "none" /\ answer'[p] = "noop") =>
         \E q \in Procs :
           /\ ref[q] = ref[p] /\ rev[q] >= rev[p] /\ idempotency[key[q]] # None
           /\ idempotency[key[q]] = <<ref[q], rev[q]>> => top'[ref[p]] >= rev[p]
SettledCovers == [][CoveredStep]_vars

\* The payload that will be applied next is at least as new as that of every
\* request that waits, and as the one being applied.
LatestCoversWaiters ==
  \A r \in Refs : running[r] =>
    /\ latest[r] # None
    /\ \A w \in waiters[r] : rev[latest[r]] >= rev[w]
    /\ \A p \in Procs : (pc[p] \in Leading /\ ref[p] = r) => rev[latest[r]] >= rev[p]

\* A request that waits is in the list of a slot that has a leader, or has its
\* result in its channel: nobody waits on a slot that everyone has left.
WaiterHasLeader ==
  \A w \in Procs : pc[w] = "wait" =>
    \/ answer[w] # "none"
    \/ /\ w \in waiters[ref[w]]
       /\ \E p \in Procs : pc[p] \in Leading /\ ref[p] = ref[w]

\* One leader per app, and no more waiters than the queue holds.
SlotBound ==
  \A r \in Refs :
    /\ Cardinality({p \in Procs : pc[p] \in Leading /\ ref[p] = r}) <= 1
    /\ Cardinality(waiters[r]) <= MaxQueueLen

\* A slot is sound (submit): nobody waits on a slot that everyone has left, for a
\* payload older than its own, or beyond the length of the queue.
SlotSound == TypeOK /\ LatestCoversWaiters /\ WaiterHasLeader /\ SlotBound

\* Every request is answered, however many newer ones arrive meanwhile.
EveryRequestAnswered == \A p \in Procs : pc[p] = "submit" ~> pc[p] = "done"
=============================================================================
