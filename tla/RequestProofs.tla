--------------------------- MODULE RequestProofs ---------------------------
(***************************************************************************)
(* What a write request is promised, for any number of handlers: by        *)
(* NonceReplay before it is let in, by Coalescer after.  Both components   *)
(* are about the same goroutines and share no state.                       *)
(*                                                                         *)
(* Coalescer, for any number of apps and revisions and any length of the   *)
(* queue: a slot is sound, and an answer covers its caller.  The inductive *)
(* invariant ties the three fields of a slot to the goroutines that share  *)
(* it: a slot that runs has one leader, the payload it keeps belongs to a  *)
(* goroutine that waits or leads there, and so do the payload being        *)
(* applied and every entry of the list.                                    *)
(*                                                                         *)
(* NonceReplay, for every window, lifetime, stall and skew that leave the  *)
(* margin TTL > 2 * Window + Stall + MaxSkew: a nonce is remembered until  *)
(* the timestamp of its request has left the window.                       *)
(***************************************************************************)
EXTENDS Coalescer, NonceReplay, FiniteSetTheorems, TLAPS

-----------------------------------------------------------------------------
(* Coalescer *)

\* The payload of a request in progress, and its answer.
RequestInv ==
  \A p \in Procs :
    /\ pc[p] # "idle" => /\ ref[p] \in Refs /\ rev[p] \in Nat \ {0}
                         /\ repo[p] \in Repos /\ key[p] \in Keys
    /\ pc[p] \in {"idle", "submit"} \cup Leading => answer[p] = "none"

\* A slot runs exactly while it has a leader, and it has one at most.
LeaderInv ==
  /\ \A p \in Procs : pc[p] \in Leading => running[ref[p]]
  /\ \A r \in Refs : running[r] => \E p \in Procs : pc[p] \in Leading /\ ref[p] = r
  /\ \A p, q \in Procs :
       (pc[p] \in Leading /\ pc[q] \in Leading /\ ref[p] = ref[q]) => p = q

\* The list of a slot is that of the goroutines that wait there for a result.
ListInv ==
  /\ \A r \in Refs : \A w \in waiters[r] :
       pc[w] = "wait" /\ ref[w] = r /\ answer[w] = "none" /\ running[r]
  /\ \A w \in Procs : (pc[w] = "wait" /\ answer[w] = "none") => w \in waiters[ref[w]]

\* q waits or leads at slot r: its payload stays what it is.
Member(q, r) == q \in Procs /\ ref[q] = r /\ (q \in waiters[r] \/ pc[q] \in Leading)

\* slot.latest and job point at payloads of such goroutines.
PayloadInv ==
  /\ \A r \in Refs : running[r] => Member(latest[r], r)
  /\ \A p \in Procs : pc[p] \in {"apply", "settle"} => Member(job[p], ref[p])

\* A key was recorded for a payload that was applied.
KeyInv ==
  \A k \in Keys : idempotency[k] # None =>
    top[idempotency[k][1]] >= idempotency[k][2]

\* A result 200 was earned by the payload that was applied, or by its key.
Earned(p) ==
  /\ result[p] = "reloaded" => /\ top[ref[p]] >= rev[job[p]]
                               /\ app[ref[p]] \in {rev[job[p]], 0}
  /\ result[p] = "noop" => idempotency[key[job[p]]] # None

ResultInv ==
  \A p \in Procs : pc[p] = "settle" => result[p] \in Results \ {"none"} /\ Earned(p)

QueueInv ==
  \A r \in Refs : IsFiniteSet(waiters[r]) /\ Cardinality(waiters[r]) <= MaxQueueLen

ShareInv == RequestInv /\ LeaderInv /\ ListInv /\ PayloadInv

IInv == TypeOK /\ ShareInv /\ LatestCoversWaiters /\ ResultInv /\ KeyInv /\ QueueInv

-----------------------------------------------------------------------------
LEMMA PayloadShape ==
  ASSUME NEW j \in Payloads
  PROVE  j.ref \in Refs /\ j.repo \in Repos /\ j.rev \in Nat \ {0} /\ j.key \in Keys
BY PayloadsAssumption DEF PayloadType

LEMMA InitInv == Init => IInv
<1>. SUFFICES ASSUME Init PROVE IInv
  OBVIOUS
<1>1. TypeOK
  BY BoundAssumption DEF Init, TypeOK, Labels, Answers, Results
<1>2. ShareInv
  BY DEF Init, ShareInv, RequestInv, LeaderInv, ListInv, PayloadInv, Leading
<1>3. LatestCoversWaiters /\ ResultInv /\ KeyInv
  BY DEF Init, LatestCoversWaiters, ResultInv, KeyInv
<1>4. QueueInv
  BY FS_EmptySet, BoundAssumption DEF Init, QueueInv
<1>. QED  BY <1>1, <1>2, <1>3, <1>4 DEF IInv

LEMMA StepTyped == TypeOK /\ ShareInv /\ [Next]_vars => TypeOK'
<1>. SUFFICES ASSUME TypeOK, ShareInv, [Next]_vars PROVE TypeOK'
  OBVIOUS
<1>. USE DEF TypeOK, ShareInv, RequestInv, Goto, Leave, slot, store, mine, Labels, Answers, Results
<1>1. ASSUME NEW p \in Procs, NEW j \in Payloads, Call(p, j) PROVE TypeOK'
  BY <1>1, PayloadShape DEF Call
<1>2. ASSUME NEW p \in Procs, Work(p) PROVE TypeOK'
  <2>1. CASE SubmitFull(p)
    BY <2>1 DEF SubmitFull
  <2>2. CASE SubmitWait(p)
    BY <2>2 DEF SubmitWait
  <2>3. CASE SubmitLead(p)
    BY <2>3 DEF SubmitLead
  <2>4. CASE Take(p)
    BY <2>4 DEF Take, PayloadInv, LeaderInv, Member, Leading
  <2>5. CASE Apply(p)
    <3>1. /\ job[p] \in Procs /\ ref[job[p]] \in Refs /\ rev[job[p]] \in Nat
          /\ repo[job[p]] \in Repos /\ key[job[p]] \in Keys
      BY <2>5 DEF Apply, PayloadInv, LeaderInv, ListInv, Member, Leading
    <3>2. result' \in [Procs -> Results] /\ pc' \in [Procs -> Labels]
      BY <2>5 DEF Apply
    <3>3. \A q \in Procs : pc'[q] \in {"apply", "settle"} => job[q] \in Procs
      BY <2>5 DEF Apply
    <3>4. app' \in [Refs -> Nat] /\ counter' \in [Repos -> Nat]
      BY <2>5, <3>1 DEF Apply
    <3>5. top' \in [Refs -> Nat]
      BY <2>5, <3>1 DEF Apply
    <3>6. idempotency' \in [Keys -> (Refs \X Nat) \cup {None}]
      <4>1. <<ref[job[p]], rev[job[p]]>> \in Refs \X Nat
        BY <3>1
      <4>. DEFINE entry == <<ref[job[p]], rev[job[p]]>>
      <4>2. \/ idempotency' = idempotency
            \/ idempotency' = [idempotency EXCEPT ![key[job[p]]] = entry]
        BY <2>5 DEF Apply
      <4>3. entry \in (Refs \X Nat) \cup {None}
        BY <4>1
      <4>. HIDE DEF entry
      <4>. QED  BY <4>2, <4>3
    <3>. QED  BY <2>5, <3>2, <3>3, <3>4, <3>5, <3>6 DEF Apply
  <2>6. CASE Again(p)
    BY <2>6 DEF Again
  <2>7. CASE Settle(p)
    BY <2>7 DEF Settle
  <2>8. CASE Receive(p)
    BY <2>8 DEF Receive
  <2>9. CASE Respond(p)
    BY <2>9, BoundAssumption DEF Respond
  <2>. QED  BY <1>2, <2>1, <2>2, <2>3, <2>4, <2>5, <2>6, <2>7, <2>8, <2>9 DEF Work
<1>3. CASE UNCHANGED vars
  BY <1>3 DEF vars
<1>4. ASSUME NEW r \in Refs, Delete(r) PROVE TypeOK'
  BY <1>4 DEF Delete
<1>. QED  BY <1>1, <1>2, <1>3, <1>4 DEF Next
-----------------------------------------------------------------------------
(* The slot and its goroutines *)

LEMMA StepRequest ==
  ASSUME TypeOK, RequestInv, ListInv, [Next]_vars
  PROVE  RequestInv'
<1>. USE DEF TypeOK, RequestInv, ListInv, Goto, Leave, slot, store, mine, Leading
<1>1. ASSUME NEW p \in Procs, NEW j \in Payloads, Call(p, j) PROVE RequestInv'
  BY <1>1, PayloadShape DEF Call
<1>2. ASSUME NEW p \in Procs, Work(p) PROVE RequestInv'
  <2>1. CASE SubmitFull(p)
    BY <2>1 DEF SubmitFull
  <2>2. CASE SubmitWait(p)
    BY <2>2 DEF SubmitWait
  <2>3. CASE SubmitLead(p)
    BY <2>3 DEF SubmitLead
  <2>4. CASE Take(p)
    BY <2>4 DEF Take
  <2>5. CASE Apply(p)
    BY <2>5 DEF Apply
  <2>6. CASE Again(p)
    BY <2>6 DEF Again
  <2>7. CASE Settle(p)
    BY <2>7 DEF Settle
  <2>8. CASE Receive(p)
    BY <2>8 DEF Receive
  <2>9. CASE Respond(p)
    BY <2>9 DEF Respond
  <2>. QED  BY <1>2, <2>1, <2>2, <2>3, <2>4, <2>5, <2>6, <2>7, <2>8, <2>9 DEF Work
<1>3. CASE UNCHANGED vars
  BY <1>3 DEF vars
<1>4. ASSUME NEW r \in Refs, Delete(r) PROVE RequestInv'
  BY <1>4 DEF Delete
<1>. QED  BY <1>1, <1>2, <1>3, <1>4 DEF Next

LEMMA StepLeader ==
  ASSUME TypeOK, RequestInv, LeaderInv, [Next]_vars
  PROVE  LeaderInv'
<1>. USE DEF TypeOK, RequestInv, LeaderInv, Goto, Leave, slot, store, mine, Leading
<1>1. ASSUME NEW p \in Procs, NEW j \in Payloads, Call(p, j) PROVE LeaderInv'
  BY <1>1, PayloadShape DEF Call
<1>2. ASSUME NEW p \in Procs, Work(p) PROVE LeaderInv'
  <2>1. CASE SubmitFull(p)
    BY <2>1 DEF SubmitFull
  <2>2. CASE SubmitWait(p)
    BY <2>2 DEF SubmitWait
  <2>3. CASE SubmitLead(p)
    BY <2>3 DEF SubmitLead
  <2>4. CASE Take(p)
    BY <2>4 DEF Take
  <2>5. CASE Apply(p)
    BY <2>5 DEF Apply
  <2>6. CASE Again(p)
    BY <2>6 DEF Again
  <2>7. CASE Settle(p)
    BY <2>7 DEF Settle
  <2>8. CASE Receive(p)
    BY <2>8 DEF Receive
  <2>9. CASE Respond(p)
    BY <2>9 DEF Respond
  <2>. QED  BY <1>2, <2>1, <2>2, <2>3, <2>4, <2>5, <2>6, <2>7, <2>8, <2>9 DEF Work
<1>3. CASE UNCHANGED vars
  BY <1>3 DEF vars
<1>4. ASSUME NEW r \in Refs, Delete(r) PROVE LeaderInv'
  BY <1>4 DEF Delete
<1>. QED  BY <1>1, <1>2, <1>3, <1>4 DEF Next

LEMMA StepList ==
  ASSUME TypeOK, RequestInv, LeaderInv, ListInv, ResultInv, [Next]_vars
  PROVE  ListInv'
<1>. USE DEF TypeOK, RequestInv, LeaderInv, ListInv, Goto, Leave, slot, store, mine, Leading
<1>1. ASSUME NEW p \in Procs, NEW j \in Payloads, Call(p, j) PROVE ListInv'
  BY <1>1, PayloadShape DEF Call
<1>2. ASSUME NEW p \in Procs, Work(p) PROVE ListInv'
  <2>1. CASE SubmitFull(p)
    BY <2>1 DEF SubmitFull
  <2>2. CASE SubmitWait(p)
    BY <2>2 DEF SubmitWait
  <2>3. CASE SubmitLead(p)
    BY <2>3 DEF SubmitLead
  <2>4. CASE Take(p)
    BY <2>4 DEF Take
  <2>5. CASE Apply(p)
    BY <2>5 DEF Apply
  <2>6. CASE Again(p)
    BY <2>6 DEF Again
  <2>7. CASE Settle(p)
    BY <2>7 DEF Settle, ResultInv, Results
  <2>8. CASE Receive(p)
    BY <2>8 DEF Receive
  <2>9. CASE Respond(p)
    BY <2>9 DEF Respond
  <2>. QED  BY <1>2, <2>1, <2>2, <2>3, <2>4, <2>5, <2>6, <2>7, <2>8, <2>9 DEF Work
<1>3. CASE UNCHANGED vars
  BY <1>3 DEF vars
<1>4. ASSUME NEW r \in Refs, Delete(r) PROVE ListInv'
  BY <1>4 DEF Delete
<1>. QED  BY <1>1, <1>2, <1>3, <1>4 DEF Next

LEMMA StepPayload ==
  ASSUME TypeOK, ShareInv, [Next]_vars
  PROVE  PayloadInv'
<1>. USE DEF TypeOK, ShareInv, RequestInv, LeaderInv, ListInv, PayloadInv, Member, Goto,
             Leave, slot, store, mine, Leading
<1>1. ASSUME NEW p \in Procs, NEW j \in Payloads, Call(p, j) PROVE PayloadInv'
  BY <1>1, PayloadShape DEF Call
<1>2. ASSUME NEW p \in Procs, Work(p) PROVE PayloadInv'
  <2>1. CASE SubmitFull(p)
    BY <2>1 DEF SubmitFull
  <2>2. CASE SubmitWait(p)
    BY <2>2 DEF SubmitWait
  <2>3. CASE SubmitLead(p)
    BY <2>3 DEF SubmitLead
  <2>4. CASE Take(p)
    BY <2>4 DEF Take
  <2>5. CASE Apply(p)
    BY <2>5 DEF Apply
  <2>6. CASE Again(p)
    BY <2>6 DEF Again
  <2>7. CASE Settle(p)
    BY <2>7 DEF Settle
  <2>8. CASE Receive(p)
    BY <2>8 DEF Receive
  <2>9. CASE Respond(p)
    BY <2>9 DEF Respond
  <2>. QED  BY <1>2, <2>1, <2>2, <2>3, <2>4, <2>5, <2>6, <2>7, <2>8, <2>9 DEF Work
<1>3. CASE UNCHANGED vars
  BY <1>3 DEF vars
<1>4. ASSUME NEW r \in Refs, Delete(r) PROVE PayloadInv'
  BY <1>4 DEF Delete
<1>. QED  BY <1>1, <1>2, <1>3, <1>4 DEF Next

LEMMA StepLatest ==
  ASSUME TypeOK, ShareInv, LatestCoversWaiters, [Next]_vars
  PROVE  LatestCoversWaiters'
<1>. USE DEF TypeOK, ShareInv, RequestInv, LeaderInv, ListInv, PayloadInv, Member,
             LatestCoversWaiters, Goto, Leave, slot, store, mine, Leading
<1>1. ASSUME NEW p \in Procs, NEW j \in Payloads, Call(p, j)
      PROVE LatestCoversWaiters'
  BY <1>1, PayloadShape DEF Call
<1>2. ASSUME NEW p \in Procs, Work(p) PROVE LatestCoversWaiters'
  <2>1. CASE SubmitFull(p)
    BY <2>1 DEF SubmitFull
  <2>2. CASE SubmitWait(p)
    BY <2>2, NoneAssumption DEF SubmitWait, Newer
  <2>3. CASE SubmitLead(p)
    BY <2>3, NoneAssumption DEF SubmitLead
  <2>4. CASE Take(p)
    BY <2>4 DEF Take
  <2>5. CASE Apply(p)
    BY <2>5 DEF Apply
  <2>6. CASE Again(p)
    BY <2>6 DEF Again
  <2>7. CASE Settle(p)
    BY <2>7 DEF Settle
  <2>8. CASE Receive(p)
    BY <2>8 DEF Receive
  <2>9. CASE Respond(p)
    BY <2>9 DEF Respond
  <2>. QED  BY <1>2, <2>1, <2>2, <2>3, <2>4, <2>5, <2>6, <2>7, <2>8, <2>9 DEF Work
<1>3. CASE UNCHANGED vars
  BY <1>3 DEF vars
<1>4. ASSUME NEW r \in Refs, Delete(r) PROVE LatestCoversWaiters'
  BY <1>4 DEF Delete
<1>. QED  BY <1>1, <1>2, <1>3, <1>4 DEF Next

\* What is recorded stays earned.
LEMMA StepKey ==
  ASSUME TypeOK, ShareInv, KeyInv, [Next]_vars
  PROVE  KeyInv'
<1>1. CASE UNCHANGED <<idempotency, top>>
  BY <1>1 DEF KeyInv
<1>2. ASSUME NEW p \in Procs, Apply(p), ~UNCHANGED <<idempotency, top>> PROVE KeyInv'
  <2>. DEFINE j == job[p]
  <2>1. j \in Procs /\ ref[j] \in Refs /\ rev[j] \in Nat /\ key[j] \in Keys
    BY <1>2 DEF Apply, ShareInv, RequestInv, ListInv, PayloadInv, Member, Leading, TypeOK
  <2>2. /\ top' = [top EXCEPT ![ref[j]] = IF rev[j] > @ THEN rev[j] ELSE @]
        /\ idempotency' = [idempotency EXCEPT ![key[j]] = <<ref[j], rev[j]>>]
    BY <1>2 DEF Apply, store
  <2>. HIDE DEF j
  <2>3. \A r \in Refs : top'[r] >= top[r] /\ top'[r] \in Nat /\ top[r] \in Nat
    BY <2>1, <2>2 DEF TypeOK
  <2>4. top'[ref[j]] >= rev[j]
    BY <2>1, <2>2 DEF TypeOK
  <2>. SUFFICES ASSUME NEW k \in Keys, idempotency'[k] # None
                PROVE  top'[idempotency'[k][1]] >= idempotency'[k][2]
    BY DEF KeyInv
  <2>5. CASE k = key[j]
    BY <2>1, <2>2, <2>4, <2>5 DEF TypeOK
  <2>6. CASE k # key[j]
    <3>1. idempotency'[k] = idempotency[k]
      BY <2>1, <2>2, <2>6 DEF TypeOK
    <3>2. idempotency[k] \in Refs \X Nat
      BY <3>1 DEF TypeOK
    <3>3. top[idempotency[k][1]] >= idempotency[k][2]
      BY <3>1 DEF KeyInv
    <3>4. idempotency[k][1] \in Refs /\ idempotency[k][2] \in Nat
      BY <3>2
    <3>. QED  BY <2>3, <3>1, <3>3, <3>4
  <2>. QED  BY <2>5, <2>6
<1>. QED
  BY <1>1, <1>2 DEF Next, Work, Call, SubmitFull, SubmitWait, SubmitLead, Take, Apply, Again,
     Settle, Receive, Respond, Delete, vars, store

LEMMA StepResult ==
  ASSUME TypeOK, ShareInv, ResultInv, [Next]_vars
  PROVE  ResultInv'
<1>. USE DEF TypeOK, ShareInv, RequestInv, LeaderInv, ListInv, PayloadInv, Member,
             ResultInv, Earned, Goto, Leave, slot, store, mine, Leading
<1>1. ASSUME NEW p \in Procs, NEW j \in Payloads, Call(p, j) PROVE ResultInv'
  BY <1>1, PayloadShape DEF Call
<1>2. ASSUME NEW p \in Procs, Work(p) PROVE ResultInv'
  <2>1. CASE SubmitFull(p)
    BY <2>1 DEF SubmitFull
  <2>2. CASE SubmitWait(p)
    BY <2>2 DEF SubmitWait
  <2>3. CASE SubmitLead(p)
    BY <2>3 DEF SubmitLead
  <2>4. CASE Take(p)
    BY <2>4 DEF Take
  <2>5. CASE Apply(p)
    <3>1. /\ job[p] \in Procs /\ ref[job[p]] = ref[p] /\ ref[p] \in Refs
          /\ rev[job[p]] \in Nat /\ key[job[p]] \in Keys
      BY <2>5 DEF Apply
    <3>2. /\ UNCHANGED <<slot, mine, job, answer>>
          /\ \A q \in Procs : q # p => pc'[q] = pc[q] /\ result'[q] = result[q]
          /\ \A r \in Refs : r # ref[p] => app'[r] = app[r] /\ top'[r] = top[r]
          /\ \A k \in Keys : idempotency[k] # None => idempotency'[k] = idempotency[k]
      BY <2>5, <3>1 DEF Apply
    <3>3. result'[p] \in Results \ {"none"} /\ Earned(p)'
      BY <2>5, <3>1, <3>2 DEF Apply, Results
    <3>4. ASSUME NEW q \in Procs, q # p, pc[q] = "settle"
          PROVE  result'[q] \in Results \ {"none"} /\ Earned(q)'
      <4>1. ref[q] # ref[p] /\ ref[q] \in Refs /\ job[q] \in Procs /\ key[job[q]] \in Keys
        BY <2>5, <3>4 DEF Apply
      <4>. QED  BY <3>2, <3>4, <4>1
    <3>. QED  BY <3>2, <3>3, <3>4
  <2>6. CASE Again(p)
    BY <2>6 DEF Again
  <2>7. CASE Settle(p)
    BY <2>7 DEF Settle
  <2>8. CASE Receive(p)
    BY <2>8 DEF Receive
  <2>9. CASE Respond(p)
    BY <2>9 DEF Respond
  <2>. QED  BY <1>2, <2>1, <2>2, <2>3, <2>4, <2>5, <2>6, <2>7, <2>8, <2>9 DEF Work
<1>3. CASE UNCHANGED vars
  BY <1>3 DEF vars
<1>4. ASSUME NEW r \in Refs, Delete(r) PROVE ResultInv'
  BY <1>4 DEF Delete
<1>. QED  BY <1>1, <1>2, <1>3, <1>4 DEF Next

-----------------------------------------------------------------------------
(* The queue *)

\* HasRoom: a list that has room for one more keeps its bound.
LEMMA OneMoreWaits ==
  ASSUME NEW S, NEW w, IsFiniteSet(S), Cardinality(S) < MaxQueueLen
  PROVE  IsFiniteSet(S \cup {w}) /\ Cardinality(S \cup {w}) <= MaxQueueLen
<1>1. Cardinality(S) \in Nat
  BY FS_CardinalityType
<1>2. /\ IsFiniteSet(S \cup {w})
      /\ Cardinality(S \cup {w}) = IF w \in S THEN Cardinality(S) ELSE Cardinality(S) + 1
  BY FS_AddElement
<1>. QED  BY <1>1, <1>2, BoundAssumption

LEMMA StepQueue ==
  ASSUME TypeOK, RequestInv, QueueInv, [Next]_vars
  PROVE  QueueInv'
<1>1. CASE UNCHANGED waiters
  BY <1>1 DEF QueueInv
<1>2. ASSUME NEW p \in Procs, SubmitWait(p) PROVE QueueInv'
  <2>1. ref[p] \in Refs
    BY <1>2 DEF SubmitWait, RequestInv
  <2>2. /\ IsFiniteSet(waiters[ref[p]] \cup {p})
        /\ Cardinality(waiters[ref[p]] \cup {p}) <= MaxQueueLen
    BY <1>2, <2>1, OneMoreWaits DEF SubmitWait, HasRoom, QueueInv
  <2>3. \A r \in Refs : waiters'[r] = IF r = ref[p] THEN waiters[r] \cup {p} ELSE waiters[r]
    BY <1>2, <2>1 DEF SubmitWait, TypeOK
  <2>. QED  BY <2>2, <2>3 DEF QueueInv
<1>3. ASSUME NEW p \in Procs, Settle(p) PROVE QueueInv'
  <2>1. \A r \in Refs : waiters'[r] \in {{}, waiters[r]}
    BY <1>3 DEF Settle, TypeOK
  <2>2. IsFiniteSet({}) /\ Cardinality({}) <= MaxQueueLen
    BY FS_EmptySet, BoundAssumption
  <2>. QED  BY <2>1, <2>2 DEF QueueInv
<1>. QED
  BY <1>1, <1>2, <1>3 DEF Next, Work, Call, SubmitFull, SubmitLead, Take, Apply, Again,
     Leave, Receive, Respond, Delete, vars, slot

-----------------------------------------------------------------------------
(* The theorems *)

LEMMA StepInv == IInv /\ [Next]_vars => IInv'
<1>. SUFFICES ASSUME IInv, [Next]_vars PROVE IInv'
  OBVIOUS
<1>. USE DEF IInv
<1>1. TypeOK'
  BY StepTyped
<1>2. ShareInv'
  BY StepRequest, StepLeader, StepList, StepPayload DEF ShareInv
<1>3. LatestCoversWaiters' /\ ResultInv' /\ KeyInv' /\ QueueInv'
  BY StepLatest, StepResult, StepKey, StepQueue DEF ShareInv
<1>. QED  BY <1>1, <1>2, <1>3

LEMMA Invariance == Spec => []IInv
<1>. QED  BY InitInv, StepInv, PTL DEF Spec

\* At most one goroutine leads a slot.
LEMMA OneLeader ==
  ASSUME LeaderInv, NEW r \in Refs
  PROVE  Cardinality({p \in Procs : pc[p] \in Leading /\ ref[p] = r}) <= 1
<1>. DEFINE S == {p \in Procs : pc[p] \in Leading /\ ref[p] = r}
<1>1. CASE S = {}
  BY <1>1, FS_EmptySet
<1>2. CASE \E p \in S : S = {p}
  <2>1. PICK p \in S : S = {p}
    BY <1>2
  <2>2. Cardinality({p}) = 1
    BY FS_Singleton
  <2>. HIDE DEF S
  <2>3. Cardinality(S) <= 1
    BY <2>1, <2>2
  <2>. QED  BY <2>3 DEF S
<1>3. \A p, q \in S : p = q
  BY DEF LeaderInv
<1>. QED  BY <1>1, <1>2, <1>3

LEMMA InvIsSound == IInv => SlotSound
<1>. SUFFICES ASSUME IInv PROVE SlotSound
  OBVIOUS
<1>1. WaiterHasLeader
  BY DEF IInv, ShareInv, RequestInv, LeaderInv, ListInv, WaiterHasLeader
<1>2. SlotBound
  BY OneLeader DEF IInv, ShareInv, QueueInv, SlotBound
<1>. QED  BY <1>1, <1>2 DEF IInv, SlotSound

\* submit and appSlot: whatever the number of requests and apps, nobody waits on a slot
\* that everyone has left or for a payload older than its own, a slot has one leader,
\* and its queue keeps the bound.
THEOREM Sound == Spec => []SlotSound
<1>. QED  BY Invariance, InvIsSound, PTL

LEMMA StepCovers == IInv /\ [Next]_vars => [CoveredStep]_vars
<1>. SUFFICES ASSUME IInv, Next PROVE CoveredStep
  OBVIOUS
<1>1. ASSUME NEW p \in Procs, Settle(p) PROVE CoveredStep
  <2>. DEFINE r == ref[p]
              l == latest[r]
  <2>1. r \in Refs /\ running[r] /\ pc[p] \in Leading /\ job[p] = l
    BY <1>1 DEF Settle, IInv, ShareInv, RequestInv, LeaderInv, Leading
  <2>2. l \in Procs /\ ref[l] = r /\ rev[l] \in Nat /\ key[l] \in Keys
    BY <2>1 DEF IInv, TypeOK, ShareInv, PayloadInv, RequestInv, ListInv, Member, Leading
  <2>3. Earned(p) /\ KeyInv
    BY <1>1 DEF Settle, IInv, ResultInv
  <2>4. UNCHANGED <<app, top>>
    BY <1>1 DEF Settle, store
  <2>5. top[r] \in Nat /\ app[r] \in Nat
    BY <2>1 DEF IInv, TypeOK
  <2>6. ASSUME NEW q \in Procs, answer[q] = "none", answer'[q] # "none"
        PROVE  /\ ref[q] = r /\ rev[l] >= rev[q] /\ rev[q] \in Nat
               /\ answer'[q] = result[p]
    <3>1. q = p \/ q \in waiters[r]
      BY <1>1, <2>6 DEF Settle, IInv, TypeOK
    <3>2. ref[q] = r
      BY <2>1, <3>1 DEF IInv, ShareInv, ListInv
    <3>3. rev[l] >= rev[q]
      BY <2>1, <3>1 DEF IInv, LatestCoversWaiters
    <3>. QED  BY <1>1, <3>1, <3>2, <3>3 DEF Settle, IInv, TypeOK
  <2>7. ASSUME NEW q \in Procs, answer[q] = "none", answer'[q] = "reloaded"
        PROVE  top'[ref[q]] >= rev[q] /\ (app'[ref[q]] = 0 \/ app'[ref[q]] >= rev[q])
    <3>1. ref[q] = r /\ rev[l] >= rev[q] /\ rev[q] \in Nat /\ result[p] = "reloaded"
      BY <2>6, <2>7
    <3>2. top[r] >= rev[l] /\ app[r] \in {rev[l], 0}
      BY <2>1, <2>3, <3>1 DEF Earned
    <3>. HIDE DEF r, l
    <3>. QED  BY <2>2, <2>4, <2>5, <3>1, <3>2
  <2>8. ASSUME NEW q \in Procs, answer[q] = "none", answer'[q] = "noop"
        PROVE  \E w \in Procs :
                 /\ ref[w] = ref[q] /\ rev[w] >= rev[q] /\ idempotency[key[w]] # None
                 /\ idempotency[key[w]] = <<ref[w], rev[w]>> => top'[ref[q]] >= rev[q]
    <3>1. ref[q] = r /\ rev[l] >= rev[q] /\ rev[q] \in Nat /\ result[p] = "noop"
      BY <2>6, <2>8
    <3>2. idempotency[key[l]] # None
      BY <2>1, <2>3, <3>1 DEF Earned
    <3>3. idempotency[key[l]] = <<ref[l], rev[l]>> => top[ref[l]] >= rev[l]
      <4>1. top[idempotency[key[l]][1]] >= idempotency[key[l]][2]
        BY <2>2, <2>3, <3>2 DEF KeyInv
      <4>. HIDE DEF l
      <4>. QED  BY <4>1
    <3>. HIDE DEF r, l
    <3>. QED  BY <2>2, <2>4, <2>5, <3>1, <3>2, <3>3
  <2>. QED  BY <2>7, <2>8 DEF CoveredStep
<1>2. ASSUME NEW p \in Procs, SubmitFull(p) \/ Respond(p) PROVE CoveredStep
  BY <1>2 DEF SubmitFull, Respond, CoveredStep, IInv, TypeOK
<1>3. CASE UNCHANGED answer
  BY <1>3 DEF CoveredStep
<1>. QED
  BY <1>1, <1>2, <1>3 DEF Next, Work, Call, SubmitWait, SubmitLead, Take, Apply, Again, Receive,
                          Delete

\* submit: an answer 200 reloaded says that the app was put at the caller's own
\* revision or a later one and is there still unless it was deleted; an answer
\* noop, that a payload no older than the caller's has a key a reload recorded,
\* which says as much only if it was recorded for that payload.  For the leader
\* and for everyone who waited on it, whatever keys and repositories clients use.
THEOREM Covers == Spec => SettledCovers
<1>1. IInv /\ [Next]_vars => [CoveredStep]_vars
  BY StepCovers
<1>. QED  BY Invariance, <1>1, PTL DEF Spec, SettledCovers

-----------------------------------------------------------------------------
(* NonceReplay *)

\* A reading of the clock that passed CheckTimestamp for r.
Timely(r, t) == r.ts <= t + MaxSkew + Window /\ t <= r.ts + Window

HandlerInv ==
  \A p \in Handlers : stage[p] = "nonce" =>
    /\ req[p] \in Requests
    /\ at[p] > 0 /\ at[p] <= mono /\ mono <= at[p] + Stall
    /\ Timely(req[p], at[p])

\* The nonce of an accepted request is remembered until its entry's time is up.
CacheInv ==
  \A r \in Requests : accepted[r] # 0 =>
    /\ r.nonce \in Nonces
    /\ Timely(r, accepted[r])
    /\ seen[r.nonce] >= accepted[r] + TTL \/ mono >= accepted[r] + TTL

\* Every entry of the cache is there for a request that was accepted.
EntryInv ==
  \A n \in Nonces : seen[n] # 0 => \E r \in Requests : r.nonce = n /\ accepted[r] # 0

ReplayInv == ReplayTypeOK /\ HandlerInv /\ CacheInv /\ EntryInv /\ NoReplay

LEMMA Times == /\ Window \in Nat /\ TTL \in Nat /\ Stall \in Nat /\ MaxSkew \in Nat
               /\ MaxTime \in Nat /\ MaxTime > 0 /\ TTL > 2 * Window + Stall + MaxSkew
BY TimesAssumption, MarginAssumption

LEMMA RequestFields ==
  ASSUME NEW r \in Requests
  PROVE  r.ts \in Nat /\ (r.nonce # EmptyNonce => r.nonce \in Nonces)
BY RequestsAssumption DEF RequestType

LEMMA ReplayInitInv == ReplayInit => ReplayInv
<1>. SUFFICES ASSUME ReplayInit PROVE ReplayInv
  OBVIOUS
<1>1. ReplayTypeOK
  <2>1. mono \in 1..MaxTime /\ skew \in 0..MaxSkew
    BY Times DEF ReplayInit
  <2>2. seen \in [Nonces -> Nat] /\ at \in [Handlers -> 0..MaxTime]
    BY Times DEF ReplayInit
  <2>3. accepted \in [Requests -> 0..MaxTime]
    BY Times DEF ReplayInit
  <2>4. /\ stage \in [Handlers -> {"idle", "nonce"}]
        /\ req \in [Handlers -> Requests \cup {NoRequest}]
    BY DEF ReplayInit
  <2>5. replayed \in BOOLEAN
    BY DEF ReplayInit
  <2>. QED  BY <2>1, <2>2, <2>3, <2>4, <2>5 DEF ReplayTypeOK
<1>2. HandlerInv /\ CacheInv /\ EntryInv
  BY DEF ReplayInit, HandlerInv, CacheInv, EntryInv
<1>3. NoReplay
  BY DEF ReplayInit, NoReplay
<1>. QED  BY <1>1, <1>2, <1>3 DEF ReplayInv

\* The heart of the argument: by the time an entry has gone, and however stale
\* the reading of the handler that finds it gone, the request is out of the
\* window.
LEMMA AcceptedOnce ==
  ASSUME ReplayInv, NEW p \in Handlers, Accept(p)
  PROVE  accepted[req[p]] = 0
<1>. DEFINE r == req[p]
<1>1. SUFFICES ASSUME accepted[r] # 0 PROVE FALSE
  OBVIOUS
<1>2. r \in Requests /\ at[p] \in Nat /\ accepted[r] \in Nat /\ mono \in Nat
  BY Times DEF Accept, ReplayInv, HandlerInv, ReplayTypeOK
<1>3. r.ts \in Nat /\ r.nonce \in Nonces
  BY <1>2, RequestFields DEF Accept
<1>4. seen[r.nonce] \in Nat /\ seen[r.nonce] <= at[p]
  BY <1>2, <1>3 DEF Accept, Swept, ReplayInv, ReplayTypeOK
<1>5. /\ at[p] <= mono /\ mono <= at[p] + Stall /\ at[p] <= r.ts + Window
      /\ r.ts <= accepted[r] + MaxSkew + Window
  BY <1>1, <1>2 DEF Accept, ReplayInv, HandlerInv, CacheInv, Timely
<1>6. seen[r.nonce] >= accepted[r] + TTL \/ mono >= accepted[r] + TTL
  BY <1>1, <1>2 DEF ReplayInv, CacheInv
<1>. HIDE DEF r
<1>. QED  BY <1>2, <1>3, <1>4, <1>5, <1>6, Times

LEMMA ReplayStepInv == ReplayInv /\ [ReplayNext]_replayVars => ReplayInv'
<1>. SUFFICES ASSUME ReplayInv, [ReplayNext]_replayVars PROVE ReplayInv'
  OBVIOUS
<1>. USE Times DEF ReplayInv
<1>1. CASE Tick
  BY <1>1 DEF Tick, ReplayTypeOK, HandlerInv, CacheInv, EntryInv, NoReplay
<1>2. CASE Step
  BY <1>2 DEF Step, ReplayTypeOK, HandlerInv, CacheInv, EntryInv, NoReplay
<1>3. CASE Restart
  BY <1>3 DEF Restart, ReplayTypeOK, HandlerInv, CacheInv, EntryInv, NoReplay
<1>4. ASSUME NEW p \in Handlers, NEW r \in Requests, Admit(p, r) PROVE ReplayInv'
  <2>1. ReplayTypeOK' /\ CacheInv' /\ EntryInv' /\ NoReplay'
    BY <1>4 DEF Admit, ReplayTypeOK, CacheInv, EntryInv, NoReplay
  <2>2. HandlerInv'
    BY <1>4, RequestFields DEF Admit, InWindow, ReplayTypeOK, HandlerInv, Timely
  <2>. QED  BY <2>1, <2>2
<1>5. ASSUME NEW p \in Handlers, Accept(p) PROVE ReplayInv'
  <2>1. /\ req[p] \in Requests /\ at[p] \in Nat /\ at[p] > 0 /\ at[p] <= mono
        /\ Timely(req[p], at[p]) /\ mono \in Nat
    BY <1>5 DEF Accept, HandlerInv, ReplayTypeOK
  <2>2. req[p].nonce \in Nonces
    BY <1>5, <2>1, RequestFields DEF Accept
  <2>3. NoReplay'
    BY <1>5, AcceptedOnce DEF Accept, NoReplay
  <2>4. ReplayTypeOK'
    BY <1>5, <2>1, <2>2, <2>3 DEF Accept, Finish, Swept, ReplayTypeOK, NoReplay
  <2>5. HandlerInv'
    BY <1>5 DEF Accept, Finish, ReplayTypeOK, HandlerInv
  <2>6. CacheInv'
    <3>1. SUFFICES ASSUME NEW r \in Requests, accepted'[r] # 0
                   PROVE  /\ r.nonce \in Nonces
                          /\ Timely(r, accepted'[r])
                          /\ \/ seen'[r.nonce] >= accepted'[r] + TTL
                             \/ mono' >= accepted'[r] + TTL
      BY DEF CacheInv, Timely
    <3>2. CASE r = req[p]
      BY <1>5, <2>1, <2>2, <3>2 DEF Accept, Finish, Swept, ReplayTypeOK
    <3>3. CASE r # req[p]
      <4>1. /\ accepted'[r] = accepted[r] /\ mono' = mono /\ accepted[r] \in Nat
            /\ r.nonce \in Nonces /\ Timely(r, accepted[r])
            /\ seen[r.nonce] >= accepted[r] + TTL \/ mono >= accepted[r] + TTL
        BY <1>5, <3>1, <3>3 DEF Accept, Finish, ReplayTypeOK, CacheInv
      <4>2. /\ seen[r.nonce] \in Nat
            /\ seen'[r.nonce] = seen[r.nonce] \/ seen[r.nonce] <= at[p]
        BY <1>5, <2>1, <2>2, <4>1 DEF Accept, Swept, ReplayTypeOK
      <4>. QED  BY <4>1, <4>2, <2>1
    <3>. QED  BY <3>2, <3>3
  <2>7. EntryInv'
    BY <1>5, <2>1, <2>2 DEF Accept, Finish, Swept, ReplayTypeOK, EntryInv
  <2>. QED  BY <2>3, <2>4, <2>5, <2>6, <2>7
<1>6. ASSUME NEW p \in Handlers, RefuseEmpty(p) PROVE ReplayInv'
  BY <1>6 DEF RefuseEmpty, Finish, ReplayTypeOK, HandlerInv, CacheInv, EntryInv, NoReplay
<1>7. ASSUME NEW p \in Handlers, Refuse(p) PROVE ReplayInv'
  <2>1. ReplayTypeOK' /\ HandlerInv' /\ EntryInv' /\ NoReplay'
    BY <1>7 DEF Refuse, Finish, Swept, ReplayTypeOK, HandlerInv, EntryInv, NoReplay
  <2>2. at[p] \in Nat /\ at[p] <= mono /\ mono \in Nat
    BY <1>7 DEF Refuse, HandlerInv, ReplayTypeOK
  <2>3. CacheInv'
    BY <1>7, <2>2 DEF Refuse, Finish, Swept, ReplayTypeOK, CacheInv
  <2>. QED  BY <2>1, <2>3
<1>8. CASE UNCHANGED replayVars
  BY <1>8 DEF replayVars, ReplayTypeOK, HandlerInv, CacheInv, EntryInv, NoReplay
<1>. QED
  BY <1>1, <1>2, <1>3, <1>4, <1>5, <1>6, <1>7, <1>8 DEF ReplayNext

LEMMA ReplayInvariance == ReplaySpec => []ReplayInv
BY ReplayInitInv, ReplayStepInv, PTL DEF ReplaySpec

\* The types of the clocks, the cache and the handlers' readings.
THEOREM ReplayTyping == ReplaySpec => []ReplayTypeOK
<1>1. ReplayInv => ReplayTypeOK
  BY DEF ReplayInv
<1>. QED  BY <1>1, ReplayInvariance, PTL

\* With the margin of MarginAssumption no request is accepted twice in one life
\* of the process: CheckTimestamp and NonceCache together stop every replay.
THEOREM Replay == ReplaySpec => []NoReplay
<1>1. ReplayInv => NoReplay
  BY DEF ReplayInv
<1>. QED  BY <1>1, ReplayInvariance, PTL

\* A request is refused as a replay only after one with its nonce was accepted.
THEOREM Refusal == ReplaySpec => RefusedOnlyIfAccepted
<1>1. ReplayInv /\ [ReplayNext]_replayVars => RefusalStep
  <2>. SUFFICES ASSUME ReplayInv, NEW p \in Handlers, Refuse(p)
                PROVE  \E r \in Requests : r.nonce = req[p].nonce /\ accepted[r] # 0
    BY DEF RefusalStep
  <2>1. req[p].nonce \in Nonces /\ seen[req[p].nonce] # 0
    BY RequestFields DEF Refuse, Swept, ReplayInv, HandlerInv, ReplayTypeOK
  <2>. QED  BY <2>1 DEF ReplayInv, EntryInv
<1>. QED  BY <1>1, ReplayInvariance, PTL DEF ReplaySpec, RefusedOnlyIfAccepted
=============================================================================
