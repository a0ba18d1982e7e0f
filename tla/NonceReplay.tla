---------------------------- MODULE NonceReplay ----------------------------
(***************************************************************************)
(* The replay protection of the listener's write endpoints: the checks that*)
(* handleApply, handleDeleteApp and handlePool make in the same order      *)
(* (bearer, timestamp window, signature, nonce cache), internal/auth.      *)
(*                                                                         *)
(* Two clocks matter.  CheckTimestamp compares the wall clock with the     *)
(* timestamp of the request; NonceCache compares times that carry Go's     *)
(* monotonic reading.  The wall clock is the monotonic one plus skew, which*)
(* NTP or an operator may step back and forth.  A handler reads the clock  *)
(* once and uses that reading after it may have waited for the cache's     *)
(* lock: Stall bounds that wait.                                           *)
(***************************************************************************)
EXTENDS Integers

CONSTANTS
  Handlers, \* request goroutines
  Requests, \* requests on the wire, each deliverable any number of times
  Nonces, EmptyNonce,
  Window,   \* Config.TSWindow
  TTL,      \* Config.NonceTTL
  Stall,    \* longest time between reading the clock and CheckAndStore
  MaxSkew,  \* range of the wall clock's steps
  MaxTime,  \* bound on the timestamps, the clock stops there
  NoRequest

\* What the checks look at: the signed timestamp and nonce, and whether bearer
\* and signature are those of a client that knows the secrets.
RequestType == [id : Nat, ts : Nat, nonce : Nonces \cup {EmptyNonce}, genuine : BOOLEAN]

ASSUME RequestsAssumption == Requests \subseteq RequestType /\ NoRequest \notin Requests
ASSUME NonceAssumption    == EmptyNonce \notin Nonces
ASSUME TimesAssumption    == {Window, TTL, Stall, MaxSkew, MaxTime} \subseteq Nat
                                   /\ MaxTime > 0
\* The defaults are 30s and 5m, which leaves four minutes for Stall and MaxSkew.
ASSUME MarginAssumption   == TTL > 2 * Window + Stall + MaxSkew

VARIABLES
  mono,      \* the monotonic clock
  skew,      \* wall clock minus monotonic clock
  seen,      \* NonceCache.seen: nonce -> expiry, 0 for an absent key
  stage,     \* "idle", or "nonce": about to call CheckAndStore
  req,       \* the request a goroutine handles
  at,        \* the clock reading `now` of a goroutine
  accepted,  \* history: the reading of the last acceptance of each request in
             \* this life of the process, 0 for none
  replayed   \* history: a request was accepted twice

replayVars == <<mono, skew, seen, stage, req, at, accepted, replayed>>

ReplayTypeOK ==
  /\ mono \in 1..MaxTime /\ skew \in 0..MaxSkew
  /\ seen \in [Nonces -> Nat]
  /\ stage \in [Handlers -> {"idle", "nonce"}]
  /\ req \in [Handlers -> Requests \cup {NoRequest}]
  /\ at \in [Handlers -> 0..MaxTime]
  /\ accepted \in [Requests -> 0..MaxTime]
  /\ replayed \in BOOLEAN

ReplayInit ==
  /\ mono = 1 /\ skew \in 0..MaxSkew
  /\ seen = [n \in Nonces |-> 0]
  /\ stage = [p \in Handlers |-> "idle"]
  /\ req = [p \in Handlers |-> NoRequest]
  /\ at = [p \in Handlers |-> 0]
  /\ accepted = [r \in Requests |-> 0]
  /\ replayed = FALSE

\* Time passes; no handler is left waiting longer than Stall.
Tick ==
  /\ mono < MaxTime
  /\ \A p \in Handlers : stage[p] = "nonce" => mono < at[p] + Stall
  /\ mono' = mono + 1
  /\ UNCHANGED <<skew, seen, stage, req, at, accepted, replayed>>

\* The wall clock is stepped.
Step ==
  /\ skew' \in 0..MaxSkew
  /\ UNCHANGED <<mono, seen, stage, req, at, accepted, replayed>>

\* CheckTimestamp: |now - ts| <= window
InWindow(ts, wall) == wall - ts <= Window /\ ts - wall <= Window

\* VerifyBearer and VerifySignature
Authentic(r) == r.genuine

\* Mutant of Admit: the nonce is recorded before the signature is verified.
AdmitBurning(p, r) ==
  /\ stage[p] = "idle"
  /\ InWindow(r.ts, mono + skew)
  /\ IF Authentic(r)
     THEN /\ stage' = [stage EXCEPT ![p] = "nonce"]
          /\ req' = [req EXCEPT ![p] = r]
          /\ at' = [at EXCEPT ![p] = mono]
          /\ UNCHANGED seen
     ELSE /\ r.nonce # EmptyNonce
          /\ seen' = [seen EXCEPT ![r.nonce] = mono + TTL]
          /\ UNCHANGED <<stage, req, at>>
  /\ UNCHANGED <<mono, skew, accepted, replayed>>

\* A handler receives r, reads the clock and passes the checks before the
\* nonce's; a request that does not pass is answered 401.
Admit(p, r) ==
  /\ stage[p] = "idle"
  /\ InWindow(r.ts, mono + skew) /\ Authentic(r)
  /\ stage' = [stage EXCEPT ![p] = "nonce"]
  /\ req' = [req EXCEPT ![p] = r]
  /\ at' = [at EXCEPT ![p] = mono]
  /\ UNCHANGED <<mono, skew, seen, accepted, replayed>>

Finish(p) ==
  /\ stage' = [stage EXCEPT ![p] = "idle"]
  /\ req' = [req EXCEPT ![p] = NoRequest]
  /\ at' = [at EXCEPT ![p] = 0]
  /\ UNCHANGED <<mono, skew>>

\* Mutant of Swept: what is left of an entry's life instead of its expiry.
SweptRemaining(now) == [n \in Nonces |-> seen[n] - now]

\* sweepLocked(now)
Swept(now) == [n \in Nonces |-> IF seen[n] > now THEN seen[n] ELSE 0]

\* Mutant of Accept: an entry lives as long as the window.
AcceptForWindow(p) ==
  /\ stage[p] = "nonce"
  /\ LET r == req[p] IN
     /\ r.nonce # EmptyNonce
     /\ Swept(at[p])[r.nonce] = 0
     /\ seen' = [Swept(at[p]) EXCEPT ![r.nonce] = at[p] + Window]
     /\ replayed' = (replayed \/ accepted[r] # 0)
     /\ accepted' = [accepted EXCEPT ![r] = at[p]]
  /\ Finish(p)

\* CheckAndStore finds the nonce fresh and stores it.
Accept(p) ==
  /\ stage[p] = "nonce"
  /\ LET r == req[p] IN
     /\ r.nonce # EmptyNonce
     /\ Swept(at[p])[r.nonce] = 0
     /\ seen' = [Swept(at[p]) EXCEPT ![r.nonce] = at[p] + TTL]
     /\ replayed' = (replayed \/ accepted[r] # 0)
     /\ accepted' = [accepted EXCEPT ![r] = at[p]]
  /\ Finish(p)

\* CheckAndStore refuses an empty nonce before it sweeps.
RefuseEmpty(p) ==
  /\ stage[p] = "nonce" /\ req[p].nonce = EmptyNonce
  /\ Finish(p)
  /\ UNCHANGED <<seen, accepted, replayed>>

\* CheckAndStore finds the nonce in the cache: 401 nonce replay.
Refuse(p) ==
  /\ stage[p] = "nonce" /\ req[p].nonce # EmptyNonce
  /\ Swept(at[p])[req[p].nonce] # 0
  /\ seen' = Swept(at[p])
  /\ Finish(p)
  /\ UNCHANGED <<accepted, replayed>>

\* The process restarts with an empty cache; the history starts again.
Restart ==
  /\ seen' = [n \in Nonces |-> 0]
  /\ stage' = [p \in Handlers |-> "idle"]
  /\ req' = [p \in Handlers |-> NoRequest]
  /\ at' = [p \in Handlers |-> 0]
  /\ accepted' = [r \in Requests |-> 0]
  /\ UNCHANGED <<mono, skew, replayed>>

ReplayNext ==
  \/ Tick \/ Step \/ Restart
  \/ \E p \in Handlers, r \in Requests : Admit(p, r)
  \/ \E p \in Handlers : Accept(p) \/ RefuseEmpty(p) \/ Refuse(p)

ReplaySpec == ReplayInit /\ [][ReplayNext]_replayVars

-----------------------------------------------------------------------------
(* Properties *)

\* While the process lives no request is accepted twice, however often it is
\* delivered: an entry of the cache outlives the window of its request, also
\* for a handler that uses a stale reading of the clock, and for one whose
\* entry another handler has swept.
NoReplay == ~replayed

\* A request is refused as a replay only if one with its nonce was accepted:
\* a request that fails the signature never takes a nonce away from the
\* genuine one.
RefusalStep ==
  \A p \in Handlers :
    Refuse(p) => \E r \in Requests : r.nonce = req[p].nonce /\ accepted[r] # 0
RefusedOnlyIfAccepted == [][RefusalStep]_replayVars
=============================================================================
