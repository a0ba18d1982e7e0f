----------------------------- MODULE RunnerLoop -----------------------------
(***************************************************************************)
(* Claim, execute, report: the loop of the runner (Loop of                 *)
(* internal/runner/loop.go, Client of client.go, Backoff of backoff.go),   *)
(* against a panel that leases a command to whoever claims it.             *)
(*                                                                         *)
(* A claim is a long poll: it travels, is held, and its answer travels     *)
(* back, each for a bounded time, while the client's deadline runs.  What  *)
(* Execute does with the command is in RunnerTeardown and LogStream, here  *)
(* it is one step; the lease of a running command is kept (LogStream), any *)
(* other lease may expire.  The panel is external.                         *)
(***************************************************************************)
EXTENDS Naturals, FiniteSets

CONSTANTS
  Commands,   \* what the panel will ever hand out
  NoCmd,
  Second,     \* units of time in a second
  Wait, Margin, \* ClientConfig.Wait, ClaimMargin
  Latency,    \* longest way of a request, or of an answer
  IdleDelay,  \* Loop.IdleDelay
  Initial, Max, Factor, \* Backoff
  Attempts,   \* Loop.ResultAttempts
  FailedBound, \* where the history stops counting failed claims
  MaxFaults,  \* bound on lost calls, bad answers and crashes
  MaxOutages  \* bound on the restarts of the panel

ASSUME NoCmdAssumption == NoCmd \notin Commands /\ "bad" \notin Commands
ASSUME TimesAssumption == {Second, Wait, Margin, Initial, Max} \subseteq Nat \ {0}
                            /\ {Latency, IdleDelay} \subseteq Nat
ASSUME BackoffAssumption == Factor \in Nat \ {0, 1} /\ Initial <= Max
ASSUME FailedAssumption == FailedBound \in Nat \ {0} /\ Initial * Factor ^ (FailedBound - 1) >= Max
\* What exponentiation is, which the provers do not know.
ASSUME PowerAssumption ==
  Factor ^ 0 = 1 /\ \A n \in 0..FailedBound :
    Factor ^ n \in Nat \ {0} /\ Factor ^ (n + 1) = Factor * Factor ^ n
ASSUME BoundsAssumption == Attempts \in Nat \ {0} /\ {MaxFaults, MaxOutages} \subseteq Nat

VARIABLES
  pc,        \* "top" of Run, "claim", "run", "report", "gap", "backoff", "idle",
             \* "stopped"
  cancelled, \* ctx.Err() != nil
  cmd,       \* the command of this cycle
  tries,     \* SendResult calls made for it
  cur,       \* Backoff.cur
  timer,     \* what is left of a pause, or the age of a claim
  call,      \* the outstanding claim
  lost,      \* panel: it holds a claim whose client has gone
  status,    \* panel: what it knows of each command
  up,        \* panel: it can be reached
  faults, outages, \* how often something went wrong
  failed,    \* history: failed claims since the panel last answered one
  sent,      \* history: results of each command that left the runner
  excused    \* history: commands lost to a fault, a crash or a stop

runner  == <<pc, cancelled, cmd, tries, cur, timer>>
panel   == <<lost, status, up, outages>>
history == <<failed, sent, excused>>
vars    == <<runner, call, panel, faults, history>>

\* int((wait + time.Second - 1) / time.Second), and the window it asks for
WaitSeconds == (Wait + Second - 1) \div Second
Hold        == WaitSeconds * Second

\* The margin has room for the way there, the way back and the rounding.
ASSUME MarginAssumption == 2 * Latency + (Hold - Wait) < Margin

\* Mutant of ClaimTimeout: the deadline of a claim is the window itself.
ClaimTimeoutNoMargin == Wait

\* Timeout of ClaimHTTP
ClaimTimeout == Wait + Margin

\* A claim: where it is, how long it has been there, and the answer.
Places   == {"none", "out", "held", "back", "silent", "broken"}
CallType == [at : Places, age : 0..(Hold + Latency),
             body : Commands \cup {NoCmd, "bad"}]
NoCall   == [at |-> "none", age |-> 0, body |-> NoCmd]

TypeOK ==
  /\ pc \in {"top", "claim", "run", "report", "gap", "backoff", "idle", "stopped"}
  /\ cancelled \in BOOLEAN
  /\ cmd \in Commands \cup {NoCmd}
  /\ tries \in 0..Attempts
  /\ cur \in 0..Max
  /\ timer \in 0..(ClaimTimeout + Max + IdleDelay)
  /\ call \in CallType
  /\ lost \in BOOLEAN
  /\ status \in [Commands -> {"new", "queued", "leased", "done", "expired"}]
  /\ up \in BOOLEAN
  /\ faults \in 0..MaxFaults /\ outages \in 0..MaxOutages
  /\ failed \in 0..FailedBound
  /\ sent \in [Commands -> 0..Attempts]
  /\ excused \subseteq Commands

Init ==
  /\ pc = "top" /\ cancelled = FALSE /\ cmd = NoCmd /\ tries = 0 /\ cur = 0 /\ timer = 0
  /\ call = NoCall /\ lost = FALSE /\ up = TRUE
  /\ status = [c \in Commands |-> "new"]
  /\ faults = 0 /\ outages = 0
  /\ failed = 0 /\ sent = [c \in Commands |-> 0] /\ excused = {}

-----------------------------------------------------------------------------
(* Backoff *)

\* Mutant of BackoffNext: the cap is forgotten.
BackoffNextNoCap(c) == IF c = 0 THEN Initial ELSE c * Factor

BackoffNext(c) ==
  LET next == IF c = 0 THEN Initial ELSE c * Factor IN IF next > Max THEN Max ELSE next

-----------------------------------------------------------------------------
(* One turn of Run *)

\* Where Run goes after a cycle: it returns if the context has ended.
After(where) == IF cancelled THEN "stopped" ELSE where

StartClaim ==
  /\ pc = "top"
  /\ IF cancelled
       THEN pc' = "stopped" /\ UNCHANGED <<timer, call>>
       ELSE /\ pc' = "claim" /\ timer' = 0
            /\ call' = [NoCall EXCEPT !.at = IF up THEN "out" ELSE "broken"]
  /\ UNCHANGED <<cancelled, cmd, tries, cur, panel, faults, history>>

\* Mutant of ClaimFailed: Run returns on the first error.
ClaimFailedGivesUp == pc' = "stopped" /\ UNCHANGED <<cur, timer, failed>>

\* case err != nil: back off.
ClaimFailed ==
  /\ cur' = BackoffNext(cur)
  /\ pc' = "backoff" /\ timer' = cur'
  /\ failed' = IF failed = FailedBound THEN failed ELSE failed + 1

\* A refused connection, or an answer that is not a command: a status outside
\* 2xx, a body that does not parse or has no id.
ClaimError ==
  /\ pc = "claim"
  /\ call.at = "broken" \/ (call.at = "back" /\ call.body = "bad")
  /\ ClaimFailed
  /\ call' = NoCall
  /\ UNCHANGED <<cancelled, cmd, tries, panel, faults, sent, excused>>

\* The deadline of ClaimHTTP.  The panel may not notice.
ClaimDeadline ==
  /\ pc = "claim" /\ timer >= ClaimTimeout
  /\ ClaimFailed
  /\ lost' = (lost \/ call.at \in {"out", "held"})
  /\ call' = NoCall
  /\ UNCHANGED <<cancelled, cmd, tries, status, up, outages, faults, sent, excused>>

\* 204, or 200 with nothing in it: the healthy idle state.
ClaimEmpty ==
  /\ pc = "claim" /\ call.at = "back" /\ call.body = NoCmd
  /\ cur' = 0 /\ failed' = 0
  /\ pc' = "idle" /\ timer' = IdleDelay
  /\ call' = NoCall
  /\ UNCHANGED <<cancelled, cmd, tries, panel, faults, sent, excused>>

ClaimWork ==
  /\ pc = "claim" /\ call.at = "back" /\ call.body \in Commands
  /\ pc' = "run" /\ cmd' = call.body /\ tries' = 0
  /\ call' = NoCall /\ timer' = 0 /\ failed' = 0
  /\ UNCHANGED <<cancelled, cur, panel, faults, sent, excused>>

PauseOver ==
  /\ pc \in {"backoff", "idle"}
  /\ timer = 0 \/ cancelled
  /\ pc' = After("top") /\ timer' = 0
  /\ UNCHANGED <<cancelled, cmd, tries, cur, call, panel, faults, history>>

-----------------------------------------------------------------------------
(* Executing and reporting *)

\* Execute returns, or it panics and the deferred function reports that.
RunEnds ==
  /\ pc = "run"
  /\ pc' = "report"
  /\ UNCHANGED <<cancelled, cmd, tries, cur, timer, call, panel, faults, history>>

\* Mutant of CycleDone: only an empty claim resets the backoff.
CycleDoneKeepsBackoff == pc' = After("top") /\ cmd' = NoCmd /\ tries' = 0 /\ cur' = cur

\* The cycle is over.  The command is forgotten, reported or not; Run returns if
\* it is stopping, else it resets the backoff and claims again without a pause.
CycleDone ==
  /\ pc' = After("top") /\ cmd' = NoCmd /\ tries' = 0
  /\ cur' = IF cancelled THEN cur ELSE 0

\* The panel learns the result.  The call is made whatever the loop's context says
\* (context.WithoutCancel): no guard here or below reads cancelled.
Settle(c) == status' = [status EXCEPT ![c] = IF @ = "leased" THEN "done" ELSE @]

ResultAcked ==
  /\ pc = "report" /\ up
  /\ sent' = [sent EXCEPT ![cmd] = @ + 1]
  /\ Settle(cmd)
  /\ CycleDone
  /\ UNCHANGED <<cancelled, timer, call, lost, up, outages, faults, failed, excused>>

\* Mutant of ResultUnacked: a runner that is stopping tries once.
ResultUnackedStopping ==
  /\ sent' = [sent EXCEPT ![cmd] = @ + 1]
  /\ IF tries + 1 = Attempts \/ cancelled
       THEN CycleDone
       ELSE tries' = tries + 1 /\ pc' = "gap" /\ UNCHANGED <<cmd, cur>>

\* The call failed as far as the client can see: try again, up to Attempts times.
ResultUnacked ==
  /\ sent' = [sent EXCEPT ![cmd] = @ + 1]
  /\ IF tries + 1 = Attempts
       THEN CycleDone
       ELSE tries' = tries + 1 /\ pc' = "gap" /\ UNCHANGED <<cmd, cur>>

\* It did not get there, or it was answered with an error.
ResultFails ==
  /\ pc = "report"
  /\ \/ ~up /\ UNCHANGED faults
     \/ up /\ faults < MaxFaults /\ faults' = faults + 1
  /\ ResultUnacked
  /\ UNCHANGED <<cancelled, timer, call, panel, failed, excused>>

\* It got there, and the answer did not come back.
ResultUnanswered ==
  /\ pc = "report" /\ up /\ faults < MaxFaults
  /\ faults' = faults + 1
  /\ Settle(cmd)
  /\ ResultUnacked
  /\ UNCHANGED <<cancelled, timer, call, lost, up, outages, failed, excused>>

\* The pause between two attempts, or none when the runner is stopping.
GapOver ==
  /\ pc = "gap"
  /\ pc' = "report"
  /\ UNCHANGED <<cancelled, cmd, tries, cur, timer, call, panel, faults, history>>

-----------------------------------------------------------------------------
(* Signal and crash *)

\* SIGTERM: the context ends, and with it a claim that is under way.
Cancel ==
  /\ ~cancelled /\ pc # "stopped"
  /\ cancelled' = TRUE
  /\ IF pc = "claim"
       THEN /\ pc' = "stopped" /\ call' = NoCall /\ timer' = 0
            /\ lost' = (lost \/ call.at \in {"out", "held"})
            /\ excused' = Commands
       ELSE /\ excused' = excused
            /\ UNCHANGED <<pc, call, timer, lost>>
  /\ UNCHANGED <<cmd, tries, cur, status, up, outages, faults, failed, sent>>

\* The process is killed and started again.
Crash ==
  /\ pc # "stopped" /\ faults < MaxFaults
  /\ faults' = faults + 1
  /\ pc' = "top" /\ cmd' = NoCmd /\ tries' = 0 /\ cur' = 0 /\ timer' = 0 /\ call' = NoCall
  /\ lost' = (lost \/ call.at \in {"out", "held"})
  /\ excused' = IF pc = "claim" THEN Commands ELSE excused \cup ({cmd} \ {NoCmd})
  /\ failed' = 0
  /\ UNCHANGED <<cancelled, status, up, outages, sent>>

-----------------------------------------------------------------------------
(* The panel and the network, as the runner uses them *)

Enqueue(c) ==
  /\ status[c] = "new"
  /\ status' = [status EXCEPT ![c] = "queued"]
  /\ UNCHANGED <<runner, call, lost, up, outages, faults, history>>

ClaimArrives ==
  /\ call.at = "out" /\ up
  /\ call' = [call EXCEPT !.at = "held", !.age = 0]
  /\ UNCHANGED <<runner, panel, faults, history>>

Answer(body) == call' = [at |-> "back", age |-> 0, body |-> body]

PanelHands(c) ==
  /\ call.at = "held" /\ status[c] = "queued"
  /\ status' = [status EXCEPT ![c] = "leased"]
  /\ Answer(c)
  /\ UNCHANGED <<runner, lost, up, outages, faults, history>>

\* To a client that is no longer there.
PanelHandsLost(c) ==
  /\ lost /\ status[c] = "queued"
  /\ status' = [status EXCEPT ![c] = "leased"]
  /\ lost' = FALSE
  /\ UNCHANGED <<runner, call, up, outages, faults, history>>

PanelDropsLost ==
  /\ lost /\ lost' = FALSE
  /\ UNCHANGED <<runner, call, status, up, outages, faults, history>>

PanelEmpty ==
  /\ call.at = "held" /\ \A c \in Commands : status[c] # "queued"
  /\ Answer(NoCmd)
  /\ UNCHANGED <<runner, panel, faults, history>>

\* An error status, with or without a command already taken off the queue.
PanelErrs ==
  /\ call.at = "held" /\ faults < MaxFaults
  /\ faults' = faults + 1
  /\ Answer("bad")
  /\ \/ UNCHANGED <<status, excused>>
     \/ \E c \in Commands :
          /\ status[c] = "queued"
          /\ status' = [status EXCEPT ![c] = "leased"]
          /\ excused' = excused \cup {c}
  /\ UNCHANGED <<runner, lost, up, outages, failed, sent>>

\* The body of an answer is cut short, and post drops the error of io.ReadAll: cut
\* before its first byte it reads as "nothing to do", later it does not parse.
Truncate ==
  /\ call.at = "back" /\ call.body \in Commands /\ faults < MaxFaults
  /\ faults' = faults + 1
  /\ \E body \in {NoCmd, "bad"} : call' = [call EXCEPT !.body = body]
  /\ excused' = excused \cup {call.body}
  /\ UNCHANGED <<runner, panel, failed, sent>>

\* A request or an answer that never arrives.
Lose ==
  /\ call.at \in {"out", "back"} /\ faults < MaxFaults
  /\ faults' = faults + 1
  /\ call' = [NoCall EXCEPT !.at = "silent"]
  /\ excused' = excused \cup ({call.body} \cap Commands)
  /\ UNCHANGED <<runner, panel, failed, sent>>

\* The panel is deployed: its connections end.
PanelDown ==
  /\ up /\ outages < MaxOutages
  /\ up' = FALSE /\ outages' = outages + 1
  /\ lost' = FALSE
  /\ call' = IF call.at \in {"out", "held"} THEN [NoCall EXCEPT !.at = "broken"] ELSE call
  /\ UNCHANGED <<runner, status, faults, history>>

PanelUp ==
  /\ ~up /\ up' = TRUE
  /\ UNCHANGED <<runner, call, lost, status, outages, faults, history>>

Expire(c) ==
  /\ status[c] = "leased" /\ ~(pc = "run" /\ cmd = c)
  /\ status' = [status EXCEPT ![c] = "expired"]
  /\ UNCHANGED <<runner, call, lost, up, outages, faults, history>>

Older(place) ==
  CASE place = "out"  -> Latency
    [] place = "back" -> Latency
    [] place = "held" -> Hold
    [] OTHER          -> Hold + Latency

\* Time passes for a claim under way or for a pause.
Tick ==
  /\ \/ /\ pc = "claim" /\ timer < ClaimTimeout
        /\ call.at # "broken"
        /\ call.at # "silent" => call.age < Older(call.at)
        /\ timer' = timer + 1
        /\ call' = IF call.at = "silent" THEN call ELSE [call EXCEPT !.age = @ + 1]
     \/ /\ pc \in {"backoff", "idle"} /\ timer > 0
        /\ timer' = timer - 1
        /\ UNCHANGED call
  /\ UNCHANGED <<pc, cancelled, cmd, tries, cur, panel, faults, history>>

Loop == StartClaim \/ ClaimError \/ ClaimDeadline \/ ClaimEmpty \/ ClaimWork
          \/ PauseOver \/ RunEnds \/ ResultAcked \/ ResultFails \/ ResultUnanswered
          \/ GapOver \/ Tick
Panel == ClaimArrives \/ PanelEmpty \/ PanelUp \/ \E c \in Commands : PanelHands(c)
Faults == Cancel \/ Crash \/ PanelErrs \/ Truncate \/ Lose \/ PanelDown \/ PanelDropsLost

Next ==
  \/ Loop \/ Panel \/ Faults
  \/ \E c \in Commands : Enqueue(c) \/ PanelHandsLost(c) \/ Expire(c)
  \/ pc = "stopped" /\ UNCHANGED vars

\* The runner's goroutine runs, its timers fire and Execute returns; the panel
\* serves the claims it holds and expires leases.  Nothing is assumed of faults.
Spec == Init /\ [][Next]_vars
             /\ WF_vars(Loop) /\ WF_vars(Panel)
             /\ \A c \in Commands : WF_vars(Expire(c))

-----------------------------------------------------------------------------
(* Properties *)

\* A leased command is one this runner still answers for: it is on the way back,
\* being executed or reported, or all Attempts of its report failed -- stopping in
\* the middle included.  Only a lost or spoilt answer, a crash, or a stop in the
\* middle of a claim leaves a lease that nobody holds (NewClient: "never on a busy
\* panel"; report: "or the run hangs until the lease expires").
LeasedIsHeld ==
  \A c \in Commands : status[c] = "leased" =>
    \/ c = cmd
    \/ call.at = "back" /\ call.body = c
    \/ sent[c] = Attempts
    \/ c \in excused

\* The pause after a failed claim depends on how many failed in a row, and on
\* nothing older: an answered claim, with work or without, forgets the rest
\* (Backoff: "one bad minute does not leave the runner sluggish").
BackoffLadder ==
  pc \in {"top", "claim", "backoff", "idle"} =>
    cur = IF failed = 0 THEN 0
          ELSE LET step == Initial * Factor ^ (failed - 1) IN IF step < Max THEN step ELSE Max

\* Backoff.Next and Backoff.Reset: the pause stays on the ladder and below its cap.
BackoffSound == TypeOK /\ BackoffLadder

\* A queued command is settled, by a result or by the panel's expiry, unless the
\* runner is told to stop: outages, lost calls and crashes only delay it.
Settles ==
  \A c \in Commands :
    status[c] = "queued" ~> (status[c] \in {"done", "expired"} \/ cancelled)
=============================================================================
