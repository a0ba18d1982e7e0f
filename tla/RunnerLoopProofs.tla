-------------------------- MODULE RunnerLoopProofs --------------------------
(***************************************************************************)
(* RunnerLoop for every set of commands, every length of a window, a way   *)
(* and a pause that fits the margin, and any number of attempts and        *)
(* faults: a leased command is one that this runner answers for.           *)
(*                                                                         *)
(* The deadline of a claim is the hard part.  It must not fire while the   *)
(* panel still has the claim or its answer is on the way, or the command   *)
(* would be leased to nobody; TimeInv follows the claim from place to place*)
(* and shows that the margin is never used up.                             *)
(*                                                                         *)
(* The pause after a failed claim: the length of the run of failures       *)
(* determines it, which a step of Backoff.Next keeps so, at the cap too.   *)
(***************************************************************************)
EXTENDS RunnerLoop, TLAPS

\* Where a claim is, and that only an answer carries a command.
CallInv ==
  /\ call.at # "none" => pc = "claim"
  /\ call.body \in Commands => call.at = "back"

\* How much of its time a claim can have used where it is.
TimeInv ==
  /\ call.at = "out"  => timer <= call.age /\ call.age <= Latency
  /\ call.at = "held" => timer <= Latency + call.age /\ call.age <= Hold
  /\ call.at = "back" => timer <= Latency + Hold + call.age /\ call.age <= Latency

\* A command that has not been handed out was not reported; one that was handed out and
\* not begun neither; and one in the works as often as it was tried.
Working == pc \in {"run", "report", "gap"}
Taken(c) == status[c] \notin {"new", "queued"}

CycleInv ==
  /\ Working => cmd \in Commands /\ sent[cmd] = tries /\ tries < Attempts /\ Taken(cmd)
  /\ ~Working => cmd = NoCmd
  /\ \A c \in Commands : ~Taken(c) => sent[c] = 0
  /\ call.body \in Commands => sent[call.body] = 0 /\ Taken(call.body)

\* The panel holds a claim of nobody only after a crash or a stop in a claim.
LostInv == lost => excused = Commands

Base == TypeOK /\ CallInv /\ TimeInv /\ CycleInv
IInv == Base /\ LostInv /\ LeasedIsHeld

-----------------------------------------------------------------------------
(* The constants and the operators *)

LEMMA Constants ==
  /\ Second \in Nat \ {0} /\ Wait \in Nat \ {0} /\ Margin \in Nat \ {0}
  /\ Initial \in Nat \ {0} /\ Max \in Nat \ {0} /\ Factor \in Nat
  /\ Latency \in Nat /\ IdleDelay \in Nat
  /\ Attempts \in Nat \ {0} /\ MaxFaults \in Nat /\ MaxOutages \in Nat
  /\ FailedBound \in Nat \ {0}
BY TimesAssumption, BackoffAssumption, FailedAssumption, BoundsAssumption

\* WaitSeconds rounds up, so the panel may hold a claim for longer than Wait; the margin
\* has room for that and for both ways.
LEMMA Window ==
  /\ Hold \in Nat /\ ClaimTimeout \in Nat
  /\ Latency + Hold + Latency < ClaimTimeout
<1>1. Wait + Second - 1 \in Nat
  BY Constants
<1>2. WaitSeconds \in Nat
  BY <1>1, Constants DEF WaitSeconds
<1>3. Hold \in Nat
  BY <1>2, Constants DEF Hold
<1>. QED  BY <1>3, Constants, MarginAssumption DEF ClaimTimeout

LEMMA BackoffCapped == \A c \in 0..Max : BackoffNext(c) \in 0..Max
<1>. SUFFICES ASSUME NEW c \in 0..Max PROVE BackoffNext(c) \in 0..Max
  OBVIOUS
<1>1. c * Factor \in Nat
  BY Constants
<1>. QED  BY <1>1, Constants DEF BackoffNext

LEMMA NoCallTyped ==
  /\ NoCall \in CallType
  /\ NoCall.at = "none" /\ NoCall.age = 0 /\ NoCall.body = NoCmd
BY Window, Constants DEF NoCall, CallType, Places

LEMMA InitBase == Init => Base
<1>. SUFFICES ASSUME Init PROVE Base
  OBVIOUS
<1>1. call \in CallType /\ call.at = "none" /\ call.age = 0 /\ call.body = NoCmd
  BY NoCallTyped DEF Init
<1>2. timer \in 0..(ClaimTimeout + Max + IdleDelay)
  BY Window, Constants DEF Init
<1>3. TypeOK
  <2>1. tries \in 0..Attempts /\ cur \in 0..Max /\ failed \in 0..FailedBound
    BY Constants DEF Init
  <2>2. faults \in 0..MaxFaults /\ outages \in 0..MaxOutages
    BY Constants DEF Init
  <2>3. sent \in [Commands -> 0..Attempts]
    BY Constants DEF Init
  <2>. QED  BY <1>1, <1>2, <2>1, <2>2, <2>3 DEF Init, TypeOK
<1>4. CallInv /\ TimeInv
  BY <1>1, NoCmdAssumption DEF Init, CallInv, TimeInv
<1>5. CycleInv
  BY <1>1, NoCmdAssumption DEF Init, CycleInv, Working, Taken
<1>. QED  BY <1>3, <1>4, <1>5 DEF Base

-----------------------------------------------------------------------------
(* Every step *)

LEMMA StepTyped ==
  ASSUME Base, [Next]_vars
  PROVE  TypeOK'
<1>. USE DEF Base, TypeOK, runner, panel, history
<1>1. CASE StartClaim
  <2>1. call' \in CallType
    BY <1>1, Window, Constants DEF StartClaim, CallType, NoCall, Places
  <2>2. timer' \in 0..(ClaimTimeout + Max + IdleDelay)
    BY <1>1, Window, Constants DEF StartClaim
  <2>. QED  BY <1>1, <2>1, <2>2 DEF StartClaim
<1>2. CASE ClaimError
  <2>1. cur' \in 0..Max /\ timer' = cur'
    BY <1>2, BackoffCapped DEF ClaimError, ClaimFailed
  <2>2. timer' \in 0..(ClaimTimeout + Max + IdleDelay)
    BY <2>1, Window, Constants
  <2>3. failed' \in 0..FailedBound
    BY <1>2, Constants DEF ClaimError, ClaimFailed
  <2>. QED  BY <1>2, <2>1, <2>2, <2>3, NoCallTyped DEF ClaimError, ClaimFailed
<1>3. CASE ClaimDeadline
  <2>1. cur' \in 0..Max /\ timer' = cur'
    BY <1>3, BackoffCapped DEF ClaimDeadline, ClaimFailed
  <2>2. timer' \in 0..(ClaimTimeout + Max + IdleDelay)
    BY <2>1, Window, Constants
  <2>3. failed' \in 0..FailedBound
    BY <1>3, Constants DEF ClaimDeadline, ClaimFailed
  <2>4. lost' \in BOOLEAN
    BY <1>3, Zenon DEF ClaimDeadline
  <2>. QED  BY <1>3, <2>1, <2>2, <2>3, <2>4, NoCallTyped DEF ClaimDeadline, ClaimFailed
<1>4. CASE ClaimEmpty
  BY <1>4, Window, Constants, NoCallTyped DEF ClaimEmpty
<1>5. CASE ClaimWork
  BY <1>5, Window, Constants, NoCallTyped DEF ClaimWork
<1>6. CASE PauseOver
  BY <1>6, Window, Constants, NoCallTyped DEF PauseOver, After
<1>7. CASE RunEnds
  BY <1>7, Window, Constants, NoCallTyped DEF RunEnds
<1>8. CASE ResultAcked
  <2>1. status' \in [Commands -> {"new", "queued", "leased", "done", "expired"}]
    BY <1>8 DEF ResultAcked, Settle
  <2>2. sent' \in [Commands -> 0..Attempts]
    BY <1>8, Constants DEF ResultAcked, CycleInv, Working
  <2>3. tries' \in 0..Attempts /\ cur' \in 0..Max
    BY <1>8, Constants DEF ResultAcked, CycleDone, CycleInv, Working
  <2>4. pc' \in {"top", "gap", "stopped"} /\ cmd' \in Commands \cup {NoCmd}
    BY <1>8 DEF ResultAcked, CycleDone, After
  <2>. QED  BY <1>8, <2>1, <2>2, <2>3, <2>4 DEF ResultAcked
<1>9. CASE ResultFails
  <2>1. sent' \in [Commands -> 0..Attempts]
    BY <1>9, Constants DEF ResultFails, ResultUnacked, CycleInv, Working
  <2>2. tries' \in 0..Attempts /\ cur' \in 0..Max
    BY <1>9, Constants DEF ResultFails, ResultUnacked, CycleDone, CycleInv, Working
  <2>3. pc' \in {"top", "gap", "stopped"} /\ cmd' \in Commands \cup {NoCmd}
    BY <1>9 DEF ResultFails, ResultUnacked, CycleDone, After
  <2>4. faults' \in 0..MaxFaults
    BY <1>9, Constants DEF ResultFails
  <2>. QED  BY <1>9, <2>1, <2>2, <2>3, <2>4 DEF ResultFails
<1>10. CASE ResultUnanswered
  <2>1. status' \in [Commands -> {"new", "queued", "leased", "done", "expired"}]
    BY <1>10 DEF ResultUnanswered, Settle
  <2>2. sent' \in [Commands -> 0..Attempts]
    BY <1>10, Constants DEF ResultUnanswered, ResultUnacked, CycleInv, Working
  <2>3. tries' \in 0..Attempts /\ cur' \in 0..Max
    BY <1>10, Constants DEF ResultUnanswered, ResultUnacked, CycleDone, CycleInv, Working
  <2>4. pc' \in {"top", "gap", "stopped"} /\ cmd' \in Commands \cup {NoCmd}
    BY <1>10 DEF ResultUnanswered, ResultUnacked, CycleDone, After
  <2>5. faults' \in 0..MaxFaults
    BY <1>10, Constants DEF ResultUnanswered
  <2>. QED  BY <1>10, <2>1, <2>2, <2>3, <2>4, <2>5 DEF ResultUnanswered
<1>11. CASE GapOver
  BY <1>11, Window, Constants, NoCallTyped DEF GapOver
<1>12. CASE Tick
  <2>1. call' \in CallType
    <3>1. CASE call.at # "silent" /\ pc = "claim"
      <4>1. call' = [call EXCEPT !.age = call.age + 1] /\ call.age < Older(call.at)
        BY <1>12, <3>1 DEF Tick
      <4>2. Older(call.at) \in 0..(Hold + Latency)
        BY Window, Constants DEF Older
      <4>. QED  BY <4>1, <4>2, Window, Constants DEF CallType
    <3>2. CASE ~(call.at # "silent" /\ pc = "claim")
      BY <1>12, <3>2 DEF Tick
    <3>. QED  BY <3>1, <3>2
  <2>2. timer' \in 0..(ClaimTimeout + Max + IdleDelay)
    BY <1>12, Window, Constants DEF Tick
  <2>. QED  BY <1>12, <2>1, <2>2 DEF Tick
<1>13. CASE ClaimArrives
  <2>1. 0 \in 0..(Hold + Latency) /\ "held" \in Places
    BY Window, Constants DEF Places
  <2>2. call' \in CallType
    BY <1>13, <2>1 DEF ClaimArrives, CallType
  <2>. QED  BY <1>13, <2>2 DEF ClaimArrives
<1>14. CASE PanelEmpty
  <2>1. call' \in CallType
    BY <1>14, Window, Constants DEF PanelEmpty, Answer, CallType, NoCall, Places
  <2>. QED  BY <1>14, <2>1 DEF PanelEmpty
<1>15. CASE PanelUp
  BY <1>15, Window, Constants, NoCallTyped DEF PanelUp
<1>16. CASE Cancel
  <2>1. timer' \in 0..(ClaimTimeout + Max + IdleDelay)
    BY <1>16, Window, Constants DEF Cancel
  <2>2. lost' \in BOOLEAN
    BY <1>16, Zenon DEF Cancel
  <2>3. call' \in CallType /\ excused' \subseteq Commands
    BY <1>16, NoCallTyped DEF Cancel
  <2>. QED  BY <1>16, <2>1, <2>2, <2>3 DEF Cancel
<1>17. CASE Crash
  <2>1. timer' \in 0..(ClaimTimeout + Max + IdleDelay) /\ cur' \in 0..Max
    BY <1>17, Window, Constants DEF Crash
  <2>2. lost' \in BOOLEAN
    BY <1>17, Zenon DEF Crash
  <2>3. faults' \in 0..MaxFaults /\ tries' \in 0..Attempts /\ failed' \in 0..FailedBound
    BY <1>17, Constants DEF Crash
  <2>4. call' \in CallType /\ excused' \subseteq Commands
    BY <1>17, NoCallTyped DEF Crash
  <2>. QED  BY <1>17, <2>1, <2>2, <2>3, <2>4 DEF Crash
<1>18. CASE PanelErrs
  <2>1. call' \in CallType
    BY <1>18, Window, Constants DEF PanelErrs, Answer, CallType, NoCall, Places
  <2>2. faults' \in 0..MaxFaults
    BY <1>18, Constants DEF PanelErrs
  <2>3. /\ status' \in [Commands -> {"new", "queued", "leased", "done", "expired"}]
        /\ excused' \subseteq Commands
    BY <1>18 DEF PanelErrs
  <2>. QED  BY <1>18, <2>1, <2>2, <2>3 DEF PanelErrs
<1>19. CASE Truncate
  <2>1. call' \in CallType
    BY <1>19, Window, Constants DEF Truncate, CallType, NoCall, Places
  <2>2. faults' \in 0..MaxFaults /\ excused' \subseteq Commands
    BY <1>19, Constants DEF Truncate
  <2>. QED  BY <1>19, <2>1, <2>2 DEF Truncate
<1>20. CASE Lose
  <2>1. call' \in CallType
    BY <1>20, Window, Constants DEF Lose, CallType, NoCall, Places
  <2>2. faults' \in 0..MaxFaults /\ excused' \subseteq Commands
    BY <1>20, Constants DEF Lose
  <2>. QED  BY <1>20, <2>1, <2>2 DEF Lose
<1>21. CASE PanelDown
  <2>1. call' \in CallType
    BY <1>21, Window, Constants DEF PanelDown, CallType, NoCall, Places
  <2>2. outages' \in 0..MaxOutages
    BY <1>21, Constants DEF PanelDown
  <2>. QED  BY <1>21, <2>1, <2>2 DEF PanelDown
<1>22. CASE PanelDropsLost
  BY <1>22, Window, Constants, NoCallTyped DEF PanelDropsLost
<1>23. ASSUME NEW c \in Commands, PanelHands(c) PROVE TypeOK'
  <2>1. call' \in CallType
    BY <1>23, Window, Constants DEF PanelHands, Answer, CallType, NoCall, Places
  <2>. QED  BY <1>23, <2>1 DEF PanelHands
<1>24. ASSUME NEW c \in Commands, Enqueue(c) PROVE TypeOK'
  BY <1>24, Window, Constants, NoCallTyped DEF Enqueue
<1>25. ASSUME NEW c \in Commands, PanelHandsLost(c) PROVE TypeOK'
  BY <1>25, Window, Constants, NoCallTyped DEF PanelHandsLost
<1>26. ASSUME NEW c \in Commands, Expire(c) PROVE TypeOK'
  BY <1>26, Window, Constants, NoCallTyped DEF Expire
<1>27. CASE UNCHANGED vars
  BY <1>27 DEF vars
<1>. QED
  BY <1>1, <1>2, <1>3, <1>4, <1>5, <1>6, <1>7, <1>8, <1>9, <1>10, <1>11, <1>12, <1>13,
     <1>14, <1>15, <1>16, <1>17, <1>18, <1>19, <1>20, <1>21, <1>22, <1>23, <1>24,
     <1>25, <1>26, <1>27
     DEF Next, Loop, Panel, Faults

LEMMA StepCall ==
  ASSUME Base, [Next]_vars
  PROVE  CallInv'
<1>. USE DEF Base, TypeOK, CallInv, CallType, NoCall, runner, panel, history
<1>1. CASE StartClaim
  BY <1>1, NoCmdAssumption DEF StartClaim
<1>2. CASE ClaimError
  BY <1>2, NoCmdAssumption DEF ClaimError, ClaimFailed
<1>3. CASE ClaimDeadline
  BY <1>3, NoCmdAssumption DEF ClaimDeadline, ClaimFailed
<1>4. CASE ClaimEmpty
  BY <1>4, NoCmdAssumption DEF ClaimEmpty
<1>5. CASE ClaimWork
  BY <1>5, NoCmdAssumption DEF ClaimWork
<1>6. CASE PauseOver
  BY <1>6, NoCmdAssumption DEF PauseOver, After
<1>7. CASE RunEnds
  BY <1>7, NoCmdAssumption DEF RunEnds
<1>8. CASE ResultAcked
  BY <1>8, NoCmdAssumption DEF ResultAcked, CycleDone, After, Settle
<1>9. CASE ResultFails
  BY <1>9, NoCmdAssumption DEF ResultFails, ResultUnacked, CycleDone, After
<1>10. CASE ResultUnanswered
  BY <1>10, NoCmdAssumption DEF ResultUnanswered, ResultUnacked, CycleDone, After,
     Settle
<1>11. CASE GapOver
  BY <1>11, NoCmdAssumption DEF GapOver
<1>12. CASE Tick
  BY <1>12, NoCmdAssumption DEF Tick, Older
<1>13. CASE ClaimArrives
  BY <1>13, NoCmdAssumption DEF ClaimArrives
<1>14. CASE PanelEmpty
  BY <1>14, NoCmdAssumption DEF PanelEmpty, Answer
<1>15. CASE PanelUp
  BY <1>15, NoCmdAssumption DEF PanelUp
<1>16. CASE Cancel
  BY <1>16, NoCmdAssumption DEF Cancel
<1>17. CASE Crash
  BY <1>17, NoCmdAssumption DEF Crash
<1>18. CASE PanelErrs
  BY <1>18, NoCmdAssumption DEF PanelErrs, Answer
<1>19. CASE Truncate
  BY <1>19, NoCmdAssumption DEF Truncate
<1>20. CASE Lose
  BY <1>20, NoCmdAssumption DEF Lose
<1>21. CASE PanelDown
  BY <1>21, NoCmdAssumption DEF PanelDown
<1>22. CASE PanelDropsLost
  BY <1>22, NoCmdAssumption DEF PanelDropsLost
<1>23. ASSUME NEW c \in Commands, PanelHands(c) PROVE CallInv'
  BY <1>23, NoCmdAssumption DEF PanelHands, Answer
<1>24. ASSUME NEW c \in Commands, Enqueue(c) PROVE CallInv'
  BY <1>24, NoCmdAssumption DEF Enqueue
<1>25. ASSUME NEW c \in Commands, PanelHandsLost(c) PROVE CallInv'
  BY <1>25, NoCmdAssumption DEF PanelHandsLost
<1>26. ASSUME NEW c \in Commands, Expire(c) PROVE CallInv'
  BY <1>26, NoCmdAssumption DEF Expire
<1>27. CASE UNCHANGED vars
  BY <1>27 DEF vars
<1>. QED
  BY <1>1, <1>2, <1>3, <1>4, <1>5, <1>6, <1>7, <1>8, <1>9, <1>10, <1>11, <1>12, <1>13,
     <1>14, <1>15, <1>16, <1>17, <1>18, <1>19, <1>20, <1>21, <1>22, <1>23, <1>24,
     <1>25, <1>26, <1>27
     DEF Next, Loop, Panel, Faults

LEMMA StepTime ==
  ASSUME Base, [Next]_vars
  PROVE  TimeInv'
<1>. USE DEF Base, TypeOK, CallInv, TimeInv, CallType, NoCall, runner, panel, history
<1>1. CASE StartClaim
  BY <1>1, Window, Constants DEF StartClaim
<1>2. CASE ClaimError
  BY <1>2, Window, Constants DEF ClaimError, ClaimFailed
<1>3. CASE ClaimDeadline
  BY <1>3, Window, Constants DEF ClaimDeadline, ClaimFailed
<1>4. CASE ClaimEmpty
  BY <1>4, Window, Constants DEF ClaimEmpty
<1>5. CASE ClaimWork
  BY <1>5, Window, Constants DEF ClaimWork
<1>6. CASE PauseOver
  BY <1>6, Window, Constants DEF PauseOver, After
<1>7. CASE RunEnds
  BY <1>7, Window, Constants DEF RunEnds
<1>8. CASE ResultAcked
  BY <1>8, Window, Constants DEF ResultAcked, CycleDone, After, Settle
<1>9. CASE ResultFails
  BY <1>9, Window, Constants DEF ResultFails, ResultUnacked, CycleDone, After
<1>10. CASE ResultUnanswered
  BY <1>10, Window, Constants DEF ResultUnanswered, ResultUnacked, CycleDone, After,
     Settle
<1>11. CASE GapOver
  BY <1>11, Window, Constants DEF GapOver
<1>12. CASE Tick
  BY <1>12, Window, Constants DEF Tick, Older
<1>13. CASE ClaimArrives
  BY <1>13, Window, Constants DEF ClaimArrives
<1>14. CASE PanelEmpty
  BY <1>14, Window, Constants DEF PanelEmpty, Answer
<1>15. CASE PanelUp
  BY <1>15, Window, Constants DEF PanelUp
<1>16. CASE Cancel
  BY <1>16, Window, Constants DEF Cancel
<1>17. CASE Crash
  BY <1>17, Window, Constants DEF Crash
<1>18. CASE PanelErrs
  BY <1>18, Window, Constants DEF PanelErrs, Answer
<1>19. CASE Truncate
  BY <1>19, Window, Constants DEF Truncate
<1>20. CASE Lose
  BY <1>20, Window, Constants DEF Lose
<1>21. CASE PanelDown
  BY <1>21, Window, Constants DEF PanelDown
<1>22. CASE PanelDropsLost
  BY <1>22, Window, Constants DEF PanelDropsLost
<1>23. ASSUME NEW c \in Commands, PanelHands(c) PROVE TimeInv'
  BY <1>23, Window, Constants DEF PanelHands, Answer
<1>24. ASSUME NEW c \in Commands, Enqueue(c) PROVE TimeInv'
  BY <1>24, Window, Constants DEF Enqueue
<1>25. ASSUME NEW c \in Commands, PanelHandsLost(c) PROVE TimeInv'
  BY <1>25, Window, Constants DEF PanelHandsLost
<1>26. ASSUME NEW c \in Commands, Expire(c) PROVE TimeInv'
  BY <1>26, Window, Constants DEF Expire
<1>27. CASE UNCHANGED vars
  BY <1>27 DEF vars
<1>. QED
  BY <1>1, <1>2, <1>3, <1>4, <1>5, <1>6, <1>7, <1>8, <1>9, <1>10, <1>11, <1>12, <1>13,
     <1>14, <1>15, <1>16, <1>17, <1>18, <1>19, <1>20, <1>21, <1>22, <1>23, <1>24,
     <1>25, <1>26, <1>27
     DEF Next, Loop, Panel, Faults

LEMMA StepCycle ==
  ASSUME Base, [Next]_vars
  PROVE  CycleInv'
<1>. USE DEF Base, TypeOK, CallInv, CycleInv, Working, Taken, CallType, NoCall, runner,
             panel, history
<1>1. CASE StartClaim
  BY <1>1, NoCmdAssumption, Constants DEF StartClaim
<1>2. CASE ClaimError
  BY <1>2, NoCmdAssumption, Constants DEF ClaimError, ClaimFailed
<1>3. CASE ClaimDeadline
  BY <1>3, NoCmdAssumption, Constants DEF ClaimDeadline, ClaimFailed
<1>4. CASE ClaimEmpty
  BY <1>4, NoCmdAssumption, Constants DEF ClaimEmpty
<1>5. CASE ClaimWork
  BY <1>5, NoCmdAssumption, Constants DEF ClaimWork
<1>6. CASE PauseOver
  BY <1>6, NoCmdAssumption, Constants DEF PauseOver, After
<1>7. CASE RunEnds
  BY <1>7, NoCmdAssumption, Constants DEF RunEnds
<1>8. CASE ResultAcked
  BY <1>8, NoCmdAssumption, Constants DEF ResultAcked, CycleDone, After, Settle
<1>9. CASE ResultFails
  BY <1>9, NoCmdAssumption, Constants DEF ResultFails, ResultUnacked, CycleDone, After
<1>10. CASE ResultUnanswered
  BY <1>10, NoCmdAssumption, Constants DEF ResultUnanswered, ResultUnacked, CycleDone,
     After, Settle
<1>11. CASE GapOver
  BY <1>11, NoCmdAssumption, Constants DEF GapOver
<1>12. CASE Tick
  BY <1>12, NoCmdAssumption, Constants DEF Tick, Older
<1>13. CASE ClaimArrives
  BY <1>13, NoCmdAssumption, Constants DEF ClaimArrives
<1>14. CASE PanelEmpty
  BY <1>14, NoCmdAssumption, Constants DEF PanelEmpty, Answer
<1>15. CASE PanelUp
  BY <1>15, NoCmdAssumption, Constants DEF PanelUp
<1>16. CASE Cancel
  BY <1>16, NoCmdAssumption, Constants DEF Cancel
<1>17. CASE Crash
  BY <1>17, NoCmdAssumption, Constants DEF Crash
<1>18. CASE PanelErrs
  BY <1>18, NoCmdAssumption, Constants DEF PanelErrs, Answer
<1>19. CASE Truncate
  BY <1>19, NoCmdAssumption, Constants DEF Truncate
<1>20. CASE Lose
  BY <1>20, NoCmdAssumption, Constants DEF Lose
<1>21. CASE PanelDown
  BY <1>21, NoCmdAssumption, Constants DEF PanelDown
<1>22. CASE PanelDropsLost
  BY <1>22, NoCmdAssumption, Constants DEF PanelDropsLost
<1>23. ASSUME NEW c \in Commands, PanelHands(c) PROVE CycleInv'
  BY <1>23, NoCmdAssumption, Constants DEF PanelHands, Answer
<1>24. ASSUME NEW c \in Commands, Enqueue(c) PROVE CycleInv'
  BY <1>24, NoCmdAssumption, Constants DEF Enqueue
<1>25. ASSUME NEW c \in Commands, PanelHandsLost(c) PROVE CycleInv'
  BY <1>25, NoCmdAssumption, Constants DEF PanelHandsLost
<1>26. ASSUME NEW c \in Commands, Expire(c) PROVE CycleInv'
  BY <1>26, NoCmdAssumption, Constants DEF Expire
<1>27. CASE UNCHANGED vars
  BY <1>27 DEF vars
<1>. QED
  BY <1>1, <1>2, <1>3, <1>4, <1>5, <1>6, <1>7, <1>8, <1>9, <1>10, <1>11, <1>12, <1>13,
     <1>14, <1>15, <1>16, <1>17, <1>18, <1>19, <1>20, <1>21, <1>22, <1>23, <1>24,
     <1>25, <1>26, <1>27
     DEF Next, Loop, Panel, Faults

LEMMA StepLost ==
  ASSUME Base, LostInv, [Next]_vars
  PROVE  LostInv'
<1>. USE DEF Base, TypeOK, CallInv, TimeInv, LostInv, CallType, NoCall, runner, panel,
             history
<1>1. CASE StartClaim
  BY <1>1, Window, Constants DEF StartClaim
<1>2. CASE ClaimError
  BY <1>2, Window, Constants DEF ClaimError, ClaimFailed
<1>3. CASE ClaimDeadline
  BY <1>3, Window, Constants DEF ClaimDeadline, ClaimFailed
<1>4. CASE ClaimEmpty
  BY <1>4, Window, Constants DEF ClaimEmpty
<1>5. CASE ClaimWork
  BY <1>5, Window, Constants DEF ClaimWork
<1>6. CASE PauseOver
  BY <1>6, Window, Constants DEF PauseOver, After
<1>7. CASE RunEnds
  BY <1>7, Window, Constants DEF RunEnds
<1>8. CASE ResultAcked
  BY <1>8, Window, Constants DEF ResultAcked, CycleDone, After, Settle
<1>9. CASE ResultFails
  BY <1>9, Window, Constants DEF ResultFails, ResultUnacked, CycleDone, After
<1>10. CASE ResultUnanswered
  BY <1>10, Window, Constants DEF ResultUnanswered, ResultUnacked, CycleDone, After,
     Settle
<1>11. CASE GapOver
  BY <1>11, Window, Constants DEF GapOver
<1>12. CASE Tick
  BY <1>12, Window, Constants DEF Tick, Older
<1>13. CASE ClaimArrives
  BY <1>13, Window, Constants DEF ClaimArrives
<1>14. CASE PanelEmpty
  BY <1>14, Window, Constants DEF PanelEmpty, Answer
<1>15. CASE PanelUp
  BY <1>15, Window, Constants DEF PanelUp
<1>16. CASE Cancel
  BY <1>16, Window, Constants DEF Cancel
<1>17. CASE Crash
  BY <1>17, Window, Constants DEF Crash
<1>18. CASE PanelErrs
  BY <1>18, Window, Constants DEF PanelErrs, Answer
<1>19. CASE Truncate
  BY <1>19, Window, Constants DEF Truncate
<1>20. CASE Lose
  BY <1>20, Window, Constants DEF Lose
<1>21. CASE PanelDown
  BY <1>21, Window, Constants DEF PanelDown
<1>22. CASE PanelDropsLost
  BY <1>22, Window, Constants DEF PanelDropsLost
<1>23. ASSUME NEW c \in Commands, PanelHands(c) PROVE LostInv'
  BY <1>23, Window, Constants DEF PanelHands, Answer
<1>24. ASSUME NEW c \in Commands, Enqueue(c) PROVE LostInv'
  BY <1>24, Window, Constants DEF Enqueue
<1>25. ASSUME NEW c \in Commands, PanelHandsLost(c) PROVE LostInv'
  BY <1>25, Window, Constants DEF PanelHandsLost
<1>26. ASSUME NEW c \in Commands, Expire(c) PROVE LostInv'
  BY <1>26, Window, Constants DEF Expire
<1>27. CASE UNCHANGED vars
  BY <1>27 DEF vars
<1>. QED
  BY <1>1, <1>2, <1>3, <1>4, <1>5, <1>6, <1>7, <1>8, <1>9, <1>10, <1>11, <1>12, <1>13,
     <1>14, <1>15, <1>16, <1>17, <1>18, <1>19, <1>20, <1>21, <1>22, <1>23, <1>24,
     <1>25, <1>26, <1>27
     DEF Next, Loop, Panel, Faults

LEMMA StepHeld ==
  ASSUME IInv, [Next]_vars
  PROVE  LeasedIsHeld'
<1>. USE DEF IInv, Base, TypeOK, CallInv, CycleInv, LeasedIsHeld, Working, CallType,
             NoCall, runner, panel, history
<1>1. CASE StartClaim
  BY <1>1, NoCmdAssumption, Constants DEF StartClaim
<1>2. CASE ClaimError
  BY <1>2, NoCmdAssumption, Constants DEF ClaimError, ClaimFailed
<1>3. CASE ClaimDeadline
  <2>1. call.at # "back"
    BY <1>3, Window, Constants DEF ClaimDeadline, TimeInv
  <2>. QED  BY <1>3, <2>1 DEF ClaimDeadline, ClaimFailed
<1>4. CASE ClaimEmpty
  BY <1>4, NoCmdAssumption, Constants DEF ClaimEmpty
<1>5. CASE ClaimWork
  BY <1>5, NoCmdAssumption, Constants DEF ClaimWork
<1>6. CASE PauseOver
  BY <1>6, NoCmdAssumption, Constants DEF PauseOver, After
<1>7. CASE RunEnds
  BY <1>7, NoCmdAssumption, Constants DEF RunEnds
<1>8. CASE ResultAcked
  BY <1>8, NoCmdAssumption, Constants DEF ResultAcked, CycleDone, After, Settle
<1>9. CASE ResultFails
  BY <1>9, NoCmdAssumption, Constants DEF ResultFails, ResultUnacked, CycleDone, After
<1>10. CASE ResultUnanswered
  BY <1>10, NoCmdAssumption, Constants DEF ResultUnanswered, ResultUnacked, CycleDone,
     After, Settle
<1>11. CASE GapOver
  BY <1>11, NoCmdAssumption, Constants DEF GapOver
<1>12. CASE Tick
  BY <1>12, NoCmdAssumption, Constants DEF Tick, Older
<1>13. CASE ClaimArrives
  BY <1>13, NoCmdAssumption, Constants DEF ClaimArrives
<1>14. CASE PanelEmpty
  BY <1>14, NoCmdAssumption, Constants DEF PanelEmpty, Answer
<1>15. CASE PanelUp
  BY <1>15, NoCmdAssumption, Constants DEF PanelUp
<1>16. CASE Cancel
  BY <1>16, NoCmdAssumption, Constants DEF Cancel
<1>17. CASE Crash
  BY <1>17, NoCmdAssumption, Constants DEF Crash
<1>18. CASE PanelErrs
  BY <1>18, NoCmdAssumption, Constants DEF PanelErrs, Answer
<1>19. CASE Truncate
  BY <1>19, NoCmdAssumption, Constants DEF Truncate
<1>20. CASE Lose
  BY <1>20, NoCmdAssumption, Constants DEF Lose
<1>21. CASE PanelDown
  BY <1>21, NoCmdAssumption, Constants DEF PanelDown
<1>22. CASE PanelDropsLost
  BY <1>22, NoCmdAssumption, Constants DEF PanelDropsLost
<1>23. ASSUME NEW c \in Commands, PanelHands(c) PROVE LeasedIsHeld'
  BY <1>23, NoCmdAssumption, Constants DEF PanelHands, Answer
<1>24. ASSUME NEW c \in Commands, Enqueue(c) PROVE LeasedIsHeld'
  BY <1>24, NoCmdAssumption, Constants DEF Enqueue
<1>25. ASSUME NEW c \in Commands, PanelHandsLost(c) PROVE LeasedIsHeld'
  BY <1>25 DEF PanelHandsLost, LostInv
<1>26. ASSUME NEW c \in Commands, Expire(c) PROVE LeasedIsHeld'
  BY <1>26, NoCmdAssumption, Constants DEF Expire
<1>27. CASE UNCHANGED vars
  BY <1>27 DEF vars
<1>. QED
  BY <1>1, <1>2, <1>3, <1>4, <1>5, <1>6, <1>7, <1>8, <1>9, <1>10, <1>11, <1>12, <1>13,
     <1>14, <1>15, <1>16, <1>17, <1>18, <1>19, <1>20, <1>21, <1>22, <1>23, <1>24,
     <1>25, <1>26, <1>27
     DEF Next, Loop, Panel, Faults

-----------------------------------------------------------------------------
(* The theorem *)

-----------------------------------------------------------------------------
(* The pause between two claims *)

\* A cycle with work begins with an answered claim.
FreshInv == Working => failed = 0

\* One step up the ladder, of which Power is a power of Factor: at the cap it stays there.
LEMMA Rung ==
  ASSUME NEW Power \in Nat \ {0},
         NEW c \in Nat,
         c = IF Initial * Power < Max THEN Initial * Power ELSE Max
  PROVE  BackoffNext(c) = IF Initial * (Factor * Power) < Max
                            THEN Initial * (Factor * Power) ELSE Max
<1>. DEFINE low == Initial * Power
<1>1. low \in Nat \ {0} /\ Factor \in Nat /\ Factor >= 2 /\ Max \in Nat \ {0}
  BY Constants, BackoffAssumption
<1>2. Initial * (Factor * Power) = low * Factor
  BY Constants, <1>1
<1>3. c # 0 /\ c = IF low < Max THEN low ELSE Max
  BY <1>1
<1>4. low * Factor \in Nat /\ Max * Factor \in Nat /\ Max * Factor > Max
  BY <1>1
<1>5. low >= Max => low * Factor >= Max
  BY <1>1
<1>. HIDE DEF low
<1>6. CASE low < Max
  BY <1>1, <1>2, <1>3, <1>4, <1>6 DEF BackoffNext
<1>7. CASE low >= Max
  BY <1>1, <1>2, <1>3, <1>4, <1>5, <1>7 DEF BackoffNext
<1>. QED  BY <1>1, <1>6, <1>7

LEMMA ClaimFailedClimbs ==
  ASSUME TypeOK, BackoffLadder, pc = "claim", ClaimFailed
  PROVE  BackoffLadder'
<1>1. failed \in 0..FailedBound /\ cur \in Nat
  BY Constants DEF TypeOK
<1>2. cur' = BackoffNext(cur) /\ failed' = IF failed = FailedBound THEN failed ELSE failed + 1
  BY DEF ClaimFailed
<1>3. CASE failed = 0
  <2>1. failed' = 1 /\ cur' = Initial
    BY <1>2, <1>3, Constants, BackoffAssumption DEF BackoffLadder, BackoffNext
  <2>2. Initial * Factor ^ 0 = Initial /\ (1 - 1) = 0
    BY PowerAssumption, Constants
  <2>. QED  BY <2>1, <2>2, Constants, BackoffAssumption DEF BackoffLadder
<1>4. CASE failed # 0
  <2>. DEFINE f == failed - 1
              p == Factor ^ f
  <2>1. f \in 0..FailedBound /\ f + 1 = failed /\ f + 1 \in 0..FailedBound
    BY <1>1, <1>4, Constants
  <2>2. p \in Nat \ {0} /\ Factor ^ (f + 1) = Factor * p
    BY <2>1, PowerAssumption
  <2>3. cur = IF Initial * p < Max THEN Initial * p ELSE Max
    BY <1>4 DEF BackoffLadder
  <2>. HIDE DEF p
  <2>4. cur' = IF Initial * (Factor * p) < Max THEN Initial * (Factor * p) ELSE Max
    BY <1>1, <1>2, <2>2, <2>3, Rung
  <2>5. CASE failed # FailedBound
    <3>1. failed' - 1 = f + 1 /\ failed' # 0
      BY <1>1, <1>2, <2>1, <2>5, Constants
    <3>. QED  BY <2>2, <2>4, <3>1 DEF BackoffLadder
  <2>6. CASE failed = FailedBound
    <3>1. Initial * p >= Max
      BY <2>6, FailedAssumption DEF p
    <3>2. Initial * p \in Nat
      BY <2>2, Constants
    <3>3. cur = Max
      BY <2>3, <3>1, <3>2, Constants
    <3>4. Max * Factor > Max /\ Max * Factor \in Nat
      BY Constants, BackoffAssumption
    <3>5. cur' = Max /\ failed' = failed
      BY <1>2, <2>6, <3>3, <3>4, Constants DEF BackoffNext
    <3>. QED  BY <1>4, <2>3, <3>3, <3>5 DEF BackoffLadder, p
  <2>. QED  BY <2>5, <2>6
<1>. QED  BY <1>3, <1>4

LEMMA StepLadder ==
  ASSUME Base, BackoffLadder, FreshInv, [Next]_vars
  PROVE  BackoffLadder' /\ FreshInv'
<1>. USE DEF runner, panel, history, FreshInv, Working
<1>1. CASE ClaimError \/ ClaimDeadline
  <2>1. ClaimFailed /\ pc = "claim" /\ pc' = "backoff"
    BY <1>1 DEF ClaimError, ClaimDeadline, ClaimFailed
  <2>. QED  BY <2>1, ClaimFailedClimbs DEF Base
<1>2. CASE ClaimEmpty \/ ClaimWork \/ Crash
  BY <1>2 DEF ClaimEmpty, ClaimWork, Crash, BackoffLadder
<1>3. CASE StartClaim \/ PauseOver \/ RunEnds \/ GapOver \/ Tick \/ Cancel
  <2>1. failed' = failed /\ cur' = cur
    BY <1>3 DEF StartClaim, PauseOver, RunEnds, GapOver, Tick, Cancel
  <2>2. pc' \in {"top", "claim", "backoff", "idle"} => pc \in {"top", "claim", "backoff", "idle"}
    BY <1>3 DEF StartClaim, PauseOver, RunEnds, GapOver, Tick, Cancel, After, Base, TypeOK
  <2>3. pc' \in {"run", "report", "gap"} => pc \in {"run", "report", "gap"}
    BY <1>3 DEF StartClaim, PauseOver, RunEnds, GapOver, Tick, Cancel, After, Base, TypeOK
  <2>. QED  BY <2>1, <2>2, <2>3 DEF BackoffLadder
<1>4. CASE ResultAcked \/ ResultFails \/ ResultUnanswered
  <2>1. failed = 0 /\ failed' = 0
    BY <1>4 DEF ResultAcked, ResultFails, ResultUnanswered
  <2>2. (pc' = "top" /\ cur' = 0) \/ pc' \in {"gap", "stopped"}
    BY <1>4 DEF ResultAcked, ResultFails, ResultUnanswered, ResultUnacked, CycleDone, After
  <2>. QED  BY <2>1, <2>2 DEF BackoffLadder
<1>5. CASE \/ ClaimArrives \/ PanelEmpty \/ PanelUp \/ PanelErrs \/ Truncate \/ Lose
           \/ PanelDown \/ PanelDropsLost \/ (pc = "stopped" /\ UNCHANGED vars) \/ UNCHANGED vars
           \/ \E c \in Commands : PanelHands(c) \/ Enqueue(c) \/ PanelHandsLost(c) \/ Expire(c)
  <2>1. failed' = failed /\ cur' = cur /\ pc' = pc
    BY <1>5 DEF ClaimArrives, PanelEmpty, PanelUp, PanelErrs, Truncate, Lose, PanelDown,
                PanelDropsLost, PanelHands, Enqueue, PanelHandsLost, Expire, vars
  <2>. QED  BY <2>1 DEF BackoffLadder
<1>. QED  BY <1>1, <1>2, <1>3, <1>4, <1>5 DEF Next, Loop, Panel, Faults

-----------------------------------------------------------------------------
\* NewClient, Run, runOne and report: a leased command is on its way to this runner, in its
\* hands, or was reported in vain as often as report tries -- unless a fault took the
\* answer, the process crashed or it was stopped in the middle of a claim.
THEOREM Held == Spec => [](TypeOK /\ LeasedIsHeld)
<1>1. Init => IInv
  <2>1. Init => LostInv /\ LeasedIsHeld
    BY DEF Init, LostInv, LeasedIsHeld
  <2>. QED  BY InitBase, <2>1 DEF IInv
<1>2. IInv /\ [Next]_vars => IInv'
  BY StepTyped, StepCall, StepTime, StepCycle, StepLost, StepHeld DEF IInv, Base
<1>3. IInv => TypeOK /\ LeasedIsHeld
  BY DEF IInv, Base
<1>. QED  BY <1>1, <1>2, <1>3, PTL DEF Spec

\* Backoff.Next and Backoff.Reset: however claims fail, are answered and are cut short, the
\* pause is the step of the ladder that the failures in a row call for, and at most Max.
THEOREM OnTheLadder == Spec => []BackoffSound
<1>. DEFINE All == Base /\ BackoffLadder /\ FreshInv
<1>1. Init => All
  BY InitBase DEF Init, BackoffLadder, FreshInv, Working
<1>2. All /\ [Next]_vars => All'
  BY StepTyped, StepCall, StepTime, StepCycle, StepLadder DEF Base
<1>3. All => BackoffSound
  BY DEF BackoffSound, Base
<1>. QED  BY <1>1, <1>2, <1>3, PTL DEF Spec
=============================================================================
