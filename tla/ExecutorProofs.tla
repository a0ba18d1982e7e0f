-------------------------- MODULE ExecutorProofs ---------------------------
(***************************************************************************)
(* What the panel and the machine are left with when the runner executes a *)
(* command: LogStream is the way of its output, RunnerTeardown its end.    *)
(*                                                                         *)
(* LogStream, for every length of a command, of its lines and of its       *)
(* batches, and for all intervals that satisfy LeaseAssumption: what the   *)
(* panel may conclude from the number of batches, and when its lease on a  *)
(* command can lapse.                                                      *)
(*                                                                         *)
(* RunnerTeardown, for any number of children, lines and any size of pipe, *)
(* and for every command: what Execute reports when it returns.  That the  *)
(* output is complete follows from the end of the pipe alone.  Who may be  *)
(* left needs more: the shell is the only one who forks, so after a signal *)
(* it did not survive the group only shrinks.                              *)
(***************************************************************************)
EXTENDS LogStream, RunnerTeardown, TLAPS

-----------------------------------------------------------------------------
(* LogStream *)

InFlight == reader \in {"sink", "send"}

\* The buffer and the batch of the collector.
CollectorInv ==
  /\ ~truncated => used <= MaxBytes /\ kept = printed
  /\ ~Streaming => reader \in {"idle", "done"} /\ pending = 0
  /\ reader = "idle" => pending < FlushLines
  /\ InFlight \/ reader = "done" => pending = 0
  /\ reader = "done" => life = "drained"

\* The sink and the collector count alike, each its own way.
CountInv ==
  /\ batches + pending <= printed
  /\ reader = "sink" => batches > 0 /\ seq = batches - 1
  /\ reader # "sink" => seq = batches
  /\ InFlight => call.lines > 0
  /\ ~InFlight => call = NoCall
  /\ reader = "send" => batches > 0 /\ call.seq = batches - 1

\* The batches that were decided (they arrived or were lost) are the first Sent ones, and
\* all of them arrived exactly if no line is missing but those on their way.
Sent   == IF InFlight THEN batches - 1 ELSE batches
Onward == gotLines + call.lines + pending

GapInv ==
  /\ got \subseteq 0..(Sent - 1)
  /\ Onward <= printed
  /\ Streaming => (got = 0..(Sent - 1) <=> Onward = printed)

\* How long the panel may have heard nothing although nothing was lost or held back.  With
\* no call on its way it is the time since the last contact; once a keepalive is due, the
\* time to the tick that finds it so; and during a call, the age of that call.
Rested  == 2 * Every + Jitter
Waited  ==
  /\ contactAge < Every => leaseAge <= contactAge
  /\ contactAge >= Every /\ ~ticked => leaseAge <= 2 * Every - tickIn
  /\ contactAge >= Every /\ ticked => leaseAge <= 2 * Every + late
Silence ==
  /\ keeper \in {"sink", "send"} => leaseAge <= Rested + ping.age
  /\ keeper \in {"wait", "over"} /\ InFlight => leaseAge <= Rested + call.age
  /\ keeper = "wait" /\ ~InFlight => Waited
  /\ keeper = "over" /\ ~InFlight => leaseAge <= Rested

\* No keepalive starts during a call: the collector has just been in contact.
ContactInv == InFlight => contactAge <= call.age

TimeInv ==
  /\ ~ticked => late = 0
  /\ keeper # "send" => ping.age = 0
  /\ keeper = "over" => life # "running"
  /\ (missed = 0 /\ ~heldBack /\ ~unwatched) => Silence

LogInv == TypeOK /\ CollectorInv /\ CountInv /\ GapInv
IInv   == LogInv /\ ContactInv /\ TimeInv

-----------------------------------------------------------------------------
(* The constants and the sets of batch numbers *)

LEMMA Constants ==
  /\ Every \in Nat /\ Jitter \in Nat /\ Short \in Nat /\ Lease \in Nat /\ FlushEvery \in Nat
  /\ FlushLines \in Nat /\ MaxBytes \in Nat /\ Marker \in Nat
  /\ MaxLines \in Nat /\ MaxMissed \in Nat
BY TimesAssumption, LinesAssumption

LEMMA OneMore ==
  ASSUME NEW n \in Nat, NEW S, S \subseteq 0..(n - 1)
  PROVE  /\ S \cup {n} \subseteq 0..n
         /\ S \cup {n} = 0..n <=> S = 0..(n - 1)
<1>1. S \cup {n} \subseteq 0..n
  OBVIOUS
<1>2. ASSUME S \cup {n} = 0..n PROVE S = 0..(n - 1)
  <2>1. ASSUME NEW i \in 0..(n - 1) PROVE i \in S
    <3>1. i \in S \cup {n} /\ i # n
      BY <1>2
    <3>. QED  BY <3>1
  <2>. QED  BY <2>1
<1>3. ASSUME S = 0..(n - 1) PROVE S \cup {n} = 0..n
  BY <1>3
<1>. QED  BY <1>1, <1>2, <1>3

LEMMA OneMissing ==
  ASSUME NEW n \in Nat, NEW S, S \subseteq 0..(n - 1)
  PROVE  S \subseteq 0..n /\ S # 0..n
<1>1. n \in 0..n /\ n \notin S
  OBVIOUS
<1>. QED  BY <1>1

-----------------------------------------------------------------------------
(* The log *)

LEMMA InitLog == Init => LogInv
<1>. SUFFICES ASSUME Init PROVE LogInv
  OBVIOUS
<1>. USE Constants, LinesAssumption, LeaseAssumption
<1>1. call = NoCall /\ ping = NoCall /\ NoCall \in CallType
  BY DEF Init, NoCall, CallType
<1>2. TypeOK
  <2>1. tickIn \in 1..Every /\ late \in 0..Jitter
    BY DEF Init
  <2>2. leaseAge \in 0..(Lease + 1) /\ used \in 0..(MaxBytes + Marker)
    BY DEF Init
  <2>3. printed \in 0..MaxLines /\ kept \in 0..printed /\ gotLines \in 0..printed
    BY DEF Init
  <2>4. pending \in 0..FlushLines /\ batches \in 0..MaxLines /\ seq \in 0..MaxLines
    BY DEF Init
  <2>5. flushAge \in 0..FlushEvery /\ contactAge \in 0..Every /\ missed \in 0..MaxMissed
    BY DEF Init
  <2>. QED  BY <1>1, <2>1, <2>2, <2>3, <2>4, <2>5 DEF Init, TypeOK
<1>3. CollectorInv /\ CountInv
  BY <1>1 DEF Init, CollectorInv, CountInv, InFlight
<1>4. GapInv
  BY <1>1 DEF Init, GapInv, Sent, Onward, InFlight, NoCall
<1>. QED  BY <1>2, <1>3, <1>4 DEF LogInv

LEMMA StepTyped ==
  ASSUME LogInv, [Next]_vars
  PROVE  TypeOK'
<1>. USE DEF LogInv, TypeOK, collector, ages, ticker, panel
<1>1. ASSUME NEW size \in Sizes, Add(size) PROVE TypeOK'
  <2>1. pending' \in 0..FlushLines /\ reader' \in {"idle", "flush"}
    BY <1>1, Constants, LinesAssumption DEF Add, CollectorInv
  <2>2. printed' \in 0..MaxLines /\ kept' \in 0..printed' /\ gotLines \in 0..printed'
    BY <1>1, Constants DEF Add
  <2>3. used' \in 0..(MaxBytes + Marker)
    BY <1>1, Constants, LinesAssumption DEF Add, CollectorInv
  <2>4. truncated' \in BOOLEAN
    BY <1>1 DEF Add
  <2>. QED  BY <1>1, <2>1, <2>2, <2>3, <2>4 DEF Add
<1>2. CASE Die
  BY <1>2, Constants DEF Die
<1>3. CASE Drain
  BY <1>3, Constants DEF Drain
<1>4. CASE Flush
  <2>1. batches' \in 0..MaxLines
    BY <1>4, Constants DEF Flush, CountInv
  <2>2. call' \in CallType
    BY <1>4, Constants DEF Flush, CallType, NoCall
  <2>. QED  BY <1>4, <2>1, <2>2, Constants DEF Flush
<1>5. CASE Sink
  <2>1. seq' \in 0..MaxLines
    BY <1>5, Constants DEF Sink, CountInv
  <2>2. call' \in CallType
    BY <1>5 DEF Sink, CallType
  <2>. QED  BY <1>5, <2>1, <2>2 DEF Sink
<1>6. CASE Finish
  BY <1>6, Constants DEF Finish
<1>7. CASE Keepalive
  <2>1. late' \in 0..Jitter /\ contactAge' \in 0..Every
    BY <1>7, Constants DEF Keepalive
  <2>2. ticked' \in BOOLEAN /\ keeper' = "sink"
    BY <1>7 DEF Keepalive
  <2>. QED  BY <1>7, <2>1, <2>2 DEF Keepalive
<1>8. CASE Skip
  <2>1. heldBack' \in BOOLEAN /\ ticked' \in BOOLEAN
    BY <1>8, Zenon DEF Skip
  <2>2. late' \in 0..Jitter
    BY <1>8, Constants DEF Skip
  <2>. QED  BY <1>8, <2>1, <2>2 DEF Skip
<1>9. CASE KeepaliveSink
  <2>1. ping' \in CallType
    BY <1>9, Constants DEF KeepaliveSink, CallType, NoCall
  <2>. QED  BY <1>9, <2>1 DEF KeepaliveSink
<1>10. CASE Stop
  BY <1>10, Constants DEF Stop
<1>11. CASE BatchArrives
  <2>1. call' \in CallType
    BY <1>11, Constants DEF BatchArrives, CallType, NoCall
  <2>2. gotLines' \in 0..printed
    <3>1. call.lines \in Nat /\ gotLines' = gotLines + call.lines
      BY <1>11, Constants DEF BatchArrives, CallType
    <3>2. gotLines + call.lines + pending <= printed
      BY DEF GapInv, Onward
    <3>. QED  BY <3>1, <3>2, Constants
  <2>3. got' \subseteq 0..(MaxLines - 1)
    <3>1. call.seq = batches - 1 /\ batches > 0 /\ got' = got \cup {call.seq}
      BY <1>11 DEF BatchArrives, CountInv
    <3>. QED  BY <3>1, Constants
  <2>4. leaseAge' = 0 /\ missed' = 0 /\ heldBack' = FALSE /\ unwatched' = FALSE
    BY <1>11 DEF BatchArrives, Renew
  <2>5. leaseAge' \in 0..(Lease + 1) /\ missed' \in 0..MaxMissed
    BY <2>4, Constants
  <2>. QED  BY <1>11, <2>1, <2>2, <2>3, <2>4, <2>5 DEF BatchArrives
<1>12. CASE PingArrives
  <2>1. ping' \in CallType
    BY <1>12, Constants DEF PingArrives, CallType, NoCall
  <2>2. leaseAge' = 0 /\ missed' = 0 /\ heldBack' = FALSE /\ unwatched' = FALSE
    BY <1>12 DEF PingArrives, Renew
  <2>3. leaseAge' \in 0..(Lease + 1) /\ missed' \in 0..MaxMissed
    BY <2>2, Constants
  <2>. QED  BY <1>12, <2>1, <2>2, <2>3 DEF PingArrives
<1>13. CASE BatchLost
  <2>1. call' \in CallType
    BY <1>13, Constants DEF BatchLost, CallType, NoCall
  <2>. QED  BY <1>13, <2>1, Constants DEF BatchLost
<1>14. CASE PingLost
  <2>1. ping' \in CallType
    BY <1>14, Constants DEF PingLost, CallType, NoCall
  <2>. QED  BY <1>14, <2>1, Constants DEF PingLost
<1>15. CASE Tick
  <2>1. call' \in CallType
    <3>1. CASE reader = "send"
      BY <1>15, <3>1, Constants DEF Tick, CallType
    <3>2. CASE reader # "send"
      BY <1>15, <3>2 DEF Tick
    <3>. QED  BY <3>1, <3>2
  <2>2. ping' \in CallType
    <3>1. CASE keeper = "send"
      BY <1>15, <3>1, Constants DEF Tick, CallType
    <3>2. CASE keeper # "send"
      BY <1>15, <3>2 DEF Tick
    <3>. QED  BY <3>1, <3>2
  <2>3. late' \in 0..Jitter
    BY <1>15, Constants DEF Tick
  <2>4. tickIn' \in 1..Every
    BY <1>15, Constants, LeaseAssumption DEF Tick
  <2>5. flushAge' \in 0..FlushEvery /\ contactAge' \in 0..Every
    BY <1>15, Constants DEF Tick, Older
  <2>6. leaseAge' \in 0..(Lease + 1)
    BY <1>15, Constants DEF Tick, Older
  <2>7. ticked' \in BOOLEAN /\ unwatched' \in BOOLEAN
    BY <1>15, Zenon DEF Tick
  <2>. QED  BY <1>15, <2>1, <2>2, <2>3, <2>4, <2>5, <2>6, <2>7 DEF Tick
<1>16. CASE UNCHANGED vars
  BY <1>16 DEF vars
<1>. QED
  BY <1>1, <1>2, <1>3, <1>4, <1>5, <1>6, <1>7, <1>8, <1>9, <1>10, <1>11, <1>12, <1>13,
     <1>14, <1>15, <1>16
     DEF Next

LEMMA StepCollector ==
  ASSUME LogInv, [Next]_vars
  PROVE  CollectorInv'
<1>. USE DEF LogInv, TypeOK, CollectorInv, InFlight, collector, ages, ticker, panel
<1>1. ASSUME NEW size \in Sizes, Add(size) PROVE CollectorInv'
  BY <1>1, Constants, LinesAssumption DEF Add, Due
<1>2. CASE Die
  BY <1>2, Constants, LinesAssumption DEF Die
<1>3. CASE Drain
  BY <1>3, Constants, LinesAssumption DEF Drain
<1>4. CASE Flush
  BY <1>4, Constants, LinesAssumption DEF Flush
<1>5. CASE Sink
  BY <1>5, Constants, LinesAssumption DEF Sink
<1>6. CASE Finish
  BY <1>6, Constants, LinesAssumption DEF Finish
<1>7. CASE Keepalive
  BY <1>7, Constants, LinesAssumption DEF Keepalive, Quiet
<1>8. CASE Skip
  BY <1>8, Constants, LinesAssumption DEF Skip, Quiet
<1>9. CASE KeepaliveSink
  BY <1>9, Constants, LinesAssumption DEF KeepaliveSink
<1>10. CASE Stop
  BY <1>10, Constants, LinesAssumption DEF Stop
<1>11. CASE BatchArrives
  BY <1>11, Constants, LinesAssumption DEF BatchArrives, Renew
<1>12. CASE PingArrives
  BY <1>12, Constants, LinesAssumption DEF PingArrives, Renew
<1>13. CASE BatchLost
  BY <1>13, Constants, LinesAssumption DEF BatchLost
<1>14. CASE PingLost
  BY <1>14, Constants, LinesAssumption DEF PingLost
<1>15. CASE Tick
  BY <1>15, Constants, LinesAssumption DEF Tick, Older
<1>16. CASE UNCHANGED vars
  BY <1>16 DEF vars
<1>. QED
  BY <1>1, <1>2, <1>3, <1>4, <1>5, <1>6, <1>7, <1>8, <1>9, <1>10, <1>11, <1>12, <1>13,
     <1>14, <1>15, <1>16
     DEF Next

LEMMA StepCount ==
  ASSUME LogInv, [Next]_vars
  PROVE  CountInv'
<1>. USE DEF LogInv, TypeOK, CollectorInv, CountInv, InFlight, NoCall, CallType,
             collector, ages, ticker, panel
<1>1. ASSUME NEW size \in Sizes, Add(size) PROVE CountInv'
  BY <1>1, Constants, LinesAssumption DEF Add, Due
<1>2. CASE Die
  BY <1>2, Constants, LinesAssumption DEF Die
<1>3. CASE Drain
  BY <1>3, Constants, LinesAssumption DEF Drain
<1>4. CASE Flush
  BY <1>4, Constants, LinesAssumption DEF Flush
<1>5. CASE Sink
  BY <1>5, Constants, LinesAssumption DEF Sink
<1>6. CASE Finish
  BY <1>6, Constants, LinesAssumption DEF Finish
<1>7. CASE Keepalive
  BY <1>7, Constants, LinesAssumption DEF Keepalive, Quiet
<1>8. CASE Skip
  BY <1>8, Constants, LinesAssumption DEF Skip, Quiet
<1>9. CASE KeepaliveSink
  BY <1>9, Constants, LinesAssumption DEF KeepaliveSink
<1>10. CASE Stop
  BY <1>10, Constants, LinesAssumption DEF Stop
<1>11. CASE BatchArrives
  BY <1>11, Constants, LinesAssumption DEF BatchArrives, Renew
<1>12. CASE PingArrives
  BY <1>12, Constants, LinesAssumption DEF PingArrives, Renew
<1>13. CASE BatchLost
  BY <1>13, Constants, LinesAssumption DEF BatchLost
<1>14. CASE PingLost
  BY <1>14, Constants, LinesAssumption DEF PingLost
<1>15. CASE Tick
  BY <1>15, Constants, LinesAssumption DEF Tick, Older
<1>16. CASE UNCHANGED vars
  BY <1>16 DEF vars
<1>. QED
  BY <1>1, <1>2, <1>3, <1>4, <1>5, <1>6, <1>7, <1>8, <1>9, <1>10, <1>11, <1>12, <1>13,
     <1>14, <1>15, <1>16
     DEF Next

LEMMA StepGap ==
  ASSUME LogInv, [Next]_vars
  PROVE  GapInv'
<1>. USE DEF LogInv, TypeOK, collector, ages, ticker, panel
<1>1. ASSUME NEW size \in Sizes, Add(size) PROVE GapInv'
  <2>1. Sent' = Sent /\ got' = got /\ ~InFlight /\ ~InFlight'
    BY <1>1 DEF Add, Sent, InFlight
  <2>2. call = NoCall /\ call' = call /\ gotLines' = gotLines /\ printed' = printed + 1
    BY <1>1, <2>1 DEF Add, CountInv
  <2>3. Streaming => pending' = pending + 1
    BY <1>1 DEF Add
  <2>4. ~Streaming => pending' = pending
    BY <1>1 DEF Add, CollectorInv
  <2>5. /\ Streaming => Onward' = Onward + 1
        /\ ~Streaming => Onward' = Onward
    BY <2>2, <2>3, <2>4 DEF Onward, NoCall
  <2>6. Onward \in Nat
    BY <2>2 DEF Onward, NoCall
  <2>7. GapInv /\ printed \in Nat
    OBVIOUS
  <2>. HIDE DEF LogInv, TypeOK, Onward, Sent
  <2>. QED  BY <2>1, <2>2, <2>5, <2>6, <2>7 DEF GapInv
<1>2. CASE Die
  BY <1>2 DEF Die, GapInv, Sent, Onward, InFlight
<1>3. CASE Drain
  BY <1>3 DEF Drain, GapInv, Sent, Onward, InFlight
<1>4. CASE Flush
  <2>1. Sent' = Sent /\ got' = got /\ ~InFlight /\ InFlight' /\ Sent \in Nat
    BY <1>4 DEF Flush, Sent, InFlight
  <2>2. call = NoCall /\ call'.lines = pending /\ pending' = 0 /\ gotLines' = gotLines
    BY <1>4, <2>1 DEF Flush, CountInv, NoCall
  <2>3. Onward' = Onward /\ printed' = printed
    BY <1>4, <2>2 DEF Flush, Onward, NoCall
  <2>. QED  BY <2>1, <2>3 DEF GapInv
<1>5. CASE Sink
  <2>1. call'.lines = call.lines
    BY <1>5 DEF Sink, CallType
  <2>2. UNCHANGED <<got, gotLines, pending, printed, batches>> /\ InFlight /\ InFlight'
    BY <1>5 DEF Sink, InFlight
  <2>. QED  BY <2>1, <2>2 DEF GapInv, Sent, Onward
<1>6. CASE Finish
  BY <1>6 DEF Finish, GapInv, Sent, Onward, InFlight
<1>7. CASE Keepalive
  BY <1>7 DEF Keepalive, GapInv, Sent, Onward, InFlight
<1>8. CASE Skip
  BY <1>8 DEF Skip, GapInv, Sent, Onward, InFlight
<1>9. CASE KeepaliveSink
  BY <1>9 DEF KeepaliveSink, GapInv, Sent, Onward, InFlight
<1>10. CASE Stop
  BY <1>10 DEF Stop, GapInv, Sent, Onward, InFlight
<1>11. CASE BatchArrives
  <2>1. /\ Sent \in Nat /\ call.seq = Sent /\ Sent' = Sent + 1 /\ got' = got \cup {Sent}
        /\ Sent' - 1 = Sent
    BY <1>11 DEF BatchArrives, Sent, InFlight, CountInv
  <2>2. Onward' = Onward /\ printed' = printed
    BY <1>11 DEF BatchArrives, Onward, NoCall, CallType
  <2>3. got \subseteq 0..(Sent - 1)
    BY DEF GapInv
  <2>4. got' \subseteq 0..Sent /\ (got' = 0..Sent <=> got = 0..(Sent - 1))
    BY <2>1, <2>3, OneMore
  <2>. QED  BY <2>1, <2>2, <2>4 DEF GapInv
<1>12. CASE PingArrives
  BY <1>12 DEF PingArrives, GapInv, Sent, Onward, InFlight, Renew
<1>13. CASE BatchLost
  <2>1. Sent \in Nat /\ Sent' = Sent + 1 /\ Sent' - 1 = Sent /\ got' = got
    BY <1>13 DEF BatchLost, Sent, InFlight, CountInv
  <2>2. /\ printed' = printed /\ gotLines' = gotLines /\ pending' = pending
        /\ call'.lines = 0 /\ call.lines > 0
    BY <1>13 DEF BatchLost, NoCall, CountInv, InFlight
  <2>5. /\ gotLines \in Nat /\ pending \in Nat /\ call.lines \in Nat /\ printed \in Nat
        /\ gotLines + call.lines + pending <= printed
    BY DEF GapInv, Onward, CallType
  <2>6. Onward' < printed /\ printed' = printed /\ Onward' \in Nat
    BY <2>2, <2>5 DEF Onward
  <2>3. got \subseteq 0..(Sent - 1)
    BY DEF GapInv
  <2>4. got' \subseteq 0..Sent /\ got' # 0..Sent
    BY <2>1, <2>3, OneMissing
  <2>. HIDE DEF LogInv, TypeOK, Onward, Sent
  <2>. QED  BY <2>1, <2>4, <2>5, <2>6 DEF GapInv
<1>14. CASE PingLost
  BY <1>14 DEF PingLost, GapInv, Sent, Onward, InFlight
<1>15. CASE Tick
  <2>1. call'.lines = call.lines
    BY <1>15 DEF Tick, CallType
  <2>2. UNCHANGED <<got, gotLines, pending, printed, batches, reader>>
    BY <1>15 DEF Tick
  <2>. QED  BY <2>1, <2>2 DEF GapInv, Sent, Onward, InFlight
<1>16. CASE UNCHANGED vars
  BY <1>16 DEF vars, GapInv, Sent, Onward, InFlight
<1>. QED
  BY <1>1, <1>2, <1>3, <1>4, <1>5, <1>6, <1>7, <1>8, <1>9, <1>10, <1>11, <1>12, <1>13,
     <1>14, <1>15, <1>16
     DEF Next

-----------------------------------------------------------------------------
(* The lease *)

LEMMA InitTime == Init => TimeInv
BY Constants, LeaseAssumption
   DEF Init, TimeInv, Silence, Waited, Rested, InFlight, NoCall

LEMMA StepContact ==
  ASSUME LogInv, ContactInv, [Next]_vars
  PROVE  ContactInv'
<1>. USE DEF LogInv, TypeOK, CountInv, ContactInv, InFlight, NoCall, CallType,
             collector, ages, ticker, panel
<1>1. ASSUME NEW size \in Sizes, Add(size) PROVE ContactInv'
  BY <1>1, Constants DEF Add, Due
<1>2. CASE Die
  BY <1>2, Constants DEF Die
<1>3. CASE Drain
  BY <1>3, Constants DEF Drain
<1>4. CASE Flush
  BY <1>4, Constants DEF Flush
<1>5. CASE Sink
  BY <1>5, Constants DEF Sink
<1>6. CASE Finish
  BY <1>6, Constants DEF Finish
<1>7. CASE Keepalive
  BY <1>7, Constants DEF Keepalive, Quiet
<1>8. CASE Skip
  BY <1>8, Constants DEF Skip, Quiet
<1>9. CASE KeepaliveSink
  BY <1>9, Constants DEF KeepaliveSink
<1>10. CASE Stop
  BY <1>10, Constants DEF Stop
<1>11. CASE BatchArrives
  BY <1>11, Constants DEF BatchArrives, Renew
<1>12. CASE PingArrives
  BY <1>12, Constants DEF PingArrives, Renew
<1>13. CASE BatchLost
  BY <1>13, Constants DEF BatchLost
<1>14. CASE PingLost
  BY <1>14, Constants DEF PingLost
<1>15. CASE Tick
  BY <1>15, Constants DEF Tick, Older
<1>16. CASE UNCHANGED vars
  BY <1>16 DEF vars
<1>. QED
  BY <1>1, <1>2, <1>3, <1>4, <1>5, <1>6, <1>7, <1>8, <1>9, <1>10, <1>11, <1>12, <1>13,
     <1>14, <1>15, <1>16
     DEF Next

LEMMA StepTime ==
  ASSUME LogInv, ContactInv, TimeInv, [Next]_vars
  PROVE  TimeInv'
<1>. USE DEF LogInv, TypeOK, collector, ages, ticker, panel
<1>1. ASSUME NEW size \in Sizes, Add(size) PROVE TimeInv'
  BY <1>1, Constants, LeaseAssumption
     DEF Add, TimeInv, Silence, Waited, Rested, InFlight, NoCall, CallType
<1>2. CASE Die
  BY <1>2, Constants, LeaseAssumption
     DEF Die, TimeInv, Silence, Waited, Rested, InFlight, NoCall, CallType
<1>3. CASE Drain
  BY <1>3, Constants, LeaseAssumption
     DEF Drain, TimeInv, Silence, Waited, Rested, InFlight, NoCall, CallType
<1>4. CASE Flush
  BY <1>4, Constants, LeaseAssumption
     DEF Flush, TimeInv, Silence, Waited, Rested, InFlight, NoCall, CallType, CountInv
<1>5. CASE Sink
  BY <1>5, Constants, LeaseAssumption
     DEF Sink, TimeInv, Silence, Waited, Rested, InFlight, NoCall, CallType, CountInv
<1>6. CASE Finish
  BY <1>6, Constants, LeaseAssumption
     DEF Finish, TimeInv, Silence, Waited, Rested, InFlight, NoCall, CallType
<1>7. CASE Keepalive
  <2>1. ping.age \in Nat /\ ping'.age = 0 /\ leaseAge' = leaseAge /\ keeper' = "sink"
    BY <1>7 DEF Keepalive, TimeInv, CallType
  <2>2. ~InFlight
    BY <1>7, Constants, LeaseAssumption DEF Keepalive, Quiet, ContactInv, InFlight, CallType
  <2>3. ASSUME missed = 0, ~heldBack, ~unwatched PROVE leaseAge <= Rested
    BY <1>7, <2>2, <2>3, Constants DEF Keepalive, Quiet, TimeInv, Silence, Waited, Rested
  <2>4. (missed' = 0 /\ ~heldBack' /\ ~unwatched') => Silence'
    BY <1>7, <2>1, <2>3, Constants DEF Keepalive, Silence, Rested
  <2>. QED  BY <1>7, <2>1, <2>4 DEF Keepalive, TimeInv
<1>8. CASE Skip
  <2>1. ASSUME missed' = 0, ~heldBack', ~unwatched'
        PROVE  missed = 0 /\ ~heldBack /\ ~unwatched /\ contactAge < Every
    <3>1. missed = 0 /\ ~heldBack /\ ~unwatched /\ ~(contactAge >= Every /\ pending > 0)
      BY <1>8, <2>1, Zenon DEF Skip
    <3>2. ~(pending = 0 /\ contactAge >= Every)
      BY <1>8 DEF Skip, Quiet
    <3>. QED  BY <3>1, <3>2, Constants
  <2>2. ASSUME missed' = 0, ~heldBack', ~unwatched' PROVE Silence'
    BY <1>8, <2>1, <2>2, Constants DEF Skip, TimeInv, Silence, Waited, Rested, InFlight
  <2>. QED  BY <1>8, <2>2 DEF Skip, TimeInv
<1>9. CASE KeepaliveSink
  BY <1>9, Constants, LeaseAssumption
     DEF KeepaliveSink, TimeInv, Silence, Waited, Rested, InFlight, NoCall, CallType
<1>10. CASE Stop
  BY <1>10, Constants, LeaseAssumption
     DEF Stop, TimeInv, Silence, Waited, Rested, InFlight, NoCall, CallType
<1>11. CASE BatchArrives
  BY <1>11, Constants, LeaseAssumption
     DEF BatchArrives, Renew, TimeInv, Silence, Waited, Rested, InFlight, NoCall, CallType
<1>12. CASE PingArrives
  BY <1>12, Constants, LeaseAssumption
     DEF PingArrives, Renew, TimeInv, Silence, Waited, Rested, InFlight, NoCall, CallType
<1>13. CASE BatchLost
  BY <1>13, Constants, LeaseAssumption
     DEF BatchLost, TimeInv, Silence, Waited, Rested, InFlight, NoCall, CallType
<1>14. CASE PingLost
  BY <1>14, Constants, LeaseAssumption
     DEF PingLost, TimeInv, Silence, Waited, Rested, InFlight, NoCall, CallType
<1>15. CASE Tick
  <2>1. ~ticked' => late' = 0
    BY <1>15 DEF Tick, TimeInv
  <2>2. keeper' # "send" => ping'.age = 0
    BY <1>15 DEF Tick, TimeInv
  <2>3. keeper' = "over" => life' # "running"
    BY <1>15 DEF Tick, TimeInv
  <2>4. ASSUME missed' = 0, ~heldBack', ~unwatched' PROVE Silence'
    <3>a. ~unwatched /\ ~(reader = "idle" /\ life = "dead")
      BY <1>15, <2>4, Zenon DEF Tick
    <3>. UNCHANGED <<reader, keeper, missed, heldBack>> /\ Silence
      BY <1>15, <2>4, <3>a DEF Tick, TimeInv
    <3>1. leaseAge' <= leaseAge + 1 /\ leaseAge' \in Nat /\ leaseAge \in Nat
      BY <1>15, Constants DEF Tick, Older
    <3>2. ASSUME keeper \in {"sink", "send"} PROVE leaseAge' <= Rested + ping'.age
      <4>1. keeper = "send" /\ ping'.age = ping.age + 1 /\ ping.age \in Nat
        BY <1>15, <3>2 DEF Tick, CallType
      <4>. QED  BY <3>1, <4>1, Constants DEF Silence, Rested
    <3>3. ASSUME keeper \in {"wait", "over"}, InFlight PROVE leaseAge' <= Rested + call'.age
      <4>1. reader = "send" /\ call'.age = call.age + 1 /\ call.age \in Nat
        BY <1>15, <3>3 DEF Tick, CallType, InFlight
      <4>. QED  BY <3>1, <3>3, <4>1, Constants DEF Silence, Rested
    <3>4. ASSUME keeper = "wait", ~InFlight PROVE Waited'
      <4>. Waited
        BY <3>4 DEF Silence
      <4>1. /\ contactAge' = Older(contactAge, Every) /\ ticked' = (ticked \/ tickIn = 1)
            /\ tickIn' = IF tickIn = 1 THEN Every ELSE tickIn - 1
            /\ late' = IF ticked THEN late + 1 ELSE late
        BY <1>15, <3>4 DEF Tick
      <4>2. contactAge' < Every => leaseAge' <= contactAge'
        BY <3>1, <4>1, Constants DEF Waited, Older
      <4>3. ASSUME contactAge' >= Every, ~ticked' PROVE leaseAge' <= 2 * Every - tickIn'
        <5>1. ~ticked /\ tickIn # 1 /\ tickIn' = tickIn - 1
          BY <4>1, <4>3
        <5>. QED  BY <3>1, <5>1, Constants DEF Waited
      <4>4. ASSUME contactAge' >= Every, ticked' PROVE leaseAge' <= 2 * Every + late'
        BY <3>1, <4>1, <4>4, Constants DEF Waited, Older, TimeInv
      <4>. QED  BY <4>2, <4>3, <4>4 DEF Waited
    <3>5. ASSUME keeper = "over", ~InFlight PROVE leaseAge' <= Rested
      <4>1. reader = "done"
        BY <1>15, <3>a, <3>5 DEF Tick, TimeInv, InFlight
      <4>. QED  BY <1>15, <3>5, <4>1 DEF Tick, Silence
    <3>. QED  BY <3>2, <3>3, <3>4, <3>5 DEF Silence, InFlight
  <2>. QED  BY <2>1, <2>2, <2>3, <2>4 DEF TimeInv
<1>16. CASE UNCHANGED vars
  BY <1>16 DEF vars, TimeInv, Silence, Waited, Rested, InFlight
<1>. QED
  BY <1>1, <1>2, <1>3, <1>4, <1>5, <1>6, <1>7, <1>8, <1>9, <1>10, <1>11, <1>12, <1>13,
     <1>14, <1>15, <1>16
     DEF Next

-----------------------------------------------------------------------------
(* The theorems *)

LEMMA Invariance == Spec => []IInv
<1>1. Init => IInv
  BY InitLog, InitTime DEF IInv, ContactInv, InFlight, Init
<1>2. IInv /\ [Next]_vars => IInv'
  BY StepTyped, StepCollector, StepCount, StepGap, StepContact, StepTime
     DEF IInv, LogInv
<1>. QED  BY <1>1, <1>2, PTL DEF Spec

\* outputCollector, the sink and Execute: the number of batches in the result tells the
\* panel exactly whether it has every line, and the result says whether it has all of the
\* output -- for any number of lines and batches, and however calls are lost.
THEOREM Told == Spec => []NoSilentLoss
<1>1. IInv => NoSilentLoss
  <2>. SUFFICES ASSUME IInv PROVE NoSilentLoss
    OBVIOUS
  <2>1. TypeOK /\ CollectorInv /\ CountInv /\ GapInv
    BY DEF IInv, LogInv
  <2>2. ASSUME reader = "done" PROVE Sent = batches /\ Onward = gotLines
    BY <2>1, <2>2 DEF TypeOK, CollectorInv, CountInv, Sent, Onward, InFlight, NoCall
  <2>3. GapTold
    BY <2>1, <2>2 DEF GapTold, GapInv
  <2>4. OutputKept
    BY <2>1 DEF OutputKept, CollectorInv
  <2>. QED  BY <2>1, <2>3, <2>4 DEF NoSilentLoss
<1>. QED  BY Invariance, <1>1, PTL

\* keepalive and Execute: the lease lapses only when a call was lost, a keepalive held
\* back, or the shell is dead and a process it left behind keeps Execute waiting -- for
\* all intervals in which a call ends before the next keepalive is due and the lease
\* outlasts two intervals, the delay of a tick and a call.
THEOREM Leased == Spec => []LeaseKept
<1>1. IInv => LeaseKept
  <2>. SUFFICES ASSUME IInv, missed = 0, ~heldBack, ~unwatched PROVE ~(leaseAge > Lease)
    <3>1. IInv => missed \in Nat /\ missed \in 0..MaxMissed
      BY Constants DEF IInv, LogInv, TypeOK
    <3>. QED  BY <3>1, Constants DEF LeaseKept
  <2>1. TypeOK /\ Silence
    BY DEF IInv, LogInv, TimeInv
  <2>2. call.age <= Short /\ ping.age <= Short /\ call.age \in Nat /\ ping.age \in Nat
    BY <2>1, Constants DEF TypeOK, CallType
  <2>. QED
    BY <2>1, <2>2, Constants, LeaseAssumption DEF TypeOK, Silence, Waited, Rested
<1>. QED  BY Invariance, <1>1, PTL

-----------------------------------------------------------------------------
(* RunnerTeardown *)

\* A closed reader has seen the end of the pipe, or has given up.
PipeInv ==
  /\ (consumer = "closed" /\ ~cut) => taken = written /\ writers = {}
  /\ result \in {"timed_out", "exited"} => consumer = "closed"

\* Where Execute is, and what has happened by then.
StageInv ==
  /\ pc = "start" => born = {} /\ ~reaped /\ ~expired
  /\ expired => pc \in {"term", "grace", "kill", "drain", "done"}
  /\ reaped => Shell \in born \ alive
  /\ (pc \in {"drain", "done"} /\ result # "spawn_failed") => reaped
  /\ result # "none" => pc = "done"
  /\ result = "timed_out" => expired
  /\ result = "spawn_failed" => ~expired

\* Who is still there after a signal, and after the shell: the parts of Orphans.
LeftInv ==
  /\ pc \in {"start", "select", "term"} => signalled = "none"
  /\ signalled = "none" => latecomers = {}
  /\ signalled = "kill" => alive = {}
  /\ signalled = "term" => alive \subseteq stubborn \cup latecomers
  /\ (signalled = "term" /\ Shell \notin stubborn) => Shell \notin alive /\ latecomers = {}
  /\ (Shell \in born \ alive /\ (signalled = "none" \/ Shell \in stubborn))
       => alive \subseteq daemons

LEMMA TeardownInitInv == TeardownInit => TeardownTypeOK /\ PipeInv /\ StageInv /\ LeftInv
<1>. SUFFICES ASSUME TeardownInit PROVE TeardownTypeOK /\ PipeInv /\ StageInv /\ LeftInv
  OBVIOUS
<1>1. TeardownTypeOK
  <2>1. written \in 0..MaxWritten /\ taken \in 0..written /\ written - taken <= PipeLines
    BY OutputAssumption DEF TeardownInit
  <2>2. /\ stubborn \subseteq Group /\ daemons \subseteq Children
        /\ alive \subseteq born /\ born \subseteq Group /\ latecomers \subseteq Children
        /\ writers \subseteq alive
    BY DEF TeardownInit
  <2>. QED  BY <2>1, <2>2 DEF TeardownInit, TeardownTypeOK
<1>2. PipeInv /\ StageInv
  BY DEF TeardownInit, PipeInv, StageInv
<1>3. LeftInv
  BY DEF TeardownInit, LeftInv
<1>. QED  BY <1>1, <1>2, <1>3

LEMMA TeardownTyped ==
  ASSUME TeardownTypeOK, [TeardownNext]_teardownVars
  PROVE  TeardownTypeOK'
<1>. USE DEF TeardownTypeOK, command, group, output, Group
<1>1. ASSUME NEW c \in Children, Fork(c) PROVE TeardownTypeOK'
  BY <1>1, OutputAssumption DEF Fork
<1>2. ASSUME NEW m \in Group, Redirect(m) PROVE TeardownTypeOK'
  BY <1>2, OutputAssumption DEF Redirect
<1>3. ASSUME NEW m \in Group, WriteLine(m) PROVE TeardownTypeOK'
  BY <1>3, OutputAssumption DEF WriteLine
<1>4. ASSUME NEW m \in Group, Exit(m) PROVE TeardownTypeOK'
  BY <1>4, OutputAssumption DEF Exit
<1>5. CASE Reap
  BY <1>5, OutputAssumption DEF Reap
<1>6. CASE ReadLine
  BY <1>6, OutputAssumption DEF ReadLine
<1>7. CASE ReadTooLong
  BY <1>7, OutputAssumption DEF ReadTooLong
<1>8. CASE ReadEOF
  BY <1>8, OutputAssumption DEF ReadEOF
<1>9. CASE SpawnFails
  BY <1>9, OutputAssumption DEF SpawnFails
<1>10. CASE Start
  BY <1>10, OutputAssumption DEF Start
<1>11. CASE WaitDone
  BY <1>11, OutputAssumption DEF WaitDone
<1>12. CASE Deadline
  BY <1>12, OutputAssumption DEF Deadline
<1>13. CASE Cancel
  BY <1>13, OutputAssumption DEF Cancel
<1>14. CASE Terminate
  BY <1>14, OutputAssumption DEF Terminate, Signal
<1>15. CASE GraceDone
  BY <1>15, OutputAssumption DEF GraceDone
<1>16. CASE GraceOver
  BY <1>16, OutputAssumption DEF GraceOver, Signal
<1>17. CASE KillDone
  BY <1>17, OutputAssumption DEF KillDone
<1>18. CASE Drained
  BY <1>18, OutputAssumption DEF Drained, Return
<1>19. CASE UNCHANGED teardownVars
  BY <1>19 DEF teardownVars
<1>. QED
  BY <1>1, <1>2, <1>3, <1>4, <1>5, <1>6, <1>7, <1>8, <1>9, <1>10, <1>11, <1>12, <1>13,
     <1>14, <1>15, <1>16, <1>17, <1>18, <1>19
     DEF TeardownNext, Run, Read

LEMMA StepPipe ==
  ASSUME TeardownTypeOK, PipeInv, StageInv, [TeardownNext]_teardownVars
  PROVE  PipeInv'
<1>. USE DEF TeardownTypeOK, PipeInv, StageInv, command, group, output
<1>1. ASSUME NEW c \in Children, Fork(c) PROVE PipeInv'
  BY <1>1 DEF Fork
<1>2. ASSUME NEW m \in Group, Redirect(m) PROVE PipeInv'
  BY <1>2 DEF Redirect
<1>3. ASSUME NEW m \in Group, WriteLine(m) PROVE PipeInv'
  BY <1>3 DEF WriteLine
<1>4. ASSUME NEW m \in Group, Exit(m) PROVE PipeInv'
  BY <1>4 DEF Exit
<1>5. CASE Reap
  BY <1>5 DEF Reap
<1>6. CASE ReadLine
  BY <1>6 DEF ReadLine
<1>7. CASE ReadTooLong
  BY <1>7 DEF ReadTooLong
<1>8. CASE ReadEOF
  BY <1>8 DEF ReadEOF
<1>9. CASE SpawnFails
  BY <1>9 DEF SpawnFails
<1>10. CASE Start
  BY <1>10 DEF Start
<1>11. CASE WaitDone
  BY <1>11 DEF WaitDone
<1>12. CASE Deadline
  BY <1>12 DEF Deadline
<1>13. CASE Cancel
  BY <1>13 DEF Cancel
<1>14. CASE Terminate
  BY <1>14 DEF Terminate, Signal
<1>15. CASE GraceDone
  BY <1>15 DEF GraceDone
<1>16. CASE GraceOver
  BY <1>16 DEF GraceOver, Signal
<1>17. CASE KillDone
  BY <1>17 DEF KillDone
<1>18. CASE Drained
  BY <1>18 DEF Drained, Return
<1>19. CASE UNCHANGED teardownVars
  BY <1>19 DEF teardownVars
<1>. QED
  BY <1>1, <1>2, <1>3, <1>4, <1>5, <1>6, <1>7, <1>8, <1>9, <1>10, <1>11, <1>12, <1>13,
     <1>14, <1>15, <1>16, <1>17, <1>18, <1>19
     DEF TeardownNext, Run, Read

LEMMA StepStage ==
  ASSUME TeardownTypeOK, StageInv, [TeardownNext]_teardownVars
  PROVE  StageInv'
<1>. USE DEF TeardownTypeOK, StageInv, command, group, output
<1>1. ASSUME NEW c \in Children, Fork(c) PROVE StageInv'
  BY <1>1, GroupAssumption DEF Fork
<1>2. ASSUME NEW m \in Group, Redirect(m) PROVE StageInv'
  BY <1>2, GroupAssumption DEF Redirect
<1>3. ASSUME NEW m \in Group, WriteLine(m) PROVE StageInv'
  BY <1>3, GroupAssumption DEF WriteLine
<1>4. ASSUME NEW m \in Group, Exit(m) PROVE StageInv'
  BY <1>4, GroupAssumption DEF Exit
<1>5. CASE Reap
  BY <1>5, GroupAssumption DEF Reap
<1>6. CASE ReadLine
  BY <1>6, GroupAssumption DEF ReadLine
<1>7. CASE ReadTooLong
  BY <1>7, GroupAssumption DEF ReadTooLong
<1>8. CASE ReadEOF
  BY <1>8, GroupAssumption DEF ReadEOF
<1>9. CASE SpawnFails
  BY <1>9, GroupAssumption DEF SpawnFails
<1>10. CASE Start
  BY <1>10, GroupAssumption DEF Start
<1>11. CASE WaitDone
  BY <1>11, GroupAssumption DEF WaitDone
<1>12. CASE Deadline
  BY <1>12, GroupAssumption DEF Deadline
<1>13. CASE Cancel
  BY <1>13, GroupAssumption DEF Cancel
<1>14. CASE Terminate
  BY <1>14, GroupAssumption DEF Terminate, Signal
<1>15. CASE GraceDone
  BY <1>15, GroupAssumption DEF GraceDone
<1>16. CASE GraceOver
  BY <1>16, GroupAssumption DEF GraceOver, Signal
<1>17. CASE KillDone
  BY <1>17, GroupAssumption DEF KillDone
<1>18. CASE Drained
  BY <1>18, GroupAssumption DEF Drained, Return
<1>19. CASE UNCHANGED teardownVars
  BY <1>19 DEF teardownVars
<1>. QED
  BY <1>1, <1>2, <1>3, <1>4, <1>5, <1>6, <1>7, <1>8, <1>9, <1>10, <1>11, <1>12, <1>13,
     <1>14, <1>15, <1>16, <1>17, <1>18, <1>19
     DEF TeardownNext, Run, Read

LEMMA StepLeft ==
  ASSUME TeardownTypeOK, StageInv, LeftInv, [TeardownNext]_teardownVars
  PROVE  LeftInv'
<1>. USE DEF TeardownTypeOK, StageInv, LeftInv, command, group, output, Group
<1>1. ASSUME NEW c \in Children, Fork(c) PROVE LeftInv'
  BY <1>1, GroupAssumption DEF Fork
<1>2. ASSUME NEW m \in Group, Redirect(m) PROVE LeftInv'
  BY <1>2, GroupAssumption DEF Redirect
<1>3. ASSUME NEW m \in Group, WriteLine(m) PROVE LeftInv'
  BY <1>3, GroupAssumption DEF WriteLine
<1>4. ASSUME NEW m \in Group, Exit(m) PROVE LeftInv'
  BY <1>4, GroupAssumption DEF Exit
<1>5. CASE Reap
  BY <1>5, GroupAssumption DEF Reap
<1>6. CASE ReadLine
  BY <1>6, GroupAssumption DEF ReadLine
<1>7. CASE ReadTooLong
  BY <1>7, GroupAssumption DEF ReadTooLong
<1>8. CASE ReadEOF
  BY <1>8, GroupAssumption DEF ReadEOF
<1>9. CASE SpawnFails
  BY <1>9, GroupAssumption DEF SpawnFails
<1>10. CASE Start
  BY <1>10, GroupAssumption DEF Start
<1>11. CASE WaitDone
  BY <1>11, GroupAssumption DEF WaitDone
<1>12. CASE Deadline
  BY <1>12, GroupAssumption DEF Deadline
<1>13. CASE Cancel
  BY <1>13, GroupAssumption DEF Cancel
<1>14. CASE Terminate
  BY <1>14, GroupAssumption DEF Terminate, Signal
<1>15. CASE GraceDone
  BY <1>15, GroupAssumption DEF GraceDone
<1>16. CASE GraceOver
  BY <1>16, GroupAssumption DEF GraceOver, Signal
<1>17. CASE KillDone
  BY <1>17, GroupAssumption DEF KillDone
<1>18. CASE Drained
  BY <1>18, GroupAssumption DEF Drained, Return
<1>19. CASE UNCHANGED teardownVars
  BY <1>19 DEF teardownVars
<1>. QED
  BY <1>1, <1>2, <1>3, <1>4, <1>5, <1>6, <1>7, <1>8, <1>9, <1>10, <1>11, <1>12, <1>13,
     <1>14, <1>15, <1>16, <1>17, <1>18, <1>19
     DEF TeardownNext, Run, Read

-----------------------------------------------------------------------------
(* The theorems *)

LEMMA TeardownInvariance == FairSpec => [](TeardownTypeOK /\ PipeInv /\ StageInv /\ LeftInv)
<1>. DEFINE Inv == TeardownTypeOK /\ PipeInv /\ StageInv /\ LeftInv
<1>1. Inv /\ [TeardownNext]_teardownVars => Inv'
  BY TeardownTyped, StepPipe, StepStage, StepLeft
<1>. QED  BY TeardownInitInv, <1>1, PTL DEF FairSpec

LEMMA OnlyOrphans == TeardownTypeOK /\ StageInv /\ LeftInv => GroupIsGone
<1>. SUFFICES ASSUME TeardownTypeOK, StageInv, LeftInv, result \in {"timed_out", "exited"}
             PROVE  reaped /\ alive \subseteq Orphans
  BY DEF GroupIsGone
<1>1. reaped /\ Shell \in born \ alive
  BY DEF StageInv
<1>2. CASE signalled = "kill"
  BY <1>1, <1>2 DEF LeftInv, Orphans
<1>3. CASE signalled = "none"
  BY <1>1, <1>3 DEF LeftInv, Orphans
<1>4. CASE signalled = "term"
  <2>1. alive \subseteq stubborn \cup latecomers
    BY <1>4 DEF LeftInv
  <2>2. alive \subseteq IF Shell \in stubborn THEN daemons ELSE Children
    BY <1>1, <1>4 DEF LeftInv, TeardownTypeOK, Group
  <2>. QED  BY <1>1, <1>4, <2>1, <2>2 DEF Orphans
<1>. QED  BY <1>2, <1>3, <1>4 DEF TeardownTypeOK

\* Execute, wait and terminate: what Execute reports when it returns is so, whatever
\* processes the command starts and whichever of them ignore SIGTERM or redirect their
\* output.  The output is complete unless the scanner gave up on a line, the shell was
\* reaped, and whoever is left was never sent SIGKILL and is deaf to SIGTERM, was
\* started after it, or was started in the background of a command that was not
\* signalled.
THEOREM Returned == FairSpec => []ReturnSound
<1>1. TeardownTypeOK /\ PipeInv /\ StageInv /\ LeftInv => ReturnSound
  BY OnlyOrphans DEF PipeInv, OutputComplete, ReturnSound
<1>. QED  BY TeardownInvariance, <1>1, PTL
=============================================================================
