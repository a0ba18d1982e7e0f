---------------------------- MODULE AgentSender ----------------------------
(***************************************************************************)
(* How the agent gets its reports to the intake: Sender and DiskBuffer of  *)
(* internal/agent/transport.go and buffer.go, driven by the tick of        *)
(* cmd/agent/main.go.                                                      *)
(*                                                                         *)
(* A report is sent once; if that fails, or an earlier failure's backoff   *)
(* is not over, it is written to a directory of at most MaxFiles files,    *)
(* which is flushed, oldest first, after the next report that gets through.*)
(*                                                                         *)
(* Reports are alike: it is enough to follow two of them, an older one     *)
(* (First) and a newer one (Second), among any number of Others.  A file   *)
(* whose write did not end is Torn; it is signed like any report when it   *)
(* is sent, and the intake refuses it.  The process is restarted when it   *)
(* ends (systemd, Restart=always); the buffer is all that outlives it.     *)
(* Files are named by the wall clock, which may be set back; the backoff is*)
(* measured by the monotonic one.                                          *)
(***************************************************************************)
EXTENDS Naturals, Sequences, SequencesExt

CONSTANTS
  First, Second, Other, Torn, \* contents of a file
  None,
  MaxFiles,      \* DiskBuffer.MaxFiles
  Interval,      \* time between two ticks
  Initial, Cap,  \* BackoffPolicy.Initial, Max; Factor is 2
  MaxFailures    \* bound on crashes, stops and failures of the disk (each file
                 \* that cannot be removed is one)

Reports == {First, Second, Other}
\* Files a failed write or a crash can leave beyond MaxFiles.
MaxLen  == MaxFiles + MaxFailures + 1

ASSUME ContentsAssumption == /\ First \notin {Second, Other, Torn, None}
                             /\ Second \notin {Other, Torn, None}
                             /\ Other \notin {Torn, None} /\ Torn # None
ASSUME BufferAssumption   == /\ {MaxFiles, Interval, Initial, Cap} \subseteq Nat \ {0}
                             /\ MaxFailures \in Nat /\ Initial <= Cap

VARIABLES
  stage,    \* tick: "idle", "send", "push", "trim", "flush"
  made,     \* the marked reports that were built
  body,     \* the report in hand
  buffer,   \* the files, in the order of their names
  pos,      \* FlushBuffered and trim: the file they are at
  cur,      \* curBackoff
  wait,     \* time to nextAttempt
  failed,   \* the tick's call of the intake failed
  stopping, \* SIGTERM: the context is cancelled
  up,       \* the intake answers, and in time
  arrived,  \* the marked reports the intake has
  excused,  \* history: marked reports dropped from a full buffer, or that could
            \* not be written, or were in hand when the process died
  failures, \* crashes, stops and failures of the disk so far
  setBack   \* the wall clock was set back since the buffer was last empty

backoff    == <<cur, wait>>
senderVars == <<stage, made, body, buffer, pos, backoff, failed, stopping, up, arrived,
                excused, failures, setBack>>

Marked(f) == {f} \cap {First, Second}
Files     == Range(buffer)

SenderTypeOK ==
  /\ stage \in {"idle", "send", "push", "trim", "flush"}
  /\ made \subseteq {First, Second} /\ arrived \subseteq made /\ excused \subseteq made
  /\ body \in Reports \cup {None}
  /\ buffer \in BoundedSeq(Reports \cup {Torn}, MaxLen)
  /\ pos \in 1..(MaxLen + 1)
  /\ cur \in 0..Cap /\ wait \in 0..Cap
  /\ {failed, stopping, up, setBack} \subseteq BOOLEAN /\ failures \in 0..MaxFailures

SenderInit ==
  /\ stage = "idle" /\ body = None /\ made = {}
  /\ buffer = <<>> /\ pos = 1
  /\ cur = 0 /\ wait = 0 /\ failed = FALSE /\ stopping = FALSE
  /\ up \in BOOLEAN /\ arrived = {} /\ excused = {} /\ failures = 0 /\ setBack = FALSE

-----------------------------------------------------------------------------
(* Backoff *)

\* BackoffPolicy.next
Longer(c) == LET d == 2 * (IF c = 0 THEN Initial ELSE c) IN IF d > Cap THEN Cap ELSE d

recordFailure == cur' = Longer(cur) /\ wait' = Longer(cur)
recordSuccess == cur' = 0 /\ wait' = 0

-----------------------------------------------------------------------------
(* tick and SendOrBuffer *)

\* What Send returns nil for.
Answers(f) == up /\ ~stopping /\ f # Torn

\* The ticker fires; a report is built.  In the backoff window it goes to disk.
\* The time since the last tick's recordFailure is an interval, or less if that
\* tick waited for the intake.
Tick(r) ==
  /\ stage = "idle"
  /\ r = First => made = {}
  /\ r = Second => made = {First}
  /\ made' = made \cup Marked(r)
  /\ body' = r
  /\ \E t \in IF failed THEN 0..Interval ELSE {Interval} :
       wait' = IF wait > t THEN wait - t ELSE 0
  /\ stage' = IF wait' > 0 THEN "push" ELSE "send"
  /\ failed' = FALSE
  /\ UNCHANGED <<buffer, pos, cur, stopping, up, arrived, excused, failures, setBack>>

\* Mutant of Sent: the buffer is left to the next tick.
SentOnly ==
  /\ stage = "send" /\ Answers(body)
  /\ arrived' = arrived \cup Marked(body)
  /\ recordSuccess
  /\ body' = None /\ stage' = "idle"
  /\ UNCHANGED <<made, buffer, pos, failed, stopping, up, excused, failures, setBack>>

Sent ==
  /\ stage = "send" /\ Answers(body)
  /\ arrived' = arrived \cup Marked(body)
  /\ recordSuccess
  /\ body' = None /\ stage' = "flush" /\ pos' = 1
  /\ UNCHANGED <<made, buffer, failed, stopping, up, excused, failures, setBack>>

\* The directory cannot be listed: FlushBuffered returns.
SentUnlisted ==
  /\ stage = "send" /\ Answers(body) /\ failures < MaxFailures
  /\ failures' = failures + 1
  /\ arrived' = arrived \cup Marked(body)
  /\ recordSuccess
  /\ body' = None /\ stage' = "idle"
  /\ UNCHANGED <<made, buffer, pos, failed, stopping, up, excused, setBack>>

\* The intake does not answer, or its answer does not get here.
SendFails ==
  /\ stage = "send" /\ ~Answers(body)
  /\ arrived' \in {arrived, arrived \cup Marked(body)}
  /\ failed' = TRUE
  /\ stage' = "push"
  /\ UNCHANGED <<made, body, buffer, pos, backoff, stopping, up, excused, failures, setBack>>

-----------------------------------------------------------------------------
(* DiskBuffer *)

\* Push has returned: a failure of the intake is recorded, a failure of Push is
\* only logged.
Buffered ==
  /\ IF failed THEN recordFailure ELSE UNCHANGED backoff
  /\ body' = None /\ stage' = "idle"

\* The files with f among them, under a name made of the time and a counter: the
\* last one, unless the clock was set back meanwhile.
Named(f) ==
  {InsertAt(buffer, i, f) : i \in IF setBack THEN 1..(Len(buffer) + 1) ELSE {Len(buffer) + 1}}

Push ==
  /\ stage = "push"
  /\ buffer' \in Named(body)
  /\ body' = None /\ stage' = "trim" /\ pos' = 1
  /\ UNCHANGED <<made, backoff, failed, stopping, up, arrived, excused, failures, setBack>>

\* The directory or the file cannot be made, or a part of it is written: the
\* report is dropped, what was written stays, and trim is not reached.
PushFails ==
  /\ stage = "push" /\ failures < MaxFailures
  /\ failures' = failures + 1
  /\ buffer' \in {buffer} \cup Named(Torn)
  /\ excused' = excused \cup Marked(body)
  /\ Buffered
  /\ UNCHANGED <<made, pos, failed, stopping, up, arrived, setBack>>

\* trim cannot list the directory: Push returns its error, and the file is there.
PushUntrimmed ==
  /\ stage = "push" /\ failures < MaxFailures
  /\ failures' = failures + 1
  /\ buffer' \in Named(body)
  /\ Buffered
  /\ UNCHANGED <<made, pos, failed, stopping, up, arrived, excused, setBack>>

\* Mutant of Excess: one file too many stays.
ExcessPlusOne == pos + MaxFiles < Len(buffer)
\* There is a file in excess of MaxFiles that trim has not come to: as many as were
\* listed in excess, less those it has removed or passed over.
Excess == pos + MaxFiles <= Len(buffer)

\* Mutant of TrimOne: the newest files go.
TrimNewest ==
  /\ stage = "trim" /\ Excess
  /\ buffer' = RemoveAt(buffer, Len(buffer))
  /\ excused' = excused \cup Marked(buffer[Len(buffer)])
  /\ UNCHANGED <<stage, made, body, pos, backoff, failed, stopping, up, arrived, failures,
                 setBack>>

\* trim removes the oldest files.
TrimOne ==
  /\ stage = "trim" /\ Excess
  /\ buffer' = RemoveAt(buffer, pos)
  /\ excused' = excused \cup Marked(buffer[pos])
  /\ UNCHANGED <<stage, made, body, pos, backoff, failed, stopping, up, arrived, failures,
                 setBack>>

\* One that cannot be removed stays, and nothing is said.
TrimSkips ==
  /\ stage = "trim" /\ Excess /\ failures < MaxFailures
  /\ failures' = failures + 1
  /\ pos' = pos + 1
  /\ UNCHANGED <<stage, made, body, buffer, backoff, failed, stopping, up, arrived, excused,
                 setBack>>

TrimEnds ==
  /\ stage = "trim" /\ ~Excess
  /\ Buffered
  /\ pos' = 1
  /\ UNCHANGED <<made, buffer, failed, stopping, up, arrived, excused, failures, setBack>>

-----------------------------------------------------------------------------
(* FlushBuffered *)

\* The file is sent and removed.
FlushSent ==
  /\ stage = "flush" /\ pos <= Len(buffer) /\ Answers(buffer[pos])
  /\ arrived' = arrived \cup Marked(buffer[pos])
  /\ buffer' = RemoveAt(buffer, pos)
  /\ setBack' = (setBack /\ Len(buffer) > 1)
  /\ UNCHANGED <<stage, made, body, pos, backoff, failed, stopping, up, excused, failures>>

\* Mutant of FlushFails: the file is removed all the same.
FlushFailsRemoving ==
  /\ stage = "flush" /\ pos <= Len(buffer) /\ ~Answers(buffer[pos])
  /\ buffer' = RemoveAt(buffer, pos)
  /\ recordFailure
  /\ failed' = TRUE
  /\ stage' = "idle" /\ pos' = 1
  /\ UNCHANGED <<made, body, stopping, up, arrived, excused, failures, setBack>>

\* The intake does not answer, or refuses the file: the flush ends there.
FlushFails ==
  /\ stage = "flush" /\ pos <= Len(buffer) /\ ~Answers(buffer[pos])
  /\ arrived' \in {arrived, arrived \cup Marked(buffer[pos])}
  /\ recordFailure
  /\ failed' = TRUE
  /\ stage' = "idle" /\ pos' = 1
  /\ UNCHANGED <<made, body, buffer, stopping, up, excused, failures, setBack>>

\* A file that cannot be read, or not removed once it is sent, is passed over.
FlushSkips ==
  /\ stage = "flush" /\ pos <= Len(buffer) /\ failures < MaxFailures
  /\ \/ UNCHANGED arrived
     \/ Answers(buffer[pos]) /\ arrived' = arrived \cup Marked(buffer[pos])
  /\ failures' = failures + 1
  /\ pos' = pos + 1
  /\ UNCHANGED <<stage, made, body, buffer, backoff, failed, stopping, up, excused, setBack>>

FlushEnds ==
  /\ stage = "flush" /\ pos > Len(buffer)
  /\ stage' = "idle" /\ pos' = 1
  /\ UNCHANGED <<made, body, buffer, backoff, failed, stopping, up, arrived, excused,
                 failures, setBack>>

-----------------------------------------------------------------------------
(* The process and the intake *)

\* A process that starts has a Sender of its own, whose first tick is at once.
Restarted ==
  /\ stage' = "idle" /\ pos' = 1 /\ body' = None
  /\ cur' = 0 /\ wait' = 0 /\ failed' = FALSE /\ stopping' = FALSE

Stop ==
  /\ ~stopping /\ failures < MaxFailures
  /\ stopping' = TRUE /\ failures' = failures + 1
  /\ UNCHANGED <<stage, made, body, buffer, pos, backoff, failed, up, arrived, excused, setBack>>

\* runLoop returns between two ticks.
Shutdown ==
  /\ stage = "idle" /\ stopping
  /\ Restarted
  /\ UNCHANGED <<made, buffer, up, arrived, excused, failures, setBack>>

\* The process or the machine goes down; a file that is being written stays as
\* it is.
Crash ==
  /\ failures < MaxFailures
  /\ failures' = failures + 1
  /\ buffer' \in {buffer} \cup (IF stage = "push" THEN Named(Torn) ELSE {})
  /\ excused' = excused \cup Marked(body)
  /\ Restarted
  /\ UNCHANGED <<made, up, arrived, setBack>>

\* NTP or an operator sets the wall clock back: names that are given from now on may
\* come before those of files that are there.
ClockSetBack ==
  /\ buffer # <<>> /\ ~setBack
  /\ setBack' = TRUE
  /\ UNCHANGED <<stage, made, body, buffer, pos, backoff, failed, stopping, up, arrived,
                 excused, failures>>

IntakeChanges ==
  /\ up' = ~up
  /\ UNCHANGED <<stage, made, body, buffer, pos, backoff, failed, stopping, arrived, excused,
                 failures, setBack>>

Agent == \/ \E r \in Reports : Tick(r)
         \/ Sent \/ SentUnlisted \/ SendFails
         \/ Push \/ PushFails \/ PushUntrimmed \/ TrimOne \/ TrimSkips \/ TrimEnds
         \/ FlushSent \/ FlushFails \/ FlushSkips \/ FlushEnds
         \/ Shutdown

SenderNext == Agent \/ Stop \/ Crash \/ ClockSetBack \/ IntakeChanges

\* The loop ticks for as long as the process runs, and a call ends within its
\* timeout: the agent does not stop between two steps.
SenderSpec == SenderInit /\ [][SenderNext]_senderVars /\ WF_senderVars(Agent)

-----------------------------------------------------------------------------
(* Properties *)

\* SendOrBuffer, trim, FlushBuffered: a report that was built and is not in hand
\* has arrived or is in the buffer, unless the buffer was full, the disk failed
\* or the process died with it.
MarkKept == made \subseteq arrived \cup Files \cup excused \cup Marked(body)

\* No report is lost in silence, and the buffer keeps its bound.
BufferSound == SenderTypeOK /\ MarkKept

\* trim, FlushBuffered: of two buffered reports the older one leaves the buffer
\* first, whether it is sent or dropped; only where a file had to be passed over, or
\* the clock that names the files was set back, may the newer one go before it.
LeavesInOrder ==
  [][({First, Second} \subseteq Files /\ Second \notin Range(buffer'))
       => (First \notin Range(buffer') \/ pos > 1 \/ setBack)]_senderVars

\* SendOrBuffer, FlushBuffered: once nothing fails any more a buffered report arrives,
\* wherever the tick and the backoff are then, unless a torn file comes before it or the
\* reports of the backoff window drive it out of a full buffer.
Behind(f) == \E i, j \in DOMAIN buffer : i < j /\ buffer[i] = Torn /\ buffer[j] = f
Calm(n)   == up /\ ~stopping /\ failures = n
CatchesUp ==
  \A n \in 0..MaxFailures :
    []((Second \in Files /\ ~Behind(Second) /\ []Calm(n))
         => <>(Second \in arrived \cup excused))

\* The comment of Sender (transport.go, 61-63): whatever is buffered is sent once the
\* intake is reachable again.
AllCaughtUp == <>[]up => [](Second \in Files ~> Second \in arrived \cup excused)
=============================================================================
