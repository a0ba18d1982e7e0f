----------------------------- MODULE LogStream -----------------------------
(***************************************************************************)
(* The live log of a command of the runner: outputCollector and the        *)
(* keepalive goroutine of internal/runner/exec.go, the sink of             *)
(* internal/runner/loop.go, and the panel's lease on the command.          *)
(*                                                                         *)
(* The reader goroutine collects lines into batches and sends them; the    *)
(* keepalive goroutine sends an empty batch when nothing was sent for a    *)
(* while.  Both send through one sink, whose batch counter no lock guards. *)
(* A call reaches the panel, and renews its lease, within Short, or it is  *)
(* lost.                                                                   *)
(*                                                                         *)
(* Time is kept as ages that stop counting when nobody compares them any   *)
(* more.  A line is its number; of its text only the length matters.       *)
(***************************************************************************)
EXTENDS Naturals, FiniteSets

CONSTANTS
  Streaming,  \* Command.Streaming()
  FlushLines, FlushEvery, \* Executor.FlushLines, FlushInterval
  Every,      \* Executor.KeepaliveInterval
  Jitter,     \* longest delay between a tick and its handling
  Short,      \* timeout of Client.ShortHTTP
  Lease,      \* the panel's window of silence
  MaxBytes,   \* Executor.MaxOutputBytes
  Marker,     \* length of the note that output was truncated
  Sizes,      \* lengths of a line, newline included
  MaxLines,   \* bound on the lines a command prints
  MaxMissed   \* bound on the calls that are lost in a row

ASSUME TimesAssumption == {Every, Jitter, Short, Lease, FlushEvery} \subseteq Nat
ASSUME LinesAssumption == {FlushLines, MaxBytes, Marker, MaxLines, MaxMissed} \subseteq Nat
                            /\ Sizes \subseteq Nat /\ Streaming \in BOOLEAN
                            /\ FlushLines > 0
\* 15s, 30s and 90s by default: a call ends before the next keepalive is due, and
\* the lease outlasts two intervals and a call.
ASSUME LeaseAssumption == 0 < Short /\ Short < Every /\ Jitter < Every
                            /\ Lease >= 2 * Every + Jitter + Short

VARIABLES
  printed,    \* lines the reader has taken from the pipe
  kept, used, truncated, \* collector.buf: its lines, its length; truncated
  pending,    \* number of lines in collector.pending
  batches,    \* collector.batches
  life,       \* the process: "running", "dead" (aliveDone is closed), "drained"
  reader,     \* the goroutine that adds and flushes: "idle", "flush", "sink",
              \* "send"; "done" when Execute has returned
  seq,        \* the counter of the sink
  call,       \* the reader's call of SendLog
  keeper,     \* the keepalive goroutine: "wait", "sink", "send", "over"
  ping,       \* its call of SendLog
  tickIn,     \* time to the next tick of its ticker
  ticked,     \* a tick is in the ticker's channel
  late,       \* how long the goroutine has had a tick to handle
  flushAge, contactAge, \* time since lastFlush, lastContact
  got,        \* panel: seqs of the batches that arrived
  gotLines,   \* panel: lines that arrived
  leaseAge,   \* panel: time since the last call arrived
  missed,     \* history: calls lost since the last one arrived
  heldBack,   \* history: since then a keepalive was due and not sent because
              \* lines were pending
  unwatched   \* history: since then time passed with the shell dead, the keepalive
              \* stopped and Execute waiting for readDone

collector == <<printed, kept, used, truncated, pending, batches>>
ages      == <<flushAge, contactAge>>
ticker    == <<tickIn, ticked, late>>
panel     == <<got, gotLines, leaseAge, missed, heldBack, unwatched>>
vars      == <<collector, life, reader, seq, call, keeper, ping, ages, ticker, panel>>

NoCall   == [seq |-> 0, lines |-> 0, age |-> 0]
CallType == [seq : 0..MaxLines, lines : 0..FlushLines, age : 0..Short]

TypeOK ==
  /\ printed \in 0..MaxLines /\ kept \in 0..printed
  /\ used \in 0..(MaxBytes + Marker) /\ truncated \in BOOLEAN
  /\ pending \in 0..FlushLines /\ batches \in 0..MaxLines /\ seq \in 0..MaxLines
  /\ life \in {"running", "dead", "drained"}
  /\ reader \in {"idle", "flush", "sink", "send", "done"}
  /\ keeper \in {"wait", "sink", "send", "over"}
  /\ call \in CallType /\ ping \in CallType
  /\ tickIn \in 1..Every /\ ticked \in BOOLEAN /\ late \in 0..Jitter
  /\ flushAge \in 0..FlushEvery /\ contactAge \in 0..Every
  /\ got \subseteq 0..(MaxLines - 1) /\ gotLines \in 0..printed
  /\ leaseAge \in 0..(Lease + 1) /\ missed \in 0..MaxMissed
  /\ heldBack \in BOOLEAN /\ unwatched \in BOOLEAN

\* newOutputCollector and NewTicker; the claim started the lease.
Init ==
  /\ printed = 0 /\ kept = 0 /\ used = 0 /\ truncated = FALSE
  /\ pending = 0 /\ batches = 0 /\ seq = 0
  /\ life = "running" /\ reader = "idle" /\ call = NoCall
  /\ keeper = "wait" /\ ping = NoCall
  /\ tickIn = Every /\ ticked = FALSE /\ late = 0
  /\ flushAge = 0 /\ contactAge = 0
  /\ got = {} /\ gotLines = 0 /\ leaseAge = 0 /\ missed = 0 /\ heldBack = FALSE
  /\ unwatched = FALSE

-----------------------------------------------------------------------------
(* The reader: consume, add and flush *)

\* len(pending) >= flushLines or time.Since(lastFlush) >= flushEvery
Due(n) == Streaming /\ (n >= FlushLines \/ flushAge >= FlushEvery)

\* Mutant of Add: a line that does not fit is dropped without a note.
AddSilently(size) ==
  /\ reader = "idle" /\ life # "drained" /\ printed < MaxLines
  /\ printed' = printed + 1
  /\ IF used + size <= MaxBytes
     THEN kept' = kept + 1 /\ used' = used + size
     ELSE UNCHANGED <<kept, used>>
  /\ pending' = IF Streaming THEN pending + 1 ELSE 0
  /\ reader' = IF Due(pending') THEN "flush" ELSE "idle"
  /\ UNCHANGED <<truncated, batches, life, seq, call, keeper, ping, ages, ticker, panel>>

\* add: into the buffer if it fits (a note says once that something did not),
\* and into the batch.
Add(size) ==
  /\ reader = "idle" /\ life # "drained" /\ printed < MaxLines
  /\ printed' = printed + 1
  /\ IF used + size <= MaxBytes
     THEN kept' = kept + 1 /\ used' = used + size /\ UNCHANGED truncated
     ELSE /\ used' = IF truncated THEN used ELSE used + Marker
          /\ truncated' = TRUE /\ UNCHANGED kept
  /\ pending' = IF Streaming THEN pending + 1 ELSE 0
  /\ reader' = IF Due(pending') THEN "flush" ELSE "idle"
  /\ UNCHANGED <<batches, life, seq, call, keeper, ping, ages, ticker, panel>>

\* wait returns: aliveDone is closed.
Die ==
  /\ life = "running"
  /\ life' = "dead"
  /\ UNCHANGED <<collector, reader, seq, call, keeper, ping, ages, ticker, panel>>

\* readDone
Drain ==
  /\ life = "dead" /\ reader = "idle"
  /\ life' = "drained"
  /\ UNCHANGED <<collector, reader, seq, call, keeper, ping, ages, ticker, panel>>

\* flush under the lock, when a batch is due or as the last step of Execute.
Flush ==
  /\ reader = "flush" \/ (reader = "idle" /\ life = "drained")
  /\ pending > 0
  /\ call' = [NoCall EXCEPT !.lines = pending]
  /\ pending' = 0 /\ batches' = batches + 1
  /\ flushAge' = 0 /\ contactAge' = 0
  /\ reader' = "sink"
  /\ UNCHANGED <<printed, kept, used, truncated, life, seq, keeper, ping, ticker, panel>>

\* The sink numbers the batch, counts, and calls SendLog.
Sink ==
  /\ reader = "sink"
  /\ call' = [call EXCEPT !.seq = seq]
  /\ seq' = seq + 1
  /\ reader' = "send"
  /\ UNCHANGED <<collector, life, keeper, ping, ages, ticker, panel>>

\* Nothing is left to flush: Execute returns the result.
Finish ==
  /\ reader = "idle" /\ life = "drained" /\ pending = 0
  /\ reader' = "done"
  /\ UNCHANGED <<collector, life, seq, call, keeper, ping, ages, ticker, panel>>

-----------------------------------------------------------------------------
(* The keepalive goroutine *)

Quiet == pending = 0 /\ contactAge >= Every

\* A tick finds that the command said nothing for long enough.
Keepalive ==
  /\ keeper = "wait" /\ ticked /\ Quiet
  /\ ticked' = FALSE /\ late' = 0
  /\ contactAge' = 0
  /\ keeper' = "sink"
  /\ UNCHANGED <<collector, life, reader, seq, call, ping, tickIn, flushAge, panel>>

\* Mutant of Skip: the goroutine ends with the first tick that is not needed.
SkipForGood ==
  /\ keeper = "wait" /\ ticked /\ ~Quiet
  /\ ticked' = FALSE /\ late' = 0
  /\ heldBack' = (heldBack \/ (contactAge >= Every /\ pending > 0))
  /\ keeper' = "over"
  /\ UNCHANGED <<collector, life, reader, seq, call, ping, tickIn, ages,
                 got, gotLines, leaseAge, missed, unwatched>>

\* The tick came too early, or lines are waiting for a batch.
Skip ==
  /\ keeper = "wait" /\ ticked /\ ~Quiet
  /\ ticked' = FALSE /\ late' = 0
  /\ heldBack' = (heldBack \/ (contactAge >= Every /\ pending > 0))
  /\ UNCHANGED <<collector, life, reader, seq, call, keeper, ping, tickIn, ages,
                 got, gotLines, leaseAge, missed, unwatched>>

\* Mutant of KeepaliveSink: an empty batch takes a number of its own.
KeepaliveSinkCounting ==
  /\ keeper = "sink" /\ seq < MaxLines
  /\ ping' = [NoCall EXCEPT !.seq = seq]
  /\ seq' = seq + 1
  /\ keeper' = "send"
  /\ UNCHANGED <<collector, life, reader, call, ages, ticker, panel>>

\* The sink, with no lines: the number is the one the next batch will take.
KeepaliveSink ==
  /\ keeper = "sink"
  /\ ping' = [NoCall EXCEPT !.seq = seq]
  /\ keeper' = "send"
  /\ UNCHANGED <<collector, life, reader, seq, call, ages, ticker, panel>>

\* case <-aliveDone
Stop ==
  /\ keeper = "wait" /\ life # "running"
  /\ keeper' = "over"
  /\ UNCHANGED <<collector, life, reader, seq, call, ping, ages, ticker, panel>>

-----------------------------------------------------------------------------
(* The panel *)

\* A call arrives and renews the lease.
Renew == leaseAge' = 0 /\ missed' = 0 /\ heldBack' = FALSE /\ unwatched' = FALSE

BatchArrives ==
  /\ reader = "send"
  /\ got' = got \cup {call.seq} /\ gotLines' = gotLines + call.lines
  /\ Renew
  /\ reader' = "idle" /\ call' = NoCall
  /\ UNCHANGED <<collector, life, seq, keeper, ping, ages, ticker>>

PingArrives ==
  /\ keeper = "send"
  /\ Renew
  /\ keeper' = "wait" /\ ping' = NoCall
  /\ UNCHANGED <<collector, life, reader, seq, call, ages, ticker, got, gotLines>>

\* The call fails; the error is swallowed and the lines are not sent again.
BatchLost ==
  /\ reader = "send" /\ missed < MaxMissed
  /\ missed' = missed + 1
  /\ reader' = "idle" /\ call' = NoCall
  /\ UNCHANGED <<collector, life, seq, keeper, ping, ages, ticker, got, gotLines,
                 leaseAge, heldBack, unwatched>>

PingLost ==
  /\ keeper = "send" /\ missed < MaxMissed
  /\ missed' = missed + 1
  /\ keeper' = "wait" /\ ping' = NoCall
  /\ UNCHANGED <<collector, life, reader, seq, call, ages, ticker, got, gotLines,
                 leaseAge, heldBack, unwatched>>

-----------------------------------------------------------------------------
Older(age, cap) == IF age < cap THEN age + 1 ELSE cap

\* Time passes while every goroutine waits: for a line, a tick, or a call.  The
\* reader also waits after the shell's death, while a process it left behind keeps
\* the pipe open.
Tick ==
  /\ \/ reader = "idle" /\ life # "drained"
     \/ reader = "send" /\ call.age < Short
     \/ reader = "done"
  /\ \/ keeper = "wait" /\ life = "running" /\ (ticked => late < Jitter)
     \/ keeper = "send" /\ ping.age < Short
     \/ keeper = "over" /\ reader # "done"
  /\ call' = IF reader = "send" THEN [call EXCEPT !.age = @ + 1] ELSE call
  /\ ping' = IF keeper = "send" THEN [ping EXCEPT !.age = @ + 1] ELSE ping
  /\ late' = IF ticked /\ keeper = "wait" THEN late + 1 ELSE late
  /\ ticked' = (ticked \/ tickIn = 1)
  /\ tickIn' = IF tickIn = 1 THEN Every ELSE tickIn - 1
  /\ flushAge' = Older(flushAge, FlushEvery)
  /\ contactAge' = Older(contactAge, Every)
  /\ leaseAge' = IF reader = "done" THEN leaseAge ELSE Older(leaseAge, Lease + 1)
  /\ unwatched' = (unwatched \/ (reader = "idle" /\ life = "dead"))
  /\ UNCHANGED <<collector, life, reader, seq, keeper, got, gotLines, missed, heldBack>>

Next ==
  \/ \E size \in Sizes : Add(size)
  \/ Die \/ Drain \/ Flush \/ Sink \/ Finish
  \/ Keepalive \/ Skip \/ KeepaliveSink \/ Stop
  \/ BatchArrives \/ PingArrives \/ BatchLost \/ PingLost
  \/ Tick
  \/ reader = "done" /\ keeper = "over" /\ UNCHANGED vars

Spec == Init /\ [][Next]_vars

-----------------------------------------------------------------------------
(* Properties *)

\* The lease of a command does not lapse in silence while its shell runs: if the
\* panel has not heard from it for longer than the lease, then a call was lost on
\* the way, a keepalive was held back because of lines that were waiting for a
\* batch, or the shell is dead and Execute waits, without keepalives, for a process
\* that keeps the pipe.
LeaseKept == leaseAge > Lease => missed > 0 \/ heldBack \/ unwatched

\* The number of batches in the result tells the panel the truth about the log it
\* has: it has all of them exactly if it has every line, although keepalives are
\* numbered too, two goroutines number, and the collector counts by itself.
GapTold ==
  (reader = "done" /\ Streaming) =>
    /\ got \subseteq 0..(batches - 1)
    /\ got = 0..(batches - 1) <=> gotLines = printed

\* The output in the result is all that was printed unless it says otherwise; no
\* lost batch costs a line of it.
OutputKept == (reader = "done" /\ ~truncated) => kept = printed

\* Of what the command printed nothing is lost without a word, neither of the log (the
\* number of batches) nor of the result (truncated).
NoSilentLoss == TypeOK /\ GapTold /\ OutputKept

-----------------------------------------------------------------------------
(* What comments of the code say and the code does not do. *)

\* protocol.go: "three in a row have to be lost before a healthy command is given
\* up on".
ThreeLosses == leaseAge > Lease => missed >= 3 \/ heldBack \/ unwatched

\* exec.go: a command does not go without saying anything to the panel for longer
\* than the lease allows, also in a quiet stretch that follows some output.
LeaseKeptPending == leaseAge > Lease => missed > 0 \/ unwatched

\* exec.go: "The keepalive ticker lives exactly as long as the process does"; once its
\* processes include those the shell left behind, it does not.
LeaseKeptDraining == leaseAge > Lease => missed > 0 \/ heldBack

\* loop.go: a keepalive "rides on the seq the NEXT real batch will use", so that
\* no batch "look[s] like a gap".
KeepaliveIsNext ==
  [][PingArrives => ~(reader = "send" /\ call.seq < ping.seq)]_vars
=============================================================================
