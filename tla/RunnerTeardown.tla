--------------------------- MODULE RunnerTeardown ---------------------------
(***************************************************************************)
(* The executor of the pull-based runner, internal/runner/exec.go with     *)
(* proc_unix.go: Execute, wait and terminate, the process group of a       *)
(* command, and the goroutines that read its output and wait for it.       *)
(*                                                                         *)
(* A command is a shell that leads a process group.  Its members write into*)
(* one pipe; the reader sees the end of it when no member holds the write  *)
(* end any more.  The deadline signals the group: SIGTERM, a grace period, *)
(* SIGKILL.  Time is not counted: a timer may fire at any moment after it  *)
(* was set.  Nothing is assumed of the command: which of its processes are *)
(* deaf to SIGTERM, and which its shell does not wait for, is open.        *)
(***************************************************************************)
EXTENDS Naturals

CONSTANTS
  Shell,      \* the direct child, `sh -c <command>`
  Children,   \* processes the shell may start
  MaxWritten, \* bound on the lines a command prints
  PipeLines   \* lines the pipe holds before a writer blocks

Group == {Shell} \cup Children

ASSUME GroupAssumption == Shell \notin Children
ASSUME OutputAssumption == MaxWritten \in Nat /\ PipeLines \in Nat \ {0}

VARIABLES
  pc,       \* Execute: "start", "select", "term", "grace", "kill", "drain", "done"
  stubborn, \* members that catch or ignore SIGTERM
  daemons,  \* children the shell does not wait for (started with &)
  born,     \* members that were started
  alive,    \* members that are running
  writers,  \* members that hold the write end of the pipe
  written,  \* lines written into the pipe
  taken,    \* lines the collector has
  consumer, \* the reader goroutine: "off", "reading", "closed" (readDone is)
  cut,      \* the scanner gave up on a line longer than its buffer
  reaped,   \* cmd.Wait has returned and `done` is closed
  expired,  \* the value wait returns: the timer fired
  result,   \* what Execute returns
  signalled,  \* history: the last signal to the group, "none", "term" or "kill"
  latecomers  \* history: members started after a signal

command      == <<stubborn, daemons>>
group        == <<command, born, latecomers, alive, writers, written, signalled>>
output       == <<taken, consumer, cut>>
teardownVars == <<pc, group, output, reaped, expired, result>>

TeardownTypeOK ==
  /\ pc \in {"start", "select", "term", "grace", "kill", "drain", "done"}
  /\ stubborn \subseteq Group /\ daemons \subseteq Children
  /\ alive \subseteq born /\ born \subseteq Group /\ latecomers \subseteq Children
  /\ writers \subseteq alive
  /\ written \in 0..MaxWritten /\ taken \in 0..written
  /\ written - taken <= PipeLines
  /\ consumer \in {"off", "reading", "closed"}
  /\ cut \in BOOLEAN /\ reaped \in BOOLEAN /\ expired \in BOOLEAN
  /\ result \in {"none", "spawn_failed", "timed_out", "exited"}
  /\ signalled \in {"none", "term", "kill"}

TeardownInit ==
  /\ pc = "start"
  /\ stubborn \in SUBSET Group /\ daemons \in SUBSET Children
  /\ born = {} /\ alive = {} /\ writers = {}
  /\ written = 0 /\ taken = 0
  /\ consumer = "off" /\ cut = FALSE
  /\ reaped = FALSE /\ expired = FALSE
  /\ result = "none"
  /\ signalled = "none" /\ latecomers = {}

-----------------------------------------------------------------------------
(* The processes of the command *)

Fork(c) ==
  /\ Shell \in alive /\ c \notin born
  /\ born' = born \cup {c} /\ alive' = alive \cup {c}
  /\ writers' = IF Shell \in writers THEN writers \cup {c} ELSE writers
  /\ latecomers' = IF signalled = "none" THEN latecomers ELSE latecomers \cup {c}
  /\ UNCHANGED <<command, pc, written, signalled, output, reaped, expired, result>>

\* A member redirects its output away from the pipe.
Redirect(m) ==
  /\ m \in writers
  /\ writers' = writers \ {m}
  /\ UNCHANGED <<command, pc, born, latecomers, alive, written, signalled, output, reaped,
                 expired, result>>

\* A member writes a line; it blocks while the pipe is full.
WriteLine(m) ==
  /\ m \in writers /\ written < MaxWritten /\ written - taken < PipeLines
  /\ written' = written + 1
  /\ UNCHANGED <<command, pc, born, latecomers, alive, writers, signalled, output, reaped,
                 expired, result>>

\* A member ends by itself, the shell when the children it waits for have.
Exit(m) ==
  /\ m \in alive
  /\ m = Shell => alive \cap Children \subseteq daemons
  /\ alive' = alive \ {m} /\ writers' = writers \ {m}
  /\ UNCHANGED <<command, pc, born, latecomers, written, signalled, output, reaped,
                 expired, result>>

\* Mutant of Signal: the shell alone gets the signal.
SignalShell(sig, deaf) ==
  /\ signalled' = sig
  /\ alive' = alive \ ({Shell} \ deaf)
  /\ writers' = writers \ ({Shell} \ deaf)
  /\ UNCHANGED <<command, born, latecomers, written>>

\* kill(-pid): every member that is not deaf to the signal dies.
Signal(sig, deaf) ==
  /\ signalled' = sig
  /\ alive' = alive \cap deaf
  /\ writers' = writers \cap deaf
  /\ UNCHANGED <<command, born, latecomers, written>>

-----------------------------------------------------------------------------
(* The goroutines of Execute *)

\* cmd.Wait reaps the shell.
Reap ==
  /\ Shell \in born \ alive /\ ~reaped
  /\ reaped' = TRUE
  /\ UNCHANGED <<pc, group, output, expired, result>>

ReadLine ==
  /\ consumer = "reading" /\ taken < written
  /\ taken' = taken + 1
  /\ UNCHANGED <<pc, group, consumer, cut, reaped, expired, result>>

\* A line is longer than the scanner's buffer: consume notes that in the output
\* and returns; nobody reads the pipe any more.
ReadTooLong ==
  /\ consumer = "reading" /\ taken < written
  /\ cut' = TRUE /\ consumer' = "closed"
  /\ UNCHANGED <<pc, group, taken, reaped, expired, result>>

ReadEOF ==
  /\ consumer = "reading" /\ taken = written /\ writers = {}
  /\ consumer' = "closed"
  /\ UNCHANGED <<pc, group, taken, cut, reaped, expired, result>>

-----------------------------------------------------------------------------
(* Execute, wait, terminate *)

\* Empty command, bad stdin, no pipe, or no process: a result all the same.
SpawnFails ==
  /\ pc = "start"
  /\ pc' = "done" /\ result' = "spawn_failed"
  /\ UNCHANGED <<group, output, reaped, expired>>

Start ==
  /\ pc = "start"
  /\ born' = {Shell} /\ alive' = {Shell} /\ writers' = {Shell}
  /\ consumer' = "reading"
  /\ pc' = "select"
  /\ UNCHANGED <<command, latecomers, written, signalled, taken, cut, reaped, expired,
                 result>>

\* case <-done
WaitDone ==
  /\ pc = "select" /\ reaped
  /\ pc' = "drain"
  /\ UNCHANGED <<group, output, reaped, expired, result>>

\* case <-timer.C
Deadline ==
  /\ pc = "select"
  /\ expired' = TRUE
  /\ pc' = "term"
  /\ UNCHANGED <<group, output, reaped, result>>

\* case <-ctx.Done(): the runner shuts down.
Cancel ==
  /\ pc = "select"
  /\ pc' = "term"
  /\ UNCHANGED <<group, output, reaped, expired, result>>

Terminate ==
  /\ pc = "term"
  /\ Signal("term", stubborn)
  /\ pc' = "grace"
  /\ UNCHANGED <<output, reaped, expired, result>>

GraceDone ==
  /\ pc = "grace" /\ reaped
  /\ pc' = "drain"
  /\ UNCHANGED <<group, output, reaped, expired, result>>

GraceOver ==
  /\ pc = "grace"
  /\ Signal("kill", {})
  /\ pc' = "kill"
  /\ UNCHANGED <<output, reaped, expired, result>>

KillDone ==
  /\ pc = "kill" /\ reaped
  /\ pc' = "drain"
  /\ UNCHANGED <<group, output, reaped, expired, result>>

Return ==
  /\ pc' = "done"
  /\ result' = IF expired THEN "timed_out" ELSE "exited"
  /\ UNCHANGED <<group, output, reaped, expired>>

\* Mutant of Drained: the result is put together without the reader.
DrainedEarly == pc = "drain" /\ Return

\* Mutant of Drained: the reader's end of the channel is awaited while a write
\* end is still open in the runner itself.
DrainedNever == pc = "drain" /\ consumer = "off" /\ Return

\* <-readDone, then the result.
Drained == pc = "drain" /\ consumer = "closed" /\ Return

Run == \/ SpawnFails \/ Start \/ WaitDone \/ Deadline \/ Terminate \/ GraceDone
       \/ GraceOver \/ KillDone \/ Drained
Read == ReadLine \/ ReadTooLong \/ ReadEOF

TeardownNext ==
  \/ \E c \in Children : Fork(c)
  \/ \E m \in Group : Redirect(m) \/ WriteLine(m) \/ Exit(m)
  \/ Reap \/ Read \/ Run \/ Cancel
  \/ pc = "done" /\ UNCHANGED teardownVars

\* The goroutines and timers of the runner make progress; the processes of the
\* command need not.
FairSpec ==
  /\ TeardownInit /\ [][TeardownNext]_teardownVars
  /\ WF_teardownVars(Run) /\ WF_teardownVars(Reap) /\ WF_teardownVars(Read)
-----------------------------------------------------------------------------
(* Properties *)

\* The output in the result is complete: every line that was written is in it,
\* and nobody is left who could write another (unless the scanner gave up).
OutputComplete ==
  (result \in {"timed_out", "exited"} /\ ~cut) => taken = written /\ writers = {}

\* Whom the teardown may leave running.  Nobody, once SIGKILL was sent; but it is
\* sent only if the shell outlives SIGTERM and its grace.  Else those who are deaf
\* to SIGTERM or were started after it, and, if the shell outlived the signal and
\* ended by itself, only children it does not wait for; and without any signal
\* those.
Orphans ==
  CASE signalled = "kill" -> {}
    [] signalled = "none" -> daemons
    [] OTHER -> (stubborn \cup latecomers)
                  \cap IF Shell \in stubborn THEN daemons ELSE Children

\* When Execute reports how a command ended its shell was reaped and no member of
\* its group is left running on the machine but an orphan; so none is when every
\* member obeys SIGTERM, and none when the shell does not and waits for its
\* children.
GroupIsGone == result \in {"timed_out", "exited"} => reaped /\ alive \subseteq Orphans

\* What Execute says when it returns is so, whatever the command does: no line was left
\* unread, and nobody who was signalled and could be killed is running.
ReturnSound == TeardownTypeOK /\ OutputComplete /\ GroupIsGone

\* Execute returns, its deadline ends every command; or else an orphan keeps the write
\* end of the pipe, and Execute waits for the end of its output for ever.
ExecuteReturns ==
  <>(pc = "done") \/ <>[](pc = "drain" /\ writers \cap Orphans # {})

-----------------------------------------------------------------------------
(* What comments of the code say and the code does not do. *)

\* exec.go: "In every killing path it waits for the process to actually be reaped, so
\* Execute never returns while a child is still alive"; and of a process that ignores
\* SIGTERM, that it "does not get to stay".
NobodyStays == result = "timed_out" => alive = {}

\* exec.go: Execute "always returns a Result"; "once the group is dead the pipe closes
\* and this returns promptly".
AlwaysReturns == <>(pc = "done")
=============================================================================
