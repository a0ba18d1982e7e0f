---------------------------- MODULE AgentReport ----------------------------
(***************************************************************************)
(* One report of the telemetry agent, cmd/agent/main.go buildReport and the*)
(* collectors of internal/agent it calls, tick after tick.                 *)
(*                                                                         *)
(* A report is not a snapshot: its sections are read one after the other,  *)
(* some by commands that take their time, while the host goes on.  Three   *)
(* sections are cached between ticks behind an interval of their own, and  *)
(* two remember the previous tick (process handles and I/O counters).  A   *)
(* later section is joined with an earlier one by PID or by image.         *)
(*                                                                         *)
(* What a section reads from the host is a version number, 0 for a thing   *)
(* that is not there; the parsing of the commands' output is left out, and *)
(* so are the sections that are read on every tick and joined with nothing *)
(* (CollectServer, disk I/O, the link counters).                           *)
(***************************************************************************)
EXTENDS Naturals, Integers, FiniteSets, Sequences, SequencesExt

CONSTANTS
  Pids,                  \* process ids, reused by the kernel
  Images,                \* docker images; a container runs one of them
  Starts,                \* Pids -> Kinds: the processes there may be when the agent starts
  TopN, MaxProcs,        \* topNProcs, maxProcs
  SmartTTL, FactsTTL, SecurityTTL,
  Width,                 \* I/O counters are unsigned: 0..Width-1
  MaxTime, MaxChanges, MaxFaults   \* bounds

Kinds == {"plain", "port", "unit"} \cup Images

\* Ids are compared, and nothing else depends on them: they may as well be the first numbers.
ASSUME BoundsAssumption ==
  /\ Starts \subseteq [Pids -> Kinds]
  /\ IsFiniteSet(Pids) /\ Pids = 1..Cardinality(Pids)
  /\ {TopN, MaxProcs, SmartTTL, FactsTTL, SecurityTTL, MaxTime} \subseteq Nat \ {0}
  /\ Width \in Nat \ {0, 1} /\ {MaxChanges, MaxFaults} \subseteq Nat

VARIABLES
  clock, changes, faults,
  procs,    \* external: Pids -> the process that has the id, or none
  born,     \* external: processes started so far
  aged,     \* external: when what a cached section reads changed, time after time
  shake,    \* external: time of the latest WireGuard handshake, 0 if none
  pc, due,  \* where buildReport is; a tick is waiting in the ticker
  stuck,    \* a command without a deadline hangs: "" or the step that runs it
  now,      \* buildReport: time.Now() at its start
  rep,      \* the report so far
  cache,    \* StorageCache, NetLinkCache, securityCache
  handles,  \* ProcCache.handles: the process a handle was made for, 0 if none
  ioPrev,   \* ProcCache.ioPrev: -1 if there is no sample
  asked,    \* history: the last run of a section's commands
  ended,    \* history: how the latest report ended, "" while it is being built
  steady    \* history: processes that have been there since the report began

host   == <<clock, changes, procs, born, aged, shake, steady>>
memory == <<cache, handles, ioPrev>>
vars   == <<host, faults, pc, due, stuck, now, rep, memory, asked, ended>>

NoProc   == [id |-> 0, kind |-> "plain", io |-> 0]
Cached   == {"disk", "nic", "guard"}
TTL      == [disk |-> SmartTTL, nic |-> FactsTTL, guard |-> SecurityTTL]
Bad      == -1                           \* a section with ok: false
NoRow    == [id |-> 0, handle |-> 0, moved |-> 0, total |-> 0]
Empty    == [ports |-> {}, ids |-> {}, docker |-> TRUE, containers |-> {}, images |-> <<>>,
             units |-> {}, section |-> [s \in Cached |-> Bad],
             stamp |-> [s \in Cached |-> 0], age |-> -1, shake |-> 0,
             listed |-> {}, rows |-> [p \in Pids |-> NoRow], truncated |-> FALSE]
\* began: when the report began that ran the commands, cut: a panic ended it there.
NoRun    == [began |-> 0, cut |-> FALSE]
NoCache  == [s \in Cached |-> [at |-> 0, val |-> Bad]]
Alive    == {p \in Pids : procs[p] # NoProc}
Of(kind) == {p \in Alive : procs[p].kind = kind}

Steps == {"sockets", "ps", "inspect", "images", "stats", "systemd", "disk", "nic", "wg",
          "processes", "guard", "done"}
\* ExecRunner; `docker stats` and smartctl run under TimeoutRunner.
NoDeadline == {"ps", "inspect", "images", "systemd", "nic", "wg", "guard"}

Init ==
  /\ clock = 1 /\ changes = 0 /\ faults = 0
  /\ \E kind \in Starts :
       procs = [p \in Pids |-> [id |-> p, kind |-> kind[p], io |-> 1]]
  /\ born = Cardinality(Pids)
  /\ aged = [s \in Cached |-> <<>>] /\ shake = 0
  /\ pc = "idle" /\ due = TRUE /\ stuck = "" /\ now = 0 /\ rep = Empty
  /\ cache = NoCache /\ handles = [p \in Pids |-> 0] /\ ioPrev = [p \in Pids |-> -1]
  /\ asked = [s \in Cached |-> NoRun] /\ ended = "" /\ steady = {}

-----------------------------------------------------------------------------
(* The host (external) *)

Change ==
  /\ changes < MaxChanges /\ changes' = changes + 1
  /\ UNCHANGED <<faults, pc, due, stuck, now, rep, memory, asked, ended>>

\* A process starts under an id that is free, or was a moment ago.
Spawn(p, kind) ==
  /\ Change
  /\ born' = born + 1
  /\ procs' = [procs EXCEPT ![p] = [id |-> born', kind |-> kind, io |-> 0]]
  /\ steady' = steady \ {procs[p].id}
  /\ UNCHANGED <<clock, aged, shake>>

Exit(p) ==
  /\ Change /\ p \in Alive
  /\ procs' = [procs EXCEPT ![p] = NoProc]
  /\ steady' = steady \ {procs[p].id}
  /\ UNCHANGED <<clock, born, aged, shake>>

Moves(p) ==
  /\ Change /\ p \in Alive /\ procs[p].io < Width - 1
  /\ procs' = [procs EXCEPT ![p].io = @ + 1]
  /\ UNCHANGED <<clock, born, aged, shake, steady>>

\* A disk ages, a link is renegotiated, a rule is added.
Ages(s) ==
  /\ Change
  /\ aged' = [aged EXCEPT ![s] = Append(@, clock)]
  /\ UNCHANGED <<clock, procs, born, shake, steady>>

Handshake ==
  /\ Change
  /\ shake' = clock
  /\ UNCHANGED <<clock, procs, born, aged, steady>>

\* Time passes, between two reports or while a command runs; the ticker holds one tick.
Pass ==
  /\ clock < MaxTime
  /\ clock' = clock + 1 /\ due' = TRUE
  /\ UNCHANGED <<changes, procs, born, aged, shake, steady, faults, pc, stuck, now, rep,
                 memory, asked, ended>>

-----------------------------------------------------------------------------
(* buildReport *)

Runs(at)  == pc = at /\ stuck = ""
Then(to)  == pc' = to /\ UNCHANGED <<host, due, stuck, now, ended>>
Sound     == UNCHANGED faults
Fault     == faults < MaxFaults /\ faults' = faults + 1

Begin ==
  /\ pc = "idle" /\ due
  /\ pc' = "sockets" /\ due' = FALSE /\ now' = clock /\ rep' = Empty
  /\ steady' = {procs[p].id : p \in Alive} /\ ended' = ""
  /\ UNCHANGED <<clock, changes, procs, born, aged, shake, faults, stuck, memory, asked>>

\* CollectSockets: the owners of listening sockets.
Sockets ==
  /\ Runs("sockets") /\ Then("ps")
  /\ \/ Sound /\ rep' = [rep EXCEPT !.ports = Of("port")]
     \/ Fault /\ rep' = rep
  /\ UNCHANGED <<memory, asked>>

Containers == {p \in Alive : procs[p].kind \in Images}

\* CollectContainers: docker ps -q ...
DockerPs ==
  /\ Runs("ps")
  /\ \/ /\ Sound
        /\ rep' = [rep EXCEPT !.ids = {procs[p].id : p \in Containers}]
        /\ Then(IF Containers = {} THEN "images" ELSE "inspect")
     \/ Fault /\ rep' = [rep EXCEPT !.docker = FALSE] /\ Then("images")
  /\ UNCHANGED <<memory, asked>>

\* ... then one docker inspect of them all, which fails if one of them is gone.
DockerInspect ==
  /\ Runs("inspect") /\ Then("images")
  /\ LET there == {p \in Containers : procs[p].id \in rep.ids} IN
     \/ /\ Sound /\ rep.ids \subseteq {procs[p].id : p \in there}
        /\ rep' = [rep EXCEPT !.ids = {}, !.containers =
                     {[id |-> procs[p].id, pid |-> p, image |-> procs[p].kind] : p \in there}]
     \/ /\ Sound /\ ~(rep.ids \subseteq {procs[p].id : p \in there})
        /\ rep' = [rep EXCEPT !.docker = FALSE]
     \/ Fault /\ rep' = [rep EXCEPT !.docker = FALSE]
  /\ UNCHANGED <<memory, asked>>

\* Mutant of markImagesInUse: the first container that has another image ends the loop.
markImagesInUseFirst(cs) ==
  [i \in Images |-> \E c \in cs : c.image = i /\ \A d \in cs : c.id <= d.id]

\* A container that names no ImageID, as an older docker gives it, would be matched by its
\* tag; there is none such here.
markImagesInUse(cs) == [i \in Images |-> \E c \in cs : c.image = i]

\* CollectImages and WithImages.  A failure leaves the docker section's ok alone.
DockerImages ==
  /\ Runs("images") /\ Then("stats")
  /\ \/ Sound /\ rep' = [rep EXCEPT !.images = markImagesInUse(rep.containers)]
     \/ Fault /\ rep' = rep
  /\ UNCHANGED <<memory, asked>>

\* Mutant of DockerStatsOverruns: the command runs without a deadline.
DockerStatsHangs == stuck' = "stats" /\ UNCHANGED <<pc, host, due, now, ended>>

\* Past its deadline the command is killed.
DockerStatsOverruns == Then("systemd")

\* CollectStats and WithStats; the numbers are left out.
DockerStats ==
  /\ Runs("stats")
  /\ \/ /\ Sound /\ Then("systemd")
     \/ Fault /\ DockerStatsOverruns
  /\ UNCHANGED <<rep, memory, asked>>

\* CollectSystemd: list-units, then a `systemctl show` for each managed unit; a show
\* that fails costs its unit.
Systemd ==
  /\ Runs("systemd") /\ Then("disk")
  /\ \/ Sound /\ rep' = [rep EXCEPT !.units = Of("unit")]
     \/ Fault /\ \E shown \in SUBSET Of("unit") : rep' = [rep EXCEPT !.units = shown]
  /\ UNCHANGED <<memory, asked>>

-----------------------------------------------------------------------------
(* The cached sections *)

\* A section that was never read has a zero time.
Expired(s) == cache[s].at = 0 \/ now - cache[s].at >= TTL[s]

\* Mutant of Refreshed: a failure keeps the last value, under the new time.
RefreshedKeeping(s, v) ==
  [cache EXCEPT ![s] = [at |-> now, val |-> IF v = Bad THEN @.val ELSE v]]

\* Mutant of Refreshed: a failure is tried again on the next tick.
RefreshedOnSuccess(s, v) ==
  IF v = Bad THEN [cache EXCEPT ![s].val = v] ELSE [cache EXCEPT ![s] = [at |-> now, val |-> v]]

\* c.last (facts, value) and c.at are replaced, whatever came back.
Refreshed(s, v) == [cache EXCEPT ![s] = [at |-> now, val |-> v]]

\* StorageCache.Collect, NetLinkCache.Collect and securityCache.get.  The time is the
\* report's, taken before the commands run.
Refresh(s, to) ==
  /\ Runs(s) /\ Expired(s) /\ Then(to)
  /\ \E v \in {Len(aged[s]), Bad} :
       /\ IF v = Bad THEN Fault ELSE Sound
       /\ cache' = Refreshed(s, v)
       /\ rep' = [rep EXCEPT !.section[s] = cache'[s].val, !.stamp[s] = cache'[s].at]
  /\ asked' = [asked EXCEPT ![s] = [began |-> now, cut |-> FALSE]]
  /\ UNCHANGED <<handles, ioPrev>>

Resend(s, to) ==
  /\ Runs(s) /\ ~Expired(s) /\ Then(to)
  /\ Sound
  /\ rep' = [rep EXCEPT !.section[s] = cache[s].val, !.stamp[s] = cache[s].at]
  /\ UNCHANGED <<memory, asked>>

\* listNetInterfaces fails: no section, and the cached facts wait.
NicUnlisted ==
  /\ Runs("nic") /\ Fault /\ Then("wg")
  /\ rep' = rep
  /\ UNCHANGED <<memory, asked>>

CollectStorage  == Refresh("disk", "nic") \/ Resend("disk", "nic")
CollectNetLink  == Refresh("nic", "wg") \/ Resend("nic", "wg") \/ NicUnlisted
CollectSecurity == Refresh("guard", "done") \/ Resend("guard", "done")

-----------------------------------------------------------------------------
(* WireGuard *)

\* Mutant of HandshakeAge: a handshake after the report's time has a negative age.
HandshakeAgeUnclamped == IF shake > 0 THEN now - shake ELSE -1

HandshakeAge == IF shake = 0 THEN -1 ELSE IF now < shake THEN 0 ELSE now - shake

CollectWireGuard ==
  /\ Runs("wg") /\ Then("processes")
  /\ \/ Sound /\ rep' = [rep EXCEPT !.age = HandshakeAge, !.shake = shake]
     \/ Fault /\ rep' = rep
  /\ UNCHANGED <<memory, asked>>

-----------------------------------------------------------------------------
(* Processes *)

\* Mutant of rateOrZero: unsigned subtraction.
rateOrZeroWrapping(cur, prev) == (cur - prev) % Width

\* The division by the seconds between two samples is left out.
rateOrZero(cur, prev) == IF cur < prev THEN 0 ELSE cur - prev

\* The TopN first of S by some measure: any of them in any order.
Tops(S) ==
  LET n == IF Cardinality(S) < TopN THEN Cardinality(S) ELSE TopN
  IN {t \in [1..n -> S] : \A i, j \in 1..n : t[i] = t[j] => i = j}

\* Mutant of Ordered: by CPU before pinned.
OrderedByLoad(pinned, cpu, rss, io, conns) == cpu \o rss \o pinned \o io \o conns

Ordered(pinned, cpu, rss, io, conns) == pinned \o cpu \o rss \o io \o conns

\* The first MaxProcs distinct members of s.
Kept(s) ==
  {s[i] : i \in {j \in DOMAIN s : Cardinality({s[k] : k \in 1..j-1} \ {s[j]}) < MaxProcs}}

Ascending(S) ==
  CHOOSE s \in [1..Cardinality(S) -> S] : \A i, j \in DOMAIN s : i < j => s[i] < s[j]

Pinned == rep.ports \cup rep.units \cup {c.pid : c \in rep.containers}

\* ProcCache: a handle is kept while its id is listed; a sample is what IOCounters read.
Held == [p \in Pids |-> IF p \notin Alive THEN 0
                        ELSE IF handles[p] # 0 THEN handles[p] ELSE procs[p].id]
Sample(unread) == [p \in Pids |-> IF p \in Alive \ unread THEN procs[p].io ELSE -1]
Moved(unread) ==
  LET sample == Sample(unread)
  IN [p \in Pids |-> IF sample[p] >= 0 /\ ioPrev[p] >= 0
                       THEN rateOrZero(sample[p], ioPrev[p]) ELSE 0]
Rows(kept, moved) ==
  [p \in Pids |-> IF p \notin kept THEN NoRow
                  ELSE [id |-> procs[p].id, handle |-> Held[p],
                        moved |-> moved[p], total |-> procs[p].io]]

\* ProcCache.CollectProcesses with selectProcs.  unread: IOCounters fails.  Anyone may
\* have connections.
CollectProcesses ==
  /\ Runs("processes") /\ Then("guard")
  /\ \E unread \in SUBSET Alive :
       LET moved  == Moved(unread)
           pinned == Ascending(Pinned \cap Alive)
       IN /\ IF unread = {} THEN Sound ELSE Fault
          /\ \E cpu \in Tops(Alive), rss \in Tops(Alive),
                io \in Tops({p \in Alive : moved[p] > 0}),
                conns \in UNION {Tops(S) : S \in SUBSET Alive} :
               LET ordered == Ordered(pinned, cpu, rss, io, conns)
               IN rep' = [rep EXCEPT !.listed = Alive,
                            !.truncated = Cardinality(ToSet(ordered)) > MaxProcs,
                            !.rows = Rows(Kept(ordered), moved)]
          /\ handles' = Held /\ ioPrev' = Sample(unread)
  /\ UNCHANGED <<cache, asked>>

\* process.Processes fails: the cache is left alone.
ProcessesUnlisted ==
  /\ Runs("processes") /\ Fault /\ Then("guard")
  /\ rep' = rep
  /\ UNCHANGED <<memory, asked>>

-----------------------------------------------------------------------------
(* tick *)

\* Mutant of Leaves: the process goes down with the panic.
LeavesForGood == pc' = "down"

\* tick returns, and runLoop waits for the next tick.
Leaves == pc' = "idle"

Ends(how) ==
  /\ Leaves /\ ended' = how /\ now' = 0 /\ rep' = Empty /\ steady' = {}
  /\ UNCHANGED <<clock, changes, procs, born, aged, shake, due, stuck>>

\* The report is handed to SendOrBuffer.
Send == Runs("done") /\ Ends("sent") /\ UNCHANGED <<faults, memory, asked>>

\* json.Marshal fails: the report is logged and dropped.
Unmarshalled ==
  Runs("done") /\ Fault /\ Ends("unmarshalled") /\ UNCHANGED <<memory, asked>>

\* A panic anywhere in the tick is recovered, and its report is dropped.  The commands of
\* a section may have run and nothing remembers it; the handles may be those of this tick
\* and the I/O samples those of the last.
Panics ==
  /\ pc # "idle" /\ stuck = "" /\ Fault /\ Ends("panicked")
  /\ \/ asked' = asked
     \/ /\ pc \in Cached /\ Expired(pc)
        /\ asked' = [asked EXCEPT ![pc] = [began |-> now, cut |-> TRUE]]
  /\ handles' \in {handles} \cup (IF pc = "processes" THEN {Held} ELSE {})
  /\ UNCHANGED <<cache, ioPrev>>

\* A command that has no deadline does not return: ethtool, and on every tick the
\* `systemctl is-active irqbalance` of readIRQBalance, ipctl and cscli when they are due.
Hang ==
  /\ stuck = "" /\ pc \in NoDeadline /\ Fault
  /\ (pc = "guard" => Expired("guard"))
  /\ stuck' = pc
  /\ UNCHANGED <<host, pc, due, now, rep, memory, asked, ended>>

\* The agent is killed and started again.
Restart ==
  /\ Fault
  /\ pc' = "idle" /\ due' = TRUE /\ stuck' = "" /\ now' = 0 /\ rep' = Empty
  /\ cache' = NoCache /\ handles' = [p \in Pids |-> 0] /\ ioPrev' = [p \in Pids |-> -1]
  /\ asked' = [s \in Cached |-> NoRun]
  /\ ended' = (IF pc = "idle" THEN ended ELSE "killed") /\ steady' = {}
  /\ UNCHANGED <<clock, changes, procs, born, aged, shake>>

Step == Sockets \/ DockerPs \/ DockerInspect \/ DockerImages \/ DockerStats \/ Systemd
     \/ CollectStorage \/ CollectNetLink \/ CollectSecurity \/ CollectWireGuard
     \/ CollectProcesses \/ ProcessesUnlisted \/ Send

Host == (\E p \in Pids : (\E k \in Kinds : Spawn(p, k)) \/ Exit(p) \/ Moves(p))
     \/ (\E s \in Cached : Ages(s)) \/ Handshake \/ Pass

Next == Host \/ Begin \/ Step \/ Unmarshalled \/ Panics \/ Hang \/ Restart

\* A step of the agent that can be taken is taken.
Spec == Init /\ [][Next]_vars /\ WF_vars(Begin) /\ WF_vars(Step)

-----------------------------------------------------------------------------
(* Properties *)

TypeOK ==
  /\ clock \in 1..MaxTime /\ changes \in 0..MaxChanges /\ faults \in 0..MaxFaults
  /\ \A p \in Pids : /\ procs[p].kind \in Kinds /\ procs[p].io \in 0..Width-1
                     /\ handles[p] \in 0..born /\ ioPrev[p] \in -1..Width-1
                     /\ rep.rows[p].moved \in 0..Width-1
  /\ pc \in Steps \cup {"idle"} /\ stuck \in Steps \cup {""}
  /\ now <= clock /\ rep.age \in -1..MaxTime
  /\ \A s \in Cached : cache[s].at <= clock

\* A section is never older than it says: what it reports the host had at its
\* collected_at (facts_at) or later, however often it was sent again, whatever failed
\* and however long the commands took ("so nobody mistakes it for fresh").
StampTrue ==
  \A s \in Cached :
    rep.section[s] # Bad /\ rep.section[s] < Len(aged[s]) =>
      aged[s][rep.section[s] + 1] >= rep.stamp[s]

\* When the expensive commands of a section run, at least its interval has passed since the
\* report began that ran them last, also if they failed ("the cache IS the throttle").  The
\* stamp is the report's start, not the moment of the commands: a report that was held up
\* before it came to the section has them run again that much sooner.  A panic in the
\* section leaves no stamp, and a restart forgets it.
ThrottleStep ==
  \A s \in Cached :
    asked'[s] # asked[s] /\ asked[s] # NoRun /\ asked'[s] # NoRun /\ ~asked[s].cut =>
      clock - asked[s].began >= TTL[s]
ThrottleHolds == [][ThrottleStep]_vars

\* Port owners, managed units and containers have a row among the processes if they
\* were still there; one may be missing only if the list is full of others like it,
\* and then the list says that it was cut.
PinnedKept ==
  pc \in {"guard", "done"} =>
    \A p \in Pinned \cap rep.listed : rep.rows[p] # NoRow \/
      /\ rep.truncated
      /\ Cardinality({q \in Pids : rep.rows[q] # NoRow}) = MaxProcs
      /\ \A q \in Pids : rep.rows[q] # NoRow => q \in Pinned

\* No process is said to have moved more since the last report than it ever has,
\* whoever had its id before (rateOrZero).
RateBounded == \A p \in Pids : rep.rows[p].moved <= rep.rows[p].total

\* If the docker section is ok, an image that is not in_use is the image of no container
\* that ran from the start of the report to the moment the images were listed
\* (markImagesInUse: "what makes a prune decision possible").
InUseComplete ==
  pc = "stats" /\ rep.docker /\ rep.images # <<>> =>
    \A p \in Containers : procs[p].id \in steady => rep.images[procs[p].kind]

\* A peer that has had a handshake never reads as one that has not, and its handshake
\* is no older than the report says, though it may come after the report's own time.
AgeHonest ==
  rep.shake > 0 => rep.age >= 0 /\ rep.shake >= now - rep.age

\* The numbers of a report are true although their sources are cached, restarted, or later
\* than the report's own time: no section is older than its stamp, no rate larger than
\* what was moved, no handshake older than its age.
NumbersTrue == TypeOK /\ StampTrue /\ RateBounded /\ AgeHonest

\* What was there throughout is not lost in a join of sections that were read at different
\* moments: pinned processes keep their rows, images of running containers are in use.
JoinsComplete == PinnedKept /\ InUseComplete

\* A tick that is due becomes a report, also after a panic, and a report that was begun is
\* sent.  It is not if a command that has no deadline hangs, and then no other is; if a
\* panic or a failing Marshal drops it; or if the agent is killed while it is built.
\* docker stats and smartctl cannot hold it up, and no collector that fails ends it.
Reported ==
  /\ due ~> (pc = "sockets" \/ stuck \in NoDeadline)
  /\ (pc # "idle" /\ ended = "") ~>
       \/ ended = "sent" \/ stuck \in NoDeadline
       \/ ended \in {"panicked", "unmarshalled", "killed"} /\ faults > 0

-----------------------------------------------------------------------------
(* What comments of the code say and the code does not do.                  *)

\* storage.go: "the last good value is re-sent verbatim in between".
LastGoodResent ==
  [][cache["disk"].val # Bad /\ cache'["disk"].at > 0 => cache'["disk"].val # Bad]_vars

\* docker.go: "a slow docker daemon costs a missing section, never a late or skipped
\* report".
DockerNeverHoldsUp ==
  pc # "idle" ~> (pc = "idle" \/ stuck \in NoDeadline \ {"ps", "inspect", "images"})

\* processes.go: "Handles of dead PIDs are invalidated on every collection".
HandlesCurrent == \A p \in Pids : rep.rows[p].handle = rep.rows[p].id

\* images.go: "An image no container references stays in_use:false" -- and no other.
NotInUseIsUnused ==
  pc = "stats" /\ rep.images # <<>> =>
    \A p \in Containers : procs[p].id \in steady => rep.images[procs[p].kind]
=============================================================================
