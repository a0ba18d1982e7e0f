---------------------------- MODULE AgentProofs ----------------------------
(***************************************************************************)
(* The agent, for any number of processes, files and images and any length *)
(* of its intervals: AgentReport is what a report says, AgentSender how it *)
(* gets to the panel.                                                      *)
(*                                                                         *)
(* AgentReport: the numbers of a report are those of the process they are  *)
(* filed under and as old as they claim, an expensive collector is asked   *)
(* at most once in its interval, and the joins between sections lose       *)
(* nothing.  The inductive invariant dates what the agent remembers: a     *)
(* number of the previous tick is kept with the identity it was read from, *)
(* and a cached section with the time of its reading.                      *)
(*                                                                         *)
(* AgentSender: a report stays in the buffer until the panel has it, and   *)
(* the files leave in the order of their names.  The inductive invariant   *)
(* bounds the buffer at every point of a tick and orders First and Second, *)
(* which are any two reports of a run that are built in that order: what   *)
(* is proved of them holds of every two reports.                           *)
(***************************************************************************)
EXTENDS AgentReport, AgentSender, FiniteSetTheorems, SequenceTheorems, TLAPS

-----------------------------------------------------------------------------
(* AgentReport *)

Processes == [id : Nat, kind : Kinds, io : 0..Width-1]
Row       == [id : Nat, handle : Nat, moved : 0..Width-1, total : 0..Width-1]
Stored    == [at : Nat, val : Int]
Run       == [began : Nat, cut : BOOLEAN]
Inspected == [id : Nat, pid : Pids, image : Images]
Pictures  == {<<>>} \cup [Images -> BOOLEAN]
ReportType ==
  [ports : SUBSET Pids, ids : SUBSET Nat, docker : BOOLEAN, containers : SUBSET Inspected,
   images : Pictures, units : SUBSET Pids, section : [Cached -> Int], stamp : [Cached -> Nat],
   age : -1..MaxTime, shake : Nat, listed : SUBSET Pids, rows : [Pids -> Row],
   truncated : BOOLEAN]

HostTyped ==
  /\ clock \in 1..MaxTime /\ changes \in 0..MaxChanges /\ born \in Nat
  /\ procs \in [Pids -> Processes] /\ aged \in [Cached -> Seq(Nat)] /\ shake \in Nat
  /\ steady \subseteq Nat

AgentTyped ==
  /\ faults \in 0..MaxFaults /\ pc \in Steps \cup {"idle"} /\ stuck \in Steps \cup {""}
  /\ now \in Nat /\ now <= clock /\ rep \in ReportType
  /\ cache \in [Cached -> Stored] /\ asked \in [Cached -> Run]
  /\ handles \in [Pids -> Nat] /\ ioPrev \in [Pids -> -1..Width-1]

\* Who has a number was born, and who is there has one.
BornInv ==
  /\ \A p \in Pids : procs[p].id <= born /\ handles[p] <= born
  /\ \A p \in Alive : procs[p].id > 0
  /\ \A i \in steady : i <= born

\* A value v of section s that is dated t: what came after it came at t or later.
Dated(s, v, t) ==
  v # Bad => v \in 0..Len(aged[s]) /\ (v < Len(aged[s]) => aged[s][v + 1] >= t)
DateInv ==
  \A s \in Cached :
    /\ cache[s].at <= clock /\ Dated(s, cache[s].val, cache[s].at)
    /\ rep.stamp[s] <= clock /\ Dated(s, rep.section[s], rep.stamp[s])

\* The cache's time is that of the report that ran the commands, unless a panic cut it.
AskedInv == \A s \in Cached : asked[s].cut \/ asked[s].began = cache[s].at

\* How far a container that was there all along has come into the report.
Unmarked == pc \in {"sockets", "ps", "inspect", "images"} => rep.images = <<>>
UseInv ==
  \A p \in Containers : (procs[p].id \in steady /\ rep.docker) =>
    /\ pc = "inspect" => procs[p].id \in rep.ids
    /\ pc = "images" => \E c \in rep.containers : c.image = procs[p].kind
    /\ (pc = "stats" /\ rep.images # <<>>) => rep.images[procs[p].kind]

\* No process is listed before the processes are read.
ListInv == (pc \notin {"guard", "done"} => rep.listed = {}) /\ PinnedKept

Typed == HostTyped /\ AgentTyped
IInv  == /\ Typed /\ BornInv /\ DateInv /\ AskedInv /\ RateBounded /\ AgeHonest
         /\ Unmarked /\ UseInv /\ ListInv

-----------------------------------------------------------------------------
(* Types *)

LEMMA Bounds ==
  /\ Starts \subseteq [Pids -> Kinds]
  /\ Cardinality(Pids) \in Nat /\ Pids = 1..Cardinality(Pids)
  /\ SmartTTL \in Nat /\ FactsTTL \in Nat /\ SecurityTTL \in Nat /\ MaxTime \in Nat \ {0}
  /\ Width \in Nat /\ Width > 1 /\ MaxChanges \in Nat /\ MaxFaults \in Nat
<1>1. Cardinality(Pids) \in Nat
  BY BoundsAssumption, FS_CardinalityType
<1>. QED  BY <1>1, BoundsAssumption

LEMMA Intervals == \A s \in Cached : TTL[s] \in Nat
  BY Bounds DEF Cached, TTL

LEMMA EmptyTyped ==
  /\ Empty \in ReportType
  /\ \A s \in Cached : Empty.section[s] = Bad /\ Empty.stamp[s] = 0
  /\ Empty.listed = {} /\ Empty.images = <<>> /\ Empty.age = -1 /\ Empty.shake = 0
       /\ \A p \in Pids : Empty.rows[p] = NoRow
<1>1. NoRow \in Row
  BY Bounds DEF NoRow, Row
<1>2. -1 \in -1..MaxTime /\ Bad \in Int
  BY Bounds DEF Bad
<1>3. <<>> \in Pictures
  BY DEF Pictures
<1>4. [s \in Cached |-> Bad] \in [Cached -> Int] /\ [s \in Cached |-> 0] \in [Cached -> Nat]
      /\ [p \in Pids |-> NoRow] \in [Pids -> Row]
  BY <1>1, <1>2
<1>. HIDE DEF Bad, NoRow
<1>5. Empty \in ReportType
  BY <1>2, <1>3, <1>4 DEF Empty, ReportType
<1>. QED  BY <1>5 DEF Empty

\* What a change of one field leaves alone.
SameNumbers(e, f) ==
  /\ f.section = e.section /\ f.stamp = e.stamp /\ f.age = e.age /\ f.shake = e.shake
       /\ f.rows = e.rows
  /\ f.listed = e.listed

LEMMA EditPorts ==
  ASSUME NEW e \in ReportType, NEW x \in SUBSET Pids
  PROVE  LET f == [e EXCEPT !.ports = x] IN
         f \in ReportType /\ SameNumbers(e, f) /\ f.images = e.images
  BY DEF ReportType, SameNumbers
LEMMA EditIds ==
  ASSUME NEW e \in ReportType, NEW x \in SUBSET Nat
  PROVE  LET f == [e EXCEPT !.ids = x] IN
         f \in ReportType /\ SameNumbers(e, f) /\ f.ids = x /\ f.docker = e.docker
           /\ f.images = e.images
  BY DEF ReportType, SameNumbers
LEMMA EditDocker ==
  ASSUME NEW e \in ReportType
  PROVE  LET f == [e EXCEPT !.docker = FALSE] IN
         f \in ReportType /\ SameNumbers(e, f) /\ ~f.docker /\ f.images = e.images
  BY DEF ReportType, SameNumbers
LEMMA EditContainers ==
  ASSUME NEW e \in ReportType, NEW x \in SUBSET Inspected
  PROVE  LET f == [e EXCEPT !.containers = x] IN
         f \in ReportType /\ SameNumbers(e, f) /\ f.containers = x /\ f.docker = e.docker
           /\ f.images = e.images
  BY DEF ReportType, SameNumbers
LEMMA EditImages ==
  ASSUME NEW e \in ReportType, NEW x \in Pictures
  PROVE  LET f == [e EXCEPT !.images = x] IN
         f \in ReportType /\ SameNumbers(e, f) /\ f.images = x /\ f.docker = e.docker
  BY DEF ReportType, SameNumbers
LEMMA EditUnits ==
  ASSUME NEW e \in ReportType, NEW x \in SUBSET Pids
  PROVE  LET f == [e EXCEPT !.units = x] IN f \in ReportType /\ SameNumbers(e, f)
  BY DEF ReportType, SameNumbers

-----------------------------------------------------------------------------
(* The steps in groups *)

LEMMA FaultsTyped ==
  ASSUME Typed, Fault \/ Sound
  PROVE  faults' \in 0..MaxFaults
<1>1. faults \in 0..MaxFaults
  BY DEF Typed, AgentTyped
<1>2. MaxFaults \in Nat
  BY Bounds
<1>. QED  BY <1>1, <1>2 DEF Fault, Sound

LEMMA ThenFrame ==
  ASSUME NEW to, Then(to)
  PROVE  pc' = to /\ UNCHANGED <<clock, changes, procs, born, aged, shake, steady, stuck, now>>
  BY DEF Then, host

\* What a step of buildReport leaves alone, and the steps that read what is cached nowhere.
Frame == UNCHANGED <<clock, changes, procs, born, aged, shake, steady, stuck, now>>
Remembers == UNCHANGED <<cache, handles, ioPrev, asked>>
Gathers ==
  Sockets \/ DockerPs \/ DockerInspect \/ DockerImages \/ DockerStats \/ Systemd \/ NicUnlisted
  \/ ProcessesUnlisted

LEMMA Alives == Alive \subseteq Pids /\ Containers \subseteq Pids
  /\ \A p \in Containers : procs[p].kind \in Images
  BY DEF Alive, Containers

LEMMA SocketsEffect ==
  ASSUME Typed, Sockets
  PROVE  rep' \in ReportType /\ SameNumbers(rep, rep') /\ pc' = "ps" /\ rep'.images = rep.images
<1>1. rep \in ReportType /\ Of("port") \in SUBSET Pids
  BY DEF Typed, AgentTyped, Of, Alive
<1>2. rep' = rep \/ rep' = [rep EXCEPT !.ports = Of("port")]
  BY Zenon DEF Sockets
<1>3. CASE rep' = rep
  BY <1>1, <1>3 DEF SameNumbers, Sockets, Then
<1>4. CASE rep' = [rep EXCEPT !.ports = Of("port")]
  BY <1>1, <1>4, EditPorts DEF Sockets, Then
<1>. QED  BY <1>2, <1>3, <1>4

LEMMA PsEffect ==
  ASSUME Typed, DockerPs
  PROVE  /\ rep' \in ReportType /\ SameNumbers(rep, rep') /\ rep'.images = rep.images
         /\ \/ ~rep'.docker /\ pc' = "images"
            \/ /\ rep'.ids = {procs[p].id : p \in Containers}
               /\ pc' = IF Containers = {} THEN "images" ELSE "inspect"
<1>1. rep \in ReportType /\ {procs[p].id : p \in Containers} \in SUBSET Nat
  BY Alives DEF Typed, AgentTyped, HostTyped, Processes
<1>2. CASE rep' = [rep EXCEPT !.ids = {procs[p].id : p \in Containers}]
           /\ Then(IF Containers = {} THEN "images" ELSE "inspect")
  BY <1>1, <1>2, EditIds DEF Then
<1>3. CASE rep' = [rep EXCEPT !.docker = FALSE] /\ Then("images")
  BY <1>1, <1>3, EditDocker DEF Then
<1>. QED  BY <1>2, <1>3 DEF DockerPs

There == {p \in Containers : procs[p].id \in rep.ids}
Inspection == {[id |-> procs[p].id, pid |-> p, image |-> procs[p].kind] : p \in There}

LEMMA InspectEffect ==
  ASSUME Typed, DockerInspect
  PROVE  /\ rep' \in ReportType /\ SameNumbers(rep, rep') /\ pc' = "images"
              /\ rep'.images = rep.images
         /\ ~rep'.docker \/ (rep'.containers = Inspection /\ rep'.docker = rep.docker)
<1>1. rep \in ReportType /\ Inspection \in SUBSET Inspected /\ {} \in SUBSET Nat
  <2>1. rep \in ReportType /\ procs \in [Pids -> Processes]
    BY DEF Typed, AgentTyped, HostTyped
  <2>2. \A p \in There : p \in Pids /\ procs[p].id \in Nat /\ procs[p].kind \in Images
    BY <2>1, Alives DEF There, Processes
  <2>3. Inspection \subseteq Inspected
    BY <2>2 DEF Inspection, Inspected
  <2>. QED  BY <2>1, <2>3
<1>2. pc' = "images"
  BY DEF DockerInspect, Then
<1>3. \/ rep' = [rep EXCEPT !.ids = {}, !.containers = Inspection]
      \/ rep' = [rep EXCEPT !.docker = FALSE]
  BY Zenon DEF DockerInspect, Inspection, There
<1>4. CASE rep' = [rep EXCEPT !.ids = {}, !.containers = Inspection]
  <2>. DEFINE g == [rep EXCEPT !.ids = {}]
  <2>1. g \in ReportType /\ SameNumbers(rep, g) /\ g.docker = rep.docker /\ g.images = rep.images
    BY <1>1, EditIds
  <2>2. rep' = [g EXCEPT !.containers = Inspection]
    BY <1>4
  <2>. HIDE DEF g
  <2>3. rep' \in ReportType /\ SameNumbers(g, rep') /\ rep'.containers = Inspection
          /\ rep'.docker = g.docker
        /\ rep'.images = g.images
    BY <1>1, <2>1, <2>2, EditContainers
  <2>. QED  BY <1>2, <2>1, <2>3 DEF SameNumbers
<1>5. CASE rep' = [rep EXCEPT !.docker = FALSE]
  BY <1>1, <1>2, <1>5, EditDocker
<1>. QED  BY <1>3, <1>4, <1>5

LEMMA ImagesEffect ==
  ASSUME Typed, DockerImages
  PROVE  /\ rep' \in ReportType /\ SameNumbers(rep, rep') /\ pc' = "stats"
              /\ rep'.docker = rep.docker
         /\ rep'.images = rep.images \/ rep'.images = markImagesInUse(rep.containers)
<1>1. rep \in ReportType
  BY DEF Typed, AgentTyped
<1>2. markImagesInUse(rep.containers) \in Pictures
  BY DEF markImagesInUse, Pictures
<1>3. pc' = "stats"
  BY DEF DockerImages, Then
<1>4. rep' = rep \/ rep' = [rep EXCEPT !.images = markImagesInUse(rep.containers)]
  BY Zenon DEF DockerImages
<1>5. CASE rep' = rep
  BY <1>1, <1>3, <1>5 DEF SameNumbers
<1>6. CASE rep' = [rep EXCEPT !.images = markImagesInUse(rep.containers)]
  BY <1>1, <1>2, <1>3, <1>6, EditImages
<1>. QED  BY <1>4, <1>5, <1>6

LEMMA SystemdEffect ==
  ASSUME Typed, Systemd
  PROVE  rep' \in ReportType /\ SameNumbers(rep, rep') /\ pc' = "disk"
<1>1. rep \in ReportType /\ \A x \in SUBSET Of("unit") : x \in SUBSET Pids
  BY DEF Typed, AgentTyped, Of, Alive
<1>2. \E x \in SUBSET Of("unit") : rep' = [rep EXCEPT !.units = x]
  <2>1. CASE rep' = [rep EXCEPT !.units = Of("unit")]
    BY <2>1
  <2>2. CASE \E x \in SUBSET Of("unit") : rep' = [rep EXCEPT !.units = x]
    BY <2>2
  <2>. QED  BY <2>1, <2>2, Zenon DEF Systemd
<1>3. pc' = "disk"
  BY DEF Systemd, Then
<1>. QED  BY <1>1, <1>2, <1>3, EditUnits

LEMMA GathersEffect ==
  ASSUME Typed, Gathers
  PROVE  /\ rep' \in ReportType /\ SameNumbers(rep, rep') /\ pc' \in Steps
         /\ Frame /\ Remembers /\ faults' \in 0..MaxFaults
<1>1. \E to : Then(to)
  BY Zenon DEF Gathers, Sockets, DockerPs, DockerInspect, DockerImages, DockerStats, Systemd,
     NicUnlisted, ProcessesUnlisted, DockerStatsOverruns
<1>2. Frame
  BY <1>1, ThenFrame DEF Frame
<1>3. Remembers
  BY Zenon DEF Gathers, Sockets, DockerPs, DockerInspect, DockerImages, DockerStats, Systemd,
     NicUnlisted, ProcessesUnlisted, Remembers, memory
<1>4. Fault \/ Sound
  BY Zenon DEF Gathers, Sockets, DockerPs, DockerInspect, DockerImages, DockerStats, Systemd,
     NicUnlisted, ProcessesUnlisted
<1>5. faults' \in 0..MaxFaults
  BY <1>4, FaultsTyped
<1>6. rep' \in ReportType /\ SameNumbers(rep, rep') /\ pc' \in Steps
  <2>1. CASE Sockets \/ DockerPs \/ DockerInspect \/ DockerImages \/ Systemd
    BY <2>1, SocketsEffect, PsEffect, InspectEffect, ImagesEffect, SystemdEffect DEF Steps
  <2>2. CASE DockerStats \/ NicUnlisted \/ ProcessesUnlisted
    BY <2>2 DEF DockerStats, NicUnlisted, ProcessesUnlisted, DockerStatsOverruns, Then, Steps,
       SameNumbers, Typed, AgentTyped
  <2>. QED  BY <2>1, <2>2 DEF Gathers
<1>. QED  BY <1>2, <1>3, <1>5, <1>6

\* What is reported of a cached section, and when it was read.
Says(s, v, t) ==
  /\ rep' \in ReportType /\ rep'.section[s] = v /\ rep'.stamp[s] = t
  /\ \A o \in Cached \ {s} : rep'.section[o] = rep.section[o] /\ rep'.stamp[o] = rep.stamp[o]
  /\ rep'.age = rep.age /\ rep'.shake = rep.shake /\ rep'.rows = rep.rows
       /\ rep'.listed = rep.listed
  /\ rep'.ports = rep.ports /\ rep'.units = rep.units /\ rep'.containers = rep.containers
  /\ rep'.truncated = rep.truncated

LEMMA SaysSo ==
  ASSUME NEW s \in Cached, rep \in ReportType, NEW STATE v, v \in Int, NEW STATE t, t \in Nat,
         rep' = [rep EXCEPT !.section[s] = v, !.stamp[s] = t]
  PROVE  Says(s, v, t)
<1>. DEFINE x == [rep.section EXCEPT ![s] = v]
            y == [rep.stamp EXCEPT ![s] = t]
<1>1. /\ x \in [Cached -> Int] /\ x[s] = v /\ \A o \in Cached \ {s} : x[o] = rep.section[o]
      /\ y \in [Cached -> Nat] /\ y[s] = t /\ \A o \in Cached \ {s} : y[o] = rep.stamp[o]
  BY DEF ReportType
<1>2. rep' = [rep EXCEPT !.section = x, !.stamp = y]
  BY DEF ReportType
<1>. HIDE DEF x, y
<1>3. /\ rep' \in ReportType /\ rep'.section = x /\ rep'.stamp = y
      /\ rep'.age = rep.age /\ rep'.shake = rep.shake /\ rep'.rows = rep.rows
  BY <1>1, <1>2 DEF ReportType
<1>4. /\ rep'.listed = rep.listed /\ rep'.ports = rep.ports /\ rep'.units = rep.units
      /\ rep'.containers = rep.containers /\ rep'.truncated = rep.truncated
  BY <1>1, <1>2 DEF ReportType
<1>. QED  BY <1>1, <1>3, <1>4 DEF Says

LEMMA RefreshEffect ==
  ASSUME Typed, NEW s \in Cached, NEW to, Refresh(s, to)
  PROVE  /\ Frame /\ UNCHANGED <<handles, ioPrev>> /\ faults' \in 0..MaxFaults /\ pc' = to
         /\ cache' \in [Cached -> Stored] /\ cache'[s].at = now
         /\ cache'[s].val \in {Len(aged[s]), Bad}
         /\ \A o \in Cached \ {s} : cache'[o] = cache[o]
         /\ Says(s, cache'[s].val, now)
         /\ asked' \in [Cached -> Run] /\ asked'[s] = [began |-> now, cut |-> FALSE]
              /\ \A o \in Cached \ {s} : asked'[o] = asked[o]
<1>1. /\ rep \in ReportType /\ now \in Nat /\ cache \in [Cached -> Stored]
           /\ asked \in [Cached -> Run]
      /\ aged \in [Cached -> Seq(Nat)]
  BY DEF Typed, AgentTyped, HostTyped
<1>2. PICK v \in {Len(aged[s]), Bad} :
        /\ IF v = Bad THEN Fault ELSE Sound
        /\ cache' = Refreshed(s, v)
        /\ rep' = [rep EXCEPT !.section[s] = cache'[s].val, !.stamp[s] = cache'[s].at]
  BY DEF Refresh
<1>3. v \in Int
  BY <1>1, <1>2 DEF Bad
<1>4. Frame /\ UNCHANGED <<handles, ioPrev>> /\ pc' = to
  BY ThenFrame DEF Refresh, Frame
<1>5. faults' \in 0..MaxFaults
  BY <1>2, FaultsTyped
<1>6. [at |-> now, val |-> v] \in Stored
  BY <1>1, <1>3 DEF Stored
<1>7. /\ cache' \in [Cached -> Stored] /\ cache'[s] = [at |-> now, val |-> v]
      /\ \A o \in Cached \ {s} : cache'[o] = cache[o]
  BY <1>1, <1>2, <1>6 DEF Refreshed
<1>8. cache'[s].at = now /\ cache'[s].val = v
  BY <1>7
<1>9. asked' \in [Cached -> Run] /\ asked'[s] = [began |-> now, cut |-> FALSE]
        /\ \A o \in Cached \ {s} : asked'[o] = asked[o]
  BY <1>1 DEF Refresh, Run
<1>10. Says(s, v, now)
  BY <1>1, <1>2, <1>3, <1>8, SaysSo, Zenon
<1>. QED  BY <1>2, <1>4, <1>5, <1>7, <1>8, <1>9, <1>10

LEMMA ResendEffect ==
  ASSUME Typed, NEW s \in Cached, NEW to, Resend(s, to)
  PROVE  /\ Frame /\ Remembers /\ faults' \in 0..MaxFaults /\ pc' = to
         /\ Says(s, cache[s].val, cache[s].at)
<1>1. rep \in ReportType /\ cache[s].val \in Int /\ cache[s].at \in Nat
  BY DEF Typed, AgentTyped, Stored
<1>2. Frame /\ Remembers /\ pc' = to
  BY ThenFrame DEF Resend, Frame, Remembers, memory
<1>3. faults' \in 0..MaxFaults
  BY FaultsTyped DEF Resend
<1>4. rep' = [rep EXCEPT !.section[s] = cache[s].val, !.stamp[s] = cache[s].at]
  BY DEF Resend
<1>5. Says(s, cache[s].val, cache[s].at)
  BY <1>1, <1>4, SaysSo, Zenon
<1>. QED  BY <1>2, <1>3, <1>5

LEMMA AgeTyped ==
  ASSUME Typed
  PROVE  /\ HandshakeAge \in -1..MaxTime
         /\ shake > 0 => HandshakeAge >= 0 /\ shake >= now - HandshakeAge
<1>1. shake \in Nat /\ now \in Nat /\ now <= clock /\ clock \in 1..MaxTime /\ MaxTime \in Nat
  BY Bounds DEF Typed, AgentTyped, HostTyped
<1>. QED  BY <1>1 DEF HandshakeAge

LEMMA WireGuardEffect ==
  ASSUME Typed, CollectWireGuard
  PROVE  /\ Frame /\ Remembers /\ faults' \in 0..MaxFaults /\ pc' = "processes"
              /\ rep' \in ReportType
         /\ rep'.section = rep.section /\ rep'.stamp = rep.stamp /\ rep'.rows = rep.rows
         /\ rep'.listed = rep.listed
         /\ \/ rep'.age = rep.age /\ rep'.shake = rep.shake
            \/ rep'.age = HandshakeAge /\ rep'.shake = shake
<1>1. rep \in ReportType /\ HandshakeAge \in -1..MaxTime /\ shake \in Nat
  BY AgeTyped DEF Typed, AgentTyped, HostTyped
<1>2. Frame /\ Remembers /\ pc' = "processes"
  BY ThenFrame DEF CollectWireGuard, Frame, Remembers, memory
<1>3. faults' \in 0..MaxFaults
  BY FaultsTyped DEF CollectWireGuard
<1>4. CASE rep' = rep
  BY <1>1, <1>2, <1>3, <1>4
<1>5. CASE rep' = [rep EXCEPT !.age = HandshakeAge, !.shake = shake]
  BY <1>1, <1>2, <1>3, <1>5 DEF ReportType
<1>. QED  BY <1>4, <1>5, Zenon DEF CollectWireGuard

\* rateOrZero: no more than the counter's own value.
LEMMA RateSmall ==
  \A counts, prev \in Nat : rateOrZero(counts, prev) \in Nat /\ rateOrZero(counts, prev) <= counts
  BY DEF rateOrZero

LEMMA SampleTyped ==
  ASSUME Typed, BornInv, NEW unread
  PROVE  /\ Held \in [Pids -> Nat] /\ \A p \in Pids : Held[p] <= born
         /\ Sample(unread) \in [Pids -> -1..Width-1]
         /\ Moved(unread) \in [Pids -> 0..Width-1]
              /\ \A p \in Pids : Moved(unread)[p] <= procs[p].io
<1>1. /\ procs \in [Pids -> Processes] /\ born \in Nat /\ handles \in [Pids -> Nat]
      /\ ioPrev \in [Pids -> -1..Width-1] /\ Width \in Nat /\ Width > 1
  BY Bounds DEF Typed, HostTyped, AgentTyped
<1>2. \A p \in Pids : procs[p].id \in Nat /\ procs[p].io \in 0..Width-1
  BY <1>1 DEF Processes
<1>3. Held \in [Pids -> Nat] /\ \A p \in Pids : Held[p] <= born
  BY <1>1, <1>2 DEF Held, BornInv
<1>4. Sample(unread) \in [Pids -> -1..Width-1]
      /\ \A p \in Pids : Sample(unread)[p] >= 0 => Sample(unread)[p] = procs[p].io
  BY <1>1, <1>2 DEF Sample
<1>5. ASSUME NEW p \in Pids
      PROVE  Moved(unread)[p] \in 0..Width-1 /\ Moved(unread)[p] <= procs[p].io
  <2>1. CASE Sample(unread)[p] >= 0 /\ ioPrev[p] >= 0
    <3>1. Moved(unread)[p] = rateOrZero(Sample(unread)[p], ioPrev[p])
      BY <2>1 DEF Moved
    <3>2. Sample(unread)[p] = procs[p].io /\ Sample(unread)[p] \in Nat /\ ioPrev[p] \in Nat
      BY <1>1, <1>2, <1>4, <2>1
    <3>3. Moved(unread)[p] \in Nat /\ Moved(unread)[p] <= procs[p].io
      BY <3>1, <3>2, RateSmall
    <3>. QED  BY <1>1, <1>2, <3>3
  <2>2. CASE ~(Sample(unread)[p] >= 0 /\ ioPrev[p] >= 0)
    BY <1>1, <1>2, <2>2 DEF Moved
  <2>. QED  BY <2>1, <2>2
<1>6. Moved(unread) \in [Pids -> 0..Width-1]
  BY <1>5 DEF Moved
<1>. QED  BY <1>3, <1>4, <1>5, <1>6

LEMMA RowsTyped ==
  ASSUME Typed, BornInv, NEW unread, NEW kept
  PROVE  Rows(kept, Moved(unread)) \in [Pids -> Row]
         /\ \A p \in Pids :
              Rows(kept, Moved(unread))[p].moved <= Rows(kept, Moved(unread))[p].total
<1>1. ASSUME NEW p \in Pids
      PROVE  /\ Rows(kept, Moved(unread))[p] \in Row
             /\ Rows(kept, Moved(unread))[p].moved <= Rows(kept, Moved(unread))[p].total
  <2>1. /\ procs[p].id \in Nat /\ procs[p].io \in 0..Width-1 /\ Held[p] \in Nat
        /\ Moved(unread)[p] \in 0..Width-1 /\ Moved(unread)[p] <= procs[p].io /\ Width \in Nat
             /\ Width > 1
    BY SampleTyped, Bounds DEF Typed, HostTyped, Processes
  <2>2. CASE p \notin kept
    BY <2>1, <2>2 DEF Rows, NoRow, Row
  <2>3. CASE p \in kept
    BY <2>1, <2>3 DEF Rows, Row
  <2>. QED  BY <2>2, <2>3
<1>2. Rows(kept, Moved(unread)) \in [Pids -> Row]
  BY <1>1 DEF Rows
<1>. QED  BY <1>1, <1>2

LEMMA ProcessesEffect ==
  ASSUME Typed, BornInv, CollectProcesses
  PROVE  /\ Frame /\ UNCHANGED <<cache, asked>> /\ faults' \in 0..MaxFaults /\ pc' = "guard"
         /\ rep' \in ReportType /\ rep'.section = rep.section /\ rep'.stamp = rep.stamp
         /\ rep'.age = rep.age /\ rep'.shake = rep.shake
         /\ \A p \in Pids : rep'.rows[p].moved <= rep'.rows[p].total
         /\ handles' \in [Pids -> Nat] /\ (\A p \in Pids : handles'[p] <= born)
         /\ ioPrev' \in [Pids -> -1..Width-1]
<1>1. Frame /\ UNCHANGED <<cache, asked>> /\ pc' = "guard"
  BY ThenFrame DEF CollectProcesses, Frame
<1>2. PICK unread \in SUBSET Alive :
        /\ IF unread = {} THEN Sound ELSE Fault
        /\ \E kept, full : rep' = [rep EXCEPT !.listed = Alive,
             !.truncated = (Cardinality(full) > MaxProcs),
                                              !.rows = Rows(kept, Moved(unread))]
        /\ handles' = Held /\ ioPrev' = Sample(unread)
  BY Zenon DEF CollectProcesses
<1>3. faults' \in 0..MaxFaults
  BY <1>2, FaultsTyped
<1>4. PICK kept, full : rep' = [rep EXCEPT !.listed = Alive,
        !.truncated = (Cardinality(full) > MaxProcs),
                                              !.rows = Rows(kept, Moved(unread))]
  BY <1>2
<1>5. Rows(kept, Moved(unread)) \in [Pids -> Row]
      /\ \A p \in Pids : Rows(kept, Moved(unread))[p].moved <= Rows(kept, Moved(unread))[p].total
  BY RowsTyped
<1>6. rep \in ReportType /\ Alive \in SUBSET Pids
  BY DEF Typed, AgentTyped, Alive
<1>7. (Cardinality(full) > MaxProcs) \in BOOLEAN
  BY SMT
<1>8. /\ rep' \in ReportType /\ rep'.rows = Rows(kept, Moved(unread))
           /\ rep'.section = rep.section
      /\ rep'.stamp = rep.stamp /\ rep'.age = rep.age /\ rep'.shake = rep.shake
  BY <1>4, <1>5, <1>6, <1>7 DEF ReportType
<1>9. /\ handles' \in [Pids -> Nat] /\ (\A p \in Pids : handles'[p] <= born)
      /\ ioPrev' \in [Pids -> -1..Width-1]
  BY <1>2, SampleTyped
<1>. QED  BY <1>1, <1>3, <1>5, <1>8, <1>9

-----------------------------------------------------------------------------
(* The list of processes *)

\* The sorted enumeration of a finite set of numbers exists: by rank.
LEMMA AscendingIs ==
  ASSUME NEW S \in SUBSET Nat, IsFiniteSet(S)
  PROVE  /\ Cardinality(S) \in Nat /\ Ascending(S) \in [1..Cardinality(S) -> S]
         /\ \A i, j \in 1..Cardinality(S) : Ascending(S)[i] = Ascending(S)[j] => i = j
         /\ \A p \in S : \E i \in 1..Cardinality(S) : Ascending(S)[i] = p
<1>. DEFINE n == Cardinality(S)
            below(x) == {y \in S : y <= x}
            rank == [x \in S |-> Cardinality(below(x))]
            sorted(s) == \A i, j \in DOMAIN s : i < j => s[i] < s[j]
<1>1. n \in Nat
  BY FS_CardinalityType
<1>2. ASSUME NEW x \in S
      PROVE  IsFiniteSet(below(x)) /\ Cardinality(below(x)) \in 1..n
  <2>1. below(x) \in SUBSET S /\ x \in below(x)
    OBVIOUS
  <2>2. IsFiniteSet(below(x)) /\ Cardinality(below(x)) <= n
    BY <2>1, FS_Subset
  <2>3. Cardinality(below(x)) \in Nat
    BY <2>2, FS_CardinalityType
  <2>4. Cardinality(below(x)) # 0
    BY <2>1, <2>2, FS_EmptySet
  <2>. QED  BY <1>1, <2>2, <2>3, <2>4
<1>3. ASSUME NEW x \in S, NEW y \in S, x < y
      PROVE  Cardinality(below(x)) < Cardinality(below(y))
  <2>1. below(x) \in SUBSET below(y) /\ y \in below(y) /\ y \notin below(x)
    <3>1. x \in Nat /\ y \in Nat /\ \A z \in S : z \in Nat
      OBVIOUS
    <3>2. \A z \in S : z <= x => z <= y
      BY <1>3, <3>1
    <3>3. y <= y /\ ~(y <= x)
      BY <1>3, <3>1
    <3>. QED  BY <3>2, <3>3
  <2>2. below(x) # below(y)
    BY <2>1
  <2>3. /\ Cardinality(below(x)) <= Cardinality(below(y))
        /\ Cardinality(below(y)) = Cardinality(below(x)) => below(y) = below(x)
    BY <1>2, <2>1, FS_Subset
  <2>4. Cardinality(below(x)) \in Nat /\ Cardinality(below(y)) \in Nat
    BY <1>1, <1>2
  <2>. QED  BY <2>2, <2>3, <2>4
<1>. HIDE DEF below
<1>4. rank \in [S -> 1..n] /\ \A x, y \in S : x < y => rank[x] < rank[y]
  BY <1>2, <1>3
<1>. HIDE DEF rank
<1>5. rank \in Injection(S, 1..n)
  <2>1. \A x, y \in S : rank[x] = rank[y] => x = y
    BY <1>1, <1>4
  <2>. QED  BY <1>4, <2>1 DEF Injection, IsInjective
<1>6. IsFiniteSet(1..n) /\ Cardinality(1..n) = n
  BY <1>1, FS_Interval
<1>7. rank \in Surjection(S, 1..n)
  BY <1>5, <1>6, FS_Injection
<1>. DEFINE f == [i \in 1..n |-> CHOOSE x \in S : rank[x] = i]
<1>8. f \in [1..n -> S] /\ \A i \in 1..n : rank[f[i]] = i
  <2>1. \A i \in 1..n : \E x \in S : rank[x] = i
    BY <1>7 DEF Surjection
  <2>2. ASSUME NEW i \in 1..n  PROVE f[i] \in S /\ rank[f[i]] = i
    BY <2>1
  <2>. QED  BY <2>2
<1>. HIDE DEF f
<1>9. sorted(f)
  <2>1. ASSUME NEW i \in 1..n, NEW j \in 1..n, i < j  PROVE f[i] < f[j]
    <3>1. f[i] \in S /\ f[j] \in S /\ f[i] \in Nat /\ f[j] \in Nat /\ rank[f[i]] = i
            /\ rank[f[j]] = j
      BY <1>8
    <3>2. i \in Nat /\ j \in Nat
      BY <1>1
    <3>3. ~(f[j] < f[i])
      BY <1>4, <2>1, <3>1, <3>2
    <3>4. f[j] # f[i]
      BY <2>1, <3>1, <3>2
    <3>. QED  BY <3>1, <3>3, <3>4
  <2>. QED  BY <1>8, <2>1
<1>. HIDE DEF n
<1>10. \E s \in [1..n -> S] : sorted(s)
  BY <1>8, <1>9
<1>. DEFINE a == Ascending(S)
<1>11. a \in [1..n -> S] /\ sorted(a)
  <2>1. a = CHOOSE s \in [1..n -> S] : sorted(s)
    BY DEF Ascending, n
  <2>. HIDE DEF a, sorted
  <2>. QED  BY <1>10, <2>1
<1>. HIDE DEF a
<1>12. \A i, j \in 1..n : a[i] = a[j] => i = j
  <2>1. ASSUME NEW i \in 1..n, NEW j \in 1..n, i < j  PROVE a[i] # a[j]
    <3>1. a[i] < a[j] /\ a[i] \in Nat /\ a[j] \in Nat
      BY <1>11, <2>1
    <3>. QED  BY <3>1
  <2>. QED  BY <1>1, <2>1
<1>13. a \in Injection(1..n, S)
  BY <1>11, <1>12 DEF Injection, IsInjective
<1>14. a \in Surjection(1..n, S)
  BY <1>6, <1>13, FS_Injection DEF n
<1>. QED  BY <1>1, <1>11, <1>12, <1>14 DEF Surjection, a, n

\* A list a of the members of S, each of them once.
Lists(a, S) ==
  /\ IsFiniteSet(S) /\ a \in [1..Cardinality(S) -> S]
  /\ \A i, j \in 1..Cardinality(S) : a[i] = a[j] => i = j
  /\ \A p \in S : \E i \in 1..Cardinality(S) : a[i] = p
Firsts(a, m) == {a[i] : i \in 1..m}

LEMMA FirstCounts ==
  ASSUME NEW S, NEW a, Lists(a, S), NEW m \in 0..Cardinality(S)
  PROVE  /\ m \in Nat /\ Firsts(a, m) \subseteq S /\ IsFiniteSet(Firsts(a, m))
              /\ Cardinality(Firsts(a, m)) = m
<1>1. Cardinality(S) \in Nat
  BY FS_CardinalityType DEF Lists
<1>2. m \in Nat /\ 1..m \subseteq 1..Cardinality(S)
  BY <1>1
<1>3. Firsts(a, m) \subseteq S
  BY <1>2 DEF Lists, Firsts
<1>4. IsFiniteSet(Firsts(a, m))
  BY <1>3, FS_Subset DEF Lists
<1>. DEFINE f == [i \in 1..m |-> a[i]]
<1>5. f \in [1..m -> Firsts(a, m)] /\ (\A i, j \in 1..m : f[i] = f[j] => i = j)
      /\ \A p \in Firsts(a, m) : \E i \in 1..m : f[i] = p
  BY <1>2 DEF Lists, Firsts
<1>. HIDE DEF f
<1>6. f \in Bijection(1..m, Firsts(a, m))
  BY <1>5 DEF Bijection, Injection, IsInjective, Surjection
<1>7. Cardinality(Firsts(a, m)) = m
  BY <1>2, <1>6, FS_CountingElements DEF ExistsBijection
<1>. QED  BY <1>2, <1>3, <1>4, <1>7

LEMMA FirstAll ==
  ASSUME NEW S, NEW a, Lists(a, S)
  PROVE  Firsts(a, Cardinality(S)) = S
  BY DEF Lists, Firsts

\* What is in front of place j of s, but for its own value.
Before(s, j) == {s[k] : k \in 1..j-1} \ {s[j]}

\* The first MaxProcs of a list that begins with a are members of a, if a has more than that.
LEMMA KeptList ==
  ASSUME NEW N, IsFiniteSet(N), NEW S \in SUBSET N, NEW a, Lists(a, S), MaxProcs \in Nat \ {0},
         NEW s \in Seq(N), Len(s) >= Cardinality(S), \A i \in 1..Cardinality(S) : s[i] = a[i]
  PROVE  /\ Kept(s) \subseteq N
         /\ \A p \in S : p \in Kept(s) \/
              (Cardinality(ToSet(s)) > MaxProcs /\ Cardinality(Kept(s)) = MaxProcs
                /\ Kept(s) \subseteq S)
<1>. DEFINE n == Cardinality(S)
<1>1. n \in Nat /\ Len(s) \in Nat /\ DOMAIN s = 1..Len(s) /\ \A i \in 1..Len(s) : s[i] \in N
  BY FS_CardinalityType, LenProperties DEF Lists
<1>2. Kept(s) = {s[j] : j \in {k \in 1..Len(s) : Cardinality(Before(s, k)) < MaxProcs}}
  BY <1>1 DEF Kept, Before
<1>3. Kept(s) \subseteq N
  BY <1>1, <1>2
<1>4. ASSUME NEW j \in 1..Len(s)
      PROVE  /\ IsFiniteSet(Before(s, j)) /\ Cardinality(Before(s, j)) \in Nat
             /\ IsFiniteSet({s[k] : k \in 1..j-1})
  <2>1. {s[k] : k \in 1..j-1} \subseteq N
    <3>1. \A k \in 1..j-1 : k \in 1..Len(s)
      BY <1>1
    <3>. QED  BY <1>1, <3>1
  <2>2. IsFiniteSet({s[k] : k \in 1..j-1})
    BY <2>1, FS_Subset
  <2>3. IsFiniteSet(Before(s, j))
    BY <2>2, FS_RemoveElement DEF Before
  <2>. QED  BY <2>2, <2>3, FS_CardinalityType
<1>5. ASSUME NEW j \in 1..n
      PROVE  /\ j \in 1..Len(s) /\ s[j] = a[j] /\ a[j] \in S /\ Cardinality(Before(s, j)) = j - 1
  <2>1. j \in 1..Len(s) /\ j - 1 \in 0..n /\ \A k \in 1..j-1 : k \in 1..n /\ k # j
    BY <1>1
  <2>2. s[j] = a[j] /\ a[j] \in S
    BY DEF Lists
  <2>3. {s[k] : k \in 1..j-1} = Firsts(a, j - 1)
    BY <2>1 DEF Firsts
  <2>4. a[j] \notin Firsts(a, j - 1)
    BY <2>1 DEF Firsts, Lists
  <2>5. Before(s, j) = Firsts(a, j - 1)
    BY <2>2, <2>3, <2>4 DEF Before
  <2>. QED  BY <2>1, <2>2, <2>5, FirstCounts
<1>6. ASSUME NEW p \in S, p \notin Kept(s)
      PROVE  Cardinality(ToSet(s)) > MaxProcs /\ Cardinality(Kept(s)) = MaxProcs
             /\ Kept(s) \subseteq S
  <2>1. PICK j \in 1..n : a[j] = p
    BY DEF Lists
  <2>2. ~(Cardinality(Before(s, j)) < MaxProcs)
    BY <1>2, <1>5, <1>6, <2>1
  <2>3. n > MaxProcs
    BY <1>1, <1>5, <2>2
  <2>4. Firsts(a, MaxProcs) \subseteq Kept(s)
    <3>1. ASSUME NEW i \in 1..MaxProcs  PROVE a[i] \in Kept(s)
      <4>1. i \in 1..n /\ i - 1 < MaxProcs
        BY <1>1, <2>3
      <4>. QED  BY <1>2, <1>5, <4>1
    <3>. QED  BY <3>1 DEF Firsts
  <2>5. Kept(s) \subseteq Firsts(a, MaxProcs)
    <3>1. SUFFICES ASSUME NEW k \in 1..Len(s), Cardinality(Before(s, k)) < MaxProcs
                   PROVE  s[k] \in Firsts(a, MaxProcs)
      BY <1>2
    <3>2. CASE k <= n
      <4>1. k \in 1..n
        BY <1>1, <3>2
      <4>2. s[k] = a[k] /\ k - 1 < MaxProcs
        BY <1>5, <3>1, <4>1
      <4>3. k \in 1..MaxProcs
        BY <1>1, <4>2
      <4>. QED  BY <4>2, <4>3 DEF Firsts
    <3>3. CASE k > n
      <4>1. S \subseteq {s[i] : i \in 1..k-1}
        <5>1. \A i \in 1..n : i \in 1..k-1
          BY <1>1, <3>3
        <5>2. \A p0 \in S : \E i \in 1..n : s[i] = p0
          BY <1>5 DEF Lists
        <5>. QED  BY <5>1, <5>2
      <4>2. S \ {s[k]} \in SUBSET Before(s, k)
        BY <4>1 DEF Before
      <4>3. Cardinality(S \ {s[k]}) <= Cardinality(Before(s, k))
        BY <1>4, <4>2, FS_Subset
      <4>4. Cardinality(S \ {s[k]}) >= n - 1
        <5>1. IsFiniteSet(S)
          BY DEF Lists
        <5>2. Cardinality(S \ {s[k]}) = IF s[k] \in S THEN n - 1 ELSE n
          BY <5>1, FS_RemoveElement
        <5>. QED  BY <1>1, <5>2
      <4>5. IsFiniteSet(S \ {s[k]}) /\ Cardinality(S \ {s[k]}) \in Nat
        BY FS_RemoveElement, FS_CardinalityType DEF Lists
      <4>6. Cardinality(Before(s, k)) \in Nat
        BY <1>4
      <4>7. FALSE
        BY <1>1, <2>3, <3>1, <4>3, <4>4, <4>5, <4>6
      <4>. QED  BY <4>7
    <3>. QED  BY <1>1, <3>2, <3>3
  <2>6. MaxProcs \in 0..n
    BY <1>1, <2>3
  <2>7. Cardinality(Kept(s)) = MaxProcs /\ Kept(s) \subseteq S
    <3>1. Kept(s) = Firsts(a, MaxProcs)
      BY <2>4, <2>5
    <3>. QED  BY <2>6, <3>1, FirstCounts
  <2>8. Cardinality(ToSet(s)) > MaxProcs
    <3>1. S \in SUBSET ToSet(s)
      BY <1>1, <1>5 DEF ToSet, Lists
    <3>2. ToSet(s) \in SUBSET N
      BY <1>1 DEF ToSet
    <3>3. IsFiniteSet(ToSet(s))
      BY <3>2, FS_Subset
    <3>4. n <= Cardinality(ToSet(s)) /\ Cardinality(ToSet(s)) \in Nat
      BY <3>1, <3>3, FS_Subset, FS_CardinalityType
    <3>. QED  BY <1>1, <2>3, <3>4
  <2>. QED  BY <2>7, <2>8
<1>. QED  BY <1>3, <1>6

LEMMA OrderedBegins ==
  ASSUME NEW N, NEW a \in Seq(N), NEW b \in Seq(N), NEW c \in Seq(N), NEW d \in Seq(N),
         NEW e \in Seq(N)
  PROVE  /\ Ordered(a, b, c, d, e) \in Seq(N) /\ Len(a) <= Len(Ordered(a, b, c, d, e))
         /\ \A i \in 1..Len(a) : Ordered(a, b, c, d, e)[i] = a[i]
<1>1. ASSUME NEW x \in Seq(N), NEW y \in Seq(N), Len(a) <= Len(x),
             \A i \in 1..Len(a) : x[i] = a[i]
      PROVE  x \o y \in Seq(N) /\ Len(a) <= Len(x \o y) /\ \A i \in 1..Len(a) : (x \o y)[i] = a[i]
  <2>1. Len(a) \in Nat /\ Len(x) \in Nat /\ Len(y) \in Nat
    BY LenProperties
  <2>2. /\ x \o y \in Seq(N) /\ Len(x \o y) = Len(x) + Len(y)
        /\ \A i \in 1..Len(x) + Len(y) : (x \o y)[i] = IF i <= Len(x) THEN x[i] ELSE y[i - Len(x)]
    BY ConcatProperties
  <2>3. ASSUME NEW i \in 1..Len(a)  PROVE (x \o y)[i] = a[i]
    <3>1. i \in 1..Len(x) + Len(y) /\ i <= Len(x)
      BY <1>1, <2>1
    <3>. QED  BY <1>1, <2>2, <3>1
  <2>. QED  BY <1>1, <2>1, <2>2, <2>3
<1>. DEFINE p == a \o b
            q == p \o c
            r == q \o d
<1>2. Len(a) <= Len(a)
  BY LenProperties
<1>3. p \in Seq(N) /\ Len(a) <= Len(p) /\ \A i \in 1..Len(a) : p[i] = a[i]
  BY <1>1, <1>2
<1>4. q \in Seq(N) /\ Len(a) <= Len(q) /\ \A i \in 1..Len(a) : q[i] = a[i]
  <2>. HIDE DEF p
  <2>. QED  BY <1>1, <1>3
<1>5. r \in Seq(N) /\ Len(a) <= Len(r) /\ \A i \in 1..Len(a) : r[i] = a[i]
  <2>. HIDE DEF q
  <2>. QED  BY <1>1, <1>4
<1>6. Ordered(a, b, c, d, e) = r \o e
  BY DEF Ordered
<1>. HIDE DEF r
<1>. QED  BY <1>1, <1>5, <1>6

LEMMA TopsAreSeqs ==
  ASSUME NEW N, IsFiniteSet(N), NEW S \in SUBSET N, NEW t \in Tops(S), TopN \in Nat
  PROVE  t \in Seq(N)
<1>1. Cardinality(S) \in Nat
  BY FS_Subset, FS_CardinalityType
<1>2. PICK n \in Nat : t \in [1..n -> S]
  BY <1>1 DEF Tops
<1>3. t \in Seq(S)
  BY <1>2, SeqDef
<1>. QED  BY <1>3, SeqMonotonic

\* A list of processes that begins with the pinned ones satisfies PinnedKept.
LEMMA ProcessesPinned ==
  ASSUME Typed, BornInv, CollectProcesses
  PROVE  PinnedKept'
<1>. DEFINE S == Pinned \cap Alive
<1>1. PICK unread \in SUBSET Alive :
        \E cpu \in Tops(Alive), rss \in Tops(Alive),
           io \in Tops({p \in Alive : Moved(unread)[p] > 0}),
           conns \in UNION {Tops(A) : A \in SUBSET Alive} :
          LET ordered == Ordered(Ascending(S), cpu, rss, io, conns)
          IN rep' = [rep EXCEPT !.listed = Alive,
                       !.truncated = Cardinality(ToSet(ordered)) > MaxProcs,
                       !.rows = Rows(Kept(ordered), Moved(unread))]
  BY Zenon DEF CollectProcesses
<1>. DEFINE moved == Moved(unread)
<1>. HIDE DEF moved
<1>2. PICK cpu \in Tops(Alive), rss \in Tops(Alive),
           io \in Tops({p \in Alive : moved[p] > 0}),
           conns \in UNION {Tops(A) : A \in SUBSET Alive} :
        rep' = [rep EXCEPT !.listed = Alive,
                  !.truncated = Cardinality(ToSet(Ordered(Ascending(S), cpu, rss, io,
                    conns))) > MaxProcs,
                  !.rows = Rows(Kept(Ordered(Ascending(S), cpu, rss, io, conns)), moved)]
  BY <1>1, Zenon DEF moved
<1>. DEFINE o == Ordered(Ascending(S), cpu, rss, io, conns)
<1>3. /\ IsFiniteSet(Pids) /\ Pids \subseteq Nat /\ TopN \in Nat /\ MaxProcs \in Nat \ {0}
      /\ Alive \in SUBSET Pids /\ S \in SUBSET Alive
  <2>1. IsFiniteSet(Pids) /\ TopN \in Nat /\ MaxProcs \in Nat \ {0}
    BY BoundsAssumption
  <2>2. Pids \subseteq Nat
    BY Bounds
  <2>. QED  BY <2>1, <2>2 DEF Alive
<1>4. IsFiniteSet(Alive) /\ IsFiniteSet(S) /\ S \in SUBSET Nat
  <2>1. IsFiniteSet(Alive)
    BY <1>3, FS_Subset
  <2>2. IsFiniteSet(S)
    BY <1>3, <2>1, FS_Subset
  <2>. QED  BY <1>3, <2>1, <2>2
<1>. HIDE DEF S
<1>5. Lists(Ascending(S), S) /\ Cardinality(S) \in Nat
  BY <1>4, AscendingIs DEF Lists
<1>6. Ascending(S) \in Seq(Alive) /\ Len(Ascending(S)) = Cardinality(S)
  <2>1. Ascending(S) \in [1..Cardinality(S) -> S]
    BY <1>5 DEF Lists
  <2>2. Ascending(S) \in Seq(S)
    BY <1>5, <2>1, SeqDef
  <2>3. Len(Ascending(S)) = Cardinality(S)
    <3>1. DOMAIN Ascending(S) = 1..Cardinality(S) /\ DOMAIN Ascending(S) = 1..Len(Ascending(S))
      BY <2>1, <2>2, LenProperties
    <3>. QED  BY <1>5, <2>1
  <2>. QED  BY <1>3, <2>2, <2>3, SeqMonotonic
<1>7. cpu \in Seq(Alive) /\ rss \in Seq(Alive) /\ io \in Seq(Alive) /\ conns \in Seq(Alive)
  <2>1. cpu \in Seq(Alive) /\ rss \in Seq(Alive)
    BY <1>3, <1>4, TopsAreSeqs
  <2>2. {p \in Alive : moved[p] > 0} \in SUBSET Alive
    OBVIOUS
  <2>3. io \in Seq(Alive)
    BY <1>3, <1>4, <2>2, TopsAreSeqs
  <2>4. PICK A \in SUBSET Alive : conns \in Tops(A)
    OBVIOUS
  <2>5. conns \in Seq(Alive)
    BY <1>3, <1>4, <2>4, TopsAreSeqs
  <2>. QED  BY <2>1, <2>3, <2>5
<1>8. o \in Seq(Alive) /\ Cardinality(S) <= Len(o)
        /\ \A i \in 1..Cardinality(S) : o[i] = Ascending(S)[i]
  BY <1>6, <1>7, OrderedBegins
<1>9. rep' = [rep EXCEPT !.listed = Alive, !.truncated = Cardinality(ToSet(o)) > MaxProcs,
                         !.rows = Rows(Kept(o), moved)]
  BY <1>2
<1>. HIDE DEF o
<1>10. /\ Kept(o) \subseteq Alive
       /\ \A p \in S : p \in Kept(o) \/
            (Cardinality(ToSet(o)) > MaxProcs /\ Cardinality(Kept(o)) = MaxProcs
              /\ Kept(o) \subseteq S)
  <2>1. Len(o) >= Cardinality(S)
    BY <1>5, <1>8, LenProperties
  <2>. QED  BY <1>3, <1>4, <1>5, <1>8, <2>1, KeptList
<1>. DEFINE rows == Rows(Kept(o), moved)
            full == Cardinality(ToSet(o)) > MaxProcs
<1>11. \A p \in Pids : rows[p] # NoRow <=> p \in Kept(o)
  <2>1. ASSUME NEW p \in Pids, p \in Kept(o)  PROVE rows[p] # NoRow
    <3>1. rows[p] = [id |-> procs[p].id, handle |-> Held[p], moved |-> moved[p],
            total |-> procs[p].io]
      BY <2>1 DEF Rows
    <3>2. procs[p].id > 0
      BY <1>10, <2>1 DEF BornInv
    <3>3. rows[p].id # 0
      BY <3>1, <3>2
    <3>. QED  BY <3>3 DEF NoRow
  <2>2. ASSUME NEW p \in Pids, p \notin Kept(o)  PROVE rows[p] = NoRow
    BY <2>2 DEF Rows
  <2>. QED  BY <2>1, <2>2
<1>. HIDE DEF rows, full
<1>12. /\ rep'.listed = Alive /\ rep'.truncated = full /\ rep'.rows = rows
       /\ rep'.ports = rep.ports /\ rep'.units = rep.units /\ rep'.containers = rep.containers
  <2>1. rep \in ReportType /\ rep' = [rep EXCEPT !.listed = Alive, !.truncated = full,
          !.rows = rows]
    BY <1>9 DEF full, rows, Typed, AgentTyped
  <2>. QED  BY <2>1 DEF ReportType
<1>13. Pinned' = Pinned
  BY <1>12, Zenon DEF Pinned
<1>14. {q \in Pids : rows[q] # NoRow} = Kept(o)
  BY <1>3, <1>10, <1>11
<1>15. ASSUME NEW p \in S
       PROVE  rows[p] # NoRow \/ (full /\ Cardinality({q \in Pids : rows[q] # NoRow}) = MaxProcs
                                  /\ \A q \in Pids : rows[q] # NoRow => q \in Pinned)
  <2>1. p \in Pids /\ S \subseteq Pinned
    BY <1>3 DEF S
  <2>2. CASE p \in Kept(o)
    BY <1>11, <2>1, <2>2
  <2>3. CASE p \notin Kept(o)
    <3>1. full /\ Cardinality(Kept(o)) = MaxProcs /\ Kept(o) \subseteq S
      BY <1>10, <2>3 DEF full
    <3>. QED  BY <1>11, <1>14, <2>1, <3>1
  <2>. QED  BY <2>2, <2>3
<1>16. Pinned' \cap rep'.listed = S
  BY <1>12, <1>13 DEF S
<1>. QED  BY <1>12, <1>13, <1>15, <1>16 DEF PinnedKept

-----------------------------------------------------------------------------
(* The invariant *)

LEMMA InitIInv == Init => IInv
<1>. SUFFICES ASSUME Init  PROVE IInv
  OBVIOUS
<1>0. /\ clock = 1 /\ changes = 0 /\ faults = 0 /\ born = Cardinality(Pids) /\ shake = 0
           /\ now = 0
      /\ aged = [s \in Cached |-> <<>>] /\ pc = "idle" /\ rep = Empty /\ cache = NoCache
      /\ handles = [p \in Pids |-> 0] /\ ioPrev = [p \in Pids |-> -1]
      /\ asked = [s \in Cached |-> NoRun] /\ steady = {}
  BY Zenon DEF Init
<1>1. PICK kind \in Starts : procs = [p \in Pids |-> [id |-> p, kind |-> kind[p], io |-> 1]]
  BY DEF Init
<1>2. Cardinality(Pids) \in Nat /\ Pids = 1..Cardinality(Pids) /\ kind \in [Pids -> Kinds]
      /\ Width \in Nat /\ Width > 1 /\ MaxTime \in Nat \ {0} /\ MaxChanges \in Nat
           /\ MaxFaults \in Nat
  BY <1>1, Bounds
<1>3. \A p \in Pids : p \in Nat /\ p <= Cardinality(Pids) /\ p > 0
  BY <1>2
<1>4. HostTyped
  <2>1. \A p \in Pids : procs[p] \in Processes
    BY <1>1, <1>2, <1>3 DEF Processes
  <2>2. procs \in [Pids -> Processes]
    BY <1>1, <2>1
  <2>3. clock \in 1..MaxTime /\ changes \in 0..MaxChanges /\ born \in Nat /\ shake \in Nat
          /\ steady \subseteq Nat
    BY <1>0, <1>2
  <2>4. aged \in [Cached -> Seq(Nat)]
    BY <1>0
  <2>. QED  BY <2>2, <2>3, <2>4 DEF HostTyped
<1>5. cache \in [Cached -> Stored] /\ \A s \in Cached : cache[s].at = 0 /\ cache[s].val = Bad
  BY <1>0 DEF NoCache, Stored, Bad
<1>6. AgentTyped
  <2>1. faults \in 0..MaxFaults /\ now \in Nat /\ now <= clock
    BY <1>0, <1>2
  <2>2. pc \in Steps \cup {"idle"} /\ stuck \in Steps \cup {""}
    BY Zenon DEF Init
  <2>3. rep \in ReportType
    BY <1>0, EmptyTyped
  <2>4. asked \in [Cached -> Run] /\ handles \in [Pids -> Nat] /\ ioPrev \in [Pids -> -1..Width-1]
    BY <1>0, <1>2 DEF NoRun, Run
  <2>. QED  BY <1>5, <2>1, <2>2, <2>3, <2>4 DEF AgentTyped
<1>7. BornInv
  BY <1>0, <1>1, <1>2, <1>3 DEF BornInv, Alive
<1>8. DateInv
  BY <1>0, <1>5, EmptyTyped DEF DateInv, Dated
<1>9. AskedInv
  BY <1>0, <1>5 DEF AskedInv, NoRun
<1>10. RateBounded /\ AgeHonest
  BY <1>0, EmptyTyped DEF RateBounded, AgeHonest, NoRow
<1>11. Unmarked /\ UseInv
  BY <1>0, EmptyTyped DEF Unmarked, UseInv
<1>12. ListInv
  BY <1>0, EmptyTyped DEF ListInv, PinnedKept
<1>. QED  BY <1>4, <1>6, <1>7, <1>8, <1>9, <1>10, <1>11, <1>12 DEF IInv, Typed

\* What the steps that read a section leave of the invariant.
LEMMA NumbersKept ==
  ASSUME IInv, Frame, rep' \in ReportType, SameNumbers(rep, rep')
  PROVE  RateBounded' /\ AgeHonest'
  BY DEF IInv, Frame, SameNumbers, RateBounded, AgeHonest

LEMMA DatesKept ==
  ASSUME DateInv, UNCHANGED <<clock, aged, cache>>, SameNumbers(rep, rep')
  PROVE  DateInv'
  BY DEF DateInv, Dated, SameNumbers

LEMMA HostKept ==
  ASSUME HostTyped, Frame
  PROVE  HostTyped'
  BY Zenon DEF HostTyped, Frame

LEMMA BornKept ==
  ASSUME BornInv, Frame, UNCHANGED handles
  PROVE  BornInv'
  BY DEF BornInv, Frame, Alive

LEMMA UseOver ==
  ASSUME pc' \notin {"sockets", "ps", "inspect", "images", "stats"}
  PROVE  Unmarked' /\ UseInv'
  BY DEF Unmarked, UseInv

\* The agent's own state, which the host does not touch.
AgentRests == UNCHANGED <<faults, pc, stuck, now, rep, cache, handles, ioPrev, asked>>

LEMMA ChangeRests ==
  ASSUME Typed, Change
  PROVE  AgentRests /\ changes' \in 0..MaxChanges
<1>1. AgentRests
  BY Zenon DEF Change, AgentRests, memory
<1>2. changes \in 0..MaxChanges /\ MaxChanges \in Nat
  BY Bounds DEF Typed, HostTyped
<1>3. changes < MaxChanges /\ changes' = changes + 1
  BY DEF Change
<1>. QED  BY <1>1, <1>2, <1>3

\* A container after a step of the host that was there throughout was one before.
Same(p) ==
  /\ p \in Containers /\ procs[p].id \in steady
  /\ procs'[p].id = procs[p].id /\ procs'[p].kind = procs[p].kind

LEMMA RestKept ==
  ASSUME IInv, AgentRests, HostTyped', clock' \in {clock, clock + 1}, born' >= born,
         steady' \subseteq steady,
         \A p \in Pids : procs'[p].id <= born' /\ (p \in Alive' => procs'[p].id > 0),
         \A s \in Cached : aged'[s] = aged[s] \/ aged'[s] = Append(aged[s], clock),
         \A p \in Pids : (p \in Containers' /\ procs'[p].id \in steady') => Same(p)
  PROVE  IInv'
<1>1. /\ clock \in Nat /\ clock <= clock' /\ now \in Nat /\ now <= clock /\ clock' \in Nat
      /\ born \in Nat /\ born' \in Nat /\ handles \in [Pids -> Nat] /\ steady \subseteq Nat
  <2>1. /\ clock \in 1..MaxTime /\ clock' \in 1..MaxTime /\ now \in Nat /\ now <= clock
        /\ born \in Nat /\ born' \in Nat /\ handles \in [Pids -> Nat] /\ steady \subseteq Nat
    BY Zenon DEF IInv, Typed, HostTyped, AgentTyped
  <2>2. MaxTime \in Nat
    BY Bounds
  <2>. QED  BY <2>1, <2>2
<1>2. AgentTyped'
  <2>1. now' \in Nat /\ now' <= clock'
    BY <1>1 DEF AgentRests
  <2>. QED  BY <2>1, Zenon DEF IInv, Typed, AgentTyped, AgentRests
<1>3. BornInv'
  <2>1. Alive' \subseteq Pids
    BY DEF Alive
  <2>. QED  BY <1>1, <2>1 DEF IInv, BornInv, AgentRests
<1>4. DateInv'
  <2>1. ASSUME NEW s \in Cached, NEW v, NEW t \in Nat, t <= clock, Dated(s, v, t)
        PROVE  v # Bad => /\ v \in 0..Len(aged'[s])
                          /\ v < Len(aged'[s]) => aged'[s][v + 1] >= t
    <3>1. aged[s] \in Seq(Nat) /\ Len(aged[s]) \in Nat
      BY DEF IInv, Typed, HostTyped
    <3>2. CASE aged'[s] = aged[s]
      BY <2>1, <3>2 DEF Dated
    <3>3. CASE aged'[s] = Append(aged[s], clock)
      <4>1. Len(aged'[s]) = Len(aged[s]) + 1 /\ aged'[s][Len(aged[s]) + 1] = clock
            /\ \A i \in 1..Len(aged[s]) : aged'[s][i] = aged[s][i]
        BY <1>1, <3>1, <3>3
      <4>2. SUFFICES ASSUME v # Bad
                     PROVE  /\ v \in 0..Len(aged'[s])
                            /\ v < Len(aged'[s]) => aged'[s][v + 1] >= t
        OBVIOUS
      <4>3. v \in Nat /\ v <= Len(aged[s]) /\ (v < Len(aged[s]) => aged[s][v + 1] >= t)
        BY <2>1, <3>1, <4>2 DEF Dated
      <4>4. CASE v < Len(aged[s])
        <5>1. v + 1 \in 1..Len(aged[s]) /\ v \in 0..(Len(aged[s]) + 1)
          BY <3>1, <4>3, <4>4
        <5>2. aged'[s][v + 1] = aged[s][v + 1]
          BY <4>1, <5>1
        <5>. QED  BY <4>1, <4>3, <4>4, <5>1, <5>2
      <4>5. CASE v = Len(aged[s])
        BY <1>1, <2>1, <3>1, <4>1, <4>3, <4>5
      <4>. QED  BY <3>1, <4>3, <4>4, <4>5
    <3>. QED  BY <3>2, <3>3
  <2>2. ASSUME NEW s \in Cached
        PROVE  /\ cache[s].at \in Nat /\ cache[s].at <= clock
                    /\ Dated(s, cache[s].val, cache[s].at)
               /\ rep.stamp[s] \in Nat /\ rep.stamp[s] <= clock
                    /\ Dated(s, rep.section[s], rep.stamp[s])
    BY DEF IInv, DateInv, Typed, AgentTyped, Stored, ReportType
  <2>3. ASSUME NEW s \in Cached
        PROVE  Dated(s, cache[s].val, cache[s].at)' /\ Dated(s, rep.section[s], rep.stamp[s])'
    BY <2>1, <2>2 DEF AgentRests, Dated
  <2>4. ASSUME NEW s \in Cached
        PROVE  cache'[s].at <= clock' /\ rep'.stamp[s] <= clock'
    BY <1>1, <2>2 DEF AgentRests
  <2>. QED  BY <2>3, <2>4, Zenon DEF DateInv
<1>5. AskedInv' /\ RateBounded' /\ AgeHonest' /\ Unmarked'
  BY Zenon DEF IInv, AskedInv, RateBounded, AgeHonest, Unmarked, AgentRests
<1>6. UseInv'
  <2>1. Containers' \subseteq Pids
    BY DEF Containers, Alive
  <2>. QED  BY <2>1 DEF IInv, UseInv, AgentRests, Same
<1>7. ListInv'
  BY Zenon DEF IInv, ListInv, PinnedKept, Pinned, AgentRests
<1>. QED  BY <1>2, <1>3, <1>4, <1>5, <1>6, <1>7, Zenon DEF IInv, Typed

LEMMA SpawnStep ==
  ASSUME IInv, NEW p \in Pids, NEW k \in Kinds, Spawn(p, k)
  PROVE  IInv'
<1>. DEFINE P == [id |-> born + 1, kind |-> k, io |-> 0]
<1>1. /\ procs \in [Pids -> Processes] /\ born \in Nat /\ born' = born + 1
           /\ steady' \subseteq steady
      /\ steady \subseteq Nat /\ procs' = [procs EXCEPT ![p] = P]
      /\ UNCHANGED <<clock, aged, shake>>
  BY DEF IInv, Typed, HostTyped, Spawn
<1>2. P \in Processes /\ P.id = born + 1
  BY <1>1, Bounds DEF Processes
<1>. HIDE DEF P
<1>3. procs' \in [Pids -> Processes] /\ procs'[p] = P
        /\ \A q \in Pids \ {p} : procs'[q] = procs[q]
  BY <1>1, <1>2
<1>4. AgentRests /\ changes' \in 0..MaxChanges
  BY ChangeRests DEF IInv, Spawn
<1>5. HostTyped'
  BY <1>1, <1>3, <1>4 DEF HostTyped, IInv, Typed
<1>6. \A q \in Pids : procs'[q].id <= born' /\ (q \in Alive' => procs'[q].id > 0)
  BY <1>1, <1>2, <1>3 DEF IInv, BornInv, Processes, Alive
<1>7. ASSUME NEW q \in Pids, q \in Containers', procs'[q].id \in steady'
      PROVE  Same(q)
  <2>1. q # p
    BY <1>1, <1>2, <1>3, <1>7 DEF IInv, BornInv
  <2>. QED  BY <1>1, <1>3, <1>7, <2>1 DEF Same, Containers, Alive
<1>. QED  BY <1>1, <1>4, <1>5, <1>6, <1>7, RestKept

LEMMA ExitStep ==
  ASSUME IInv, NEW p \in Pids, Exit(p)
  PROVE  IInv'
<1>1. /\ procs \in [Pids -> Processes] /\ born \in Nat /\ steady' \subseteq steady
      /\ steady \subseteq Nat /\ procs' = [procs EXCEPT ![p] = NoProc]
      /\ UNCHANGED <<clock, born, aged, shake>>
  BY DEF IInv, Typed, HostTyped, Exit
<1>2. NoProc \in Processes /\ NoProc.id = 0
  BY Bounds DEF Processes, NoProc, Kinds
<1>3. procs' \in [Pids -> Processes] /\ procs'[p] = NoProc
        /\ \A q \in Pids \ {p} : procs'[q] = procs[q]
  BY <1>1, <1>2
<1>4. AgentRests /\ changes' \in 0..MaxChanges
  BY ChangeRests DEF IInv, Exit
<1>5. HostTyped'
  BY <1>1, <1>3, <1>4 DEF HostTyped, IInv, Typed
<1>6. \A q \in Pids : procs'[q].id <= born' /\ (q \in Alive' => procs'[q].id > 0)
  BY <1>1, <1>2, <1>3 DEF IInv, BornInv, Processes, Alive
<1>7. ASSUME NEW q \in Pids, q \in Containers', procs'[q].id \in steady'
      PROVE  Same(q)
  <2>1. q # p
    BY <1>3, <1>7 DEF Containers, Alive
  <2>. QED  BY <1>1, <1>3, <1>7, <2>1 DEF Same, Containers, Alive
<1>. QED  BY <1>1, <1>4, <1>5, <1>6, <1>7, RestKept

LEMMA MovesStep ==
  ASSUME IInv, NEW p \in Pids, Moves(p)
  PROVE  IInv'
<1>. DEFINE P == [procs[p] EXCEPT !.io = @ + 1]
<1>1. /\ procs \in [Pids -> Processes] /\ born \in Nat /\ procs[p].io < Width - 1 /\ p \in Alive
      /\ steady \subseteq Nat /\ procs' = [procs EXCEPT ![p] = P]
      /\ UNCHANGED <<clock, born, aged, shake, steady>>
  <2>1. procs' = [procs EXCEPT ![p].io = @ + 1]
    BY DEF Moves
  <2>2. procs \in [Pids -> Processes] /\ born \in Nat /\ steady \subseteq Nat
    BY DEF IInv, Typed, HostTyped
  <2>3. procs' = [procs EXCEPT ![p] = P]
    BY <2>1, <2>2
  <2>. QED  BY <2>2, <2>3 DEF Moves
<1>2. P \in Processes /\ P.id = procs[p].id /\ P.kind = procs[p].kind
  <2>1. procs[p] \in Processes /\ Width \in Nat
    BY <1>1, Bounds
  <2>2. procs[p].io + 1 \in 0..Width-1
    BY <1>1, <2>1 DEF Processes
  <2>. QED  BY <2>1, <2>2 DEF Processes
<1>. HIDE DEF P
<1>3. procs' \in [Pids -> Processes] /\ procs'[p] = P
        /\ \A q \in Pids \ {p} : procs'[q] = procs[q]
  BY <1>1, <1>2
<1>4. AgentRests /\ changes' \in 0..MaxChanges
  BY ChangeRests DEF IInv, Moves
<1>5. HostTyped'
  BY <1>1, <1>3, <1>4 DEF HostTyped, IInv, Typed
<1>6. \A q \in Pids : procs'[q].id <= born' /\ (q \in Alive' => procs'[q].id > 0)
  BY <1>1, <1>2, <1>3 DEF IInv, BornInv, Processes, Alive
<1>7. ASSUME NEW q \in Pids, q \in Containers', procs'[q].id \in steady'
      PROVE  Same(q)
  BY <1>1, <1>2, <1>3, <1>7 DEF Same, Containers, Alive
<1>. QED  BY <1>1, <1>4, <1>5, <1>6, <1>7, RestKept

LEMMA HostStep ==
  ASSUME IInv, Host
  PROVE  IInv'
<1>1. CASE \E p \in Pids : (\E k \in Kinds : Spawn(p, k)) \/ Exit(p) \/ Moves(p)
  BY <1>1, SpawnStep, ExitStep, MovesStep
<1>2. HostTyped /\ Typed
  BY DEF IInv, Typed
<1>3. ASSUME UNCHANGED <<procs, born, steady>>
      PROVE  /\ \A p \in Pids : procs'[p].id <= born' /\ (p \in Alive' => procs'[p].id > 0)
             /\ \A p \in Pids : (p \in Containers' /\ procs'[p].id \in steady') => Same(p)
  BY <1>3 DEF IInv, BornInv, Same, Containers, Alive
<1>4. born >= born /\ clock \in Nat /\ clock >= 1
  BY <1>2, Bounds DEF HostTyped
<1>5. ASSUME NEW s \in Cached, Ages(s)  PROVE IInv'
  <2>1. UNCHANGED <<clock, procs, born, shake, steady>>
          /\ aged' = [aged EXCEPT ![s] = Append(@, clock)] /\ Change
    BY <1>5 DEF Ages
  <2>2. AgentRests /\ changes' \in 0..MaxChanges
    BY <1>2, <2>1, ChangeRests
  <2>3. aged \in [Cached -> Seq(Nat)] /\ Append(aged[s], clock) \in Seq(Nat)
    BY <1>2, <1>4 DEF HostTyped
  <2>4. /\ aged' \in [Cached -> Seq(Nat)]
        /\ \A o \in Cached : aged'[o] = aged[o] \/ aged'[o] = Append(aged[o], clock)
    BY <2>1, <2>3
  <2>5. HostTyped'
    BY <1>2, <2>1, <2>2, <2>4, Zenon DEF HostTyped
  <2>. QED  BY <1>3, <1>4, <2>1, <2>2, <2>4, <2>5, RestKept
<1>6. CASE Handshake
  <2>1. UNCHANGED <<clock, procs, born, aged, steady>> /\ shake' = clock /\ Change
    BY <1>6 DEF Handshake
  <2>2. AgentRests /\ changes' \in 0..MaxChanges
    BY <1>2, <2>1, ChangeRests
  <2>3. HostTyped'
    BY <1>2, <1>4, <2>1, <2>2, Zenon DEF HostTyped
  <2>. QED  BY <1>3, <1>4, <2>1, <2>2, <2>3, RestKept
<1>7. CASE Pass
  <2>1. UNCHANGED <<changes, procs, born, aged, shake, steady>> /\ clock' = clock + 1
          /\ clock < MaxTime
    BY <1>7 DEF Pass
  <2>2. AgentRests
    BY <1>7, Zenon DEF Pass, AgentRests, memory
  <2>3. clock' \in 1..MaxTime
    BY <1>4, <2>1, Bounds
  <2>4. HostTyped'
    BY <1>2, <2>1, <2>3, Zenon DEF HostTyped
  <2>. QED  BY <1>3, <1>4, <2>1, <2>2, <2>4, RestKept
<1>. QED  BY <1>1, <1>5, <1>6, <1>7 DEF Host

\* A report that is begun, sent or lost.
Blank ==
  /\ rep' = Empty /\ pc' \in {"idle", "sockets"} /\ UNCHANGED <<clock, changes, procs, born,
       aged, shake>>
  /\ now' \in {0, clock} /\ steady' \subseteq {procs[p].id : p \in Alive}

StuckTyped == stuck \in Steps \cup {""}

LEMMA BlankStep ==
  ASSUME IInv, Blank, StuckTyped', faults' \in 0..MaxFaults,
         cache' \in [Cached -> Stored], asked' \in [Cached -> Run], AskedInv',
         \A s \in Cached : cache'[s] = cache[s] \/ (cache'[s].at = 0 /\ cache'[s].val = Bad),
         handles' \in [Pids -> Nat], \A p \in Pids : handles'[p] <= born,
         ioPrev' \in [Pids -> -1..Width-1]
  PROVE  IInv'
<1>1. /\ HostTyped /\ clock \in Nat
      /\ \A p \in Pids : procs[p].id \in Nat /\ procs[p].id <= born
  <2>1. HostTyped /\ BornInv /\ clock \in 1..MaxTime /\ procs \in [Pids -> Processes]
    BY Zenon DEF IInv, Typed, HostTyped
  <2>2. MaxTime \in Nat
    BY Bounds
  <2>. QED  BY <2>1, <2>2 DEF BornInv, Processes
<1>2. \A i \in steady' : i \in Nat /\ i <= born
  BY <1>1 DEF Blank, Alive
<1>3. /\ rep' = Empty /\ UNCHANGED <<clock, procs, born, aged>>
      /\ now' \in {0, clock} /\ pc' \in {"idle", "sockets"}
  BY Zenon DEF Blank
<1>4. HostTyped'
  BY <1>1, <1>2, Zenon DEF HostTyped, Blank
<1>5. AgentTyped'
  <2>1. rep' \in ReportType
    BY <1>3, EmptyTyped
  <2>2. now' \in Nat /\ now' <= clock'
    BY <1>1, <1>3
  <2>3. pc' \in Steps \cup {"idle"} /\ stuck' \in Steps \cup {""}
    BY <1>3, Zenon DEF Steps, StuckTyped
  <2>. QED  BY <2>1, <2>2, <2>3, Zenon DEF AgentTyped
<1>6. BornInv'
  BY <1>1, <1>2, <1>3 DEF IInv, BornInv, Alive
<1>7. DateInv'
  <2>1. ASSUME NEW s \in Cached
        PROVE  rep'.section[s] = Bad /\ rep'.stamp[s] <= clock' /\ cache'[s].at <= clock'
    BY <1>1, <1>3, EmptyTyped DEF IInv, DateInv
  <2>2. ASSUME NEW s \in Cached
        PROVE  Dated(s, cache[s].val, cache[s].at)' /\ Dated(s, rep.section[s], rep.stamp[s])'
    BY <1>3, <2>1 DEF IInv, DateInv, Dated
  <2>. QED  BY <2>1, <2>2, Zenon DEF DateInv
<1>8. RateBounded' /\ AgeHonest'
  BY <1>3, EmptyTyped DEF RateBounded, AgeHonest, NoRow
<1>9. Unmarked' /\ UseInv'
  BY <1>3, EmptyTyped DEF Unmarked, UseInv
<1>10. ListInv'
  BY <1>3, EmptyTyped DEF ListInv, PinnedKept
<1>. QED  BY <1>4, <1>5, <1>6, <1>7, <1>8, <1>9, <1>10, Zenon DEF IInv, Typed

LEMMA MemoryTyped ==
  ASSUME IInv
  PROVE  /\ cache \in [Cached -> Stored] /\ asked \in [Cached -> Run] /\ AskedInv
              /\ handles \in [Pids -> Nat]
         /\ (\A p \in Pids : handles[p] <= born) /\ ioPrev \in [Pids -> -1..Width-1]
              /\ faults \in 0..MaxFaults
         /\ StuckTyped /\ clock \in Nat /\ now \in Nat /\ now <= clock /\ rep \in ReportType
<1>1. /\ cache \in [Cached -> Stored] /\ asked \in [Cached -> Run] /\ AskedInv
           /\ handles \in [Pids -> Nat]
      /\ ioPrev \in [Pids -> -1..Width-1] /\ faults \in 0..MaxFaults /\ clock \in 1..MaxTime
      /\ now \in Nat /\ now <= clock /\ rep \in ReportType
  BY Zenon DEF IInv, Typed, AgentTyped, HostTyped
<1>2. StuckTyped
  BY Zenon DEF IInv, Typed, AgentTyped, StuckTyped
<1>3. \A p \in Pids : handles[p] <= born
  BY DEF IInv, BornInv
<1>4. clock \in Nat
  BY <1>1, Bounds
<1>. QED  BY <1>1, <1>2, <1>3, <1>4

LEMMA BlankSteps ==
  ASSUME IInv, Begin \/ Send
  PROVE  IInv'
<1>1. Blank /\ Remembers /\ UNCHANGED <<faults, stuck>>
  BY Zenon DEF Begin, Send, Ends, Leaves, Blank, Remembers, memory
<1>2. StuckTyped'
  BY <1>1, MemoryTyped DEF StuckTyped
<1>3. AskedInv'
  BY <1>1, MemoryTyped DEF AskedInv, Remembers
<1>. QED  BY <1>1, <1>2, <1>3, MemoryTyped, BlankStep DEF Remembers

\* A report that is dropped: the memory is that of the sections it came to.
LEMMA DroppedSteps ==
  ASSUME IInv, Unmarshalled \/ Panics
  PROVE  IInv'
<1>1. Blank /\ Fault /\ UNCHANGED <<stuck, cache, ioPrev>>
  BY Zenon DEF Unmarshalled, Panics, Ends, Leaves, Blank, memory
<1>2. StuckTyped' /\ faults' \in 0..MaxFaults
  BY <1>1, MemoryTyped, FaultsTyped DEF StuckTyped, IInv
<1>3. asked' \in [Cached -> Run] /\ AskedInv'
  <2>1. CASE asked' = asked
    BY <1>1, <2>1, MemoryTyped DEF AskedInv
  <2>2. CASE pc \in Cached /\ asked' = [asked EXCEPT ![pc] = [began |-> now, cut |-> TRUE]]
    <3>1. [began |-> now, cut |-> TRUE] \in Run
      BY MemoryTyped DEF Run
    <3>2. asked' \in [Cached -> Run] /\ asked'[pc].cut = TRUE
          /\ \A o \in Cached \ {pc} : asked'[o] = asked[o]
      BY <2>2, <3>1, MemoryTyped
    <3>. QED  BY <1>1, <2>2, <3>2, MemoryTyped DEF AskedInv
  <2>. QED  BY <2>1, <2>2, Zenon DEF Unmarshalled, Panics
<1>4. handles' \in [Pids -> Nat] /\ \A p \in Pids : handles'[p] <= born
  <2>1. handles' = handles \/ handles' = Held
    BY Zenon DEF Unmarshalled, Panics, memory
  <2>2. CASE handles' = Held
    BY <2>2, MemoryTyped DEF Held, IInv, BornInv, Typed, HostTyped, Processes
  <2>. QED  BY <2>1, <2>2, MemoryTyped
<1>5. cache' \in [Cached -> Stored] /\ ioPrev' \in [Pids -> -1..Width-1]
  BY <1>1, MemoryTyped
<1>. QED  BY <1>1, <1>2, <1>3, <1>4, <1>5, BlankStep

LEMMA RestartStep ==
  ASSUME IInv, Restart
  PROVE  IInv'
<1>1. Blank /\ Fault /\ cache' = NoCache /\ handles' = [p \in Pids |-> 0]
        /\ ioPrev' = [p \in Pids |-> -1]
      /\ asked' = [s \in Cached |-> NoRun]
  BY Zenon DEF Restart, Blank
<1>2. StuckTyped'
  BY Zenon DEF Restart, StuckTyped
<1>3. cache' \in [Cached -> Stored] /\ asked' \in [Cached -> Run]
      /\ \A s \in Cached : cache'[s].at = 0 /\ cache'[s].val = Bad /\ asked'[s] = NoRun
  BY <1>1 DEF NoCache, Stored, Bad, NoRun, Run
<1>4. AskedInv'
  BY <1>3 DEF AskedInv, NoRun
<1>5. faults' \in 0..MaxFaults
  BY <1>1, FaultsTyped DEF IInv
<1>6. born \in Nat /\ Width \in Nat
  BY Bounds DEF IInv, Typed, HostTyped
<1>7. handles' \in [Pids -> Nat] /\ (\A p \in Pids : handles'[p] <= born)
        /\ ioPrev' \in [Pids -> -1..Width-1]
  BY <1>1, <1>6
<1>. QED  BY <1>1, <1>2, <1>3, <1>4, <1>5, <1>7, BlankStep

LEMMA HangStep ==
  ASSUME IInv, Hang
  PROVE  IInv'
<1>1. /\ UNCHANGED <<clock, changes, procs, born, aged, shake, steady, pc, now, rep, cache,
           handles, ioPrev, asked>>
      /\ Fault /\ pc \in Steps \cup {"idle"} /\ stuck' = pc /\ pc \in NoDeadline
  BY Zenon DEF Hang, host, memory, IInv, Typed, AgentTyped
<1>2. faults' \in 0..MaxFaults
  BY <1>1, FaultsTyped DEF IInv
<1>3. stuck' \in Steps \cup {""}
  BY <1>1, Zenon DEF NoDeadline, Steps
<1>4. Typed'
  BY <1>1, <1>2, <1>3, Zenon DEF IInv, Typed, HostTyped, AgentTyped
<1>5. BornInv' /\ DateInv' /\ AskedInv' /\ RateBounded' /\ AgeHonest' /\ Unmarked'
  BY <1>1, Zenon DEF IInv, BornInv, Alive, DateInv, Dated, AskedInv, RateBounded, AgeHonest,
     Unmarked
<1>6. UseInv'
  BY <1>1 DEF IInv, UseInv, Containers, Alive
<1>7. ListInv'
  BY <1>1, Zenon DEF IInv, ListInv, PinnedKept, Pinned
<1>. QED  BY <1>4, <1>5, <1>6, <1>7, Zenon DEF IInv

\* The type of the agent's state after a step of buildReport.
LEMMA StepTyped ==
  ASSUME IInv, Frame, rep' \in ReportType, faults' \in 0..MaxFaults, pc' \in Steps,
         cache' \in [Cached -> Stored], asked' \in [Cached -> Run],
         handles' \in [Pids -> Nat], ioPrev' \in [Pids -> -1..Width-1]
  PROVE  Typed'
<1>1. HostTyped'
  BY HostKept DEF IInv, Typed
<1>2. StuckTyped' /\ now' \in Nat /\ now' <= clock'
  BY MemoryTyped DEF Frame, StuckTyped
<1>. QED  BY <1>1, <1>2, Zenon DEF Typed, AgentTyped, StuckTyped

LEMMA GathersStep ==
  ASSUME IInv, Gathers
  PROVE  IInv'
<1>1. /\ rep' \in ReportType /\ SameNumbers(rep, rep') /\ pc' \in Steps /\ Frame /\ Remembers
      /\ faults' \in 0..MaxFaults
  BY GathersEffect DEF IInv
<1>2. Typed'
  BY <1>1, StepTyped, MemoryTyped DEF Remembers
<1>3. BornInv' /\ DateInv' /\ AskedInv' /\ RateBounded' /\ AgeHonest'
  <2>1. BornInv' /\ DateInv'
    BY <1>1, BornKept, DatesKept DEF IInv, Remembers, Frame
  <2>2. AskedInv'
    BY <1>1 DEF IInv, AskedInv, Remembers
  <2>. QED  BY <1>1, <2>1, <2>2, NumbersKept
<1>4. Containers' = Containers /\ UNCHANGED <<procs, steady>>
  BY <1>1 DEF Frame, Containers, Alive
<1>5. Typed
  BY DEF IInv
<1>6. ASSUME Sockets  PROVE Unmarked' /\ UseInv'
  BY <1>5, <1>6, SocketsEffect DEF IInv, Unmarked, UseInv, Sockets, Runs
<1>7. ASSUME DockerPs  PROVE Unmarked' /\ UseInv'
  <2>1. rep'.images = <<>>
    BY <1>5, <1>7, PsEffect DEF IInv, Unmarked, DockerPs, Runs
  <2>2. pc' \in {"images", "inspect"}
    BY <1>5, <1>7, PsEffect
  <2>3. UseInv'
    BY <1>4, <1>5, <1>7, <2>2, PsEffect DEF UseInv
  <2>. QED  BY <2>1, <2>2, <2>3 DEF Unmarked
<1>8. ASSUME DockerInspect  PROVE Unmarked' /\ UseInv'
  <2>1. pc = "inspect"
    BY <1>8 DEF DockerInspect, Runs
  <2>2. rep'.images = <<>> /\ pc' = "images"
    BY <1>5, <1>8, <2>1, InspectEffect DEF IInv, Unmarked
  <2>3. ASSUME NEW p \in Containers, procs[p].id \in steady, rep'.docker
        PROVE  \E c \in rep'.containers : c.image = procs[p].kind
    <3>1. rep'.containers = Inspection /\ rep.docker
      BY <1>5, <1>8, <2>3, InspectEffect
    <3>2. p \in There
      BY <2>1, <2>3, <3>1 DEF IInv, UseInv, There
    <3>. DEFINE c == [id |-> procs[p].id, pid |-> p, image |-> procs[p].kind]
    <3>3. c \in Inspection
      BY <3>2 DEF Inspection
    <3>4. c.image = procs[p].kind
      OBVIOUS
    <3>. HIDE DEF c
    <3>. QED  BY <3>1, <3>3, <3>4
  <2>4. UseInv'
    BY <1>4, <2>2, <2>3 DEF UseInv
  <2>. QED  BY <2>2, <2>4 DEF Unmarked
<1>9. ASSUME DockerImages  PROVE Unmarked' /\ UseInv'
  <2>1. pc = "images" /\ rep.images = <<>>
    BY <1>9 DEF DockerImages, Runs, IInv, Unmarked
  <2>2. pc' = "stats" /\ rep'.docker = rep.docker
        /\ (rep'.images = rep.images \/ rep'.images = markImagesInUse(rep.containers))
    BY <1>5, <1>9, ImagesEffect
  <2>3. ASSUME NEW p \in Containers, procs[p].id \in steady, rep'.docker, rep'.images # <<>>
        PROVE  rep'.images[procs[p].kind]
    <3>1. PICK c \in rep.containers : c.image = procs[p].kind
      BY <2>1, <2>2, <2>3 DEF IInv, UseInv
    <3>2. procs[p].kind \in Images
      BY Alives
    <3>. QED  BY <2>1, <2>2, <2>3, <3>1, <3>2 DEF markImagesInUse
  <2>4. UseInv'
    BY <1>4, <2>2, <2>3 DEF UseInv
  <2>. QED  BY <2>2, <2>4 DEF Unmarked
<1>10. ASSUME DockerStats \/ Systemd \/ NicUnlisted \/ ProcessesUnlisted
       PROVE  Unmarked' /\ UseInv'
  <2>1. pc' \in {"systemd", "disk", "wg", "guard"}
    BY <1>10, Zenon DEF DockerStats, DockerStatsOverruns, Systemd, NicUnlisted,
       ProcessesUnlisted, Then
  <2>. QED  BY <2>1, UseOver
<1>11. Unmarked' /\ UseInv'
  BY <1>6, <1>7, <1>8, <1>9, <1>10 DEF Gathers
<1>12. ListInv'
  <2>1. pc \notin {"guard", "done"}
    BY Zenon DEF Gathers, Sockets, DockerPs, DockerInspect, DockerImages, DockerStats, Systemd,
       NicUnlisted, ProcessesUnlisted, Runs
  <2>2. rep'.listed = {}
    BY <1>1, <2>1 DEF IInv, ListInv, SameNumbers
  <2>. QED  BY <2>2 DEF ListInv, PinnedKept
<1>. QED  BY <1>2, <1>3, <1>11, <1>12, Zenon DEF IInv

LEMMA SectionStep ==
  ASSUME IInv, NEW s \in Cached, NEW to, to \in {"nic", "wg", "done"},
         s = "guard" <=> to = "done", Refresh(s, to) \/ Resend(s, to)
  PROVE  IInv'
<1>1. Typed
  BY DEF IInv
<1>2. /\ Frame /\ UNCHANGED <<handles, ioPrev>> /\ faults' \in 0..MaxFaults /\ pc' = to
      /\ cache' \in [Cached -> Stored] /\ asked' \in [Cached -> Run]
      /\ \A o \in Cached \ {s} : cache'[o] = cache[o] /\ asked'[o] = asked[o]
      /\ \/ cache'[s] = cache[s] /\ asked'[s] = asked[s]
         \/ cache'[s].at = now /\ asked'[s] = [began |-> now, cut |-> FALSE]
              /\ cache'[s].val \in {Len(aged[s]), Bad}
      /\ Says(s, cache'[s].val, cache'[s].at)
  <2>1. CASE Refresh(s, to)
    BY <1>1, <2>1, RefreshEffect
  <2>2. CASE Resend(s, to)
    BY <1>1, <2>2, ResendEffect, MemoryTyped DEF Remembers
  <2>. QED  BY <2>1, <2>2
<1>3. pc' \in Steps /\ rep' \in ReportType
  BY <1>2, Zenon DEF Steps, Says
<1>4. Typed'
  BY <1>2, <1>3, StepTyped, MemoryTyped
<1>5. BornInv'
  BY <1>2, BornKept DEF IInv
<1>6. /\ clock' = clock /\ aged' = aged /\ now \in Nat /\ now <= clock /\ aged[s] \in Seq(Nat)
      /\ Len(aged[s]) \in Nat
  BY <1>2, MemoryTyped DEF Frame, IInv, Typed, HostTyped
<1>7. cache'[s].at <= clock /\ Dated(s, cache'[s].val, cache'[s].at)
  <2>1. CASE cache'[s] = cache[s]
    BY <2>1 DEF IInv, DateInv
  <2>2. CASE cache'[s].at = now /\ cache'[s].val \in {Len(aged[s]), Bad}
    BY <1>6, <2>2 DEF Dated
  <2>. QED  BY <1>2, <2>1, <2>2
<1>8. DateInv'
  <2>1. ASSUME NEW o \in Cached
        PROVE  /\ cache'[o].at <= clock /\ Dated(o, cache'[o].val, cache'[o].at)
               /\ rep'.stamp[o] <= clock /\ Dated(o, rep'.section[o], rep'.stamp[o])
    <3>1. CASE o = s
      BY <1>2, <1>7, <3>1 DEF Says
    <3>2. CASE o # s
      BY <1>2, <3>2 DEF Says, IInv, DateInv
    <3>. QED  BY <3>1, <3>2
  <2>. QED  BY <1>6, <2>1 DEF DateInv, Dated
<1>9. AskedInv'
  <2>1. ASSUME NEW o \in Cached  PROVE asked'[o].cut \/ asked'[o].began = cache'[o].at
    BY <1>2 DEF IInv, AskedInv
  <2>. QED  BY <2>1 DEF AskedInv
<1>10. RateBounded' /\ AgeHonest'
  BY <1>2 DEF IInv, RateBounded, AgeHonest, Says, Frame
<1>11. Unmarked' /\ UseInv'
  BY <1>2, UseOver
<1>12. ListInv'
  <2>1. pc = s
    BY DEF Refresh, Resend, Runs
  <2>2. CASE s = "guard"
    <3>1. pc = "guard" /\ pc' = "done"
      BY <1>2, <2>1, <2>2
    <3>2. Pinned' = Pinned
      BY <1>2, Zenon DEF Pinned, Says
    <3>. QED  BY <1>2, <3>1, <3>2 DEF IInv, ListInv, PinnedKept, Says
  <2>3. CASE s # "guard"
    <3>1. rep'.listed = {}
      BY <1>2, <2>1, <2>3 DEF IInv, ListInv, Says, Cached
    <3>. QED  BY <3>1 DEF ListInv, PinnedKept
  <2>. QED  BY <2>2, <2>3
<1>. QED  BY <1>4, <1>5, <1>8, <1>9, <1>10, <1>11, <1>12, Zenon DEF IInv

LEMMA WireGuardStep ==
  ASSUME IInv, CollectWireGuard
  PROVE  IInv'
<1>1. Typed
  BY DEF IInv
<1>2. /\ Frame /\ Remembers /\ faults' \in 0..MaxFaults /\ pc' = "processes"
           /\ rep' \in ReportType
      /\ rep'.section = rep.section /\ rep'.stamp = rep.stamp /\ rep'.rows = rep.rows
      /\ rep'.listed = rep.listed
      /\ \/ rep'.age = rep.age /\ rep'.shake = rep.shake
         \/ rep'.age = HandshakeAge /\ rep'.shake = shake
  BY <1>1, WireGuardEffect
<1>3. Typed'
  BY <1>2, StepTyped, MemoryTyped DEF Remembers, Steps
<1>4. BornInv' /\ AskedInv' /\ RateBounded'
  <2>1. BornInv'
    BY <1>2, BornKept DEF IInv, Remembers
  <2>. QED  BY <1>2, <2>1 DEF IInv, AskedInv, RateBounded, Remembers
<1>5. DateInv'
  BY <1>2, Zenon DEF IInv, DateInv, Dated, Remembers, Frame
<1>6. AgeHonest'
  BY <1>1, <1>2, AgeTyped DEF IInv, AgeHonest, Frame
<1>7. Unmarked' /\ UseInv'
  BY <1>2, UseOver
<1>8. ListInv'
  <2>1. rep'.listed = {}
    BY <1>2 DEF IInv, ListInv, CollectWireGuard, Runs
  <2>. QED  BY <2>1 DEF ListInv, PinnedKept
<1>. QED  BY <1>3, <1>4, <1>5, <1>6, <1>7, <1>8, Zenon DEF IInv

LEMMA ProcessesStep ==
  ASSUME IInv, CollectProcesses
  PROVE  IInv'
<1>1. Typed /\ BornInv
  BY DEF IInv
<1>2. /\ Frame /\ UNCHANGED <<cache, asked>> /\ faults' \in 0..MaxFaults /\ pc' = "guard"
      /\ rep' \in ReportType /\ rep'.section = rep.section /\ rep'.stamp = rep.stamp
      /\ rep'.age = rep.age /\ rep'.shake = rep.shake
      /\ (\A p \in Pids : rep'.rows[p].moved <= rep'.rows[p].total)
      /\ handles' \in [Pids -> Nat] /\ (\A p \in Pids : handles'[p] <= born)
      /\ ioPrev' \in [Pids -> -1..Width-1]
  BY <1>1, ProcessesEffect
<1>3. Typed'
  BY <1>2, StepTyped, MemoryTyped DEF Steps
<1>4. BornInv'
  BY <1>1, <1>2 DEF BornInv, Frame, Alive
<1>5. DateInv'
  BY <1>2, Zenon DEF IInv, DateInv, Dated, Frame
<1>6. AskedInv'
  BY <1>2 DEF IInv, AskedInv
<1>7. RateBounded' /\ AgeHonest'
  BY <1>2 DEF IInv, RateBounded, AgeHonest, Frame
<1>8. Unmarked' /\ UseInv'
  BY <1>2, UseOver
<1>9. ListInv'
  BY <1>1, <1>2, ProcessesPinned DEF ListInv
<1>. QED  BY <1>3, <1>4, <1>5, <1>6, <1>7, <1>8, <1>9, Zenon DEF IInv

LEMMA Inductive ==
  ASSUME IInv, [Next]_vars
  PROVE  IInv'
<1>1. CASE Host
  BY <1>1, HostStep
<1>2. CASE Begin \/ Send
  BY <1>2, BlankSteps
<1>3. CASE Gathers
  BY <1>3, GathersStep
<1>4. CASE \E s \in Cached, to \in {"nic", "wg", "done"} :
             (s = "guard" <=> to = "done") /\ (Refresh(s, to) \/ Resend(s, to))
  BY <1>4, SectionStep
<1>5. CASE CollectWireGuard
  BY <1>5, WireGuardStep
<1>6. CASE CollectProcesses
  BY <1>6, ProcessesStep
<1>7. CASE Hang
  BY <1>7, HangStep
<1>8. CASE Restart \/ Unmarshalled \/ Panics
  BY <1>8, RestartStep, DroppedSteps
<1>9. CASE UNCHANGED vars
  <2>1. AgentRests /\ UNCHANGED <<clock, changes, procs, born, aged, shake, steady>>
    BY <1>9, Zenon DEF vars, host, memory, AgentRests
  <2>2. Typed' /\ BornInv' /\ DateInv' /\ AskedInv' /\ RateBounded' /\ AgeHonest' /\ Unmarked'
    BY <2>1, Zenon DEF IInv, Typed, HostTyped, AgentTyped, BornInv, Alive, DateInv, Dated,
       AskedInv, RateBounded, AgeHonest, Unmarked, AgentRests
  <2>3. UseInv'
    BY <2>1 DEF IInv, UseInv, AgentRests, Containers, Alive
  <2>4. ListInv'
    BY <2>1, Zenon DEF IInv, ListInv, PinnedKept, Pinned, AgentRests
  <2>. QED  BY <2>2, <2>3, <2>4, Zenon DEF IInv
<1>10. CASE CollectStorage \/ CollectNetLink \/ CollectSecurity
  BY <1>3, <1>4, <1>10 DEF CollectStorage, CollectNetLink, CollectSecurity, Gathers, Cached
<1>11. CASE Step
  BY <1>2, <1>3, <1>5, <1>6, <1>10, <1>11, Zenon DEF Step, Gathers
<1>. QED  BY <1>1, <1>2, <1>7, <1>8, <1>9, <1>11, Zenon DEF Next

-----------------------------------------------------------------------------
(* The theorems *)

LEMMA Reached == Spec => []IInv
  BY InitIInv, Inductive, PTL DEF Spec

LEMMA TypeHolds == IInv => TypeOK
<1>. SUFFICES ASSUME IInv  PROVE TypeOK
  OBVIOUS
<1>1. /\ clock \in 1..MaxTime /\ changes \in 0..MaxChanges /\ faults \in 0..MaxFaults
           /\ now <= clock
      /\ pc \in Steps \cup {"idle"} /\ stuck \in Steps \cup {""}
           /\ procs \in [Pids -> Processes] /\ born \in Nat
  BY Zenon DEF IInv, Typed, HostTyped, AgentTyped
<1>2. rep.age \in -1..MaxTime /\ rep.rows \in [Pids -> Row]
  BY MemoryTyped DEF ReportType
<1>3. ASSUME NEW p \in Pids
      PROVE  /\ procs[p].kind \in Kinds /\ procs[p].io \in 0..Width-1
             /\ handles[p] \in 0..born /\ ioPrev[p] \in -1..Width-1
             /\ rep.rows[p].moved \in 0..Width-1
  <2>1. procs[p] \in Processes /\ rep.rows[p] \in Row /\ handles[p] \in Nat /\ handles[p] <= born
        /\ ioPrev[p] \in -1..Width-1 /\ born \in Nat
    BY <1>1, <1>2, MemoryTyped
  <2>. QED  BY <2>1 DEF Processes, Row
<1>4. \A s \in Cached : cache[s].at <= clock
  BY DEF IInv, DateInv
<1>. QED  BY <1>1, <1>2, <1>3, <1>4, Zenon DEF TypeOK

\* The numbers of a report are true: no cached section is older than its stamp, no rate
\* larger than what the process ever moved, no handshake older than its age (StorageCache,
\* NetLinkCache, securityCache, rateOrZero and CollectWireGuard).
THEOREM NumbersAreTrue == Spec => []NumbersTrue
<1>1. IInv => NumbersTrue
  BY TypeHolds DEF IInv, DateInv, Dated, NumbersTrue, StampTrue
<1>. QED  BY <1>1, Reached, PTL

\* Commands that may run now ran in no report that began less than their interval ago.
LEMMA Overdue ==
  ASSUME IInv, NEW s \in Cached, Expired(s), asked[s] # NoRun
  PROVE  asked[s].cut \/ clock - asked[s].began >= TTL[s]
<1>1. /\ now \in Nat /\ clock \in Nat /\ now <= clock /\ TTL[s] \in Nat
      /\ asked[s] \in Run /\ cache[s].at \in Nat
  BY MemoryTyped, Intervals DEF Stored
<1>2. CASE asked[s].cut
  BY <1>2
<1>3. CASE asked[s].cut = FALSE
  <2>1. asked[s].began # 0
    BY <1>1, <1>3 DEF Run, NoRun
  <2>2. asked[s].began = cache[s].at
    BY <1>3 DEF IInv, AskedInv
  <2>. QED  BY <1>1, <2>1, <2>2 DEF Expired
<1>. QED  BY <1>1, <1>2, <1>3 DEF Run

\* StorageCache, NetLinkCache, securityCache: when the commands of a cached section run, its
\* interval has passed since the report began that ran them last, also if they failed; only
\* a panic in the section and a restart bring them forward.
THEOREM Throttled == Spec => ThrottleHolds
<1>1. ASSUME IInv, NEW s \in Cached, Expired(s), \A o \in Cached \ {s} : asked'[o] = asked[o]
      PROVE  ThrottleStep
  BY <1>1, Overdue DEF ThrottleStep
<1>2. ASSUME IInv, Next  PROVE ThrottleStep
  <2>1. CASE \E s \in Cached : \E to : Refresh(s, to)
    <3>1. PICK s \in Cached : \E to : Refresh(s, to)
      BY <2>1
    <3>2. Expired(s) /\ \A o \in Cached \ {s} : asked'[o] = asked[o]
      BY <1>2, <3>1, RefreshEffect DEF IInv, Refresh
    <3>. QED  BY <1>1, <1>2, <3>2
  <2>2. CASE asked' = [s \in Cached |-> NoRun]
    BY <2>2 DEF ThrottleStep
  <2>3. CASE asked' = asked
    BY <2>3 DEF ThrottleStep
  <2>4. CASE Host \/ Begin \/ Hang \/ Restart \/ Unmarshalled
    <3>1. asked' = asked \/ asked' = [s \in Cached |-> NoRun]
      BY <2>4, Zenon DEF Host, Spawn, Exit, Moves, Ages, Handshake, Pass, Change, Begin, Hang,
         Restart, Unmarshalled
    <3>. QED  BY <2>2, <2>3, <3>1
  <2>5. CASE Gathers \/ CollectWireGuard \/ CollectProcesses \/ Send
    <3>1. asked' = asked
      BY <2>5, Zenon DEF Gathers, Sockets, DockerPs, DockerInspect, DockerImages, DockerStats,
         Systemd, NicUnlisted, ProcessesUnlisted, CollectWireGuard, CollectProcesses, Send
    <3>. QED  BY <2>3, <3>1
  <2>6. CASE CollectStorage \/ CollectNetLink \/ CollectSecurity
    <3>1. \/ \E s \in Cached : \E to : Refresh(s, to) \/ Resend(s, to)
          \/ NicUnlisted
      BY <2>6, Zenon DEF CollectStorage, CollectNetLink, CollectSecurity, Cached
    <3>2. ASSUME NEW s \in Cached, NEW to, Resend(s, to)  PROVE asked' = asked
      BY <3>2, Zenon DEF Resend
    <3>. QED  BY <2>1, <2>3, <2>5, <3>1, <3>2 DEF Gathers
  <2>7. CASE Panics
    <3>1. \/ asked' = asked
          \/ /\ pc \in Cached /\ Expired(pc)
             /\ asked' = [asked EXCEPT ![pc] = [began |-> now, cut |-> TRUE]]
      BY <2>7, Zenon DEF Panics
    <3>2. CASE /\ pc \in Cached /\ Expired(pc)
               /\ asked' = [asked EXCEPT ![pc] = [began |-> now, cut |-> TRUE]]
      <4>1. \A o \in Cached \ {pc} : asked'[o] = asked[o]
        BY <1>2, <3>2, MemoryTyped
      <4>. QED  BY <1>1, <1>2, <3>2, <4>1
    <3>. QED  BY <2>3, <3>1, <3>2
  <2>. QED  BY <1>2, <2>4, <2>5, <2>6, <2>7, Zenon DEF Next, Step, Gathers
<1>3. IInv /\ [Next]_vars => [ThrottleStep]_vars
  BY <1>2
<1>. QED  BY <1>3, Reached, PTL DEF Spec, ThrottleHolds

\* What was there throughout survives the joins: the processes that selectProcs pins keep
\* their rows, or the list is full of others like them and says that it was cut; an image
\* that is not in use is the image of no container that ran while docker was read
\* (markImagesInUse).
THEOREM JoinsAreComplete == Spec => []JoinsComplete
<1>1. IInv => JoinsComplete
  BY DEF IInv, UseInv, InUseComplete, ListInv, JoinsComplete
<1>. QED  BY <1>1, Reached, PTL

-----------------------------------------------------------------------------
(* AgentSender *)

Content == Reports \cup {Torn}

\* No newer report is stored before an older one.
OldFirst(s) == \A i, j \in DOMAIN s : (s[i] = First /\ s[j] = Second) => i < j

\* The report in hand, between the tick that built it and Push.
BodyInv ==
  /\ stage \in {"send", "push"} => body \in Reports
  /\ stage \notin {"send", "push"} => body = None
  /\ Marked(body) \subseteq made
  /\ body = First => Second \notin made

\* A file more than MaxFiles is paid for with a fault, or is about to be trimmed.
RoomInv ==
  /\ Len(buffer) <= MaxFiles + failures + (IF stage = "trim" THEN 1 ELSE 0)
  /\ stage = "flush" => pos <= Len(buffer) + 1
  /\ stage = "trim" => pos <= failures + 1

StoreInv ==
  /\ Files \cap {First, Second} \subseteq made
  /\ setBack \/ OldFirst(buffer)

SenderInv == SenderTypeOK /\ BodyInv /\ RoomInv /\ StoreInv /\ MarkKept

-----------------------------------------------------------------------------
(* Sequences *)

LEMMA TableIsSeq ==
  ASSUME NEW S, NEW m \in Nat, NEW s \in [1..m -> S]
  PROVE  s \in Seq(S) /\ Len(s) = m
OBVIOUS

LEMMA Bounded ==
  ASSUME NEW S, NEW n \in Nat, NEW s
  PROVE  s \in BoundedSeq(S, n) <=> s \in Seq(S) /\ Len(s) <= n
<1>1. ASSUME s \in BoundedSeq(S, n) PROVE s \in Seq(S) /\ Len(s) <= n
  <2>1. PICK m \in 0..n : s \in [1..m -> S]
    BY <1>1 DEF BoundedSeq, SeqOf
  <2>2. m \in Nat /\ m <= n
    OBVIOUS
  <2>3. s \in Seq(S) /\ Len(s) = m
    BY <2>1, <2>2, TableIsSeq, Zenon
  <2>. QED  BY <2>2, <2>3
<1>2. ASSUME s \in Seq(S), Len(s) <= n PROVE s \in BoundedSeq(S, n)
  <2>1. Len(s) \in 0..n /\ s \in [1..Len(s) -> S]
    BY <1>2, LenProperties
  <2>. QED  BY <2>1 DEF BoundedSeq, SeqOf
<1>. QED  BY <1>1, <1>2

LEMMA PrefixIs ==
  ASSUME NEW S, NEW s \in Seq(S), NEW p \in 1..(Len(s) + 1)
  PROVE  LET a == SubSeq(s, 1, p - 1) IN
         a \in Seq(S) /\ Len(a) = p - 1 /\ \A i \in 1..(p - 1) : a[i] = s[i]
<1>. DEFINE a == SubSeq(s, 1, p - 1)
<1>1. Len(s) \in Nat /\ p \in Nat /\ p >= 1 /\ p <= Len(s) + 1
  BY LenProperties
<1>2. \A i \in 1..(p - 1) : s[i] \in S
  BY <1>1, ElementOfSeq
<1>3. /\ a \in Seq(S) /\ Len(a) = IF 1 <= p - 1 THEN p - 1 - 1 + 1 ELSE 0
      /\ \A i \in 1..(p - 1 - 1 + 1) : a[i] = s[1 + i - 1]
  BY <1>1, <1>2, SubSeqProperties
<1>4. Len(a) = p - 1
  BY <1>1, <1>3
<1>5. ASSUME NEW i \in 1..(p - 1) PROVE a[i] = s[i]
  <2>1. i \in 1..(p - 1 - 1 + 1) /\ 1 + i - 1 = i
    BY <1>1
  <2>. QED  BY <1>3, <2>1
<1>. QED  BY <1>3, <1>4, <1>5

LEMMA SuffixIs ==
  ASSUME NEW S, NEW s \in Seq(S), NEW p \in 1..(Len(s) + 1)
  PROVE  LET b == SubSeq(s, p, Len(s)) IN
         /\ b \in Seq(S) /\ Len(b) = Len(s) + 1 - p
         /\ \A i \in 1..(Len(s) + 1 - p) : b[i] = s[p + i - 1]
<1>. DEFINE b == SubSeq(s, p, Len(s))
            n == Len(s)
<1>1. n \in Nat /\ p \in Nat /\ p >= 1 /\ p <= n + 1
  BY LenProperties
<1>2. \A i \in p..Len(s) : s[i] \in S
  BY <1>1, ElementOfSeq
<1>3. /\ b \in Seq(S) /\ Len(b) = IF p <= n THEN n - p + 1 ELSE 0
      /\ \A i \in 1..(n - p + 1) : b[i] = s[p + i - 1]
  BY <1>1, <1>2, SubSeqProperties
<1>. HIDE DEF b, n
<1>4. Len(b) = n + 1 - p /\ n - p + 1 = n + 1 - p
  BY <1>1, <1>3
<1>5. \A i \in 1..(n + 1 - p) : b[i] = s[p + i - 1]
  BY <1>3, <1>4
<1>. QED  BY <1>3, <1>4, <1>5 DEF b, n

LEMMA Inserted ==
  ASSUME NEW S, NEW s \in Seq(S), NEW x \in S, NEW p \in 1..(Len(s) + 1)
  PROVE  /\ InsertAt(s, p, x) \in Seq(S)
         /\ Len(InsertAt(s, p, x)) = Len(s) + 1
         /\ \A i \in 1..(Len(s) + 1) :
              InsertAt(s, p, x)[i] = IF i < p THEN s[i] ELSE IF i = p THEN x ELSE s[i - 1]
         /\ Range(InsertAt(s, p, x)) = Range(s) \cup {x}
<1>. DEFINE a == SubSeq(s, 1, p - 1)
            b == SubSeq(s, p, Len(s))
            c == a \o <<x>>
            t == InsertAt(s, p, x)
            n == Len(s)
<1>1. n \in Nat /\ DOMAIN s = 1..n /\ p \in Nat /\ p >= 1 /\ p <= n + 1
  BY LenProperties
<1>2. a \in Seq(S) /\ Len(a) = p - 1 /\ \A i \in 1..(p - 1) : a[i] = s[i]
  BY PrefixIs, Zenon
<1>3. b \in Seq(S) /\ Len(b) = n + 1 - p /\ \A i \in 1..(n + 1 - p) : b[i] = s[p + i - 1]
  BY SuffixIs
<1>4. t = c \o b
  BY DEF InsertAt
<1>5. <<x>> \in Seq(S) /\ Len(<<x>>) = 1 /\ <<x>>[1] = x
  OBVIOUS
<1>. HIDE DEF a, b, t, n
<1>6. /\ c \in Seq(S) /\ Len(c) = p
      /\ \A i \in 1..(p - 1) : c[i] = s[i]
      /\ c[p] = x
  <2>1. /\ c \in Seq(S) /\ Len(c) = Len(a) + 1
        /\ \A i \in 1..(Len(a) + 1) : c[i] = IF i <= Len(a) THEN a[i] ELSE <<x>>[i - Len(a)]
    BY <1>2, <1>5, ConcatProperties
  <2>2. Len(c) = p
    BY <1>1, <1>2, <2>1
  <2>3. ASSUME NEW i \in 1..(p - 1) PROVE c[i] = s[i]
    BY <1>1, <1>2, <2>1
  <2>4. c[p] = x
    <3>1. p \in 1..(Len(a) + 1) /\ ~(p <= Len(a)) /\ p - Len(a) = 1
      BY <1>1, <1>2
    <3>. QED  BY <1>5, <2>1, <3>1
  <2>. QED  BY <2>1, <2>2, <2>3, <2>4
<1>. HIDE DEF c
<1>7. /\ t \in Seq(S) /\ Len(t) = Len(c) + Len(b)
      /\ \A i \in 1..(Len(c) + Len(b)) : t[i] = IF i <= Len(c) THEN c[i] ELSE b[i - Len(c)]
  BY <1>3, <1>4, <1>6, ConcatProperties
<1>8. Len(t) = n + 1
  BY <1>1, <1>3, <1>6, <1>7
<1>9. ASSUME NEW i \in 1..(n + 1)
      PROVE  t[i] = IF i < p THEN s[i] ELSE IF i = p THEN x ELSE s[i - 1]
  <2>1. t[i] = IF i <= p THEN c[i] ELSE b[i - p]
    BY <1>1, <1>3, <1>6, <1>7
  <2>2. CASE i <= p
    BY <1>1, <1>6, <2>1, <2>2
  <2>3. CASE ~(i <= p)
    <3>1. i - p \in 1..(n + 1 - p) /\ p + (i - p) - 1 = i - 1 /\ ~(i < p) /\ i # p
      BY <1>1, <2>3
    <3>2. b[i - p] = s[i - 1]
      BY <1>3, <3>1
    <3>. QED  BY <2>1, <2>3, <3>1, <3>2
  <2>. QED  BY <2>2, <2>3
<1>10. DOMAIN t = 1..(n + 1)
  BY <1>7, <1>8, LenProperties
<1>11. Range(t) \subseteq Range(s) \cup {x}
  <2>. SUFFICES ASSUME NEW i \in 1..(n + 1), t[i] # x PROVE t[i] \in Range(s)
    BY <1>10 DEF Range
  <2>1. CASE i < p
    <3>1. i \in 1..n /\ t[i] = s[i]
      BY <1>1, <1>9, <2>1
    <3>. QED  BY <1>1, <3>1 DEF Range
  <2>2. CASE ~(i < p)
    <3>1. i # p
      BY <1>9, <2>2
    <3>2. i - 1 \in 1..n /\ t[i] = s[i - 1]
      BY <1>1, <1>9, <2>2, <3>1
    <3>. QED  BY <1>1, <3>2 DEF Range
  <2>. QED  BY <2>1, <2>2
<1>12. Range(s) \cup {x} \subseteq Range(t)
  <2>1. x \in Range(t)
    <3>1. p \in 1..(n + 1) /\ t[p] = x
      BY <1>1, <1>9
    <3>. QED  BY <1>10, <3>1 DEF Range
  <2>2. ASSUME NEW i \in 1..n PROVE s[i] \in Range(t)
    <3>1. CASE i < p
      <4>1. i \in 1..(n + 1) /\ t[i] = s[i]
        BY <1>1, <1>9, <3>1
      <4>. QED  BY <1>10, <4>1 DEF Range
    <3>2. CASE ~(i < p)
      <4>1. i + 1 \in 1..(n + 1) /\ ~(i + 1 < p) /\ i + 1 # p /\ (i + 1) - 1 = i
        BY <1>1, <3>2
      <4>2. t[i + 1] = s[i]
        BY <1>9, <4>1
      <4>. QED  BY <1>10, <4>1, <4>2 DEF Range
    <3>. QED  BY <3>1, <3>2
  <2>. QED  BY <1>1, <2>1, <2>2 DEF Range
<1>. QED  BY <1>7, <1>8, <1>9, <1>11, <1>12 DEF t, n

LEMMA Removed ==
  ASSUME NEW S, NEW s \in Seq(S), NEW p \in 1..Len(s)
  PROVE  /\ RemoveAt(s, p) \in Seq(S) /\ Len(RemoveAt(s, p)) = Len(s) - 1
         /\ \A i \in 1..(Len(s) - 1) :
              RemoveAt(s, p)[i] = IF i < p THEN s[i] ELSE s[i + 1]
         /\ Range(RemoveAt(s, p)) \subseteq Range(s)
         /\ Range(s) \subseteq Range(RemoveAt(s, p)) \cup {s[p]}
<1>. DEFINE a == SubSeq(s, 1, p - 1)
            b == SubSeq(s, p + 1, Len(s))
            t == RemoveAt(s, p)
<1>1. Len(s) \in Nat /\ DOMAIN s = 1..Len(s) /\ p \in Nat /\ p >= 1 /\ p <= Len(s)
  BY LenProperties
<1>2. \A i \in 1..Len(s) : s[i] \in S
  BY ElementOfSeq
<1>3. a \in Seq(S) /\ Len(a) = p - 1 /\ \A i \in 1..(p - 1) : a[i] = s[i]
  <2>1. p \in 1..(Len(s) + 1)
    BY <1>1
  <2>. QED  BY <2>1, PrefixIs, Zenon
<1>4. b \in Seq(S) /\ Len(b) = Len(s) - p /\ \A i \in 1..(Len(s) - p) : b[i] = s[p + i]
  <2>1. \A i \in (p + 1)..Len(s) : s[i] \in S
    BY <1>1, <1>2
  <2>2. /\ b \in Seq(S)
        /\ Len(b) = IF p + 1 <= Len(s) THEN Len(s) - (p + 1) + 1 ELSE 0
        /\ \A i \in 1..(Len(s) - (p + 1) + 1) : b[i] = s[p + 1 + i - 1]
    BY <1>1, <2>1, SubSeqProperties
  <2>. HIDE DEF b
  <2>3. Len(b) = Len(s) - p
    <3>1. CASE p + 1 <= Len(s)
      <4>1. Len(b) = Len(s) - (p + 1) + 1
        BY <2>2, <3>1
      <4>. QED  BY <1>1, <4>1
    <3>2. CASE ~(p + 1 <= Len(s))
      <4>1. Len(b) = 0
        BY <2>2, <3>2
      <4>2. Len(s) - p = 0
        <5>. DEFINE n == Len(s)
        <5>1. n \in Nat /\ p \in Nat /\ p <= n /\ ~(p + 1 <= n)
          BY <1>1, <3>2
        <5>. HIDE DEF n
        <5>2. n - p = 0
          BY <5>1
        <5>. QED  BY <5>2 DEF n
      <4>. QED  BY <4>1, <4>2
    <3>. QED  BY <3>1, <3>2
  <2>4. ASSUME NEW i \in 1..(Len(s) - p) PROVE b[i] = s[p + i]
    <3>1. i \in 1..(Len(s) - (p + 1) + 1) /\ p + 1 + i - 1 = p + i
      BY <1>1
    <3>. QED  BY <2>2, <3>1
  <2>. QED  BY <2>2, <2>3, <2>4
<1>5. t = a \o b
  BY DEF RemoveAt
<1>. HIDE DEF a, b, t
<1>6. /\ t \in Seq(S) /\ Len(t) = Len(a) + Len(b)
      /\ \A i \in 1..(Len(a) + Len(b)) : t[i] = IF i <= Len(a) THEN a[i] ELSE b[i - Len(a)]
  BY <1>3, <1>4, <1>5, ConcatProperties
<1>7. Len(t) = Len(s) - 1
  BY <1>1, <1>3, <1>4, <1>6
<1>8. ASSUME NEW i \in 1..(Len(s) - 1) PROVE t[i] = IF i < p THEN s[i] ELSE s[i + 1]
  <2>1. t[i] = IF i <= p - 1 THEN a[i] ELSE b[i - (p - 1)]
    BY <1>1, <1>3, <1>4, <1>6
  <2>2. CASE i < p
    BY <1>1, <1>3, <2>1, <2>2
  <2>3. CASE ~(i < p)
    <3>1. i - (p - 1) \in 1..(Len(s) - p) /\ p + (i - (p - 1)) = i + 1 /\ ~(i <= p - 1)
      BY <1>1, <2>3
    <3>2. b[i - (p - 1)] = s[i + 1]
      BY <1>4, <3>1
    <3>. QED  BY <2>1, <2>3, <3>1, <3>2
  <2>. QED  BY <2>2, <2>3
<1>9. DOMAIN t = 1..(Len(s) - 1)
  BY <1>6, <1>7, LenProperties
<1>10. Range(t) \subseteq Range(s)
  <2>1. ASSUME NEW i \in 1..(Len(s) - 1) PROVE \E k \in 1..Len(s) : t[i] = s[k]
    <3>1. i \in 1..Len(s) /\ i + 1 \in 1..Len(s)
      BY <1>1
    <3>2. t[i] = s[i] \/ t[i] = s[i + 1]
      BY <1>8
    <3>. QED  BY <3>1, <3>2
  <2>. QED  BY <1>1, <1>9, <2>1 DEF Range
<1>11. Range(s) \subseteq Range(t) \cup {s[p]}
  <2>. SUFFICES ASSUME NEW i \in 1..Len(s), i # p PROVE s[i] \in Range(t)
    BY <1>1 DEF Range
  <2>1. CASE i < p
    <3>1. i \in 1..(Len(s) - 1) /\ t[i] = s[i]
      BY <1>1, <1>8, <2>1
    <3>. QED  BY <1>9, <3>1 DEF Range
  <2>2. CASE i > p
    <3>1. i - 1 \in 1..(Len(s) - 1) /\ ~(i - 1 < p) /\ (i - 1) + 1 = i
      BY <1>1, <2>2
    <3>2. t[i - 1] = s[i]
      BY <1>8, <3>1
    <3>. QED  BY <1>9, <3>1, <3>2 DEF Range
  <2>. QED  BY <1>1, <2>1, <2>2
<1>. QED  BY <1>6, <1>7, <1>8, <1>10, <1>11 DEF t

-----------------------------------------------------------------------------
(* The buffer stays in order *)

LEMMA OrderedLast ==
  ASSUME NEW s \in Seq(Content), OldFirst(s), NEW x \in Content,
         x = First => Second \notin Range(s)
  PROVE  OldFirst(InsertAt(s, Len(s) + 1, x))
<1>. DEFINE t == InsertAt(s, Len(s) + 1, x)
            n == Len(s)
<1>1. n \in Nat /\ DOMAIN s = 1..n
  BY LenProperties
<1>2. n + 1 \in 1..(Len(s) + 1)
  BY <1>1
<1>3. /\ t \in Seq(Content) /\ Len(t) = n + 1
      /\ \A i \in 1..(n + 1) :
           t[i] = IF i < n + 1 THEN s[i] ELSE IF i = n + 1 THEN x ELSE s[i - 1]
  BY <1>2, Inserted
<1>. HIDE DEF t, n
<1>4. DOMAIN t = 1..(n + 1)
  BY <1>3, LenProperties
<1>5. (\A i \in 1..n : t[i] = s[i]) /\ t[n + 1] = x
  BY <1>1, <1>3
<1>6. ASSUME NEW i \in 1..(n + 1), NEW j \in 1..(n + 1), t[i] = First, t[j] = Second
      PROVE  i < j
  <2>1. CASE i \in 1..n /\ j \in 1..n
    BY <1>1, <1>5, <1>6, <2>1 DEF OldFirst
  <2>2. CASE i = n + 1 /\ j \in 1..n
    BY <1>1, <1>5, <1>6, <2>2 DEF Range
  <2>3. CASE i \in 1..n /\ j = n + 1
    BY <1>1, <2>3
  <2>4. CASE i = n + 1 /\ j = n + 1
    BY <1>6, <2>4, ContentsAssumption
  <2>. QED  BY <1>1, <2>1, <2>2, <2>3, <2>4
<1>. QED  BY <1>4, <1>6 DEF OldFirst, t, n

LEMMA OrderedRemove ==
  ASSUME NEW s \in Seq(Content), OldFirst(s), NEW p \in 1..Len(s)
  PROVE  /\ OldFirst(RemoveAt(s, p))
         /\ p = 1 /\ s[p] = Second => First \notin Range(s)
<1>. DEFINE t == RemoveAt(s, p)
            At(i) == IF i < p THEN i ELSE i + 1
<1>1. Len(s) \in Nat /\ DOMAIN s = 1..Len(s)
  BY LenProperties
<1>2. /\ t \in Seq(Content) /\ Len(t) = Len(s) - 1
      /\ \A i \in 1..(Len(s) - 1) : t[i] = s[At(i)]
  BY Removed
<1>3. DOMAIN t = 1..(Len(s) - 1)
  BY <1>2, LenProperties
<1>. HIDE DEF t
<1>4. ASSUME NEW i \in 1..(Len(s) - 1), NEW j \in 1..(Len(s) - 1),
             t[i] = First, t[j] = Second
      PROVE  i < j
  <2>1. At(i) \in 1..Len(s) /\ At(j) \in 1..Len(s)
    BY <1>1
  <2>2. s[At(i)] = First /\ s[At(j)] = Second
    BY <1>2, <1>4
  <2>3. At(i) < At(j)
    BY <1>1, <2>1, <2>2 DEF OldFirst
  <2>. QED  BY <1>1, <2>3
<1>5. p = 1 /\ s[p] = Second => First \notin Range(s)
  BY <1>1 DEF OldFirst, Range
<1>. QED  BY <1>3, <1>4, <1>5 DEF OldFirst, t

-----------------------------------------------------------------------------
(* Every step *)

LEMMA SenderConstants ==
  /\ MaxFiles \in Nat \ {0} /\ Interval \in Nat \ {0} /\ Initial \in Nat \ {0}
  /\ Cap \in Nat \ {0} /\ MaxFailures \in Nat /\ MaxLen \in Nat
BY BufferAssumption DEF MaxLen

LEMMA SenderTyped ==
  ASSUME SenderTypeOK
  PROVE  /\ buffer \in Seq(Content) /\ Len(buffer) \in Nat /\ Len(buffer) <= MaxLen
         /\ DOMAIN buffer = 1..Len(buffer) /\ failures \in 0..MaxFailures
         /\ \A i \in 1..Len(buffer) : buffer[i] \in Content
<1>1. buffer \in BoundedSeq(Content, MaxLen) /\ MaxLen \in Nat /\ failures \in 0..MaxFailures
  BY SenderConstants DEF SenderTypeOK, Content
<1>2. buffer \in Seq(Content) /\ Len(buffer) <= MaxLen
  BY <1>1, Bounded
<1>. QED  BY <1>1, <1>2, LenProperties, ElementOfSeq

LEMMA LongerTyped == \A c \in 0..Cap : Longer(c) \in 0..Cap
BY SenderConstants DEF Longer

\* The buffer has a file more, f, which is the last one unless the clock was set back.
Inserts(f) ==
  \E i \in 1..(Len(buffer) + 1) :
    (setBack \/ i = Len(buffer) + 1) /\ buffer' = InsertAt(buffer, i, f)

LEMMA NamedInserts ==
  ASSUME SenderTypeOK, NEW f, buffer' \in Named(f)
  PROVE  Inserts(f)
<1>1. Len(buffer) \in Nat
  BY SenderTyped
<1>2. CASE setBack
  BY <1>2 DEF Named, Inserts
<1>3. CASE ~setBack
  <2>1. Len(buffer) + 1 \in 1..(Len(buffer) + 1)
    BY <1>1
  <2>. QED  BY <1>3, <2>1 DEF Named, Inserts
<1>. QED  BY <1>2, <1>3

\* What the buffer is after a step: as it was, with a file more, or without the file
\* that was sent or trimmed.
Removes == /\ stage \in {"trim", "flush"} /\ pos \in 1..Len(buffer)
           /\ buffer' = RemoveAt(buffer, pos)
Changes ==
  \/ buffer' = buffer
  \/ stage = "push" /\ (Inserts(body) \/ Inserts(Torn))
  \/ Removes

LEMMA BufferChanges ==
  ASSUME SenderTypeOK, [SenderNext]_senderVars
  PROVE  Changes
<1>1. pos \in Nat \ {0} /\ Len(buffer) \in Nat /\ MaxFiles \in Nat
  BY SenderTyped, SenderConstants DEF SenderTypeOK
<1>2. ASSUME NEW r \in Reports, Tick(r) PROVE Changes
  BY <1>2 DEF Tick, Changes
<1>3. CASE Sent \/ SentUnlisted \/ SendFails \/ FlushFails \/ FlushSkips \/ FlushEnds
             \/ TrimSkips \/ TrimEnds
             \/ Shutdown \/ Stop \/ ClockSetBack \/ IntakeChanges \/ UNCHANGED senderVars
  BY <1>3 DEF Sent, SentUnlisted, SendFails, FlushFails, FlushSkips, FlushEnds, TrimSkips,
              TrimEnds, Shutdown, Stop, ClockSetBack, IntakeChanges, senderVars, Changes
<1>4. CASE Push \/ PushFails \/ PushUntrimmed
  BY <1>4, NamedInserts DEF Push, PushFails, PushUntrimmed, Changes
<1>5. CASE FlushSent \/ TrimOne
  <2>1. pos \in 1..Len(buffer)
    BY <1>1, <1>5 DEF FlushSent, TrimOne, Excess
  <2>. QED  BY <1>5, <2>1 DEF FlushSent, TrimOne, Removes, Changes
<1>6. CASE Crash
  BY <1>6, NamedInserts DEF Crash, Changes
<1>. QED
  BY <1>2, <1>3, <1>4, <1>5, <1>6 DEF SenderNext, Agent

LEMMA OnlyOne ==
  ASSUME NEW n \in Nat, NEW i \in Nat \ {0}, i <= n, ~(n > 1)
  PROVE  i \in 1..n /\ n = 1
OBVIOUS

\* The clock is taken for right again once no file is there that it named.
LEMMA BackAgain ==
  ASSUME SenderTypeOK, [SenderNext]_senderVars, setBack, ~setBack'
  PROVE  Removes /\ Len(buffer) = 1
<1>1. FlushSent
  BY DEF SenderNext, Agent, senderVars, Tick, Sent, SentUnlisted, SendFails, Push, PushFails,
         PushUntrimmed, TrimOne, TrimSkips, TrimEnds, FlushFails, FlushSkips, FlushEnds,
         Shutdown, Stop, Crash, ClockSetBack, IntakeChanges
<1>2. pos \in Nat \ {0} /\ Len(buffer) \in Nat
  BY SenderTyped, SenderConstants DEF SenderTypeOK
<1>3. pos <= Len(buffer) /\ ~(Len(buffer) > 1)
  BY <1>1, Zenon DEF FlushSent
<1>4. pos \in 1..Len(buffer) /\ Len(buffer) = 1
  BY <1>2, <1>3, OnlyOne, Zenon
<1>5. stage \in {"trim", "flush"} /\ buffer' = RemoveAt(buffer, pos)
  BY <1>1 DEF FlushSent
<1>. QED  BY <1>4, <1>5, Zenon DEF Removes

LEMMA StepOrdered ==
  ASSUME SenderTypeOK, BodyInv, StoreInv, [SenderNext]_senderVars
  PROVE  (setBack' \/ OldFirst(buffer')) /\ buffer' \in Seq(Content)
<1>. USE SenderTyped
<1>1. Changes /\ (setBack \/ OldFirst(buffer))
  BY BufferChanges DEF StoreInv
<1>2. ASSUME Inserts(body), stage = "push"
      PROVE  buffer' \in Seq(Content) /\ (setBack \/ OldFirst(buffer'))
  <2>1. body \in Content /\ (body = First => Second \notin Range(buffer))
    BY <1>2 DEF BodyInv, StoreInv, Files, Content
  <2>2. PICK i \in 1..(Len(buffer) + 1) :
           (setBack \/ i = Len(buffer) + 1) /\ buffer' = InsertAt(buffer, i, body)
    BY <1>2 DEF Inserts
  <2>. QED  BY <1>1, <2>1, <2>2, Inserted, OrderedLast
<1>3. ASSUME Inserts(Torn)
      PROVE  buffer' \in Seq(Content) /\ (setBack \/ OldFirst(buffer'))
  <2>1. Torn \in Content /\ Torn # First
    BY ContentsAssumption DEF Content
  <2>2. PICK i \in 1..(Len(buffer) + 1) :
           (setBack \/ i = Len(buffer) + 1) /\ buffer' = InsertAt(buffer, i, Torn)
    BY <1>3 DEF Inserts
  <2>. QED  BY <1>1, <2>1, <2>2, Inserted, OrderedLast
<1>4. CASE Removes
  <2>1. /\ buffer' \in Seq(Content) /\ Len(buffer') = Len(buffer) - 1
        /\ OldFirst(buffer) => OldFirst(buffer')
    BY <1>4, OrderedRemove, Removed DEF Removes
  <2>2. ASSUME setBack, ~setBack' PROVE OldFirst(buffer')
    <3>1. Len(buffer') = 0
      BY <2>1, <2>2, BackAgain
    <3>2. DOMAIN buffer' = {}
      BY <2>1, <3>1, LenProperties
    <3>. QED  BY <3>2 DEF OldFirst
  <2>. QED  BY <1>1, <2>1, <2>2
<1>5. ASSUME ~Removes
      PROVE  setBack => setBack'
  BY <1>5, BackAgain
<1>6. CASE buffer' = buffer
  <2>1. setBack \/ OldFirst(buffer')
    BY <1>1, <1>6
  <2>2. ASSUME setBack, ~setBack' PROVE FALSE
    <3>1. Removes
      BY <2>2, BackAgain
    <3>2. Len(buffer') = Len(buffer) - 1 /\ Len(buffer) \in Nat
      BY <3>1, Removed DEF Removes
    <3>. QED  BY <1>6, <3>2
  <2>. QED  BY <1>6, <2>1, <2>2
<1>. QED  BY <1>1, <1>2, <1>3, <1>4, <1>5, <1>6 DEF Changes

LEMMA BufferIsSeq ==
  ASSUME SenderTypeOK, BodyInv, StoreInv, [SenderNext]_senderVars
  PROVE  buffer' \in Seq(Content) /\ Len(buffer') \in Nat
BY StepOrdered, LenProperties

\* A file that leaves makes room.
LEMMA RoomGrows ==
  ASSUME SenderTypeOK, RoomInv, stage \in {"trim", "flush"}, UNCHANGED <<stage, pos, failures>>,
         pos \in 1..Len(buffer), Len(buffer') = Len(buffer) - 1
  PROVE  RoomInv'
<1>1. Len(buffer) \in Nat /\ failures \in Nat /\ MaxFiles \in Nat
  BY SenderTyped, SenderConstants
<1>. QED  BY <1>1 DEF RoomInv

LEMMA StepRoom ==
  ASSUME SenderTypeOK, BodyInv, StoreInv, RoomInv, [SenderNext]_senderVars
  PROVE  RoomInv'
<1>. USE SenderTyped, SenderConstants DEF RoomInv
<1>0. pos \in Nat \ {0}
  BY DEF SenderTypeOK
<1>1. ASSUME NEW r \in Reports, Tick(r) PROVE RoomInv'
  BY <1>1 DEF Tick
<1>2. CASE Sent
  BY <1>2 DEF Sent
<1>3. CASE SendFails
  BY <1>3 DEF SendFails
<1>n. ASSUME NEW f \in Content, buffer' \in Named(f) PROVE Len(buffer') = Len(buffer) + 1
  BY <1>n, NamedInserts, Inserted DEF Inserts
<1>t. Torn \in Content /\ (stage = "push" => body \in Content)
  BY DEF BodyInv, Content
<1>4. CASE Push
  <2>1. Len(buffer') = Len(buffer) + 1
    BY <1>4, <1>n, <1>t DEF Push
  <2>. QED  BY <1>4, <2>1 DEF Push
<1>5. CASE PushFails
  <2>1. Len(buffer') <= Len(buffer) + 1 /\ Len(buffer') \in Nat
    BY <1>5, <1>n, <1>t DEF PushFails
  <2>. QED  BY <1>5, <2>1 DEF PushFails, Buffered
<1>6. CASE TrimOne
  <2>1. pos \in 1..Len(buffer) /\ buffer' = RemoveAt(buffer, pos)
    BY <1>0, <1>6 DEF TrimOne, Excess
  <2>2. Len(buffer') = Len(buffer) - 1
    BY <2>1, Removed, Zenon
  <2>3. stage = "trim" /\ UNCHANGED <<stage, pos, failures>>
    BY <1>6 DEF TrimOne
  <2>. QED  BY <2>1, <2>2, <2>3, RoomGrows
<1>7. CASE FlushSent
  <2>1. pos \in 1..Len(buffer) /\ buffer' = RemoveAt(buffer, pos)
    BY <1>0, <1>7 DEF FlushSent
  <2>2. Len(buffer') = Len(buffer) - 1
    BY <2>1, Removed, Zenon
  <2>3. stage = "flush" /\ UNCHANGED <<stage, pos, failures>>
    BY <1>7 DEF FlushSent
  <2>. QED  BY <2>1, <2>2, <2>3, RoomGrows
<1>8. CASE FlushFails
  BY <1>8 DEF FlushFails
<1>9. CASE FlushSkips
  BY <1>0, <1>9 DEF FlushSkips
<1>10. CASE FlushEnds
  BY <1>10 DEF FlushEnds
<1>11. CASE Shutdown
  BY <1>11 DEF Shutdown, Restarted
<1>12. CASE Stop
  <2>1. UNCHANGED <<buffer, stage, pos>> /\ failures' = failures + 1
    BY <1>12 DEF Stop
  <2>2. Len(buffer) \in Nat /\ failures \in Nat /\ pos \in Nat /\ MaxFiles \in Nat
    BY <1>0
  <2>. QED  BY <2>1, <2>2
<1>13. CASE Crash
  <2>1. Len(buffer') <= Len(buffer) + (IF stage = "push" THEN 1 ELSE 0) /\ Len(buffer') \in Nat
    BY <1>13, <1>n, <1>t DEF Crash
  <2>. QED  BY <1>13, <2>1 DEF Crash, Restarted
<1>14. CASE IntakeChanges
  BY <1>14 DEF IntakeChanges
<1>15. CASE UNCHANGED senderVars
  BY <1>15 DEF senderVars
<1>16. CASE SentUnlisted
  BY <1>16 DEF SentUnlisted
<1>17. CASE PushUntrimmed
  <2>1. Len(buffer') = Len(buffer) + 1
    BY <1>17, <1>n, <1>t DEF PushUntrimmed
  <2>. QED  BY <1>17, <2>1 DEF PushUntrimmed, Buffered
<1>18. CASE TrimSkips
  BY <1>0, <1>18 DEF TrimSkips
<1>19. CASE TrimEnds
  BY <1>0, <1>19 DEF TrimEnds, Excess, Buffered
<1>20. CASE ClockSetBack
  BY <1>20 DEF ClockSetBack
<1>. QED
  BY <1>1, <1>2, <1>3, <1>4, <1>5, <1>6, <1>7, <1>8, <1>9, <1>10, <1>11, <1>12, <1>13,
     <1>14, <1>15, <1>16, <1>17, <1>18, <1>19, <1>20 DEF SenderNext, Agent

LEMMA StepBody ==
  ASSUME SenderTypeOK, BodyInv, [SenderNext]_senderVars
  PROVE  BodyInv'
<1>1. ASSUME NEW r \in Reports, Tick(r) PROVE BodyInv'
  <2>1. body' = r /\ stage' \in {"send", "push"} /\ made' = made \cup Marked(r)
    BY <1>1 DEF Tick
  <2>2. r = First => Second \notin made'
    BY <1>1, <2>1, ContentsAssumption DEF Tick, Marked
  <2>. QED  BY <2>1, <2>2 DEF BodyInv
<1>2. CASE Sent
  BY <1>2, ContentsAssumption DEF Sent, BodyInv, Marked
<1>3. CASE SendFails
  BY <1>3, ContentsAssumption DEF SendFails, BodyInv, Marked
<1>4. CASE Push
  BY <1>4, ContentsAssumption DEF Push, BodyInv, Marked
<1>5. CASE PushFails
  BY <1>5, ContentsAssumption DEF PushFails, Buffered, BodyInv, Marked
<1>6. CASE TrimOne \/ TrimSkips \/ TrimEnds
  BY <1>6, ContentsAssumption DEF TrimOne, TrimSkips, TrimEnds, Buffered, BodyInv, Marked
<1>7. CASE FlushSent
  BY <1>7, ContentsAssumption DEF FlushSent, BodyInv, Marked
<1>8. CASE FlushFails
  BY <1>8, ContentsAssumption DEF FlushFails, BodyInv, Marked
<1>9. CASE FlushSkips
  BY <1>9, ContentsAssumption DEF FlushSkips, BodyInv, Marked
<1>10. CASE FlushEnds
  BY <1>10, ContentsAssumption DEF FlushEnds, BodyInv, Marked
<1>11. CASE Shutdown
  BY <1>11, ContentsAssumption DEF Shutdown, Restarted, BodyInv, Marked
<1>12. CASE Stop
  BY <1>12, ContentsAssumption DEF Stop, BodyInv, Marked
<1>13. CASE Crash
  BY <1>13, ContentsAssumption DEF Crash, Restarted, BodyInv, Marked
<1>14. CASE IntakeChanges
  BY <1>14, ContentsAssumption DEF IntakeChanges, BodyInv, Marked
<1>15. CASE UNCHANGED senderVars
  BY <1>15 DEF senderVars, BodyInv
<1>16. CASE SentUnlisted \/ PushUntrimmed
  BY <1>16, ContentsAssumption DEF SentUnlisted, PushUntrimmed, Buffered, BodyInv, Marked
<1>17. CASE ClockSetBack
  BY <1>17 DEF ClockSetBack, BodyInv
<1>. QED
  BY <1>1, <1>2, <1>3, <1>4, <1>5, <1>6, <1>7, <1>8, <1>9, <1>10, <1>11, <1>12, <1>13,
     <1>14, <1>15, <1>16, <1>17
     DEF SenderNext, Agent

LEMMA StepStore ==
  ASSUME SenderTypeOK, BodyInv, StoreInv, [SenderNext]_senderVars
  PROVE  StoreInv'
<1>. USE SenderTyped
<1>1. made \subseteq made'
  BY DEF SenderNext, Agent, senderVars, Tick, Sent, SentUnlisted, SendFails, Push, PushFails,
         PushUntrimmed, TrimOne, TrimSkips, TrimEnds, FlushSent, FlushFails, FlushSkips,
         FlushEnds, Shutdown, Stop, Crash, ClockSetBack, IntakeChanges
<1>2. Range(buffer') \subseteq Range(buffer) \cup {body, Torn}
  <2>0. Changes
    BY BufferChanges
  <2>1. CASE buffer' = buffer
    BY <2>1
  <2>2. CASE stage = "push" /\ Inserts(body)
    <3>1. body \in Content
      BY <2>2 DEF BodyInv, Content
    <3>. QED  BY <2>2, <3>1, Inserted DEF Inserts
  <2>3. CASE Inserts(Torn)
    <3>1. Torn \in Content
      BY DEF Content
    <3>. QED  BY <2>3, <3>1, Inserted DEF Inserts
  <2>4. CASE Removes
    BY <2>4, Removed DEF Removes
  <2>. QED  BY <2>0, <2>1, <2>2, <2>3, <2>4 DEF Changes
<1>3. Range(buffer) \cap {First, Second} \subseteq made
  BY DEF StoreInv, Files
<1>4. {body, Torn} \cap {First, Second} \subseteq made
  BY ContentsAssumption DEF BodyInv, Marked
<1>5. Range(buffer') \cap {First, Second} \subseteq made'
  BY <1>1, <1>2, <1>3, <1>4
<1>. QED  BY <1>5, StepOrdered DEF StoreInv, Files

LEMMA StepKept ==
  ASSUME SenderTypeOK, BodyInv, MarkKept, [SenderNext]_senderVars
  PROVE  MarkKept'
<1>. USE SenderTyped DEF MarkKept, Files
<1>1. ASSUME NEW r \in Reports, Tick(r) PROVE MarkKept'
  <2>1. made' = made \cup Marked(r) /\ body' = r /\ body = None
    BY <1>1 DEF Tick, BodyInv
  <2>. QED  BY <1>1, <2>1, ContentsAssumption DEF Tick, Marked
<1>2. CASE Sent
  BY <1>2 DEF Sent, Marked
<1>3. CASE SendFails
  BY <1>3 DEF SendFails
<1>n. ASSUME NEW f \in Content, buffer' \in Named(f)
      PROVE  Range(buffer') = Range(buffer) \cup {f}
  BY <1>n, NamedInserts, Inserted DEF Inserts
<1>t. Torn \in Content /\ (stage = "push" => body \in Content)
  BY DEF BodyInv, Content
<1>4. CASE Push
  <2>1. Range(buffer') = Range(buffer) \cup {body}
    BY <1>4, <1>n, <1>t DEF Push
  <2>. QED  BY <1>4, <2>1 DEF Push, Marked
<1>5. CASE PushFails
  <2>1. Range(buffer) \subseteq Range(buffer')
    BY <1>5, <1>n, <1>t DEF PushFails
  <2>. QED  BY <1>5, <2>1 DEF PushFails, Buffered, Marked
<1>6. CASE TrimOne
  <2>1. pos \in 1..Len(buffer) /\ buffer' = RemoveAt(buffer, pos)
    BY <1>6, SenderConstants DEF TrimOne, Excess, SenderTypeOK
  <2>2. Range(buffer) \subseteq Range(buffer') \cup {buffer[pos]}
    BY <2>1, Removed
  <2>3. /\ excused' = excused \cup ({buffer[pos]} \cap {First, Second})
        /\ made' = made /\ arrived' = arrived /\ body' = body
    BY <1>6 DEF TrimOne, Marked
  <2>. QED  BY <2>2, <2>3 DEF SenderTypeOK, Marked
<1>7. CASE FlushSent
  <2>1. pos \in 1..Len(buffer) /\ buffer' = RemoveAt(buffer, pos)
    BY <1>7, SenderConstants DEF FlushSent, SenderTypeOK
  <2>2. Range(buffer) \subseteq Range(buffer') \cup {buffer[pos]}
    BY <2>1, Removed
  <2>3. /\ arrived' = arrived \cup ({buffer[pos]} \cap {First, Second})
        /\ made' = made /\ excused' = excused /\ body' = body
    BY <1>7 DEF FlushSent, Marked
  <2>. QED  BY <2>2, <2>3 DEF SenderTypeOK, Marked
<1>8. CASE FlushFails
  BY <1>8 DEF FlushFails
<1>9. CASE FlushSkips
  BY <1>9 DEF FlushSkips
<1>10. CASE FlushEnds
  BY <1>10 DEF FlushEnds
<1>11. CASE Shutdown
  BY <1>11, ContentsAssumption DEF Shutdown, Restarted, BodyInv, Marked
<1>12. CASE Stop
  BY <1>12 DEF Stop
<1>13. CASE Crash
  <2>1. Range(buffer) \subseteq Range(buffer')
    BY <1>13, <1>n, <1>t DEF Crash
  <2>. QED  BY <1>13, <2>1 DEF Crash, Marked
<1>14. CASE IntakeChanges
  BY <1>14 DEF IntakeChanges
<1>15. CASE UNCHANGED senderVars
  BY <1>15 DEF senderVars
<1>16. CASE SentUnlisted
  BY <1>16 DEF SentUnlisted, Marked
<1>17. CASE PushUntrimmed
  <2>1. Range(buffer') = Range(buffer) \cup {body}
    BY <1>17, <1>n, <1>t DEF PushUntrimmed
  <2>. QED  BY <1>17, <2>1 DEF PushUntrimmed, Buffered, Marked
<1>18. CASE TrimSkips
  BY <1>18 DEF TrimSkips
<1>19. CASE TrimEnds
  BY <1>19, ContentsAssumption DEF TrimEnds, Buffered, BodyInv, Marked
<1>20. CASE ClockSetBack
  BY <1>20 DEF ClockSetBack
<1>. QED
  BY <1>1, <1>2, <1>3, <1>4, <1>5, <1>6, <1>7, <1>8, <1>9, <1>10, <1>11, <1>12, <1>13,
     <1>14, <1>15, <1>16, <1>17, <1>18, <1>19, <1>20
     DEF SenderNext, Agent

LEMMA SenderStepTyped ==
  ASSUME SenderTypeOK, BodyInv, RoomInv, StoreInv, [SenderNext]_senderVars
  PROVE  SenderTypeOK'
<1>. USE DEF backoff
<1>. DEFINE FilesTyped == buffer \in BoundedSeq(Reports \cup {Torn}, MaxLen)
            Rest ==
              /\ stage \in {"idle", "send", "push", "trim", "flush"}
              /\ made \subseteq {First, Second}
              /\ arrived \subseteq made /\ excused \subseteq made
              /\ body \in Reports \cup {None} /\ pos \in 1..(MaxLen + 1)
              /\ cur \in 0..Cap /\ wait \in 0..Cap /\ failures \in 0..MaxFailures
              /\ failed \in BOOLEAN /\ stopping \in BOOLEAN /\ up \in BOOLEAN
              /\ setBack \in BOOLEAN
<1>. SUFFICES Rest'
  <2>1. buffer' \in Seq(Content) /\ Len(buffer') \in Nat
    BY BufferIsSeq
  <2>. SUFFICES ASSUME Rest' PROVE FilesTyped'
    BY DEF SenderTypeOK
  <2>2. Len(buffer') <= MaxLen
    <3>1. Len(buffer') <= MaxFiles + failures' + (IF stage' = "trim" THEN 1 ELSE 0)
      BY StepRoom DEF RoomInv
    <3>2. failures' \in 0..MaxFailures
      OBVIOUS
    <3>. QED  BY <2>1, <3>1, <3>2, SenderConstants DEF MaxLen
  <2>. QED  BY <2>1, <2>2, Bounded, SenderConstants DEF Content
<1>0. Rest
  BY DEF SenderTypeOK
<1>. HIDE DEF FilesTyped
<1>1. ASSUME NEW r \in Reports, Tick(r) PROVE Rest'
  <2>1. wait' \in 0..Cap
    <3>1. PICK u \in 0..Interval : wait' = IF wait > u THEN wait - u ELSE 0
      BY <1>0, <1>1, SenderConstants DEF Tick
    <3>. QED  BY <1>0, <3>1, SenderConstants
  <2>2. failed' \in BOOLEAN
    BY <1>0, <1>1 DEF Tick
  <2>. QED  BY <1>0, <1>1, <2>1, <2>2 DEF Tick, Marked
<1>2. CASE Sent
  <2>1. cur' \in 0..Cap /\ wait' \in 0..Cap /\ pos' \in 1..(MaxLen + 1)
    BY <1>0, <1>2, SenderConstants DEF Sent, recordSuccess
  <2>. QED  BY <1>0, <1>2, <2>1 DEF Sent, BodyInv
<1>3. CASE SendFails
  BY <1>0, <1>3 DEF SendFails, BodyInv
<1>4. CASE Push
  <2>1. pos' \in 1..(MaxLen + 1)
    BY <1>4, SenderConstants DEF Push
  <2>. QED  BY <1>0, <1>4, <2>1 DEF Push
<1>5. CASE PushFails
  <2>1. cur' \in 0..Cap /\ wait' \in 0..Cap
    BY <1>0, <1>5, LongerTyped DEF PushFails, Buffered, recordFailure
  <2>2. failures' \in 0..MaxFailures
    BY <1>0, <1>5, SenderConstants DEF PushFails
  <2>. QED  BY <1>0, <1>5, <2>1, <2>2 DEF PushFails, Buffered, BodyInv
<1>6. CASE TrimOne
  <2>1. Marked(buffer[pos]) \subseteq made
    <3>1. pos \in 1..Len(buffer) /\ DOMAIN buffer = 1..Len(buffer)
      BY <1>0, <1>6, SenderTyped, SenderConstants DEF TrimOne, Excess
    <3>2. buffer[pos] \in Files
      BY <3>1 DEF Files, Range
    <3>. QED  BY <3>2 DEF StoreInv, Marked
  <2>. QED  BY <1>0, <1>6, <2>1 DEF TrimOne
<1>7. CASE FlushSent
  <2>1. Marked(buffer[pos]) \subseteq made
    <3>1. pos \in 1..Len(buffer) /\ DOMAIN buffer = 1..Len(buffer)
      BY <1>0, <1>7, SenderTyped, SenderConstants DEF FlushSent
    <3>2. buffer[pos] \in Files
      BY <3>1 DEF Files, Range
    <3>. QED  BY <3>2 DEF StoreInv, Marked
  <2>2. setBack' \in BOOLEAN
    BY <1>0, <1>7, Zenon DEF FlushSent
  <2>. QED  BY <1>0, <1>7, <2>1, <2>2 DEF FlushSent
<1>8. CASE FlushFails
  <2>1. Marked(buffer[pos]) \subseteq made
    <3>1. pos \in 1..Len(buffer) /\ DOMAIN buffer = 1..Len(buffer)
      BY <1>0, <1>8, SenderTyped, SenderConstants DEF FlushFails
    <3>2. buffer[pos] \in Files
      BY <3>1 DEF Files, Range
    <3>. QED  BY <3>2 DEF StoreInv, Marked
  <2>2. cur' \in 0..Cap /\ wait' \in 0..Cap
    BY <1>0, <1>8, LongerTyped DEF FlushFails, recordFailure
  <2>3. pos' \in 1..(MaxLen + 1)
    BY <1>0, <1>8, SenderConstants DEF FlushFails
  <2>. QED  BY <1>0, <1>8, <2>1, <2>2, <2>3 DEF FlushFails
<1>9. CASE FlushSkips
  <2>1. Marked(buffer[pos]) \subseteq made
    <3>1. pos \in 1..Len(buffer) /\ DOMAIN buffer = 1..Len(buffer)
      BY <1>0, <1>9, SenderTyped, SenderConstants DEF FlushSkips
    <3>2. buffer[pos] \in Files
      BY <3>1 DEF Files, Range
    <3>. QED  BY <3>2 DEF StoreInv, Marked
  <2>2. failures' \in 0..MaxFailures /\ pos' \in 1..(MaxLen + 1)
    BY <1>0, <1>9, SenderTyped, SenderConstants DEF FlushSkips
  <2>. QED  BY <1>0, <1>9, <2>1, <2>2 DEF FlushSkips
<1>10. CASE FlushEnds
  <2>1. pos' \in 1..(MaxLen + 1)
    BY <1>0, <1>10, SenderConstants DEF FlushEnds
  <2>. QED  BY <1>0, <1>10, <2>1 DEF FlushEnds
<1>11. CASE Shutdown
  <2>1. cur' \in 0..Cap /\ wait' \in 0..Cap /\ pos' \in 1..(MaxLen + 1)
    BY <1>0, <1>11, SenderConstants DEF Shutdown, Restarted
  <2>. QED  BY <1>0, <1>11, <2>1 DEF Shutdown, Restarted
<1>12. CASE Stop
  <2>1. failures' \in 0..MaxFailures
    BY <1>0, <1>12, SenderConstants DEF Stop
  <2>. QED  BY <1>0, <1>12, <2>1 DEF Stop
<1>13. CASE Crash
  <2>1. cur' \in 0..Cap /\ wait' \in 0..Cap /\ pos' \in 1..(MaxLen + 1)
    BY <1>0, <1>13, SenderConstants DEF Crash, Restarted
  <2>2. failures' \in 0..MaxFailures
    BY <1>0, <1>13, SenderConstants DEF Crash
  <2>. QED  BY <1>0, <1>13, <2>1, <2>2 DEF Crash, Restarted, BodyInv
<1>14. CASE IntakeChanges
  <2>1. up' \in BOOLEAN
    BY <1>0, <1>14 DEF IntakeChanges
  <2>. QED  BY <1>0, <1>14, <2>1 DEF IntakeChanges
<1>15. CASE UNCHANGED senderVars
  BY <1>0, <1>15 DEF senderVars
<1>16. CASE SentUnlisted
  <2>1. cur' \in 0..Cap /\ wait' \in 0..Cap /\ failures' \in 0..MaxFailures
    BY <1>0, <1>16, SenderConstants DEF SentUnlisted, recordSuccess
  <2>. QED  BY <1>0, <1>16, <2>1 DEF SentUnlisted, BodyInv
<1>17. CASE PushUntrimmed
  <2>1. cur' \in 0..Cap /\ wait' \in 0..Cap
    BY <1>0, <1>17, LongerTyped DEF PushUntrimmed, Buffered, recordFailure
  <2>2. failures' \in 0..MaxFailures
    BY <1>0, <1>17, SenderConstants DEF PushUntrimmed
  <2>. QED  BY <1>0, <1>17, <2>1, <2>2 DEF PushUntrimmed, Buffered
<1>18. CASE TrimSkips
  <2>1. failures' \in 0..MaxFailures /\ pos' \in 1..(MaxLen + 1)
    BY <1>0, <1>18, SenderConstants DEF TrimSkips, RoomInv, MaxLen
  <2>. QED  BY <1>0, <1>18, <2>1 DEF TrimSkips
<1>19. CASE TrimEnds
  <2>1. cur' \in 0..Cap /\ wait' \in 0..Cap
    BY <1>0, <1>19, LongerTyped DEF TrimEnds, Buffered, recordFailure
  <2>2. pos' \in 1..(MaxLen + 1)
    BY <1>0, <1>19, SenderConstants DEF TrimEnds
  <2>. QED  BY <1>0, <1>19, <2>1, <2>2 DEF TrimEnds, Buffered
<1>20. CASE ClockSetBack
  BY <1>0, <1>20 DEF ClockSetBack
<1>. QED
  BY <1>1, <1>2, <1>3, <1>4, <1>5, <1>6, <1>7, <1>8, <1>9, <1>10, <1>11, <1>12, <1>13,
     <1>14, <1>15, <1>16, <1>17, <1>18, <1>19, <1>20
     DEF SenderNext, Agent

-----------------------------------------------------------------------------
(* The theorems *)

LEMMA SenderInitInv == SenderInit => SenderInv
<1>. SUFFICES ASSUME SenderInit PROVE SenderInv
  OBVIOUS
<1>1. buffer \in Seq(Content) /\ Len(buffer) = 0 /\ Range(buffer) = {} /\ DOMAIN buffer = {}
  BY DEF SenderInit, Range
<1>2. buffer \in BoundedSeq(Reports \cup {Torn}, MaxLen)
  <2>1. Len(buffer) <= MaxLen
    BY <1>1, SenderConstants
  <2>. QED  BY <1>1, <2>1, Bounded, SenderConstants DEF Content
<1>3. SenderTypeOK
  <2>1. /\ pos \in 1..(MaxLen + 1) /\ failures \in 0..MaxFailures
        /\ cur \in 0..Cap /\ wait \in 0..Cap
    BY SenderConstants DEF SenderInit
  <2>2. {failed, stopping, up, setBack} \subseteq BOOLEAN
    BY DEF SenderInit
  <2>. QED  BY <1>2, <2>1, <2>2 DEF SenderInit, SenderTypeOK
<1>4. BodyInv
  BY ContentsAssumption DEF SenderInit, BodyInv, Marked
<1>5. RoomInv
  BY <1>1, SenderConstants DEF SenderInit, RoomInv
<1>6. StoreInv /\ MarkKept
  BY <1>1 DEF SenderInit, StoreInv, OldFirst, MarkKept, Files
<1>. QED  BY <1>3, <1>4, <1>5, <1>6 DEF SenderInv

LEMMA SenderInvariance == SenderSpec => []SenderInv
<1>1. SenderInv /\ [SenderNext]_senderVars => SenderInv'
  BY SenderStepTyped, StepBody, StepRoom, StepStore, StepKept DEF SenderInv
<1>. QED  BY SenderInitInv, <1>1, PTL DEF SenderSpec

\* SendOrBuffer, Push, trim, FlushBuffered: a report that was built has arrived, is in the
\* buffer or in hand, or its loss has one of three reasons -- a full buffer, a disk that
\* failed, a process that died with it; and the files on disk never exceed MaxFiles by more
\* than one for each fault and one that is about to be trimmed.
THEOREM ReportsKept == SenderSpec => []BufferSound
<1>1. SenderInv => BufferSound
  BY DEF SenderInv, BufferSound
<1>. QED  BY SenderInvariance, <1>1, PTL

\* trim and FlushBuffered: of two buffered reports the older one leaves the buffer first,
\* unless a file had to be passed over or the wall clock was set back since the buffer was
\* last empty.
THEOREM InOrder == SenderSpec => LeavesInOrder
<1>. DEFINE OlderGoes == ({First, Second} \subseteq Files /\ Second \notin Range(buffer'))
                          => (First \notin Range(buffer') \/ pos > 1 \/ setBack)
<1>1. ASSUME SenderInv, [SenderNext]_senderVars PROVE [OlderGoes]_senderVars
  <2>. SUFFICES ASSUME {First, Second} \subseteq Files, Second \notin Range(buffer'),
                       ~(pos > 1), ~setBack
                PROVE  First \notin Range(buffer')
    OBVIOUS
  <2>0. SenderTypeOK /\ BodyInv /\ OldFirst(buffer) /\ Changes
    BY <1>1, BufferChanges DEF SenderInv, StoreInv
  <2>1. CASE buffer' = buffer
    BY <2>1 DEF Files
  <2>2. CASE stage = "push" /\ Inserts(body)
    <3>1. body \in Content
      BY <2>0, <2>2 DEF BodyInv, Content
    <3>. QED  BY <2>0, <2>2, <3>1, Inserted, SenderTyped DEF Inserts, Files
  <2>3. CASE Inserts(Torn)
    <3>1. Torn \in Content
      BY DEF Content
    <3>. QED  BY <2>0, <2>3, <3>1, Inserted, SenderTyped DEF Inserts, Files
  <2>4. CASE Removes
    <3>1. pos = 1 /\ buffer \in Seq(Content) /\ Len(buffer) \in Nat
      BY <2>0, <2>4, SenderTyped DEF Removes
    <3>2. buffer[pos] = Second
      BY <2>4, <3>1, Removed DEF Removes, Files
    <3>3. First \notin Range(buffer)
      BY <2>0, <2>4, <3>1, <3>2, OrderedRemove DEF Removes
    <3>. QED  BY <3>3 DEF Files
  <2>. QED  BY <2>0, <2>1, <2>2, <2>3, <2>4 DEF Changes
<1>. QED  BY SenderInvariance, <1>1, PTL DEF SenderSpec, LeavesInOrder
=============================================================================
