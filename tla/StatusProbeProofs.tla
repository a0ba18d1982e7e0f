-------------------------- MODULE StatusProbeProofs --------------------------
(***************************************************************************)
(* GET /v1/status is honest (StatusIsHonest) and its probes are fresh      *)
(* (HealthIsFresh), for any number of requests, apps and backends.         *)
(*                                                                         *)
(* The inductive invariant IInv: which probes are under way and how old    *)
(* they are (ProbeInv, ClockInv), what the scan has taken from the history *)
(* of the files (ScanInv), what a test that runs alone finds of its own    *)
(* (AloneInv), where its verdict comes from (VerdictInv) and who owns what *)
(* is in the directory (LitterInv).                                        *)
(***************************************************************************)
EXTENDS StatusProbe, TLAPS

Pcs   == {"idle", "list", "scan", "probe", "dump", "test", "done"} \cup TestPcs
Kinds == {"status", "dump", "revert"}
Requested ==
  [pc : Pcs, kind : Kinds, todo : SUBSET Refs, probes : [Hosts -> Probes \cup {NoEntry}],
   apps : [Refs -> File \cup {NoFile}], health : [Hosts -> BOOLEAN \cup {NoEntry}],
   verdict : BOOLEAN]

Typed ==
  /\ TypeOK
  /\ req \in [Requests -> Requested]
  /\ was \in [Hosts -> [BOOLEAN -> 0..MaxTime]]
  /\ witness \in [Requests -> [Refs -> SUBSET (File \cup {NoFile})]]
  /\ alone \in [Requests -> BOOLEAN] /\ told \in [Requests -> SUBSET BOOLEAN]

\* Probes are under way at "probe" alone, and statusApps has one at a time.
ProbeInv ==
  \A q \in Requests :
    /\ req[q].pc # "probe" => \A h \in Hosts : req[q].probes[h] = NoEntry
    /\ req[q].pc = "dump" => req[q].kind # "status"
    /\ (req[q].pc = "probe" /\ req[q].kind = "status") =>
         \E h \in Hosts : req[q].probes[h] # NoEntry
           /\ \A g \in Hosts \ {h} : req[q].probes[g] = NoEntry

\* When a backend was last seen up and down, and what probes and cache have of it.
ClockInv ==
  /\ \A h \in Hosts : was[h][alive[h]] = now /\ \A v \in BOOLEAN : was[h][v] <= now
  /\ \A h \in Hosts : cache[h] # NoEntry => cache[h].at <= was[h][cache[h].healthy]
  /\ \A q \in Requests, h \in Hosts : req[q].probes[h] # NoEntry =>
       /\ req[q].probes[h].at <= now
       /\ req[q].probes[h].step = "store" => req[q].probes[h].at <= was[h][req[q].probes[h].up]

\* The histories have what there is now, and the scan has taken from them.
ScanInv ==
  \A q \in Requests :
    /\ Active(q) => valid \in told[q] /\ \A r \in Refs : disk[r] \in witness[q][r]
    /\ req[q].pc = "list" => \A r \in Refs : req[q].apps[r] = NoFile
    /\ \A r \in req[q].todo : req[q].apps[r] = NoFile
    /\ req[q].todo # {} =>
         req[q].pc = "scan" \/ (req[q].pc = "probe" /\ req[q].kind = "status")
    /\ (req[q].pc \notin {"idle", "list"} /\ req[q].kind # "revert") =>
         \A r \in Refs \ req[q].todo :
           \/ req[q].apps[r] \in witness[q][r]
           \/ req[q].apps[r] = NoFile /\ (unlisted[q] \/ r \in unread[q])
    /\ req[q].pc \in {"idle", "list"} => rows[q] = {}
    /\ \A r \in req[q].todo \cup rows[q] : \E f \in witness[q][r] : f # NoFile
    /\ (req[q].pc \notin {"idle", "list"} /\ req[q].kind = "dump") =>
         \A r \in Refs \ rows[q] : r \in req[q].todo \/ NoFile \in witness[q][r] \/ unlisted[q]

\* Who tests alone finds what it has put there.
AloneInv ==
  \A q \in Requests : alone[q] =>
    /\ Testing(q) => \A p \in Requests \ {q} : ~Testing(p)
    /\ req[q].pc \in {"mkdir", "read", "scratch"} => wrapper = "full"
    /\ req[q].pc \in {"read", "scratch"} => tmp = TRUE

VerdictInv ==
  \A q \in Requests :
    /\ req[q].verdict => TRUE \in told[q]
    /\ (req[q].pc \in {"scratch", "rmtmp", "rmwrapper"}
         \/ (req[q].pc = "done" /\ req[q].kind = "status"))
         => req[q].verdict \/ FALSE \in told[q] \/ ~alone[q]

\* What is in the directory has an owner.
LitterInv ==
  /\ wrapper \in {"empty", "full"} => \E q \in Requests : Testing(q)
  /\ tmp => \E q \in Requests : req[q].pc \in {"read", "scratch", "rmtmp"}

IInv == Typed /\ ProbeInv /\ ClockInv /\ ScanInv /\ AloneInv /\ VerdictInv /\ LitterInv

-----------------------------------------------------------------------------
(* Types *)

LEMMA Constants ==
  /\ TTL \in Nat \ {0} /\ Dial \in Nat /\ MaxRev \in Nat /\ MaxTime \in Nat
  /\ MaxChanges \in Nat /\ MaxStarts \in Nat
  BY BoundsAssumption

LEMMA IdleTyped ==
  /\ Idle \in Requested
  /\ Idle.pc = "idle" /\ Idle.kind = "status" /\ Idle.todo = {} /\ ~Idle.verdict
  /\ \A h \in Hosts : Idle.probes[h] = NoEntry
  /\ \A r \in Refs : Idle.apps[r] = NoFile
  BY DEF Idle, Requested, Pcs, Kinds

LEMMA ProbeTyped ==
  ASSUME now \in 0..MaxTime
  PROVE  Probe \in Probes /\ Probe # NoEntry /\ Probe.at = now /\ Probe.step = "lookup"
<1>1. Probe \in Probes
  BY DEF Probe, Probes
<1>. QED  BY <1>1, NoneAssumption DEF Probe

LEMMA InitTyped == Init => Typed
<1>. SUFFICES ASSUME Init PROVE Typed
  OBVIOUS
<1>1. disk \in [Refs -> File \cup {NoFile}]
  BY DEF Init
<1>2. req \in [Requests -> Requested]
  BY IdleTyped DEF Init
<1>3. was \in [Hosts -> [BOOLEAN -> 0..MaxTime]]
  BY Constants DEF Init
<1>4. now \in 0..MaxTime /\ changes \in 0..MaxChanges /\ starts \in 0..MaxStarts
  BY Constants DEF Init
<1>5. TypeOK
  BY <1>1, <1>2, <1>4 DEF Init, TypeOK, Requested, Pcs
<1>. QED  BY <1>2, <1>3, <1>5 DEF Init, Typed

LEMMA ReqTyped ==
  ASSUME req' \in [Requests -> Requested]
  PROVE  \A q \in Requests :
           /\ req'[q].pc \in {"idle", "list", "scan", "probe", "dump", "test", "done"}
                \cup TestPcs
           /\ req'[q].todo \subseteq Refs
           /\ req'[q].apps \in [Refs -> File \cup {NoFile}]
  BY DEF Requested, Pcs

\* A request with one field changed.
LEMMA EditPc == \A e \in Requested, to \in Pcs : [e EXCEPT !.pc = to] \in Requested
  BY DEF Requested
LEMMA EditTodo == \A e \in Requested, t \in SUBSET Refs : [e EXCEPT !.todo = t] \in Requested
  BY DEF Requested
LEMMA EditProbes ==
  \A e \in Requested, f \in [Hosts -> Probes
    \cup {NoEntry}] : [e EXCEPT !.probes = f] \in Requested
  BY DEF Requested
LEMMA EditApps ==
  \A e \in Requested, f \in [Refs -> File \cup {NoFile}] : [e EXCEPT !.apps = f] \in Requested
  BY DEF Requested
LEMMA EditHealth ==
  \A e \in Requested, f \in [Hosts -> BOOLEAN
    \cup {NoEntry}] : [e EXCEPT !.health = f] \in Requested
  BY DEF Requested
LEMMA EditVerdict == \A e \in Requested, v \in BOOLEAN : [e EXCEPT !.verdict = v] \in Requested
  BY DEF Requested

\* What a step does to the request it is of: the type and the other requests, and the fields
\* it leaves alone.
Only(q) == req' \in [Requests -> Requested] /\ \A p \in Requests \ {q} : req'[p] = req[p]
SameScan(q) ==
  req'[q].kind = req[q].kind /\ req'[q].todo = req[q].todo /\ req'[q].apps = req[q].apps
SameProbes(q)  == req'[q].probes = req[q].probes
SameVerdict(q) == req'[q].verdict = req[q].verdict

LEMMA MoveEffect ==
  ASSUME Typed, NEW q \in Requests, NEW from, NEW to \in Pcs, Step(q, from, to)
  PROVE  Only(q) /\ req'[q].pc = to /\ SameScan(q) /\ SameProbes(q) /\ SameVerdict(q)
<1>. DEFINE e == [req[q] EXCEPT !.pc = to]
<1>1. req \in [Requests -> Requested] /\ req' = [req EXCEPT ![q] = e]
  BY DEF Step, Typed
<1>2. e \in Requested
  BY <1>1, EditPc
<1>3. req'[q] = e
  BY <1>1
<1>4. Only(q)
  BY <1>1, <1>2 DEF Only
<1>. QED  BY <1>1, <1>3, <1>4 DEF SameScan, SameProbes, SameVerdict, Requested

\* The names os.ReadDir gives.
Listed(error) == IF error THEN {} ELSE {r \in Refs : disk[r] # NoFile}

LEMMA ListEffect ==
  ASSUME Typed, NEW q \in Requests, List(q)
  PROVE  /\ Only(q) /\ SameProbes(q) /\ SameVerdict(q)
         /\ req'[q].pc = "scan" /\ req'[q].todo = Listed(unlisted'[q])
         /\ req'[q].kind = req[q].kind /\ req'[q].apps = req[q].apps
         /\ unlisted' \in [Requests -> BOOLEAN] /\ rows' = rows /\ unread' = unread
         /\ \A p \in Requests \ {q} : unlisted'[p] = unlisted[p]
<1>0. unlisted \in [Requests -> BOOLEAN]
  BY DEF Typed, TypeOK
<1>a. PICK error \in BOOLEAN :
         /\ req' = [req EXCEPT ![q].pc = "scan", ![q].todo = Listed(error)]
         /\ unlisted' = [unlisted EXCEPT ![q] = error]
  BY Zenon DEF List, Listed
<1>b. rows' = rows /\ unread' = unread
  BY DEF List
<1>c. unlisted'[q] = error /\ unlisted' \in [Requests -> BOOLEAN]
      /\ \A p \in Requests \ {q} : unlisted'[p] = unlisted[p]
  BY <1>0, <1>a
<1>d. Listed(error) \subseteq Refs
  BY DEF Listed
<1>. DEFINE e == [req[q] EXCEPT !.pc = "scan"]
            f == [e EXCEPT !.todo = Listed(error)]
<1>1. req \in [Requests -> Requested] /\ req' = [req EXCEPT ![q] = f]
  BY <1>a DEF Typed
<1>2. e \in Requested
  BY <1>1, EditPc DEF Pcs
<1>3. f \in Requested
  BY <1>2, <1>d, EditTodo
<1>4. req'[q] = f
  BY <1>1
<1>5. Only(q)
  BY <1>1, <1>3 DEF Only
<1>6. /\ f.pc = "scan" /\ f.todo = Listed(error) /\ f.kind = req[q].kind /\ f.apps = req[q].apps
      /\ f.probes = req[q].probes /\ f.verdict = req[q].verdict
  BY <1>1 DEF Requested
<1>. QED  BY <1>4, <1>5, <1>6, <1>b, <1>c DEF SameProbes, SameVerdict

\* A file without its text, and one with it.
Unread(q, r) == req' = [req EXCEPT ![q].todo = @ \ {r}]

LEMMA UnreadEffect ==
  ASSUME Typed, NEW q \in Requests, NEW r \in Refs, Unread(q, r)
  PROVE  /\ Only(q) /\ SameProbes(q) /\ SameVerdict(q)
         /\ req'[q].pc = req[q].pc /\ req'[q].todo = req[q].todo \ {r}
         /\ req'[q].kind = req[q].kind /\ req'[q].apps = req[q].apps
<1>. DEFINE e == [req[q] EXCEPT !.todo = req[q].todo \ {r}]
<1>1. req \in [Requests -> Requested] /\ req' = [req EXCEPT ![q] = e]
  BY DEF Unread, Typed
<1>2. e \in Requested
  BY <1>1, EditTodo DEF Requested
<1>3. req'[q] = e
  BY <1>1
<1>4. Only(q)
  BY <1>1, <1>2 DEF Only
<1>. QED  BY <1>1, <1>3, <1>4 DEF SameProbes, SameVerdict, Requested

Reads(q, r) ==
  req' = [req EXCEPT ![q].todo = @ \ {r}, ![q].apps[r] = disk[r],
                     ![q].pc = IF req[q].kind = "status" THEN "probe" ELSE @,
                     ![q].probes = IF req[q].kind = "status"
                                     THEN [@ EXCEPT ![disk[r].host] = Probe] ELSE @]

LEMMA ReadsEffect ==
  ASSUME Typed, NEW q \in Requests, NEW r \in Refs, disk[r] # NoFile, Reads(q, r)
  PROVE  /\ Only(q) /\ SameVerdict(q)
         /\ req'[q].pc = (IF req[q].kind = "status" THEN "probe" ELSE req[q].pc)
         /\ req'[q].todo = req[q].todo \ {r}
         /\ req'[q].probes = (IF req[q].kind = "status"
                                THEN [req[q].probes EXCEPT ![disk[r].host] = Probe]
                                  ELSE req[q].probes)
         /\ req'[q].kind = req[q].kind /\ req'[q].apps = [req[q].apps EXCEPT ![r] = disk[r]]
         /\ disk[r].host \in Hosts
<1>. DEFINE t == req[q].todo \ {r}
            a == [req[q].apps EXCEPT ![r] = disk[r]]
            p == IF req[q].kind = "status" THEN "probe" ELSE req[q].pc
            o == IF req[q].kind = "status"
                   THEN [req[q].probes EXCEPT ![disk[r].host] = Probe] ELSE req[q].probes
            d == [req[q] EXCEPT !.todo = t]
            e == [d EXCEPT !.apps = a]
            f == [e EXCEPT !.pc = p]
            g == [f EXCEPT !.probes = o]
<1>1. req \in [Requests -> Requested] /\ req[q] \in Requested
  BY DEF Typed
<1>2. disk[r] \in File /\ disk[r].host \in Hosts
  BY DEF Typed, TypeOK, File
<1>3. /\ t \in SUBSET Refs /\ a \in [Refs -> File \cup {NoFile}] /\ p \in Pcs
  BY <1>1, <1>2 DEF Requested, Pcs
<1>4. o \in [Hosts -> Probes \cup {NoEntry}]
  BY <1>1, <1>2, ProbeTyped DEF Requested, Typed, TypeOK
<1>5. req' = [req EXCEPT ![q] = g]
  BY <1>1 DEF Reads, Requested
<1>. HIDE DEF t, a, p, o
<1>6. d \in Requested
  BY <1>1, <1>3, EditTodo
<1>7. e \in Requested
  BY <1>3, <1>6, EditApps
<1>8. f \in Requested
  BY <1>3, <1>7, EditPc
<1>9. g \in Requested
  BY <1>4, <1>8, EditProbes
<1>10. req'[q] = g
  BY <1>1, <1>5
<1>11. Only(q)
  BY <1>1, <1>5, <1>9 DEF Only
<1>12. g.todo = t /\ g.apps = a /\ g.pc = p /\ g.probes = o /\ g.kind = req[q].kind
         /\ g.verdict = req[q].verdict
  BY <1>1 DEF Requested
<1>. HIDE DEF g
<1>. QED  BY <1>2, <1>10, <1>11, <1>12 DEF SameVerdict, t, a, p, o

LEMMA ReadFileCases ==
  ASSUME Typed, NEW q \in Requests, ReadFile(q)
  PROVE  \E r \in req[q].todo : r \in Refs
           /\ (Unread(q, r) \/ (disk[r] # NoFile /\ Reads(q, r)))
<1>1. req[q].todo \subseteq Refs
  BY DEF Typed, TypeOK
<1>. QED  BY <1>1, Zenon DEF ReadFile, ReadText, ReadFails, ReadGone, Unread, Reads

Dumped == [h \in Hosts |-> IF h \notin Down /\ \E r \in Refs : disk[r] # NoFile
  /\ disk[r].host = h
                             THEN Probe ELSE NoEntry]

LEMMA DumpEffect ==
  ASSUME Typed, NEW q \in Requests, Dump(q)
  PROVE  /\ Only(q) /\ SameScan(q) /\ SameVerdict(q)
         /\ req'[q].pc = "probe" /\ req'[q].probes = Dumped
         /\ Dumped \in [Hosts -> {Probe, NoEntry}]
<1>. DEFINE e == [req[q] EXCEPT !.pc = "probe"]
            f == [e EXCEPT !.probes = Dumped]
<1>1. req \in [Requests -> Requested] /\ req' = [req EXCEPT ![q] = f]
  BY DEF Dump, Typed, Dumped
<1>2. e \in Requested
  BY <1>1, EditPc DEF Pcs
<1>3. Dumped \in [Hosts -> {Probe, NoEntry}]
  BY DEF Dumped
<1>4. Dumped \in [Hosts -> Probes \cup {NoEntry}]
  BY <1>3, ProbeTyped DEF Typed, TypeOK
<1>5. f \in Requested
  BY <1>2, <1>4, EditProbes
<1>6. req'[q] = f
  BY <1>1
<1>7. Only(q)
  BY <1>1, <1>5 DEF Only
<1>. QED  BY <1>1, <1>3, <1>6, <1>7 DEF SameScan, SameVerdict, Requested

Left(q, h) == {g \in Hosts : req[q].probes[g] # NoEntry} \ {h}

LEMMA ReturnEffect ==
  ASSUME Typed, NEW q \in Requests, NEW h \in Hosts, NEW STATE v, v \in BOOLEAN \cup {NoEntry},
         Return(q, h, v)
  PROVE  /\ Only(q) /\ SameScan(q) /\ SameVerdict(q)
         /\ req'[q].probes = [req[q].probes EXCEPT ![h] = NoEntry]
         /\ req'[q].health[h] = v
         /\ req'[q].pc = IF req[q].kind = "status" THEN "scan"
                         ELSE IF Left(q, h) = {} THEN "done" ELSE req[q].pc
<1>. DEFINE l == [req[q].health EXCEPT ![h] = v]
            o == [req[q].probes EXCEPT ![h] = NoEntry]
            p == IF req[q].kind = "status" THEN "scan"
                 ELSE IF Left(q, h) = {} THEN "done" ELSE req[q].pc
            d == [req[q] EXCEPT !.health = l]
            e == [d EXCEPT !.probes = o]
            f == [e EXCEPT !.pc = p]
<1>1. req \in [Requests -> Requested] /\ req[q] \in Requested
  BY DEF Typed
<1>2. l \in [Hosts -> BOOLEAN \cup {NoEntry}] /\ l[h] = v
  BY <1>1 DEF Requested
<1>3. o \in [Hosts -> Probes \cup {NoEntry}] /\ p \in Pcs
  BY <1>1 DEF Requested, Pcs
<1>4. req' = [req EXCEPT ![q] = f]
  BY <1>1 DEF Return, Requested, Left
<1>. HIDE DEF l, o, p
<1>5. d \in Requested
  BY <1>1, <1>2, EditHealth
<1>6. e \in Requested
  BY <1>3, <1>5, EditProbes
<1>7. f \in Requested
  BY <1>3, <1>6, EditPc
<1>8. req'[q] = f
  BY <1>1, <1>4
<1>9. Only(q)
  BY <1>1, <1>4, <1>7 DEF Only
<1>10. /\ f.health = l /\ f.probes = o /\ f.pc = p
       /\ f.kind = req[q].kind /\ f.todo = req[q].todo /\ f.apps = req[q].apps
       /\ f.verdict = req[q].verdict
  BY <1>1 DEF Requested
<1>. HIDE DEF f
<1>. QED  BY <1>2, <1>8, <1>9, <1>10 DEF SameScan, SameVerdict, p, o

LEMMA ReturnHealth ==
  ASSUME Typed, NEW q \in Requests, NEW h \in Hosts, NEW STATE v, v \in BOOLEAN, Return(q, h, v)
  PROVE  req'[q].health[h] = v
<1>1. v \in BOOLEAN \cup {NoEntry}
  OBVIOUS
<1>. QED  BY <1>1, ReturnEffect

\* A probe that goes on.
LEMMA ProbeEffect ==
  ASSUME Typed, NEW q \in Requests, NEW h \in Hosts, NEW STATE e, e \in Probes,
         req' = [req EXCEPT ![q] = [req[q] EXCEPT !.probes = [req[q].probes EXCEPT ![h] = e]]]
  PROVE  /\ Only(q) /\ SameScan(q) /\ SameVerdict(q) /\ req'[q].pc = req[q].pc
         /\ req'[q].probes = [req[q].probes EXCEPT ![h] = e]
<1>. DEFINE o == [req[q].probes EXCEPT ![h] = e]
            f == [req[q] EXCEPT !.probes = o]
<1>1. req \in [Requests -> Requested] /\ req[q] \in Requested
  BY DEF Typed
<1>2. o \in [Hosts -> Probes \cup {NoEntry}]
  BY <1>1 DEF Requested
<1>. HIDE DEF o
<1>3. f \in Requested
  BY <1>1, <1>2, EditProbes
<1>4. req' = [req EXCEPT ![q] = f]
  BY DEF o
<1>5. Only(q)
  BY <1>1, <1>3, <1>4 DEF Only
<1>6. req'[q] = f
  BY <1>1, <1>4
<1>7. /\ f.probes = o /\ f.pc = req[q].pc /\ f.kind = req[q].kind /\ f.todo = req[q].todo
      /\ f.apps = req[q].apps /\ f.verdict = req[q].verdict
  BY <1>1 DEF Requested
<1>. HIDE DEF f
<1>. QED  BY <1>5, <1>6, <1>7 DEF SameScan, SameVerdict, o

\* The probe of h as it is, and as it is after a step.
LEMMA ProbingTyped ==
  ASSUME Typed, NEW q \in Requests, NEW h \in Hosts, NEW step, Probing(q, h, step)
  PROVE  /\ req[q].pc = "probe" /\ req[q].probes[h] \in Probes /\ req[q].probes[h].step = step
         /\ req[q].probes[h] # NoEntry
         /\ req[q].probes[h].at \in 0..MaxTime /\ req[q].probes[h].up \in BOOLEAN
<1>1. req[q].probes \in [Hosts -> Probes \cup {NoEntry}]
  BY DEF Typed, Requested
<1>2. req[q].probes[h] \in Probes
  BY <1>1 DEF Probing
<1>. QED  BY <1>2 DEF Probing, Probes

Missed(q, h)  == [req[q].probes[h] EXCEPT !.step = "dial"]
Reached(q, h) == [req[q].probes[h] EXCEPT !.step = "store", !.up = alive[h]]

LEMMA MissEffect ==
  ASSUME Typed, NEW q \in Requests, NEW h \in Hosts, Miss(q, h)
  PROVE  /\ Only(q) /\ SameScan(q) /\ SameVerdict(q) /\ req'[q].pc = req[q].pc
         /\ req'[q].probes = [req[q].probes EXCEPT ![h] = Missed(q, h)]
         /\ Missed(q, h) \in Probes /\ Missed(q, h).at = req[q].probes[h].at
         /\ Missed(q, h).step = "dial"
<1>1. req[q].probes[h] \in Probes
  BY ProbingTyped DEF Miss
<1>2. /\ Missed(q, h) \in Probes /\ Missed(q, h).at = req[q].probes[h].at
      /\ Missed(q, h).step = "dial"
  BY <1>1 DEF Missed, Probes
<1>3. req' = [req EXCEPT ![q] = [req[q] EXCEPT !.probes = [req[q].probes EXCEPT ![h] = Missed(q, h)]]]
  BY DEF Miss, Missed, Typed, Requested
<1>. QED  BY <1>2, <1>3, ProbeEffect, Zenon

LEMMA DialledEffect ==
  ASSUME Typed, NEW q \in Requests, NEW h \in Hosts, Dialled(q, h)
  PROVE  /\ Only(q) /\ SameScan(q) /\ SameVerdict(q) /\ req'[q].pc = req[q].pc
         /\ req'[q].probes = [req[q].probes EXCEPT ![h] = Reached(q, h)]
         /\ Reached(q, h) \in Probes /\ Reached(q, h).at = req[q].probes[h].at
         /\ Reached(q, h).step = "store" /\ Reached(q, h).up = alive[h]
<1>1. req[q].probes[h] \in Probes /\ alive[h] \in BOOLEAN
  BY ProbingTyped DEF Dialled, Typed, TypeOK
<1>2. /\ Reached(q, h) \in Probes /\ Reached(q, h).at = req[q].probes[h].at
      /\ Reached(q, h).step = "store" /\ Reached(q, h).up = alive[h]
  BY <1>1 DEF Reached, Probes
<1>3. req' = [req EXCEPT ![q] = [req[q] EXCEPT !.probes = [req[q].probes EXCEPT ![h] = Reached(q, h)]]]
  BY DEF Dialled, Reached, Typed, Requested
<1>. QED  BY <1>2, <1>3, ProbeEffect, Zenon

\* nginx -t reads, and makes its directories.
LEMMA JudgeEffect ==
  ASSUME Typed, NEW q \in Requests, NEW to \in Pcs, NEW STATE v, v \in BOOLEAN,
         req' = [req EXCEPT ![q].pc = to, ![q].verdict = v]
  PROVE  /\ Only(q) /\ SameScan(q) /\ SameProbes(q)
         /\ req'[q].pc = to /\ req'[q].verdict = v
<1>. DEFINE e == [req[q] EXCEPT !.pc = to]
            f == [e EXCEPT !.verdict = v]
<1>1. req \in [Requests -> Requested] /\ req' = [req EXCEPT ![q] = f]
  BY DEF Typed
<1>2. e \in Requested
  BY <1>1, EditPc
<1>3. f \in Requested
  BY <1>2, EditVerdict
<1>4. req'[q] = f
  BY <1>1
<1>5. Only(q)
  BY <1>1, <1>3 DEF Only
<1>. QED  BY <1>1, <1>4, <1>5 DEF SameScan, SameProbes, Requested

LEMMA ReadsEffectTest ==
  ASSUME Typed, NEW q \in Requests, NginxReads(q)
  PROVE  /\ Only(q) /\ SameScan(q) /\ SameProbes(q)
         /\ req'[q].pc = "scratch" /\ (req'[q].verdict <=> (wrapper = "full" /\ valid))
<1>. DEFINE v == wrapper = "full" /\ valid
<1>1. v \in BOOLEAN
  BY Zenon
<1>2. req' = [req EXCEPT ![q].pc = "scratch", ![q].verdict = v]
  BY Zenon DEF NginxReads
<1>. HIDE DEF v
<1>3. Only(q) /\ SameScan(q) /\ SameProbes(q) /\ req'[q].pc = "scratch" /\ req'[q].verdict = v
  BY <1>1, <1>2, JudgeEffect DEF Pcs, TestPcs
<1>. QED  BY <1>3, Zenon DEF v

LEMMA ScratchEffect ==
  ASSUME Typed, NEW q \in Requests, NginxScratch(q)
  PROVE  /\ Only(q) /\ SameScan(q) /\ SameProbes(q)
         /\ req'[q].pc = "rmtmp" /\ (req'[q].verdict <=> (req[q].verdict /\ tmp))
<1>. DEFINE v == req[q].verdict /\ tmp
<1>1. v \in BOOLEAN
  BY Zenon
<1>2. req' = [req EXCEPT ![q].pc = "rmtmp", ![q].verdict = v]
  BY DEF NginxScratch, Typed, Requested
<1>. HIDE DEF v
<1>3. Only(q) /\ SameScan(q) /\ SameProbes(q) /\ req'[q].pc = "rmtmp" /\ req'[q].verdict = v
  BY <1>1, <1>2, JudgeEffect DEF Pcs, TestPcs
<1>. QED  BY <1>3, Zenon DEF v

LEMMA BeginEffect ==
  ASSUME Typed, NEW q \in Requests, NEW kind \in Kinds, Begin(q, kind)
  PROVE  /\ Only(q)
         /\ req'[q].kind = kind /\ req'[q].todo = {} /\ ~req'[q].verdict
         /\ req'[q].pc = (IF kind = "revert" THEN "test" ELSE "list")
         /\ \A h \in Hosts : req'[q].probes[h] = NoEntry
         /\ \A r \in Refs : req'[q].apps[r] = NoFile
<1>. DEFINE p == IF kind = "revert" THEN "test" ELSE "list"
            e == [Idle EXCEPT !.kind = kind]
            f == [e EXCEPT !.pc = p]
<1>1. req \in [Requests -> Requested] /\ req' = [req EXCEPT ![q] = f]
  BY DEF Begin, Typed
<1>2. e \in Requested /\ p \in Pcs
  BY IdleTyped DEF Requested, Pcs
<1>3. f \in Requested
  BY <1>2, EditPc, Zenon
<1>4. req'[q] = f
  BY <1>1
<1>5. Only(q)
  BY <1>1, <1>3 DEF Only
<1>6. /\ f.kind = kind /\ f.pc = p /\ f.todo = Idle.todo /\ f.verdict = Idle.verdict
      /\ f.probes = Idle.probes /\ f.apps = Idle.apps
  BY IdleTyped DEF Requested
<1>. QED  BY <1>4, <1>5, <1>6, IdleTyped

-----------------------------------------------------------------------------
(* The steps in groups: what a handler does before the test, the test, and the world *)

Probed(q, h) == Hit(q, h) \/ Miss(q, h) \/ Dialled(q, h) \/ Store(q, h)
Scanning(q) ==
  List(q) \/ ReadFile(q) \/ Scanned(q) \/ Dump(q) \/ NothingToProbe(q)
    \/ \E h \in Hosts : Probed(q, h)
Running(q) ==
  \/ OpenWrapper(q) \/ FillWrapper(q) \/ Mkdir(q) \/ NginxReads(q) \/ NginxScratch(q)
  \/ Rmtmp(q) \/ RemoveWrapper(q) \/ OpenFails(q) \/ FillFails(q) \/ MkdirFails(q)
Outside ==
  \/ \E r \in Refs : ConfChanges(r)
  \/ ValidityChanges
  \/ \E h \in Hosts : BackendChanges(h)
  \/ Tick

LEMMA NextParts ==
  ASSUME [Next]_vars
  PROVE  \/ \E q \in Requests : Scanning(q) \/ Running(q)
         \/ \E q \in Requests, kind \in Kinds : Begin(q, kind)
         \/ Outside
         \/ UNCHANGED vars
  BY DEF Next, Handler, Scanning, Probed, Running, Outside, Kinds

LEMMA ScanningFrame ==
  ASSUME NEW q \in Requests, Scanning(q)
  PROVE  UNCHANGED <<now, disk, valid, alive, starts, wrapper, tmp, was, witness, alone, told>>
<1>1. CASE List(q) \/ ReadFile(q)
  BY <1>1, Zenon DEF List, ReadFile, world, files, past
<1>2. CASE Scanned(q) \/ Dump(q) \/ NothingToProbe(q)
  BY <1>2, Zenon DEF Scanned, Dump, NothingToProbe, world, files, past
<1>3. ASSUME NEW h \in Hosts, Probed(q, h)
      PROVE  UNCHANGED <<now, disk, valid, alive, starts, wrapper, tmp, was, witness, alone, told>>
  BY <1>3, Zenon DEF Probed, Hit, Miss, Dialled, Store, world, files, past
<1>. QED  BY <1>1, <1>2, <1>3, Zenon DEF Scanning

\* What the scan notes of its own request, and what the other steps leave of it.
LEMMA StillReading ==
  ASSUME NEW q \in Requests, Scanning(q), ~List(q), ~ReadFile(q)
  PROVE  UNCHANGED <<changes, rows, unlisted, unread>>
<1>1. CASE Scanned(q) \/ Dump(q) \/ NothingToProbe(q)
  BY <1>1, Zenon DEF Scanned, Dump, NothingToProbe, reading
<1>2. ASSUME NEW h \in Hosts, Probed(q, h)
      PROVE  UNCHANGED <<changes, rows, unlisted, unread>>
  BY <1>2, Zenon DEF Probed, Hit, Miss, Dialled, Store, reading
<1>. QED  BY <1>1, <1>2, Zenon DEF Scanning

LEMMA RowEffect ==
  ASSUME Typed, NEW q \in Requests, NEW r \in Refs, Row(q, r)
  PROVE  /\ rows' \in [Requests -> SUBSET Refs]
         /\ rows'[q] = IF req[q].kind = "dump" THEN rows[q] \cup {r} ELSE rows[q]
         /\ \A p \in Requests \ {q} : rows'[p] = rows[p]
<1>1. rows \in [Requests -> SUBSET Refs]
  BY DEF Typed, TypeOK
<1>. QED  BY <1>1 DEF Row

LEMMA ReadFileNotes ==
  ASSUME Typed, NEW q \in Requests, ReadFile(q)
  PROVE  \E r \in req[q].todo :
           /\ r \in Refs /\ unlisted' = unlisted
           /\ \/ disk[r] # NoFile /\ Reads(q, r) /\ unread' = unread /\ changes' = changes
              \/ Unread(q, r) /\ disk[r] = NoFile /\ unread' = unread /\ changes' = changes
              \/ /\ Unread(q, r) /\ changes < MaxChanges /\ changes' = changes + 1
                 /\ unread' = [unread EXCEPT ![q] = @ \cup {r}]
           /\ Row(q, r)
<1>1. req[q].todo \subseteq Refs
  BY DEF Typed, TypeOK
<1>. QED  BY <1>1, Zenon DEF ReadFile, ReadText, ReadFails, ReadGone, Unread, Reads

LEMMA ScanningReading ==
  ASSUME Typed, NEW q \in Requests, Scanning(q)
  PROVE  /\ {rows', unread'} \subseteq [Requests -> SUBSET Refs]
         /\ unlisted' \in [Requests -> BOOLEAN] /\ changes' \in 0..MaxChanges
         /\ \A p \in Requests \ {q} :
              rows'[p] = rows[p] /\ unlisted'[p] = unlisted[p] /\ unread'[p] = unread[p]
<1>0. /\ {rows, unread} \subseteq [Requests -> SUBSET Refs] /\ unlisted \in [Requests -> BOOLEAN]
      /\ changes \in 0..MaxChanges /\ MaxChanges \in Nat
  BY Constants DEF Typed, TypeOK
<1>1. CASE List(q)
  <2>1. changes' \in 0..MaxChanges
    BY <1>0, <1>1 DEF List
  <2>. QED  BY <1>0, <1>1, <2>1, ListEffect
<1>2. CASE ReadFile(q)
  <2>1. PICK r \in req[q].todo :
           /\ r \in Refs /\ unlisted' = unlisted
           /\ \/ unread' = unread /\ changes' = changes
              \/ /\ changes < MaxChanges /\ changes' = changes + 1
                 /\ unread' = [unread EXCEPT ![q] = @ \cup {r}]
           /\ Row(q, r)
    BY <1>2, ReadFileNotes
  <2>2. changes' \in 0..MaxChanges
    BY <1>0, <2>1
  <2>3. unread' \in [Requests -> SUBSET Refs] /\ \A p \in Requests \ {q} : unread'[p] = unread[p]
    BY <1>0, <2>1
  <2>. QED  BY <1>0, <2>1, <2>2, <2>3, RowEffect
<1>. QED  BY <1>0, <1>1, <1>2, StillReading

LEMMA ScanningOnly ==
  ASSUME Typed, NEW q \in Requests, Scanning(q)
  PROVE  Only(q) /\ SameVerdict(q)
<1>1. CASE List(q)
  BY <1>1, ListEffect
<1>2. CASE ReadFile(q)
  BY <1>2, ReadFileCases, UnreadEffect, ReadsEffect
<1>3. CASE Scanned(q)
  <2>1. Step(q, "scan", "test") \/ Step(q, "scan", "dump")
    BY <1>3 DEF Scanned
  <2>. QED  BY <2>1, MoveEffect DEF Pcs
<1>4. CASE Dump(q)
  BY <1>4, DumpEffect
<1>5. CASE NothingToProbe(q)
  BY <1>5, MoveEffect DEF NothingToProbe, Pcs
<1>6. ASSUME NEW h \in Hosts, Hit(q, h)
      PROVE  Only(q) /\ SameVerdict(q)
  <2>1. cache[h].healthy \in BOOLEAN /\ Return(q, h, cache[h].healthy)
    BY <1>6 DEF Hit, Fresh, Typed, TypeOK, Entries
  <2>. QED  BY <2>1, ReturnEffect
<1>7. ASSUME NEW h \in Hosts, Miss(q, h) \/ Dialled(q, h)
      PROVE  Only(q) /\ SameVerdict(q)
  BY <1>7, MissEffect, DialledEffect
<1>8. ASSUME NEW h \in Hosts, Store(q, h)
      PROVE  Only(q) /\ SameVerdict(q)
  <2>1. req[q].probes[h].up \in BOOLEAN /\ Return(q, h, req[q].probes[h].up)
    BY <1>8, ProbingTyped DEF Store
  <2>. QED  BY <2>1, ReturnEffect
<1>. QED  BY <1>1, <1>2, <1>3, <1>4, <1>5, <1>6, <1>7, <1>8 DEF Scanning, Probed

LEMMA ScanningCache ==
  ASSUME Typed, NEW q \in Requests, Scanning(q)
  PROVE  cache' \in [Hosts -> Entries \cup {NoEntry}] /\ healthMu' \in BOOLEAN
<1>1. cache \in [Hosts -> Entries \cup {NoEntry}] /\ healthMu \in BOOLEAN
  BY DEF Typed, TypeOK
<1>2. ASSUME NEW h \in Hosts, Store(q, h)
      PROVE  cache' \in [Hosts -> Entries \cup {NoEntry}] /\ healthMu' = healthMu
  <2>1. [healthy |-> req[q].probes[h].up, at |-> Stamp(q, h)] \in Entries
    BY <1>2, ProbingTyped DEF Store, Stamp, Entries
  <2>. QED  BY <1>1, <1>2, <2>1 DEF Store
<1>3. ASSUME NEW h \in Hosts, Hit(q, h) \/ Miss(q, h) \/ Dialled(q, h)
      PROVE  cache' = cache /\ healthMu' \in BOOLEAN
  <2>1. cache' = cache /\ (healthMu' = FALSE \/ healthMu' = healthMu)
    BY <1>3, Zenon DEF Hit, Miss, Dialled, Unlock
  <2>. QED  BY <1>1, <2>1
<1>4. CASE List(q) \/ ReadFile(q) \/ Scanned(q) \/ Dump(q) \/ NothingToProbe(q)
  <2>1. cache' = cache /\ healthMu' = healthMu
    BY <1>4, Zenon DEF List, ReadFile, Scanned, Dump, NothingToProbe
  <2>. QED  BY <1>1, <2>1
<1>. QED  BY <1>1, <1>2, <1>3, <1>4 DEF Scanning, Probed

LEMMA RunningFrame ==
  ASSUME NEW q \in Requests, Running(q)
  PROVE  UNCHANGED <<now, disk, valid, alive, starts, rows, unlisted, unread, healthMu, cache, was,
         witness, told>>
  BY DEF reading, Running, OpenWrapper, FillWrapper, Mkdir, NginxReads, NginxScratch, Rmtmp, RemoveWrapper,
         OpenFails, FillFails, MkdirFails, world, files, past

LEMMA RunningOnly ==
  ASSUME Typed, NEW q \in Requests, Running(q)
  PROVE  Only(q) /\ SameScan(q) /\ SameProbes(q)
<1>1. CASE NginxReads(q) \/ NginxScratch(q)
  BY <1>1, ReadsEffectTest, ScratchEffect
<1>2. CASE ~(NginxReads(q) \/ NginxScratch(q))
  <2>1. \E from, to \in Pcs : Step(q, from, to)
    BY <1>2 DEF Running, OpenWrapper, FillWrapper, Mkdir, Rmtmp, RemoveWrapper,
                OpenFails, FillFails, MkdirFails, Pcs, TestPcs
  <2>. QED  BY <2>1, MoveEffect
<1>. QED  BY <1>1, <1>2

LEMMA RunningTyped ==
  ASSUME Typed, NEW q \in Requests, Running(q)
  PROVE  /\ wrapper' \in {"absent", "empty", "full", "left"} /\ tmp' \in BOOLEAN
         /\ changes' \in 0..MaxChanges /\ alone' \in [Requests -> BOOLEAN]
<1>1. wrapper \in {"absent", "empty", "full", "left"} /\ tmp \in BOOLEAN
      /\ changes \in 0..MaxChanges /\ alone \in [Requests -> BOOLEAN]
  BY DEF Typed, TypeOK
<1>2. CASE OpenWrapper(q)
  BY <1>1, <1>2 DEF OpenWrapper, world
<1>3. CASE OpenFails(q) \/ FillFails(q) \/ MkdirFails(q)
  <2>1. changes' \in 0..MaxChanges
    BY <1>1, <1>3, Constants DEF OpenFails, FillFails, MkdirFails
  <2>2. alone' = [alone EXCEPT ![q] = FALSE]
    BY <1>3 DEF OpenFails, FillFails, MkdirFails
  <2>. QED  BY <1>1, <1>3, <2>1, <2>2 DEF OpenFails, FillFails, MkdirFails, files
<1>4. CASE FillWrapper(q) \/ Mkdir(q) \/ NginxReads(q) \/ NginxScratch(q) \/ Rmtmp(q)
        \/ RemoveWrapper(q)
  BY <1>1, <1>4 DEF FillWrapper, Mkdir, MakeTemp, NginxReads, NginxScratch, Rmtmp, RemoveTemp,
                    RemoveWrapper, world, files, past
<1>. QED  BY <1>2, <1>3, <1>4 DEF Running

LEMMA StepTyped ==
  ASSUME Typed, [Next]_vars
  PROVE  Typed'
<1>1. ASSUME NEW q \in Requests, Scanning(q)
      PROVE  Typed'
  BY <1>1, ScanningFrame, ScanningOnly, ScanningReading, ScanningCache, ReqTyped
     DEF Only, Typed, TypeOK
<1>2. ASSUME NEW q \in Requests, Running(q)
      PROVE  Typed'
  BY <1>2, RunningFrame, RunningOnly, RunningTyped, ReqTyped DEF Only, Typed, TypeOK
<1>3. ASSUME NEW q \in Requests, NEW kind \in Kinds, Begin(q, kind)
      PROVE  Typed'
  <2>1. Only(q)
    BY <1>3, BeginEffect
  <2>2. witness' \in [Requests -> [Refs -> SUBSET (File \cup {NoFile})]]
    BY <1>3 DEF Begin, Typed, TypeOK
  <2>3. told' \in [Requests -> SUBSET BOOLEAN] /\ starts' \in 0..MaxStarts
    BY <1>3, Constants DEF Begin, Typed, TypeOK
  <2>4. UNCHANGED <<now, disk, valid, alive, changes, healthMu, cache, wrapper, tmp, was, alone>>
    BY <1>3 DEF Begin, world, files
  <2>5. {rows', unread'} \subseteq [Requests -> SUBSET Refs] /\ unlisted' \in [Requests -> BOOLEAN]
    BY <1>3 DEF Begin, Typed, TypeOK
  <2>. QED  BY <2>1, <2>2, <2>3, <2>4, <2>5, ReqTyped DEF Only, Typed, TypeOK
<1>4. ASSUME NEW r \in Refs, ConfChanges(r)
      PROVE  Typed'
  <2>1. disk' \in [Refs -> File \cup {NoFile}] /\ changes' \in 0..MaxChanges
    BY <1>4, Constants DEF ConfChanges, Typed, TypeOK
  <2>2. witness' \in [Requests -> [Refs -> SUBSET (File \cup {NoFile})]]
    BY <1>4 DEF ConfChanges, Typed, TypeOK
  <2>3. UNCHANGED <<now, valid, alive, starts, rows, unlisted, unread, healthMu, cache, wrapper, tmp, req, was, alone,
          told>>
    BY <1>4 DEF ConfChanges, reading, files
  <2>. QED  BY <2>1, <2>2, <2>3 DEF Typed, TypeOK
<1>5. CASE ValidityChanges
  <2>1. valid' \in BOOLEAN /\ changes' \in 0..MaxChanges
    BY <1>5, Constants DEF ValidityChanges, Typed, TypeOK
  <2>2. told' \in [Requests -> SUBSET BOOLEAN]
    BY <1>5 DEF ValidityChanges, Typed, TypeOK
  <2>3. UNCHANGED <<now, disk, alive, starts, rows, unlisted, unread, healthMu, cache, wrapper, tmp, req, was, witness,
          alone>>
    BY <1>5 DEF ValidityChanges, reading, files
  <2>. QED  BY <2>1, <2>2, <2>3 DEF Typed, TypeOK
<1>6. ASSUME NEW h \in Hosts, BackendChanges(h)
      PROVE  Typed'
  <2>1. alive' \in [Hosts -> BOOLEAN] /\ changes' \in 0..MaxChanges
    BY <1>6, Constants DEF BackendChanges, Typed, TypeOK
  <2>2. was' \in [Hosts -> [BOOLEAN -> 0..MaxTime]]
    BY <1>6 DEF BackendChanges, Typed, TypeOK
  <2>3. UNCHANGED <<now, disk, valid, starts, rows, unlisted, unread, healthMu, cache, wrapper, tmp, req, witness,
          alone, told>>
    BY <1>6 DEF BackendChanges, reading, files
  <2>. QED  BY <2>1, <2>2, <2>3 DEF Typed, TypeOK
<1>7. CASE Tick
  <2>1. now' \in 0..MaxTime /\ now + 1 \in 0..MaxTime
    BY <1>7, Constants DEF Tick, Typed, TypeOK
  <2>2. was' \in [Hosts -> [BOOLEAN -> 0..MaxTime]]
    BY <1>7, <2>1 DEF Tick, Typed, TypeOK
  <2>3. UNCHANGED <<disk, valid, alive, changes, starts, rows, unlisted, unread, healthMu, cache, wrapper, tmp, req,
          witness, alone, told>>
    BY <1>7 DEF Tick, world, reading, files
  <2>. QED  BY <2>1, <2>2, <2>3 DEF Typed, TypeOK
<1>8. CASE UNCHANGED vars
  BY <1>8 DEF vars, world, reading, files, past, Typed, TypeOK
<1>. QED  BY <1>1, <1>2, <1>3, <1>4, <1>5, <1>6, <1>7, <1>8, NextParts DEF Outside

-----------------------------------------------------------------------------
(* Probes and clocks *)

LEMMA NotNone == \A e \in Probes : e # NoEntry
  BY NoneAssumption

\* ProbeInv of one request.
ProbesOf(q) ==
  /\ req[q].pc # "probe" => \A h \in Hosts : req[q].probes[h] = NoEntry
  /\ req[q].pc = "dump" => req[q].kind # "status"
  /\ (req[q].pc = "probe" /\ req[q].kind = "status") =>
       \E h \in Hosts : req[q].probes[h] # NoEntry
         /\ \A g \in Hosts \ {h} : req[q].probes[g] = NoEntry

LEMMA ScanningProbes ==
  ASSUME Typed, NEW q \in Requests, ProbesOf(q), Scanning(q)
  PROVE  ProbesOf(q)'
<1>. USE DEF ProbesOf
<1>0. req[q].probes \in [Hosts -> Probes \cup {NoEntry}]
  BY DEF Typed, Requested
<1>1. CASE List(q)
  BY <1>1, ListEffect DEF SameProbes, List
<1>2. CASE ReadFile(q)
  <2>1. req[q].pc = "scan"
    BY <1>2 DEF ReadFile
  <2>2. PICK r \in req[q].todo : r \in Refs
           /\ (Unread(q, r) \/ (disk[r] # NoFile /\ Reads(q, r)))
    BY <1>2, ReadFileCases
  <2>3. CASE Unread(q, r)
    BY <2>1, <2>2, <2>3, UnreadEffect DEF SameProbes
  <2>4. CASE disk[r] # NoFile /\ Reads(q, r) /\ req[q].kind = "status"
    <3>1. /\ req'[q].pc = "probe"
               /\ req'[q].probes = [req[q].probes EXCEPT ![disk[r].host] = Probe]
          /\ disk[r].host \in Hosts
      BY <2>2, <2>4, ReadsEffect
    <3>2. Probe # NoEntry
      BY ProbeTyped DEF Typed, TypeOK
    <3>3. \A h \in Hosts : req[q].probes[h] = NoEntry
      BY <2>1
    <3>4. req'[q].probes[disk[r].host] # NoEntry
          /\ \A g \in Hosts \ {disk[r].host} : req'[q].probes[g] = NoEntry
      BY <1>0, <3>1, <3>2, <3>3
    <3>. QED  BY <3>1, <3>4
  <2>5. CASE disk[r] # NoFile /\ Reads(q, r) /\ req[q].kind # "status"
    BY <2>1, <2>2, <2>5, ReadsEffect
  <2>. QED  BY <2>2, <2>3, <2>4, <2>5
<1>3. CASE Scanned(q)
  <2>1. \/ Step(q, "scan", "test")
        \/ Step(q, "scan", "dump") /\ req[q].kind # "status"
    BY <1>3 DEF Scanned
  <2>2. req[q].pc = "scan"
    BY <2>1 DEF Step
  <2>. QED  BY <2>1, <2>2, MoveEffect DEF Pcs, SameProbes, SameScan
<1>4. CASE Dump(q)
  BY <1>4, DumpEffect DEF Dump, SameScan
<1>5. CASE NothingToProbe(q)
  BY <1>5, MoveEffect DEF NothingToProbe, Pcs, SameProbes
<1>6. ASSUME NEW h \in Hosts, NEW STATE v, v \in BOOLEAN, Return(q, h, v),
             req[q].probes[h] # NoEntry,
             req[q].pc = "probe"
      PROVE  ProbesOf(q)'
  <2>1. /\ req'[q].probes = [req[q].probes EXCEPT ![h] = NoEntry] /\ SameScan(q)
        /\ req'[q].pc = IF req[q].kind = "status" THEN "scan"
                        ELSE IF Left(q, h) = {} THEN "done" ELSE req[q].pc
    BY <1>6, ReturnEffect
  <2>2. CASE req[q].kind = "status"
    <3>1. \A g \in Hosts : req'[q].probes[g] = NoEntry
      BY <1>0, <1>6, <2>1, <2>2
    <3>. QED  BY <2>1, <2>2, <3>1
  <2>3. CASE req[q].kind # "status" /\ Left(q, h) = {}
    <3>1. \A g \in Hosts : req'[q].probes[g] = NoEntry
      BY <1>0, <2>1, <2>3 DEF Left
    <3>. QED  BY <2>1, <2>3, <3>1
  <2>4. CASE req[q].kind # "status" /\ Left(q, h) # {}
    BY <1>6, <2>1, <2>4 DEF SameScan
  <2>. QED  BY <2>2, <2>3, <2>4
<1>7. ASSUME NEW h \in Hosts, Hit(q, h)
      PROVE  ProbesOf(q)'
  <2>1. cache[h].healthy \in BOOLEAN /\ Return(q, h, cache[h].healthy)
    BY <1>7 DEF Hit, Fresh, Typed, TypeOK, Entries
  <2>2. req[q].pc = "probe" /\ req[q].probes[h] # NoEntry
    BY <1>7 DEF Hit, Probing
  <2>. QED  BY <1>6, <2>1, <2>2
<1>8. ASSUME NEW h \in Hosts, Store(q, h)
      PROVE  ProbesOf(q)'
  <2>1. req[q].probes[h].up \in BOOLEAN /\ Return(q, h, req[q].probes[h].up)
    BY <1>8, ProbingTyped DEF Store
  <2>2. req[q].pc = "probe" /\ req[q].probes[h] # NoEntry
    BY <1>8 DEF Store, Probing
  <2>. QED  BY <1>6, <2>1, <2>2
<1>9. ASSUME NEW h \in Hosts, NEW STATE e, e \in Probes, req[q].pc = "probe", SameScan(q),
             req[q].probes[h] # NoEntry, req'[q].pc = req[q].pc,
             req'[q].probes = [req[q].probes EXCEPT ![h] = e]
      PROVE  ProbesOf(q)'
  <2>1. \A g \in Hosts : req'[q].probes[g] = NoEntry <=> req[q].probes[g] = NoEntry
    BY <1>0, <1>9, NotNone
  <2>2. req'[q].pc = "probe" /\ req'[q].kind = req[q].kind
    BY <1>9 DEF SameScan
  <2>. QED  BY <1>9, <2>1, <2>2
<1>10. ASSUME NEW h \in Hosts, Miss(q, h)
      PROVE  ProbesOf(q)'
  <2>1. req[q].pc = "probe" /\ req[q].probes[h] # NoEntry
    BY <1>10 DEF Miss, Probing
  <2>2. /\ Missed(q, h) \in Probes /\ SameScan(q) /\ req'[q].pc = req[q].pc
        /\ req'[q].probes = [req[q].probes EXCEPT ![h] = Missed(q, h)]
    BY <1>10, MissEffect
  <2>. QED  BY <1>9, <2>1, <2>2
<1>11. ASSUME NEW h \in Hosts, Dialled(q, h)
      PROVE  ProbesOf(q)'
  <2>1. req[q].pc = "probe" /\ req[q].probes[h] # NoEntry
    BY <1>11 DEF Dialled, Probing
  <2>2. /\ Reached(q, h) \in Probes /\ SameScan(q) /\ req'[q].pc = req[q].pc
        /\ req'[q].probes = [req[q].probes EXCEPT ![h] = Reached(q, h)]
    BY <1>11, DialledEffect
  <2>. QED  BY <1>9, <2>1, <2>2
<1>. QED  BY <1>1, <1>2, <1>3, <1>4, <1>5, <1>7, <1>8, <1>10, <1>11 DEF Scanning, Probed

\* Where the test of conf.d begins and where its steps go.
LEMMA RunningPcs ==
  ASSUME Typed, NEW q \in Requests, Running(q)
  PROVE  req[q].pc \in TestPcs \cup {"test"} /\ req'[q].pc \in TestPcs \cup {"done"}
<1>1. CASE NginxReads(q) \/ NginxScratch(q)
  BY <1>1, ReadsEffectTest, ScratchEffect DEF NginxReads, NginxScratch, TestPcs
<1>2. CASE ~(NginxReads(q) \/ NginxScratch(q))
  <2>1. \E from \in TestPcs \cup {"test"}, to \in TestPcs \cup {"done"} : Step(q, from, to)
    BY <1>2 DEF Running, OpenWrapper, FillWrapper, Mkdir, Rmtmp, RemoveWrapper,
                OpenFails, FillFails, MkdirFails, TestPcs
  <2>2. PICK from \in TestPcs \cup {"test"}, to \in TestPcs \cup {"done"} : Step(q, from, to)
    BY <2>1
  <2>3. to \in Pcs
    BY DEF Pcs
  <2>. QED  BY <2>2, <2>3, MoveEffect DEF Step
<1>. QED  BY <1>1, <1>2

LEMMA StepProbe ==
  ASSUME Typed, ProbeInv, [Next]_vars
  PROVE  ProbeInv'
<1>1. ProbeInv <=> \A q \in Requests : ProbesOf(q)
  BY DEF ProbeInv, ProbesOf
<1>. SUFFICES ASSUME NEW p \in Requests PROVE ProbesOf(p)'
  BY DEF ProbeInv, ProbesOf
<1>2. CASE req'[p] = req[p]
  BY <1>1, <1>2 DEF ProbesOf
<1>3. ASSUME NEW q \in Requests, Scanning(q)
      PROVE  ProbesOf(p)'
  BY <1>1, <1>2, <1>3, ScanningProbes, ScanningOnly DEF Only
<1>4. ASSUME NEW q \in Requests, Running(q)
      PROVE  ProbesOf(p)'
  <2>1. Only(q) /\ SameProbes(q)
    BY <1>4, RunningOnly
  <2>2. req[q].pc # "probe" /\ req'[q].pc # "probe" /\ req'[q].pc # "dump"
    BY <1>4, RunningPcs DEF TestPcs
  <2>3. CASE p = q
    BY <1>1, <2>1, <2>2, <2>3 DEF ProbesOf, SameProbes
  <2>. QED  BY <1>2, <2>1, <2>3 DEF Only
<1>5. ASSUME NEW q \in Requests, NEW kind \in Kinds, Begin(q, kind)
      PROVE  ProbesOf(p)'
  <2>1. CASE p = q
    BY <1>5, <2>1, BeginEffect DEF ProbesOf
  <2>. QED  BY <1>2, <1>5, <2>1, BeginEffect DEF Only
<1>6. CASE Outside \/ UNCHANGED vars
  <2>1. req' = req
    BY <1>6 DEF Outside, ConfChanges, ValidityChanges, BackendChanges, Tick, vars
  <2>. QED  BY <1>2, <2>1
<1>. QED  BY <1>3, <1>4, <1>5, <1>6, NextParts

\* What a step of a handler makes of its probe of a backend.
LEMMA ProbeMoves ==
  ASSUME Typed, NEW q \in Requests, Scanning(q), NEW g \in Hosts
  PROVE  \/ req'[q].probes[g] = NoEntry
         \/ req'[q].probes[g] = req[q].probes[g]
         \/ req'[q].probes[g] = Probe
         \/ Miss(q, g) /\ req'[q].probes[g] = Missed(q, g)
         \/ Dialled(q, g) /\ req'[q].probes[g] = Reached(q, g)
<1>0. req[q].probes \in [Hosts -> Probes \cup {NoEntry}]
  BY DEF Typed, Requested
<1>1. CASE List(q)
  BY <1>1, ListEffect DEF SameProbes
<1>2. CASE ReadFile(q)
  <2>1. PICK r \in req[q].todo : r \in Refs
           /\ (Unread(q, r) \/ (disk[r] # NoFile /\ Reads(q, r)))
    BY <1>2, ReadFileCases
  <2>2. CASE Unread(q, r)
    BY <2>1, <2>2, UnreadEffect DEF SameProbes
  <2>3. CASE disk[r] # NoFile /\ Reads(q, r)
    BY <1>0, <2>1, <2>3, ReadsEffect
  <2>. QED  BY <2>1, <2>2, <2>3
<1>3. CASE Scanned(q)
  <2>1. Step(q, "scan", "test") \/ Step(q, "scan", "dump")
    BY <1>3 DEF Scanned
  <2>. QED  BY <2>1, MoveEffect DEF Pcs, SameProbes
<1>4. CASE Dump(q)
  BY <1>4, DumpEffect
<1>5. CASE NothingToProbe(q)
  BY <1>5, MoveEffect DEF NothingToProbe, Pcs, SameProbes
<1>6. ASSUME NEW h \in Hosts, Hit(q, h)
      PROVE  req'[q].probes[g] = NoEntry \/ req'[q].probes[g] = req[q].probes[g]
  <2>1. cache[h].healthy \in BOOLEAN /\ Return(q, h, cache[h].healthy)
    BY <1>6 DEF Hit, Fresh, Typed, TypeOK, Entries
  <2>2. req'[q].probes = [req[q].probes EXCEPT ![h] = NoEntry]
    BY <2>1, ReturnEffect
  <2>. QED  BY <1>0, <2>2
<1>7. ASSUME NEW h \in Hosts, Store(q, h)
      PROVE  req'[q].probes[g] = NoEntry \/ req'[q].probes[g] = req[q].probes[g]
  <2>1. req[q].probes[h].up \in BOOLEAN /\ Return(q, h, req[q].probes[h].up)
    BY <1>7, ProbingTyped DEF Store
  <2>2. req'[q].probes = [req[q].probes EXCEPT ![h] = NoEntry]
    BY <2>1, ReturnEffect
  <2>. QED  BY <1>0, <2>2
<1>8. ASSUME NEW h \in Hosts, Miss(q, h)
      PROVE  req'[q].probes[g] = req[q].probes[g] \/ (Miss(q, g)
             /\ req'[q].probes[g] = Missed(q, g))
  <2>1. req'[q].probes = [req[q].probes EXCEPT ![h] = Missed(q, h)]
    BY <1>8, MissEffect
  <2>. QED  BY <1>0, <1>8, <2>1
<1>9. ASSUME NEW h \in Hosts, Dialled(q, h)
      PROVE  req'[q].probes[g] = req[q].probes[g] \/ (Dialled(q, g)
             /\ req'[q].probes[g] = Reached(q, g))
  <2>1. req'[q].probes = [req[q].probes EXCEPT ![h] = Reached(q, h)]
    BY <1>9, DialledEffect
  <2>. QED  BY <1>0, <1>9, <2>1
<1>. QED  BY <1>1, <1>2, <1>3, <1>4, <1>5, <1>6, <1>7, <1>8, <1>9 DEF Scanning, Probed

\* The parts of ClockInv.
SeenInv == \A h \in Hosts : was[h][alive[h]] = now /\ \A v \in BOOLEAN : was[h][v] <= now
CacheInv == \A h \in Hosts : cache[h] # NoEntry => cache[h].at <= was[h][cache[h].healthy]
DatedInv ==
  \A q \in Requests, h \in Hosts : req[q].probes[h] # NoEntry =>
    /\ req[q].probes[h].at <= now
    /\ req[q].probes[h].step = "store" => req[q].probes[h].at <= was[h][req[q].probes[h].up]

LEMMA ClockParts == ClockInv <=> SeenInv /\ CacheInv /\ DatedInv
  BY DEF ClockInv, SeenInv, CacheInv, DatedInv

LEMMA ScanningClock ==
  ASSUME Typed, SeenInv, CacheInv, DatedInv, NEW q \in Requests, Scanning(q)
  PROVE  SeenInv' /\ CacheInv' /\ DatedInv'
<1>1. UNCHANGED <<now, alive, was>>
  BY ScanningFrame
<1>2. SeenInv'
  BY <1>1 DEF SeenInv
<1>3. CacheInv'
  <2>1. ASSUME NEW h \in Hosts, Store(q, h)
        PROVE  CacheInv'
    <3>1. req[q].probes[h].at <= was[h][req[q].probes[h].up]
      BY <2>1 DEF DatedInv, Store, Probing
    <3>2. cache' = [cache EXCEPT ![h] = [healthy |-> req[q].probes[h].up,
            at |-> req[q].probes[h].at]]
      BY <2>1 DEF Store, Stamp
    <3>3. cache'[h].at = req[q].probes[h].at /\ cache'[h].healthy = req[q].probes[h].up
          /\ \A g \in Hosts \ {h} : cache'[g] = cache[g]
      BY <3>2 DEF Typed, TypeOK
    <3>. QED  BY <1>1, <3>1, <3>3 DEF CacheInv
  <2>2. ASSUME NEW h \in Hosts, Hit(q, h) \/ Miss(q, h) \/ Dialled(q, h)
        PROVE  CacheInv'
    <3>1. cache' = cache
      BY <2>2, Zenon DEF Hit, Miss, Dialled
    <3>. QED  BY <1>1, <3>1 DEF CacheInv
  <2>3. CASE List(q) \/ ReadFile(q) \/ Scanned(q) \/ Dump(q) \/ NothingToProbe(q)
    <3>1. cache' = cache
      BY <2>3, Zenon DEF List, ReadFile, Scanned, Dump, NothingToProbe
    <3>. QED  BY <1>1, <3>1 DEF CacheInv
  <2>. QED  BY <2>1, <2>2, <2>3 DEF Scanning, Probed
<1>4. DatedInv'
  <2>. SUFFICES ASSUME NEW p \in Requests, NEW h \in Hosts, req'[p].probes[h] # NoEntry
                PROVE  /\ req'[p].probes[h].at <= now
                       /\ req'[p].probes[h].step = "store" =>
                            req'[p].probes[h].at <= was[h][req'[p].probes[h].up]
    BY <1>1 DEF DatedInv
  <2>1. CASE req'[p].probes[h] = req[p].probes[h]
    BY <2>1 DEF DatedInv
  <2>2. CASE p # q
    BY <2>1, <2>2, ScanningOnly DEF Only
  <2>3. CASE p = q /\ req'[q].probes[h] = Probe
    <3>1. now \in 0..MaxTime
      BY DEF Typed, TypeOK
    <3>. QED  BY <2>3, <3>1, ProbeTyped, Constants
  <2>4. CASE p = q /\ Miss(q, h) /\ req'[q].probes[h] = Missed(q, h)
    <3>1. Missed(q, h).at = req[q].probes[h].at /\ Missed(q, h).step = "dial"
      BY <2>4, MissEffect
    <3>2. req[q].probes[h] # NoEntry
      BY <2>4 DEF Miss, Probing
    <3>. QED  BY <2>4, <3>1, <3>2 DEF DatedInv
  <2>5. CASE p = q /\ Dialled(q, h) /\ req'[q].probes[h] = Reached(q, h)
    <3>1. Reached(q, h).at = req[q].probes[h].at /\ Reached(q, h).up = alive[h]
      BY <2>5, DialledEffect
    <3>2. req[q].probes[h] # NoEntry
      BY <2>5 DEF Dialled, Probing
    <3>3. was[h][alive[h]] = now
      BY DEF SeenInv
    <3>. QED  BY <2>5, <3>1, <3>2, <3>3 DEF DatedInv
  <2>. QED  BY <2>1, <2>2, <2>3, <2>4, <2>5, ProbeMoves
<1>. QED  BY <1>2, <1>3, <1>4

LEMMA Sighted ==
  ASSUME NEW f \in [BOOLEAN -> Nat], NEW a \in BOOLEAN, NEW n \in Nat,
         \A v \in BOOLEAN : f[v] <= n,
         NEW g, g = [f EXCEPT ![a] = n]
  PROVE  g[a] = n /\ \A v \in BOOLEAN : f[v] <= g[v] /\ g[v] <= n
  OBVIOUS

\* Time and the backends: the last sightings only move on.
LEMMA SightingsGrow ==
  ASSUME Typed, SeenInv, Tick \/ \E h \in Hosts : BackendChanges(h)
  PROVE  SeenInv' /\ now <= now' /\ \A h \in Hosts : \A v \in BOOLEAN : was[h][v] <= was'[h][v]
<1>0. was \in [Hosts -> [BOOLEAN -> 0..MaxTime]] /\ alive \in [Hosts -> BOOLEAN]
        /\ now \in 0..MaxTime
  BY DEF Typed, TypeOK
<1>1. CASE Tick
  <2>1. now' = now + 1 /\ alive' = alive
    BY <1>1 DEF Tick, world
  <2>2. \A h \in Hosts : was'[h] = [was[h] EXCEPT ![alive[h]] = now + 1]
    BY <1>1 DEF Tick
  <2>3. ASSUME NEW h \in Hosts
        PROVE  /\ was'[h][alive[h]] = now + 1
               /\ \A v \in BOOLEAN : was[h][v] <= was'[h][v] /\ was'[h][v] <= now + 1
    <3>1. was[h] \in [BOOLEAN -> Nat] /\ alive[h] \in BOOLEAN /\ now + 1 \in Nat
      BY <1>0, Constants
    <3>2. \A v \in BOOLEAN : was[h][v] <= now + 1
      BY <1>0, <3>1, Constants DEF SeenInv
    <3>3. was'[h] = [was[h] EXCEPT ![alive[h]] = now + 1]
      BY <2>2
    <3>. QED  BY <3>1, <3>2, <3>3, Sighted
  <2>. QED  BY <1>0, <2>1, <2>3, Constants DEF SeenInv
<1>2. ASSUME NEW h \in Hosts, BackendChanges(h)
      PROVE  SeenInv' /\ now <= now' /\ \A g \in Hosts : \A v \in BOOLEAN :
             was[g][v] <= was'[g][v]
  <2>1. now' = now /\ alive' = [alive EXCEPT ![h] = ~alive[h]]
        /\ was' = [was EXCEPT ![h] = [was[h] EXCEPT ![~alive[h]] = now]]
    BY <1>0, <1>2 DEF BackendChanges
  <2>2. alive'[h] = ~alive[h] /\ alive'[h] \in BOOLEAN
          /\ \A g \in Hosts \ {h} : alive'[g] = alive[g]
    BY <1>0, <2>1
  <2>3. was'[h] = [was[h] EXCEPT ![alive'[h]] = now] /\ \A g \in Hosts \ {h} : was'[g] = was[g]
    BY <1>0, <2>1, <2>2
  <2>4. was'[h][alive'[h]] = now /\ \A v \in BOOLEAN : was[h][v] <= was'[h][v]
          /\ was'[h][v] <= now
    <3>1. was[h] \in [BOOLEAN -> Nat] /\ now \in Nat
      BY <1>0, Constants
    <3>2. \A v \in BOOLEAN : was[h][v] <= now
      BY DEF SeenInv
    <3>3. alive'[h] \in BOOLEAN /\ was'[h] = [was[h] EXCEPT ![alive'[h]] = now]
      BY <2>2, <2>3
    <3>. QED  BY <3>1, <3>2, <3>3, Sighted
  <2>5. \A g \in Hosts \ {h} : /\ was'[g][alive'[g]] = now
                               /\ \A v \in BOOLEAN : was[g][v] <= was'[g][v] /\ was'[g][v] <= now
    BY <1>0, <2>2, <2>3, Constants DEF SeenInv
  <2>. QED  BY <1>0, <2>1, <2>4, <2>5, Constants DEF SeenInv
<1>. QED  BY <1>1, <1>2

LEMMA StepClock ==
  ASSUME Typed, ClockInv, [Next]_vars
  PROVE  ClockInv'
<1>0. SeenInv /\ CacheInv /\ DatedInv
  BY ClockParts
<1>. SUFFICES SeenInv' /\ CacheInv' /\ DatedInv'
  BY DEF ClockInv, SeenInv, CacheInv, DatedInv
<1>1. ASSUME NEW q \in Requests, Scanning(q)
      PROVE  SeenInv' /\ CacheInv' /\ DatedInv'
  BY <1>0, <1>1, ScanningClock
<1>2. ASSUME NEW q \in Requests, Running(q)
      PROVE  SeenInv' /\ CacheInv' /\ DatedInv'
  <2>1. UNCHANGED <<now, alive, was, cache>>
    BY <1>2, RunningFrame
  <2>2. \A p \in Requests : req'[p].probes = req[p].probes
    BY <1>2, RunningOnly DEF Only, SameProbes
  <2>. QED  BY <1>0, <2>1, <2>2 DEF SeenInv, CacheInv, DatedInv
<1>3. ASSUME NEW q \in Requests, NEW kind \in Kinds, Begin(q, kind)
      PROVE  SeenInv' /\ CacheInv' /\ DatedInv'
  <2>1. UNCHANGED <<now, alive, was, cache>>
    BY <1>3 DEF Begin, world
  <2>2. \A p \in Requests, h \in Hosts :
          req'[p].probes[h] = NoEntry \/ req'[p].probes[h] = req[p].probes[h]
    BY <1>3, BeginEffect DEF Only
  <2>. QED  BY <1>0, <2>1, <2>2 DEF SeenInv, CacheInv, DatedInv
<1>4. CASE Tick \/ \E h \in Hosts : BackendChanges(h)
  <2>1. SeenInv' /\ now <= now' /\ \A h \in Hosts : \A v \in BOOLEAN : was[h][v] <= was'[h][v]
    BY <1>0, <1>4, SightingsGrow
  <2>2. UNCHANGED <<cache, req>>
    BY <1>4 DEF Tick, BackendChanges
  <2>3. now \in Nat /\ now' \in Nat /\ was \in [Hosts -> [BOOLEAN -> Nat]]
          /\ was' \in [Hosts -> [BOOLEAN -> Nat]]
    BY StepTyped, Constants DEF Typed, TypeOK
  <2>4. CacheInv'
    <3>. SUFFICES ASSUME NEW h \in Hosts, cache[h] # NoEntry
                  PROVE  cache[h].at <= was'[h][cache[h].healthy]
      BY <2>2 DEF CacheInv
    <3>1. cache[h].at \in Nat /\ cache[h].healthy \in BOOLEAN
      BY Constants DEF Typed, TypeOK, Entries
    <3>2. cache[h].at <= was[h][cache[h].healthy]
      BY <1>0 DEF CacheInv
    <3>. QED  BY <2>1, <2>3, <3>1, <3>2
  <2>5. DatedInv'
    <3>. SUFFICES ASSUME NEW q \in Requests, NEW h \in Hosts, req[q].probes[h] # NoEntry
                  PROVE  /\ req[q].probes[h].at <= now'
                         /\ req[q].probes[h].step = "store" =>
                              req[q].probes[h].at <= was'[h][req[q].probes[h].up]
      BY <2>2 DEF DatedInv
    <3>1. req[q].probes[h].at \in Nat /\ req[q].probes[h].up \in BOOLEAN
      BY Constants DEF Typed, Requested, Probes
    <3>2. /\ req[q].probes[h].at <= now
          /\ req[q].probes[h].step = "store" => req[q].probes[h].at <= was[h][req[q].probes[h].up]
      BY <1>0 DEF DatedInv
    <3>. QED  BY <2>1, <2>3, <3>1, <3>2
  <2>. QED  BY <2>1, <2>4, <2>5
<1>5. CASE (\E r \in Refs : ConfChanges(r)) \/ ValidityChanges \/ UNCHANGED vars
  <2>1. UNCHANGED <<now, alive, was, cache, req>>
    BY <1>5 DEF ConfChanges, ValidityChanges, vars, world, past
  <2>. QED  BY <1>0, <2>1 DEF SeenInv, CacheInv, DatedInv
<1>. QED  BY <1>1, <1>2, <1>3, <1>4, <1>5, NextParts DEF Outside

-----------------------------------------------------------------------------
(* The scan *)

ScanOf(q) ==
  /\ Active(q) => valid \in told[q] /\ \A r \in Refs : disk[r] \in witness[q][r]
  /\ req[q].pc = "list" => \A r \in Refs : req[q].apps[r] = NoFile
  /\ \A r \in req[q].todo : req[q].apps[r] = NoFile
  /\ req[q].todo # {} =>
       req[q].pc = "scan" \/ (req[q].pc = "probe" /\ req[q].kind = "status")
  /\ (req[q].pc \notin {"idle", "list"} /\ req[q].kind # "revert") =>
       \A r \in Refs \ req[q].todo :
         \/ req[q].apps[r] \in witness[q][r]
         \/ req[q].apps[r] = NoFile /\ (unlisted[q] \/ r \in unread[q])
  /\ req[q].pc \in {"idle", "list"} => rows[q] = {}
  /\ \A r \in req[q].todo \cup rows[q] : \E f \in witness[q][r] : f # NoFile
  /\ (req[q].pc \notin {"idle", "list"} /\ req[q].kind = "dump") =>
       \A r \in Refs \ rows[q] : r \in req[q].todo \/ NoFile \in witness[q][r] \/ unlisted[q]

\* A step that leaves what was scanned, of a request with nothing left to scan.
LEMMA ScanKept ==
  ASSUME NEW q \in Requests, ScanOf(q), SameScan(q), Active(q), req[q].pc # "list",
         req'[q].pc \notin {"idle", "list"},
         req[q].todo # {} =>
           req'[q].pc = "scan" \/ (req'[q].pc = "probe" /\ req[q].kind = "status"),
         UNCHANGED <<disk, valid, witness, told, rows, unlisted, unread>>
  PROVE  ScanOf(q)'
  BY DEF ScanOf, SameScan, Active

LEMMA ListScan ==
  ASSUME Typed, NEW q \in Requests, ScanOf(q), List(q)
  PROVE  ScanOf(q)'
<1>0. UNCHANGED <<disk, valid, witness, told>>
  BY ScanningFrame DEF Scanning
<1>1. /\ req[q].pc = "list" /\ req'[q].pc = "scan"
      /\ req'[q].todo = Listed(unlisted'[q])
      /\ req'[q].kind = req[q].kind /\ req'[q].apps = req[q].apps
      /\ unlisted'[q] \in BOOLEAN /\ rows' = rows /\ unread' = unread
  BY ListEffect DEF List
<1>2. /\ valid \in told[q] /\ rows[q] = {}
      /\ \A r \in Refs : disk[r] \in witness[q][r] /\ req[q].apps[r] = NoFile
  BY <1>1 DEF ScanOf, Active
<1>3. CASE unlisted'[q]
  <2>1. req'[q].todo = {}
    BY <1>1, <1>3 DEF Listed
  <2>. QED  BY <1>0, <1>1, <1>2, <1>3, <2>1 DEF ScanOf, Active
<1>4. CASE ~unlisted'[q]
  <2>1. req'[q].todo = {r \in Refs : disk[r] # NoFile}
    BY <1>1, <1>4 DEF Listed
  <2>2. \A r \in req'[q].todo : disk[r] \in witness[q][r] /\ disk[r] # NoFile
    BY <1>2, <2>1
  <2>. QED  BY <1>0, <1>1, <1>2, <2>1, <2>2 DEF ScanOf, Active
<1>. QED  BY <1>3, <1>4

LEMMA ReadFileScan ==
  ASSUME Typed, NEW q \in Requests, ScanOf(q), ReadFile(q)
  PROVE  ScanOf(q)'
<1>0. UNCHANGED <<disk, valid, witness, told>>
  BY ScanningFrame DEF Scanning
<1>1. req[q].pc = "scan"
  BY DEF ReadFile
<1>2. PICK r \in req[q].todo :
         /\ r \in Refs /\ unlisted' = unlisted
         /\ \/ disk[r] # NoFile /\ Reads(q, r) /\ unread' = unread
            \/ Unread(q, r) /\ disk[r] = NoFile /\ unread' = unread
            \/ Unread(q, r) /\ unread' = [unread EXCEPT ![q] = @ \cup {r}]
         /\ Row(q, r)
  BY ReadFileNotes
<1>3. /\ valid \in told[q] /\ disk[r] \in witness[q][r] /\ req[q].apps[r] = NoFile
      /\ \E f \in witness[q][r] : f # NoFile
  BY <1>1, <1>2 DEF ScanOf, Active
<1>4. /\ rows'[q] = IF req[q].kind = "dump" THEN rows[q] \cup {r} ELSE rows[q]
      /\ rows'[q] \subseteq rows[q] \cup {r}
  BY <1>2, RowEffect
<1>5. req[q].todo \subseteq Refs /\ req[q].apps \in [Refs -> File \cup {NoFile}]
      /\ unread \in [Requests -> SUBSET Refs]
  BY DEF Typed, TypeOK
<1>6. /\ req'[q].todo = req[q].todo \ {r} /\ req'[q].kind = req[q].kind
      /\ req'[q].pc = "scan" \/ (req'[q].pc = "probe" /\ req[q].kind = "status")
      /\ \A o \in Refs \ {r} : req'[q].apps[o] = req[q].apps[o]
      /\ unread[q] \subseteq unread'[q]
      /\ \/ req'[q].apps[r] = disk[r]
         \/ req'[q].apps[r] = NoFile /\ (disk[r] = NoFile \/ r \in unread'[q])
  <2>1. CASE disk[r] # NoFile /\ Reads(q, r) /\ unread' = unread
    <3>1. /\ req'[q].pc = (IF req[q].kind = "status" THEN "probe" ELSE "scan")
          /\ req'[q].todo = req[q].todo \ {r}
          /\ req'[q].kind = req[q].kind /\ req'[q].apps = [req[q].apps EXCEPT ![r] = disk[r]]
      BY <1>1, <1>2, <2>1, ReadsEffect
    <3>2. req'[q].apps[r] = disk[r] /\ \A o \in Refs \ {r} : req'[q].apps[o] = req[q].apps[o]
      BY <1>2, <1>5, <3>1
    <3>. QED  BY <2>1, <3>1, <3>2
  <2>2. CASE Unread(q, r) /\ disk[r] = NoFile /\ unread' = unread
    BY <1>1, <1>2, <1>3, <1>5, <2>2, UnreadEffect
  <2>3. CASE Unread(q, r) /\ unread' = [unread EXCEPT ![q] = @ \cup {r}]
    BY <1>1, <1>2, <1>3, <1>5, <2>3, UnreadEffect
  <2>. QED  BY <1>2, <2>1, <2>2, <2>3
<1>7. Active(q)' => valid' \in told'[q] /\ \A o \in Refs : disk'[o] \in witness'[q][o]
  BY <1>0, <1>1 DEF ScanOf, Active
<1>8. \A o \in req'[q].todo : req'[q].apps[o] = NoFile
  BY <1>5, <1>6 DEF ScanOf
<1>9. req[q].kind # "revert" => \A o \in Refs \ req'[q].todo :
        \/ req'[q].apps[o] \in witness'[q][o]
        \/ req'[q].apps[o] = NoFile /\ (unlisted'[q] \/ o \in unread'[q])
  BY <1>0, <1>1, <1>2, <1>3, <1>5, <1>6 DEF ScanOf
<1>10. \A o \in req'[q].todo \cup rows'[q] : \E f \in witness'[q][o] : f # NoFile
  BY <1>0, <1>3, <1>4, <1>6 DEF ScanOf
<1>11. req[q].kind = "dump" => \A o \in Refs \ rows'[q] :
         o \in req'[q].todo \/ NoFile \in witness'[q][o] \/ unlisted'[q]
  BY <1>0, <1>1, <1>2, <1>4, <1>6 DEF ScanOf
<1>. QED  BY <1>6, <1>7, <1>8, <1>9, <1>10, <1>11 DEF ScanOf

LEMMA ScanningScan ==
  ASSUME Typed, NEW q \in Requests, ScanOf(q), ProbesOf(q), Scanning(q)
  PROVE  ScanOf(q)'
<1>. SUFFICES ASSUME ~List(q), ~ReadFile(q) PROVE ScanOf(q)'
  BY ListScan, ReadFileScan
<1>0. UNCHANGED <<disk, valid, witness, told, rows, unlisted, unread>>
  BY ScanningFrame, StillReading
<1>3. CASE Scanned(q)
  <2>1. (Step(q, "scan", "test") \/ Step(q, "scan", "dump")) /\ req[q].todo = {}
    BY <1>3 DEF Scanned
  <2>2. req[q].pc = "scan" /\ SameScan(q) /\ req'[q].pc \in {"test", "dump"}
    BY <2>1, MoveEffect DEF Pcs, Step
  <2>. QED  BY <1>0, <2>1, <2>2, ScanKept DEF Active
<1>4. CASE Dump(q)
  <2>1. req[q].pc = "dump" /\ req'[q].pc = "probe" /\ SameScan(q)
    BY <1>4, DumpEffect DEF Dump
  <2>2. req[q].todo = {}
    BY <2>1 DEF ScanOf
  <2>. QED  BY <1>0, <2>1, <2>2, ScanKept DEF Active
<1>5. CASE NothingToProbe(q)
  <2>1. req[q].pc = "probe" /\ req'[q].pc = "done" /\ SameScan(q)
    BY <1>5, MoveEffect DEF NothingToProbe, Step, Pcs
  <2>2. req[q].kind # "status"
    BY <1>5, <2>1 DEF NothingToProbe, ProbesOf
  <2>3. req[q].todo = {}
    BY <2>1, <2>2 DEF ScanOf
  <2>. QED  BY <1>0, <2>1, <2>3, ScanKept DEF Active
<1>6. ASSUME NEW h \in Hosts, NEW STATE v, v \in BOOLEAN, Return(q, h, v), req[q].pc = "probe"
      PROVE  ScanOf(q)'
  <2>1. /\ SameScan(q)
        /\ req'[q].pc = IF req[q].kind = "status" THEN "scan"
                        ELSE IF Left(q, h) = {} THEN "done" ELSE req[q].pc
    BY <1>6, ReturnEffect
  <2>2. req[q].kind # "status" => req[q].todo = {}
    BY <1>6 DEF ScanOf
  <2>. QED  BY <1>0, <1>6, <2>1, <2>2, ScanKept DEF Active
<1>7. ASSUME NEW h \in Hosts, Hit(q, h)
      PROVE  ScanOf(q)'
  <2>1. cache[h].healthy \in BOOLEAN /\ Return(q, h, cache[h].healthy) /\ req[q].pc = "probe"
    BY <1>7 DEF Hit, Fresh, Typed, TypeOK, Entries, Probing
  <2>. QED  BY <1>6, <2>1
<1>8. ASSUME NEW h \in Hosts, Store(q, h)
      PROVE  ScanOf(q)'
  <2>1. req[q].probes[h].up \in BOOLEAN /\ Return(q, h, req[q].probes[h].up)
          /\ req[q].pc = "probe"
    BY <1>8, ProbingTyped DEF Store
  <2>. QED  BY <1>6, <2>1
<1>9. ASSUME NEW h \in Hosts, Miss(q, h) \/ Dialled(q, h)
      PROVE  ScanOf(q)'
  <2>1. SameScan(q) /\ req[q].pc = "probe" /\ req'[q].pc = "probe"
    <3>1. req[q].pc = "probe"
      BY <1>9, Zenon DEF Miss, Dialled, Probing
    <3>. QED  BY <1>9, <3>1, MissEffect, DialledEffect, Zenon
  <2>2. req[q].todo # {} => req[q].kind = "status"
    BY <2>1 DEF ScanOf
  <2>. QED  BY <1>0, <2>1, <2>2, ScanKept DEF Active
<1>. QED  BY <1>3, <1>4, <1>5, <1>7, <1>8, <1>9 DEF Scanning, Probed

LEMMA StepScan ==
  ASSUME Typed, ProbeInv, ScanInv, [Next]_vars
  PROVE  ScanInv'
<1>0. \A q \in Requests : ScanOf(q) /\ ProbesOf(q)
  BY DEF ScanInv, ScanOf, ProbeInv, ProbesOf
<1>. SUFFICES ASSUME NEW p \in Requests PROVE ScanOf(p)'
  BY DEF ScanInv, ScanOf
<1>1. CASE req'[p] = req[p] /\ UNCHANGED <<disk, valid, witness, told>>
        /\ rows'[p] = rows[p] /\ unlisted'[p] = unlisted[p] /\ unread'[p] = unread[p]
  BY <1>0, <1>1 DEF ScanOf, Active
<1>2. ASSUME NEW q \in Requests, Scanning(q)
      PROVE  ScanOf(p)'
  <2>1. UNCHANGED <<disk, valid, witness, told>>
    BY <1>2, ScanningFrame
  <2>. QED  BY <1>0, <1>1, <1>2, <2>1, ScanningScan, ScanningOnly, ScanningReading DEF Only
<1>3. ASSUME NEW q \in Requests, Running(q)
      PROVE  ScanOf(p)'
  <2>1. UNCHANGED <<disk, valid, witness, told, rows, unlisted, unread>>
    BY <1>3, RunningFrame
  <2>2. Only(q) /\ SameScan(q)
    BY <1>3, RunningOnly
  <2>3. req[q].pc \in TestPcs \cup {"test"} /\ req'[q].pc \in TestPcs \cup {"done"}
    BY <1>3, RunningPcs
  <2>4. req[q].todo = {}
    BY <1>0, <2>3 DEF ScanOf, TestPcs
  <2>5. CASE p = q
    <3>1. ScanOf(q) /\ Active(q) /\ req[q].pc # "list" /\ req'[q].pc \notin {"idle", "list"}
      BY <1>0, <2>3 DEF Active, TestPcs
    <3>. QED  BY <2>1, <2>2, <2>4, <2>5, <3>1, ScanKept
  <2>. QED  BY <1>1, <2>1, <2>2, <2>5 DEF Only
<1>4. ASSUME NEW q \in Requests, NEW kind \in Kinds, Begin(q, kind)
      PROVE  ScanOf(p)'
  <2>1. UNCHANGED <<disk, valid>> /\ witness' = [witness EXCEPT ![q] = [r \in Refs |-> {disk[r]}]]
        /\ told' = [told EXCEPT ![q] = {valid}]
    BY <1>4 DEF Begin, world
  <2>2. valid \in told'[q] /\ \A r \in Refs : disk[r] \in witness'[q][r]
    BY <2>1 DEF Typed
  <2>3. p # q => witness'[p] = witness[p] /\ told'[p] = told[p]
    BY <2>1 DEF Typed
  <2>7. /\ rows'[q] = {}
        /\ p # q => rows'[p] = rows[p] /\ unlisted'[p] = unlisted[p] /\ unread'[p] = unread[p]
    BY <1>4 DEF Begin, Typed, TypeOK
  <2>4. Only(q) /\ req'[q].todo = {} /\ req'[q].kind = kind
        /\ req'[q].pc = (IF kind = "revert" THEN "test" ELSE "list")
        /\ \A r \in Refs : req'[q].apps[r] = NoFile
    BY <1>4, BeginEffect
  <2>5. CASE p = q
    BY <2>1, <2>2, <2>4, <2>5, <2>7 DEF ScanOf, Active
  <2>6. CASE p # q
    <3>1. req'[p] = req[p]
      BY <2>4, <2>6 DEF Only
    <3>. QED  BY <1>0, <2>1, <2>3, <2>6, <2>7, <3>1 DEF ScanOf, Active
  <2>. QED  BY <2>5, <2>6
<1>5. ASSUME NEW o \in Refs, ConfChanges(o)
      PROVE  ScanOf(p)'
  <2>1. UNCHANGED <<valid, req, told, rows, unlisted, unread>>
    BY <1>5 DEF ConfChanges, reading
  <2>2. PICK f \in File \cup {NoFile} :
           /\ disk' = [disk EXCEPT ![o] = f]
           /\ witness' = [q \in Requests |->
                            IF Active(q) THEN [witness[q] EXCEPT ![o] = @ \cup {f}]
                              ELSE witness[q]]
    BY <1>5 DEF ConfChanges
  <2>3. \A r \in Refs : witness[p][r] \subseteq witness'[p][r]
    BY <2>2 DEF Typed
  <2>4. Active(p) => \A r \in Refs : disk[r] \in witness[p][r]
    BY <1>0 DEF ScanOf
  <2>5. Active(p) => f \in witness'[p][o]
    BY <2>2 DEF Typed
  <2>6. disk'[o] = f /\ \A r \in Refs \ {o} : disk'[r] = disk[r]
    BY <2>2 DEF Typed, TypeOK
  <2>7. Active(p) => \A r \in Refs : disk'[r] \in witness'[p][r]
    BY <2>3, <2>4, <2>5, <2>6
  <2>8. req[p].todo \subseteq Refs /\ rows[p] \subseteq Refs
    BY DEF Typed, TypeOK
  <2>9. \A r \in req'[p].todo \cup rows'[p] : \E g \in witness'[p][r] : g # NoFile
    BY <1>0, <2>1, <2>3, <2>8 DEF ScanOf
  <2>. QED  BY <1>0, <2>1, <2>3, <2>7, <2>9 DEF ScanOf, Active
<1>6. CASE ValidityChanges
  <2>1. UNCHANGED <<disk, req, witness, rows, unlisted, unread>>
    BY <1>6 DEF ValidityChanges, reading
  <2>2. Active(p) => valid' \in told'[p]
    BY <1>6 DEF ValidityChanges, Typed
  <2>. QED  BY <1>0, <2>1, <2>2 DEF ScanOf, Active
<1>7. CASE (\E h \in Hosts : BackendChanges(h)) \/ Tick \/ UNCHANGED vars
  <2>1. UNCHANGED <<disk, valid, req, witness, told, rows, unlisted, unread>>
    BY <1>7 DEF BackendChanges, Tick, vars, world, reading, past
  <2>. QED  BY <1>1, <2>1
<1>. QED  BY <1>2, <1>3, <1>4, <1>5, <1>6, <1>7, NextParts DEF Outside

-----------------------------------------------------------------------------
(* The test of conf.d *)

\* Where the steps before the test go from and to.
LEMMA ScanningPcs ==
  ASSUME Typed, NEW q \in Requests, ProbesOf(q), Scanning(q)
  PROVE  /\ req[q].pc \in {"list", "scan", "probe", "dump"}
         /\ req'[q].pc \in {"list", "scan", "probe", "dump", "test", "done"}
         /\ req'[q].kind = req[q].kind
         /\ req'[q].pc = "done" => req[q].kind # "status"
<1>1. CASE List(q)
  BY <1>1, ListEffect DEF List
<1>2. CASE ReadFile(q)
  <2>1. req[q].pc = "scan"
    BY <1>2 DEF ReadFile
  <2>. QED  BY <1>2, <2>1, ReadFileCases, UnreadEffect, ReadsEffect
<1>3. CASE Scanned(q)
  <2>1. Step(q, "scan", "test") \/ Step(q, "scan", "dump")
    BY <1>3 DEF Scanned
  <2>. QED  BY <2>1, MoveEffect DEF Pcs, SameScan, Step
<1>4. CASE Dump(q)
  BY <1>4, DumpEffect DEF Dump, SameScan
<1>5. CASE NothingToProbe(q)
  <2>1. req[q].pc = "probe" /\ req'[q].pc = "done" /\ SameScan(q)
    BY <1>5, MoveEffect DEF NothingToProbe, Step, Pcs
  <2>. QED  BY <1>5, <2>1 DEF NothingToProbe, ProbesOf, SameScan
<1>6. ASSUME NEW h \in Hosts, NEW STATE v, v \in BOOLEAN, Return(q, h, v), req[q].pc = "probe"
      PROVE  /\ req'[q].pc \in {"scan", "probe", "done"} /\ req'[q].kind = req[q].kind
             /\ req'[q].pc = "done" => req[q].kind # "status"
  BY <1>6, ReturnEffect DEF SameScan
<1>7. ASSUME NEW h \in Hosts, Hit(q, h)
      PROVE  /\ req[q].pc = "probe" /\ req'[q].pc \in {"scan", "probe", "done"}
             /\ req'[q].kind = req[q].kind /\ (req'[q].pc = "done" => req[q].kind # "status")
  <2>1. cache[h].healthy \in BOOLEAN /\ Return(q, h, cache[h].healthy) /\ req[q].pc = "probe"
    BY <1>7 DEF Hit, Fresh, Typed, TypeOK, Entries, Probing
  <2>. QED  BY <1>6, <2>1
<1>8. ASSUME NEW h \in Hosts, Store(q, h)
      PROVE  /\ req[q].pc = "probe" /\ req'[q].pc \in {"scan", "probe", "done"}
             /\ req'[q].kind = req[q].kind /\ (req'[q].pc = "done" => req[q].kind # "status")
  <2>1. req[q].probes[h].up \in BOOLEAN /\ Return(q, h, req[q].probes[h].up)
          /\ req[q].pc = "probe"
    BY <1>8, ProbingTyped DEF Store
  <2>. QED  BY <1>6, <2>1
<1>9. ASSUME NEW h \in Hosts, Miss(q, h) \/ Dialled(q, h)
      PROVE  req[q].pc = "probe" /\ req'[q].pc = "probe" /\ req'[q].kind = req[q].kind
  <2>1. req[q].pc = "probe"
    BY <1>9, Zenon DEF Miss, Dialled, Probing
  <2>2. SameScan(q) /\ req'[q].pc = req[q].pc
    BY <1>9, MissEffect, DialledEffect, Zenon
  <2>. QED  BY <2>1, <2>2 DEF SameScan
<1>. QED  BY <1>1, <1>2, <1>3, <1>4, <1>5, <1>7, <1>8, <1>9 DEF Scanning, Probed

\* The steps of the test one by one.
Opens(q) ==
  /\ req[q].pc = "test" /\ req'[q].pc = "fill" /\ wrapper' = "empty" /\ tmp' = tmp
       /\ SameVerdict(q)
  /\ \A p \in Requests :
       alone'[p] <=> IF p = q THEN \A o \in Requests \ {q} : ~Testing(o) ELSE alone[p]
         /\ ~Testing(p)
GivesUp(q) ==
  /\ \/ req[q].pc = "test" /\ req'[q].pc = "done" /\ wrapper' = wrapper
     \/ req[q].pc = "fill" /\ req'[q].pc = "done" /\ wrapper' = "left"
     \/ req[q].pc = "mkdir" /\ req'[q].pc = "rmwrapper" /\ wrapper' = wrapper
  /\ tmp' = tmp /\ SameVerdict(q)
  /\ ~alone'[q] /\ \A p \in Requests \ {q} : alone'[p] = alone[p]
Places(q) ==
  /\ \/ req[q].pc = "fill" /\ req'[q].pc = "mkdir" /\ wrapper' = "full" /\ tmp' = tmp
     \/ req[q].pc = "mkdir" /\ req'[q].pc = "read" /\ wrapper' = wrapper /\ tmp' = TRUE
  /\ SameVerdict(q) /\ alone' = alone
Judges(q) ==
  /\ \/ req[q].pc = "read" /\ req'[q].pc = "scratch"
       /\ (req'[q].verdict <=> (wrapper = "full" /\ valid))
     \/ req[q].pc = "scratch" /\ req'[q].pc = "rmtmp"
          /\ (req'[q].verdict <=> (req[q].verdict /\ tmp))
  /\ wrapper' = wrapper /\ tmp' = tmp /\ alone' = alone
Clears(q) ==
  /\ \/ req[q].pc = "rmtmp" /\ req'[q].pc = "rmwrapper" /\ wrapper' = wrapper /\ tmp' = FALSE
     \/ req[q].pc = "rmwrapper" /\ req'[q].pc = "done" /\ wrapper' = "absent" /\ tmp' = tmp
  /\ SameVerdict(q) /\ alone' = alone

LEMMA RunningCases ==
  ASSUME Typed, NEW q \in Requests, Running(q)
  PROVE  Opens(q) \/ GivesUp(q) \/ Places(q) \/ Judges(q) \/ Clears(q)
<1>0. alone \in [Requests -> BOOLEAN]
  BY DEF Typed
<1>1. CASE OpenWrapper(q)
  <2>1. req[q].pc = "test" /\ req'[q].pc = "fill" /\ SameVerdict(q)
    BY <1>1, MoveEffect DEF OpenWrapper, Step, Pcs, TestPcs
  <2>2. wrapper' = "empty" /\ tmp' = tmp
    BY <1>1 DEF OpenWrapper
  <2>3. \A p \in Requests :
          alone'[p] <=> IF p = q THEN \A o \in Requests \ {q} : ~Testing(o) ELSE alone[p]
            /\ ~Testing(p)
    BY <1>1 DEF OpenWrapper
  <2>. QED  BY <2>1, <2>2, <2>3 DEF Opens
<1>2. CASE OpenFails(q)
  <2>1. req[q].pc = "test" /\ req'[q].pc = "done" /\ SameVerdict(q)
    BY <1>2, MoveEffect DEF OpenFails, Step, Pcs
  <2>. QED  BY <1>0, <1>2, <2>1 DEF OpenFails, GivesUp, files
<1>3. CASE FillFails(q)
  <2>1. req[q].pc = "fill" /\ req'[q].pc = "done" /\ SameVerdict(q)
    BY <1>3, MoveEffect DEF FillFails, Step, Pcs
  <2>. QED  BY <1>0, <1>3, <2>1 DEF FillFails, GivesUp
<1>4. CASE MkdirFails(q)
  <2>1. req[q].pc = "mkdir" /\ req'[q].pc = "rmwrapper" /\ SameVerdict(q)
    BY <1>4, MoveEffect DEF MkdirFails, Step, Pcs, TestPcs
  <2>. QED  BY <1>0, <1>4, <2>1 DEF MkdirFails, GivesUp, files
<1>5. CASE FillWrapper(q)
  <2>1. req[q].pc = "fill" /\ req'[q].pc = "mkdir" /\ SameVerdict(q)
    BY <1>5, MoveEffect DEF FillWrapper, Step, Pcs, TestPcs
  <2>. QED  BY <1>5, <2>1 DEF FillWrapper, Places, past
<1>6. CASE Mkdir(q)
  <2>1. req[q].pc = "mkdir" /\ req'[q].pc = "read" /\ SameVerdict(q)
    BY <1>6, MoveEffect DEF Mkdir, Step, Pcs, TestPcs
  <2>. QED  BY <1>6, <2>1 DEF Mkdir, MakeTemp, Places, past
<1>7. CASE NginxReads(q)
  BY <1>7, ReadsEffectTest DEF NginxReads, Judges, past, files
<1>8. CASE NginxScratch(q)
  BY <1>8, ScratchEffect DEF NginxScratch, Judges, past, files
<1>9. CASE Rmtmp(q)
  <2>1. req[q].pc = "rmtmp" /\ req'[q].pc = "rmwrapper" /\ SameVerdict(q)
    BY <1>9, MoveEffect DEF Rmtmp, Step, Pcs, TestPcs
  <2>. QED  BY <1>9, <2>1 DEF Rmtmp, RemoveTemp, Clears, past
<1>10. CASE RemoveWrapper(q)
  <2>1. req[q].pc = "rmwrapper" /\ req'[q].pc = "done" /\ SameVerdict(q)
    BY <1>10, MoveEffect DEF RemoveWrapper, Step, Pcs, TestPcs
  <2>. QED  BY <1>10, <2>1 DEF RemoveWrapper, Clears, past
<1>. QED  BY <1>1, <1>2, <1>3, <1>4, <1>5, <1>6, <1>7, <1>8, <1>9, <1>10 DEF Running

\* The steps of the world leave the tests alone.
LEMMA OutsideFrame ==
  ASSUME Outside \/ UNCHANGED vars
  PROVE  UNCHANGED <<req, wrapper, tmp, alone>>
  BY DEF Outside, ConfChanges, ValidityChanges, BackendChanges, Tick, vars, files, past

LEMMA StepAlone ==
  ASSUME Typed, ProbeInv, AloneInv, [Next]_vars
  PROVE  AloneInv'
<1>0. \A q \in Requests : ProbesOf(q)
  BY DEF ProbeInv, ProbesOf
<1>1. ASSUME NEW q \in Requests, Scanning(q)
      PROVE  AloneInv'
  <2>1. UNCHANGED <<wrapper, tmp, alone>>
    BY <1>1, ScanningFrame
  <2>2. Only(q) /\ req[q].pc \notin TestPcs /\ req'[q].pc \notin TestPcs
    BY <1>0, <1>1, ScanningOnly, ScanningPcs DEF TestPcs
  <2>. QED  BY <2>1, <2>2 DEF AloneInv, Testing, Only, TestPcs
<1>2. ASSUME NEW q \in Requests, Running(q)
      PROVE  AloneInv'
  <2>1. Only(q)
    BY <1>2, RunningOnly
  <2>2. CASE Opens(q)
    <3>. SUFFICES ASSUME NEW p \in Requests, alone'[p]
                  PROVE  /\ Testing(p)' => \A o \in Requests \ {p} : ~Testing(o)'
                         /\ req'[p].pc \notin {"mkdir", "read", "scratch"}
      BY DEF AloneInv
    <3>1. CASE p = q
      BY <2>1, <2>2, <3>1 DEF Opens, Testing, Only
    <3>2. CASE p # q
      BY <2>1, <2>2, <3>2 DEF Opens, Testing, Only, TestPcs
    <3>. QED  BY <3>1, <3>2
  <2>3. CASE GivesUp(q)
    <3>. SUFFICES ASSUME NEW p \in Requests, alone'[p], Testing(p)'
                  PROVE  /\ \A o \in Requests \ {p} : ~Testing(o)'
                         /\ req'[p].pc \in {"mkdir", "read", "scratch"} => wrapper' = "full"
                         /\ req'[p].pc \in {"read", "scratch"} => tmp' = TRUE
      BY DEF AloneInv, Testing, TestPcs
    <3>1. p # q /\ alone[p] /\ req'[p] = req[p] /\ Testing(p)
      BY <2>1, <2>3 DEF GivesUp, Only, Testing
    <3>2. \A o \in Requests \ {p} : ~Testing(o)
      BY <3>1 DEF AloneInv
    <3>3. req[q].pc = "test" /\ req'[q].pc = "done" /\ wrapper' = wrapper /\ tmp' = tmp
      BY <2>3, <3>1, <3>2 DEF GivesUp, Testing, TestPcs
    <3>. QED  BY <2>1, <3>1, <3>2, <3>3 DEF AloneInv, Testing, Only, TestPcs
  <2>4. CASE Places(q) \/ Judges(q) \/ Clears(q)
    <3>. SUFFICES ASSUME NEW p \in Requests, alone'[p], Testing(p)'
                  PROVE  /\ \A o \in Requests \ {p} : ~Testing(o)'
                         /\ req'[p].pc \in {"mkdir", "read", "scratch"} => wrapper' = "full"
                         /\ req'[p].pc \in {"read", "scratch"} => tmp' = TRUE
      BY DEF AloneInv, Testing, TestPcs
    <3>1. Testing(q) /\ alone[p]
      BY <2>4 DEF Places, Judges, Clears, Testing, TestPcs
    <3>2. p = q
      BY <2>1, <3>1 DEF AloneInv, Testing, Only
    <3>3. \A o \in Requests \ {q} : ~Testing(o) /\ req'[o] = req[o]
      BY <2>1, <3>1, <3>2 DEF AloneInv, Only
    <3>4. /\ req[q].pc \in {"mkdir", "read", "scratch"} => wrapper = "full"
          /\ req[q].pc \in {"read", "scratch"} => tmp = TRUE
      BY <3>1, <3>2 DEF AloneInv
    <3>5. /\ req'[q].pc \in {"mkdir", "read", "scratch"} => wrapper' = "full"
          /\ req'[q].pc \in {"read", "scratch"} => tmp' = TRUE
      BY <2>4, <3>4 DEF Places, Judges, Clears
    <3>. QED  BY <3>2, <3>3, <3>5 DEF Testing
  <2>. QED  BY <1>2, <2>2, <2>3, <2>4, RunningCases
<1>3. ASSUME NEW q \in Requests, NEW kind \in Kinds, Begin(q, kind)
      PROVE  AloneInv'
  <2>1. UNCHANGED <<wrapper, tmp, alone>>
    BY <1>3 DEF Begin, files
  <2>2. Only(q) /\ req'[q].pc \notin TestPcs
    BY <1>3, BeginEffect DEF TestPcs
  <2>. QED  BY <2>1, <2>2 DEF AloneInv, Testing, Only, TestPcs
<1>4. CASE Outside \/ UNCHANGED vars
  BY <1>4, OutsideFrame DEF AloneInv, Testing
<1>. QED  BY <1>1, <1>2, <1>3, <1>4, NextParts

\* VerdictInv of one request.
Judged(q) == req[q].pc \in {"scratch", "rmtmp", "rmwrapper"}
  \/ (req[q].pc = "done" /\ req[q].kind = "status")
VerdictOf(q) ==
  /\ req[q].verdict => TRUE \in told[q]
  /\ Judged(q) => req[q].verdict \/ FALSE \in told[q] \/ ~alone[q]

LEMMA RunningVerdict ==
  ASSUME Typed, NEW q \in Requests, ScanOf(q), AloneInv, VerdictOf(q), Running(q)
  PROVE  VerdictOf(q)'
<1>0. told' = told /\ req'[q].kind = req[q].kind
  BY RunningFrame, RunningOnly DEF SameScan
<1>1. valid \in BOOLEAN /\ tmp \in BOOLEAN /\ req[q].verdict \in BOOLEAN
        /\ req'[q].verdict \in BOOLEAN
  BY RunningOnly DEF Only, Typed, TypeOK, Requested
<1>2. CASE Opens(q) \/ GivesUp(q) \/ Places(q) \/ Clears(q)
  BY <1>0, <1>2 DEF Opens, GivesUp, Places, Clears, SameVerdict, VerdictOf, Judged
<1>3. CASE Judges(q) /\ req[q].pc = "read"
  <2>1. req'[q].verdict <=> (wrapper = "full" /\ valid)
    BY <1>3 DEF Judges
  <2>2. valid \in told[q]
    BY <1>3 DEF ScanOf, Active
  <2>3. alone[q] => wrapper = "full"
    BY <1>3 DEF AloneInv
  <2>4. req'[q].verdict => TRUE \in told[q]
    BY <1>1, <2>1, <2>2
  <2>5. req'[q].verdict \/ FALSE \in told[q] \/ ~alone[q]
    BY <1>1, <2>1, <2>2, <2>3
  <2>6. alone' = alone
    BY <1>3 DEF Judges
  <2>. QED  BY <1>0, <2>4, <2>5, <2>6 DEF VerdictOf
<1>4. CASE Judges(q) /\ req[q].pc = "scratch"
  <2>1. (req'[q].verdict <=> (req[q].verdict /\ tmp)) /\ alone' = alone
    BY <1>4 DEF Judges
  <2>2. alone[q] => tmp
    BY <1>4 DEF AloneInv
  <2>3. req[q].verdict \/ FALSE \in told[q] \/ ~alone[q]
    BY <1>4 DEF VerdictOf, Judged
  <2>. QED  BY <1>0, <2>1, <2>2, <2>3 DEF VerdictOf
<1>. QED  BY <1>2, <1>3, <1>4, RunningCases DEF Judges

LEMMA StepVerdict ==
  ASSUME Typed, ProbeInv, ScanInv, AloneInv, VerdictInv, [Next]_vars
  PROVE  VerdictInv'
<1>0. \A q \in Requests : ProbesOf(q) /\ ScanOf(q) /\ VerdictOf(q)
  BY DEF ProbeInv, ProbesOf, ScanInv, ScanOf, VerdictInv, VerdictOf, Judged
<1>. SUFFICES ASSUME NEW p \in Requests PROVE VerdictOf(p)'
  BY DEF VerdictInv, VerdictOf, Judged
<1>1. CASE req'[p] = req[p] /\ told[p] \subseteq told'[p] /\ (alone'[p] => alone[p])
  BY <1>0, <1>1 DEF VerdictOf, Judged
<1>2. ASSUME NEW q \in Requests, Scanning(q)
      PROVE  VerdictOf(p)'
  <2>1. UNCHANGED <<told, alone>> /\ Only(q) /\ SameVerdict(q)
    BY <1>2, ScanningFrame, ScanningOnly
  <2>2. ~Judged(q)'
    BY <1>0, <1>2, ScanningPcs DEF Judged
  <2>3. CASE p = q
    BY <1>0, <2>1, <2>2, <2>3 DEF VerdictOf, SameVerdict
  <2>. QED  BY <1>1, <2>1, <2>3 DEF Only
<1>3. ASSUME NEW q \in Requests, Running(q)
      PROVE  VerdictOf(p)'
  <2>1. told' = told /\ Only(q)
    BY <1>3, RunningFrame, RunningOnly
  <2>2. p # q => (alone'[p] => alone[p])
    BY <1>3, RunningCases DEF Opens, GivesUp, Places, Judges, Clears
  <2>. QED  BY <1>0, <1>1, <1>3, <2>1, <2>2, RunningVerdict DEF Only
<1>4. ASSUME NEW q \in Requests, NEW kind \in Kinds, Begin(q, kind)
      PROVE  VerdictOf(p)'
  <2>1. Only(q) /\ ~req'[q].verdict /\ req'[q].pc \in {"test", "list"}
    BY <1>4, BeginEffect
  <2>2. alone' = alone /\ (p # q => told'[p] = told[p])
    BY <1>4 DEF Begin, Typed
  <2>3. CASE p = q
    BY <2>1, <2>3 DEF VerdictOf, Judged
  <2>. QED  BY <1>1, <2>1, <2>2, <2>3 DEF Only
<1>5. CASE Outside \/ UNCHANGED vars
  <2>1. told[p] \subseteq told'[p]
    BY <1>5 DEF Outside, ConfChanges, ValidityChanges, BackendChanges, Tick, vars, past, Typed
  <2>. QED  BY <1>1, <1>5, <2>1, OutsideFrame
<1>. QED  BY <1>2, <1>3, <1>4, <1>5, NextParts

LEMMA StepLitter ==
  ASSUME Typed, ProbeInv, LitterInv, [Next]_vars
  PROVE  LitterInv'
<1>0. \A q \in Requests : ProbesOf(q)
  BY DEF ProbeInv, ProbesOf
<1>1. ASSUME NEW q \in Requests, Scanning(q)
      PROVE  LitterInv'
  <2>1. UNCHANGED <<wrapper, tmp>>
    BY <1>1, ScanningFrame
  <2>2. Only(q) /\ req[q].pc \notin TestPcs
    BY <1>0, <1>1, ScanningOnly, ScanningPcs DEF TestPcs
  <2>3. \A o \in Requests : Testing(o) => req'[o] = req[o]
    BY <2>2 DEF Testing, Only
  <2>. QED  BY <2>1, <2>3 DEF LitterInv, Testing, TestPcs
<1>2. ASSUME NEW q \in Requests, Running(q)
      PROVE  LitterInv'
  <2>1. \A o \in Requests \ {q} : req'[o] = req[o]
    BY <1>2, RunningOnly DEF Only
  <2>2. wrapper' \in {"empty", "full"} => \E o \in Requests : Testing(o)'
    <3>1. CASE req'[q].pc \in TestPcs
      BY <3>1 DEF Testing
    <3>2. CASE req'[q].pc \notin TestPcs /\ req[q].pc \notin TestPcs
      <4>1. wrapper' = wrapper
        BY <1>2, <3>2, RunningCases DEF Opens, GivesUp, Places, Judges, Clears, TestPcs
      <4>. QED  BY <2>1, <3>2, <4>1 DEF LitterInv, Testing
    <3>3. CASE req'[q].pc \notin TestPcs /\ req[q].pc \in TestPcs
      BY <1>2, <3>3, RunningCases DEF Opens, GivesUp, Places, Judges, Clears, TestPcs
    <3>. QED  BY <3>1, <3>2, <3>3
  <2>3. tmp' => \E o \in Requests : req'[o].pc \in {"read", "scratch", "rmtmp"}
    <3>1. CASE req'[q].pc \in {"read", "scratch", "rmtmp"}
      BY <3>1
    <3>2. CASE req'[q].pc \notin {"read", "scratch", "rmtmp"}
            /\ req[q].pc \notin {"read", "scratch", "rmtmp"}
      <4>1. tmp' = tmp
        BY <1>2, <3>2, RunningCases DEF Opens, GivesUp, Places, Judges, Clears
      <4>. QED  BY <2>1, <3>2, <4>1 DEF LitterInv
    <3>3. CASE req'[q].pc \notin {"read", "scratch", "rmtmp"}
            /\ req[q].pc \in {"read", "scratch", "rmtmp"}
      BY <1>2, <3>3, RunningCases DEF Opens, GivesUp, Places, Judges, Clears
    <3>. QED  BY <3>1, <3>2, <3>3
  <2>. QED  BY <2>2, <2>3 DEF LitterInv
<1>3. ASSUME NEW q \in Requests, NEW kind \in Kinds, Begin(q, kind)
      PROVE  LitterInv'
  <2>1. UNCHANGED <<wrapper, tmp>> /\ req[q].pc \in {"idle", "done"}
    BY <1>3 DEF Begin, files
  <2>2. \A o \in Requests : Testing(o) => req'[o] = req[o]
    BY <1>3, <2>1, BeginEffect DEF Testing, Only, TestPcs
  <2>. QED  BY <2>1, <2>2 DEF LitterInv, Testing, TestPcs
<1>4. CASE Outside \/ UNCHANGED vars
  BY <1>4, OutsideFrame DEF LitterInv, Testing
<1>. QED  BY <1>1, <1>2, <1>3, <1>4, NextParts

-----------------------------------------------------------------------------
(* The theorems *)

LEMMA InitIInv == Init => IInv
<1>. SUFFICES ASSUME Init PROVE IInv
  OBVIOUS
<1>1. Typed
  BY InitTyped
<1>2. \A q \in Requests : req[q] = Idle
  BY DEF Init
<1>6. \A q \in Requests : rows[q] = {}
  BY DEF Init
<1>3. ProbeInv /\ ScanInv
  BY <1>2, <1>6, IdleTyped DEF ProbeInv, ScanInv, Active
<1>4. ClockInv
  <2>1. \A h \in Hosts : alive[h] \in BOOLEAN /\ cache[h] = NoEntry
          /\ \A v \in BOOLEAN : was[h][v] = 0
    BY DEF Init
  <2>2. now = 0
    BY DEF Init
  <2>. QED  BY <1>2, <2>1, <2>2, IdleTyped DEF ClockInv
<1>5. AloneInv /\ VerdictInv /\ LitterInv
  BY <1>2, IdleTyped DEF Init, AloneInv, VerdictInv, LitterInv, Testing, TestPcs
<1>. QED  BY <1>1, <1>3, <1>4, <1>5 DEF IInv

LEMMA Inductive == IInv /\ [Next]_vars => IInv'
<1>. SUFFICES ASSUME IInv, [Next]_vars PROVE IInv'
  OBVIOUS
<1>1. Typed /\ ProbeInv /\ ClockInv /\ ScanInv /\ AloneInv /\ VerdictInv /\ LitterInv
  BY DEF IInv
<1>2. Typed' /\ ProbeInv'
  BY <1>1, StepTyped, StepProbe
<1>3. ClockInv' /\ ScanInv'
  BY <1>1, StepClock, StepScan
<1>4. AloneInv' /\ VerdictInv' /\ LitterInv'
  BY <1>1, StepAlone, StepVerdict, StepLitter
<1>. QED  BY <1>2, <1>3, <1>4 DEF IInv

LEMMA Honest == IInv => StatusHonest
<1>. SUFFICES ASSUME IInv PROVE StatusHonest
  OBVIOUS
<1>1. TypeOK
  BY DEF IInv, Typed
<1>2. AppsWitnessed
  <2>. SUFFICES ASSUME NEW q \in Requests, req[q].pc = "done", req[q].kind # "revert", NEW r \in Refs
                PROVE  /\ \/ req[q].apps[r] \in witness[q][r]
                          \/ req[q].apps[r] = NoFile /\ (unlisted[q] \/ r \in unread[q])
                       /\ req[q].kind = "dump" =>
                            IF r \in rows[q] THEN witness[q][r] # {NoFile}
                            ELSE NoFile \in witness[q][r] \/ unlisted[q]
    BY DEF AppsWitnessed
  <2>1. req[q].todo = {}
    BY DEF IInv, ScanInv
  <2>2. r \in rows[q] => \E f \in witness[q][r] : f # NoFile
    BY DEF IInv, ScanInv
  <2>3. \/ req[q].apps[r] \in witness[q][r]
        \/ req[q].apps[r] = NoFile /\ (unlisted[q] \/ r \in unread[q])
    BY <2>1 DEF IInv, ScanInv
  <2>4. req[q].kind = "dump" /\ r \notin rows[q] => NoFile \in witness[q][r] \/ unlisted[q]
    BY <2>1 DEF IInv, ScanInv
  <2>. QED  BY <2>2, <2>3, <2>4
<1>3. ConfigOkHonest
  BY DEF IInv, VerdictInv, ConfigOkHonest
<1>4. NoLitter
  <2>1. wrapper \in {"absent", "empty", "full", "left"}
    BY <1>1 DEF TypeOK
  <2>. QED  BY <2>1 DEF IInv, LitterInv, NoLitter, Testing, TestPcs
<1>. QED  BY <1>1, <1>2, <1>3, <1>4 DEF StatusHonest

\* For any number of requests, apps and backends, and any sequence of applies, deletes, edits and
\* failures of the file system: what /v1/status and /v1/dump report of an app was in its file at
\* some moment of the request, an app that is left out had no file at some moment of it or its
\* file or the directory could not be read, a file the dump leaves out without an error was not
\* there at some moment; config_ok is what nginx would have said of conf.d at some moment of the
\* request unless another test or a directory that cannot be written got in the way; and no test
\* leaves its wrapper or its scratch directory behind once none is under way (statusApps,
\* confDirFiles, RealRunner.Test).
THEOREM StatusIsHonest == Spec => []StatusHonest
<1>1. Init => IInv
  BY InitIInv
<1>2. IInv /\ [Next]_vars => IInv'
  BY Inductive
<1>3. IInv => StatusHonest
  BY Honest
<1>. QED  BY <1>1, <1>2, <1>3, PTL DEF Spec

\* A probe of a request that goes on ends with an answer from the cache or from a dial.
LEMMA ProbeEnds ==
  ASSUME Typed, ProbeInv, [Next]_vars, NEW q \in Requests, NEW h \in Hosts, Active(q),
         req[q].probes[h] # NoEntry, req'[q].probes[h] = NoEntry
  PROVE  Hit(q, h) \/ Store(q, h)
<1>0. /\ ProbesOf(q) /\ req[q].probes \in [Hosts -> Probes \cup {NoEntry}]
      /\ req'[q].probes # req[q].probes
  BY DEF ProbeInv, ProbesOf, Typed, Requested
<1>1. CASE Scanning(q)
  <2>1. CASE List(q)
    BY <1>0, <2>1, ListEffect DEF SameProbes
  <2>2. CASE ReadFile(q)
    <3>1. PICK r \in req[q].todo : r \in Refs
           /\ (Unread(q, r) \/ (disk[r] # NoFile /\ Reads(q, r)))
      BY <2>2, ReadFileCases
    <3>2. CASE Unread(q, r)
      BY <1>0, <3>1, <3>2, UnreadEffect DEF SameProbes
    <3>3. CASE disk[r] # NoFile /\ Reads(q, r)
      <4>1. Probe # NoEntry
        BY ProbeTyped DEF Typed, TypeOK
      <4>. QED  BY <1>0, <3>1, <3>3, <4>1, ReadsEffect
    <3>. QED  BY <3>1, <3>2, <3>3
  <2>3. CASE Scanned(q)
    <3>1. Step(q, "scan", "test") \/ Step(q, "scan", "dump")
      BY <2>3 DEF Scanned
    <3>. QED  BY <1>0, <3>1, MoveEffect DEF Pcs, SameProbes
  <2>4. CASE Dump(q)
    BY <1>0, <2>4 DEF Dump, ProbesOf
  <2>5. CASE NothingToProbe(q)
    BY <2>5 DEF NothingToProbe
  <2>6. ASSUME NEW g \in Hosts, Hit(q, g)
        PROVE  Hit(q, h)
    <3>1. cache[g].healthy \in BOOLEAN /\ Return(q, g, cache[g].healthy)
      BY <2>6 DEF Hit, Fresh, Typed, TypeOK, Entries
    <3>2. req'[q].probes = [req[q].probes EXCEPT ![g] = NoEntry]
      BY <3>1, ReturnEffect
    <3>. QED  BY <1>0, <2>6, <3>2
  <2>7. ASSUME NEW g \in Hosts, Store(q, g)
        PROVE  Store(q, h)
    <3>1. req[q].probes[g].up \in BOOLEAN /\ Return(q, g, req[q].probes[g].up)
      BY <2>7, ProbingTyped DEF Store
    <3>2. req'[q].probes = [req[q].probes EXCEPT ![g] = NoEntry]
      BY <3>1, ReturnEffect
    <3>. QED  BY <1>0, <2>7, <3>2
  <2>8. ASSUME NEW g \in Hosts, Miss(q, g)
        PROVE  FALSE
    <3>1. req'[q].probes = [req[q].probes EXCEPT ![g] = Missed(q, g)] /\ Missed(q, g) # NoEntry
      BY <2>8, MissEffect, NotNone
    <3>. QED  BY <1>0, <3>1
  <2>9. ASSUME NEW g \in Hosts, Dialled(q, g)
        PROVE  FALSE
    <3>1. req'[q].probes = [req[q].probes EXCEPT ![g] = Reached(q, g)] /\ Reached(q, g) # NoEntry
      BY <2>9, DialledEffect, NotNone
    <3>. QED  BY <1>0, <3>1
  <2>. QED  BY <1>1, <2>1, <2>2, <2>3, <2>4, <2>5, <2>6, <2>7, <2>8, <2>9 DEF Scanning, Probed
<1>2. ASSUME NEW p \in Requests \ {q}, Scanning(p)
      PROVE  FALSE
  BY <1>0, <1>2, ScanningOnly DEF Only
<1>3. ASSUME NEW p \in Requests, Running(p)
      PROVE  FALSE
  BY <1>0, <1>3, RunningOnly DEF Only, SameProbes
<1>4. ASSUME NEW p \in Requests, NEW kind \in Kinds, Begin(p, kind)
      PROVE  FALSE
  <2>1. p # q
    BY <1>4 DEF Begin, Active
  <2>. QED  BY <1>0, <1>4, <2>1, BeginEffect DEF Only
<1>5. CASE Outside \/ UNCHANGED vars
  BY <1>0, <1>5, OutsideFrame
<1>. QED  BY <1>1, <1>2, <1>3, <1>4, <1>5, NextParts

LEMMA AnswerFresh ==
  ASSUME IInv, [Next]_vars, NEW q \in Requests, NEW h \in Hosts, Active(q),
         req[q].probes[h] # NoEntry, req'[q].probes[h] = NoEntry
  PROVE  was[h][req'[q].health[h]] + TTL > req[q].probes[h].at
<1>1. Typed /\ ProbeInv /\ SeenInv /\ CacheInv /\ DatedInv
  BY ClockParts DEF IInv
<1>2. req[q].probes[h].at \in Nat
  BY <1>1, Constants DEF Typed, Requested, Probes
<1>3. TTL \in Nat /\ TTL > 0 /\ \A v \in BOOLEAN : was[h][v] \in Nat
  BY <1>1, Constants DEF Typed
<1>4. CASE Hit(q, h)
  <2>1. /\ cache[h] # NoEntry /\ req[q].probes[h].at < cache[h].at + TTL
        /\ Return(q, h, cache[h].healthy)
    BY <1>4 DEF Hit, Fresh
  <2>2. cache[h].healthy \in BOOLEAN /\ cache[h].at \in Nat
    BY <1>1, <2>1, Constants DEF Typed, TypeOK, Entries
  <2>3. req'[q].health[h] = cache[h].healthy
    <3>. DEFINE v == cache[h].healthy
    <3>1. v \in BOOLEAN /\ Return(q, h, v)
      BY <2>1, <2>2
    <3>. HIDE DEF v
    <3>2. req'[q].health[h] = v
      BY <1>1, <3>1, ReturnHealth, Zenon
    <3>. QED  BY <3>2 DEF v
  <2>4. cache[h].at <= was[h][cache[h].healthy]
    BY <1>1, <2>1 DEF CacheInv
  <2>5. was[h][cache[h].healthy] \in Nat
    BY <1>3, <2>2
  <2>6. was[h][cache[h].healthy] + TTL > req[q].probes[h].at
    BY <1>2, <1>3, <2>1, <2>2, <2>4, <2>5
  <2>. QED  BY <2>3, <2>6, Zenon
<1>5. CASE Store(q, h)
  <2>1. req[q].probes[h].up \in BOOLEAN /\ Return(q, h, req[q].probes[h].up)
        /\ req[q].probes[h].step = "store"
    BY <1>1, <1>5, ProbingTyped DEF Store
  <2>2. req'[q].health[h] = req[q].probes[h].up
    <3>. DEFINE v == req[q].probes[h].up
    <3>1. v \in BOOLEAN /\ Return(q, h, v)
      BY <2>1
    <3>. HIDE DEF v
    <3>2. req'[q].health[h] = v
      BY <1>1, <3>1, ReturnHealth, Zenon
    <3>. QED  BY <3>2 DEF v
  <2>3. req[q].probes[h].at <= was[h][req[q].probes[h].up]
    BY <1>1, <2>1 DEF DatedInv
  <2>4. was[h][req[q].probes[h].up] \in Nat
    BY <1>3, <2>1
  <2>5. was[h][req[q].probes[h].up] + TTL > req[q].probes[h].at
    BY <1>2, <1>3, <2>3, <2>4
  <2>. QED  BY <2>2, <2>5, Zenon
<1>. QED  BY <1>1, <1>4, <1>5, ProbeEnds

\* However many requests dial the same backend at once, and whichever result is stored last, what
\* a probe reports was true of the backend less than HealthCacheTTL before the probe looked
\* (upstreamHealthy, whose comment accepts the race).
THEOREM HealthIsFresh == Spec => HealthFresh
<1>1. Init => IInv
  BY InitIInv
<1>2. IInv /\ [Next]_vars => IInv'
  BY Inductive
<1>3. IInv /\ [Next]_vars =>
        [\A q \in Requests, h \in Hosts :
           req[q].probes[h] # NoEntry /\ req'[q].probes[h] = NoEntry /\ Active(q)
             => was[h][req'[q].health[h]] + TTL > req[q].probes[h].at]_vars
  BY AnswerFresh
<1>. QED  BY <1>1, <1>2, <1>3, PTL DEF Spec, HealthFresh
=============================================================================
