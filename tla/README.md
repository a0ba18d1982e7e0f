# Verification of deployer-lb-server

TLA+ models of the load-balancer listener, the pull-based runner and the agent of
`deployer-lb-server`, the TLC runs that check them on small instances, and TLAPS
proofs of their main properties for every instance. `PROJECT.json` lists components,
runs, mutants (deliberate bugs each property must catch), the map from definitions to
source lines, findings, hazards and theorems.

    tlc -workers 2 -config MCApplyPipeline.cfg MCApplyPipeline
    tlapm ApplyPipelineProofs.tla

## 1. The system

The repository builds three programs and installs a set of root scripts.

| part | state it keeps | operations |
|---|---|---|
| **apply listener** (`cmd/apply-server`, `internal/lbserver`) | `conf.d/*.conf`; maps `appliedRevision`, `idempotency`, `domainOwner`; one `appSlot` per app; nonce cache; probe cache; the global mutex `mu` | `POST /v1/apply`, `DELETE /v1/app/{ref}`, `POST /v1/pool`, `GET /v1/status`, `/v1/dump`, `/v1/fidelity` |
| nginx access (`internal/nginx`) | none of its own: files in `conf.d`, `nginx.conf`, the running nginx | `Test`, `Reload`, `DumpConfig`, `WriteAtomic`, `CopyConfTree`, `SetPoolDown`, parsers |
| payload and rendering (`internal/render`, `conf/`) | none | `ValidatePayload`, location rules, template |
| authentication (`internal/auth`, `internal/hmacauth`) | `NonceCache.seen` | bearer, timestamp window, HMAC, nonce |
| **runner** (`cmd/runner`, `internal/runner`) | backoff; per command: process group, output collector, batch counter | claim, execute, stream the log, keepalive, report |
| **agent** (`cmd/agent`, `internal/agent`) | disk buffer of reports, backoff, caches of the collectors | collect, send or buffer, flush |
| scripts (`scripts/`, `setup.sh`) | nftables sets and their file, swap file and fstab, installed units | block/unblock/allow, restore at boot, resize swap, install |

How they interact. The panel (outside the repository) sends signed requests to the
listener, answers the runner's long poll and takes the agent's reports. Inside the
listener each request is a goroutine. An apply passes authentication (shared nonce
cache), the app's coalescing slot and then the global mutex, under which one pipeline at
a time checks, stages, tests, promotes, reloads and records; a delete takes the same
mutex. A pool toggle takes no lock. `conf.d`, `nginx.conf` and the running nginx survive
the listener, its maps do not. In the runner, one loop claims and reports, and each
command has a reader goroutine, a goroutine in `cmd.Wait` and a keepalive goroutine; they
share the collector under a mutex and the batch counter of the loop without one.

What is hard, and what makes each part right:

* **apply pipeline**: overlapping calls, failures of each of a dozen steps, crashes
  between the rename and the reload, a backup that cannot be read, maps that disagree with
  the disk. Right when conf.d can be loaded, no two vhosts share a name, an error leaves no
  trace, a 200 is true, and acknowledged revisions do not go back.
* **coalescing**: requests join and leave a slot while its leader works, keys are replayed,
  apps are deleted. Right when nobody is stranded, a 200 means what it can mean to a caller
  who applied nothing itself, and the queue keeps its bound.
* **replay protection**: two clocks, stale readings, a cache swept by others. Right when a
  request is accepted once and a forged one costs the genuine one nothing.
* **pool toggle**: a hand-written file edited in place with truncate-and-write, no lock,
  and a ladder of restores. Right when acknowledged changes stay, a copy exists whenever
  the file may be damaged, and the answer says what nginx runs.
* **command executor**: a process group, a pipe that fills, a deadline, a grace period.
  Right when a command ends, with its whole output, and leaves nobody behind who could have
  been killed.
* **live log and lease**: two goroutines, one ticker, calls that are slow or lost. Right
  when a running command keeps its lease, a gap in the log can be told, and the result has
  every line.
* **agent sender**: an intake that comes and goes, a bounded directory, files named by the
  clock, restarts. Right when
  reports are lost only where the code says so, leave in order and get there in the end.
* **IP guard**: eight commands and a rename, any of which may be the last. Right when the
  control plane is never blocked, a policy is applied without a gap, and a reboot brings
  back what was there.
* **claim and report**: a long poll with a deadline on each side, lost answers, restarts of
  both ends. Right when no lease is left without a holder, pauses grow and shrink as they
  should, and every queued command is settled.
* **status and dump**: scans of a directory that changes, a probe cache, tests that share
  their files. Right when what is reported was so, and nothing is left behind.
* **rendering and readers**: four line readers of text that people and the template write.
  Right when they agree with nginx on the blocks of text they can read, when a verdict can
  be relied on, and when the listener reads its own payload back.
* **agent report**: sections read at different moments, cached, and joined by id. Right when
  stamps and rates are true, joins do not lose what was there throughout, and the report
  goes out.
* **swap**: see the plan.

`PROJECT.json` has the full list of hazards, each at its line.

## 2. Modules

| module | models | composed of / used by |
|---|---|---|
| `ApplyPipeline` | `runApplyLocked`, `checkDomainCollision`, `deleteApp`, restart | `ApplyStore` |
| `VhostStore` | abstract: what apply and delete promise | instantiated by `ApplyStore` |
| `ApplyStore` | the refinement mapping, pipeline to store | `MCApplyPipeline`, `ApplyPipelineProofs` |
| `Coalescer` | `submit`, `appSlot` | `MCCoalescer`, `RequestProofs` |
| `NonceReplay` | the checks of the write endpoints, `NonceCache` | `MCNonceReplay`, `RequestProofs` |
| `PoolToggle` | `handlePool`, `SetPoolDown`, `PoolIsDown` | `MCPoolToggle`, `PoolToggleProofs` |
| `RunnerTeardown` | `Execute`, `wait`, `terminate`, `consume` | `MCRunnerTeardown`, `ExecutorProofs` |
| `LogStream` | `outputCollector`, the keepalive goroutine, the sink of `Loop.run`, the panel's lease | `MCLogStream`, `ExecutorProofs` |
| `AgentSender` | `tick`, `Sender`, `DiskBuffer`, `BackoffPolicy` | `MCAgentSender`, `AgentProofs` |
| `IpGuard` | `ipctl` ensure, apply, restore; the boot unit | `MCIpGuard`, `IpGuardProofs` |
| `RunnerLoop` | `Loop.Run`, `cycle`, `report`, `Claim`, `SendResult`, `Backoff` | `MCRunnerLoop`, `RunnerLoopProofs` |
| `VhostRender` | `ValidatePayload`, the location rules, `OrderedLocations`, the template | extended by `ConfReaders` |
| `ConfReaders` | `ParseDump`, `BuildInventory`, `ParseManagedConf`, `Fidelity`, against nginx | `MCConfReaders` |
| `StatusProbe` | `statusApps`, `confDirFiles`, `upstreamHealthy`, `probePools`, `RealRunner.Test` | `MCStatusProbe`, `StatusProbeProofs` |
| `AgentReport` | `buildReport`, the caches, the joins and `selectProcs` | `MCAgentReport`, `AgentProofs` |

Three proof modules extend two components each, which belong to one flow and share no
state: `RequestProofs` (a request is let in, then coalesced), `ExecutorProofs` (a command's
output, then its end) and `AgentProofs` (a report is made, then sent). So that both can be
extended, one of the two prefixes the names every specification has (`ReplayInit`,
`ReplayNext`, `ReplaySpec`, `TeardownInit`, `SenderInit`, ...).

Definitions named "Mutant of X" are deliberate bugs: replacing X by one of them must make
a run fail. They are not part of any specification.

### ApplyPipeline

`disk` is conf.d, a function from refs to files; a file is what the listener reads back
from it: the kind of its first line, its revision, its `server_name`s, and a body that
stands for the rest. `served` is the tree of nginx's last good reload. `appliedRevision`,
`idempotency` and `domainOwner` are the maps of `Server`; absent keys are 0, not in the
set, and `NoRef`. `appliedRevision` has repos *and* refs as keys, because `deleteApp`
deletes by ref what `runApplyLocked` stores by repo. `mu` is the mutex, `pc` the position
of a goroutine between the places where another goroutine or a crash can come in.

One action per outcome of a step: `ApplyNoop`, `ApplyConflict`, `ApplyDumpFails` are the
early returns, `ApplyAdmit` passes them, `ApplyStage` copies conf.d to the overlay and
renders, `ApplyTest` runs `nginx -t` on it and reads the backup, `ApplyPromote` renames,
`ApplyReload`, `ApplyRestore`, `ApplyRecord` finish; a `...Fails` action is the error
branch of the step. `ApplyTestUnread` is the branch that has no error: the old file is there
and cannot be read, `hadBackup` stays false, and the revert (`Reverted`) removes the file.
`lost` is history: it says that this has happened since the last reload. The delete has the same shape. `Crash` empties the maps and the
goroutines and keeps `disk` and `served`. `Accepts`, the verdict of `nginx -t`, is an
arbitrary predicate on trees; a reload succeeds only on an accepted tree, and may fail on
any. Domains are compared by `Fold` (`strings.EqualFold`) in the scan of the live tree
and by spelling in `domainOwner`, as in the code.

### VhostStore and ApplyStore

`VhostStore` has a tree, what nginx has loaded, and the tree to go back to while a
transaction is open; no goroutines, no mutex, no overlay. `Change` puts a file in place or
takes one away such that nginx accepts the result, and then `Load`, `PutBack`, `GiveUp` or
`Lose` ends the transaction before the next one begins; `kept` says whether it can put the
old content back, and only if it cannot may it lose the file. `ApplyStore` maps `tree` to
conf.d, `undo` to the tree the goroutine found that is past its rename and before its reload,
and `kept` to its having read the backup; everything else of the pipeline is a stutter.

### Coalescer

`running`, `latest`, `waiters` are the fields of `appSlot`; a payload pointer is the
goroutine that made it, so `slot.latest == job` compares goroutines. `runApplyLocked` is
one step that finds the key recorded (a no-op, whatever the revision), finds the revision
not above the repository's counter (stale), fails, or applies and records. `Delete` is a
`deleteApp` that succeeds: the key and the counter stay. A waiter's channel has room for one
value: `Settle` sends without blocking. `top` is history: the highest revision an app was at.

### NonceReplay

The wall clock (timestamps) is the monotonic clock (nonce expiry) plus `skew`, which may
be stepped. A handler reads the clock once and reaches `CheckAndStore` up to `Stall`
later. HMAC and bearer are abstracted to `genuine`. `accepted` and `replayed` are history.

### PoolToggle

A whole `nginx.conf` is the set of backends that are `down` in it; `Empty` and `Broken`
are what truncate-and-write can leave. Each file access, test and reload is a step;
`WriteFails` before and after the truncation, the discarded error of the write-back, and
backups named by the second are modelled. `ApplyReload` is the reload of an apply or a
delete, which holds a mutex the toggle does not take: it may come between any two steps.
`acked`, `overlapped` and `excused` are history.

### RunnerTeardown

Processes of a group that fork, redirect, print into a pipe of bounded size, end, and die
of signals they are not deaf to; the reader, `cmd.Wait`, and `Execute` with its `select`s.
Who is deaf to SIGTERM (`stubborn`) and for which children the shell does not wait
(`daemons`) is any choice, made at the start. `Orphans` are those the signals sent could not
end: the SIGKILL follows only if the *shell* outlives SIGTERM and its grace. A timer may fire
at any moment after it was set. The process group is as the code sees it: a member that
leaves the group (`setsid`) is not modelled, nor is reuse of process ids, and the goroutine
that feeds `stdin`, for which `cmd.Wait` waits too, is assumed to end with the shell.

### LogStream

The part of `Execute` that `RunnerTeardown` leaves out. Time is kept as ages (`flushAge`,
`contactAge`, `leaseAge`) that stop counting at the value they are compared with; a tick of
the ticker is handled up to `Jitter` late, a call takes up to `Short`. `Flush` is the part
of `flush` under the lock and `Sink` the call of the sink after it, because the keepalive
goroutine can come in between; the same for `Keepalive` and `KeepaliveSink`. The process
itself is only its end (`Die`) and the end of its output (`Drain`), between which the
keepalive is stopped and any time may pass. The panel is external: a call that arrives renews
the lease. `missed`, `heldBack` and `unwatched` (time passed between the two) are history.

### AgentSender

`buffer` is the directory, in the order of the file names. Two marked reports, an older and
a newer one, are followed among any number of others, so the state stays finite while the
agent goes on for ever. A file whose write was cut short is `Torn`. Each of send, write,
each removal of a trim and each file of a flush is a step, and each may fail, the listing of
the directory too; `recordFailure` follows the write, as in the code. A new file is last in
the order of names, unless the wall clock was set back (`ClockSetBack`): then it may be
anywhere (`Named`).
`Stop` is the signal: the context is cancelled, calls fail, and the loop returns at its
next `select`. `Crash` is anything harder. `excused` is history: the reports the code gives
up.

### IpGuard

`live` are the kernel's sets, `file` the dump. An IPv4 entry is an address, a prefix length
and whether it is written with a "/": the differences are those of texts, so `Normalize`
(what the script does to the input) and `Printed` (what nft does to an element) matter. One
call of `nft` is a step and takes all of its elements or none; a set refuses ranges that
overlap. `ip_guard_set_elements` swallows a failing listing: `DiffUnread` takes such a set
for empty and goes on. Without the table `ip_guard_persist` writes nothing (`DumpNothing`),
without a file `ip_guard_restore` restores nothing (`RestoreNothing`), and both succeed. An
IPv6 entry is an address and how it is written: plain, with "/128", or another way. A policy's
"/128" is cut off, the one of `--protect` is not, and the two are compared as texts. A refused
policy changes nothing and is not a step. `alone`, `misread` and `synced` are history: the
calls that nobody disturbed, and the ones that missed a listing.

### RunnerLoop

A claim travels, is held by the panel for at most the window it asks for, and its answer
travels back, while the client's deadline runs (`call`, `timer`). What `Execute` does is one
step: its inside is `RunnerTeardown` and `LogStream`. `WaitSeconds` rounds up as the code
does, and `post` drops the error of reading a body, so an answer that is cut short may read
as "nothing to do" (`Truncate`). The panel is external: it leases, hands out, expires and
restarts. `failed`, `sent` and `excused` are history.

### VhostRender and ConfReaders

A line of configuration is what the readers tell apart: its kind, the first directive, what
follows on the same line, whether a brace closes it, whether a comment follows, how many
braces stand in that comment or in quotes (`stray`), whether its own brace is on the next line
(`split`) and whether its directive goes on to the next line (`cut`). A backend may have no
port.
`Render` is the template in those lines. Every line of a file goes through all readers at
once and through `NginxLine`, which keeps what the text really says; a file is rendered
from a payload that passes `ValidatePayload`, or written by hand in any order nginx
accepts. `Route` is nginx's choice of a location.

### StatusProbe

Requests scan conf.d file by file, any of which, or the directory, may not be readable: the
status leaves the app out, the dump keeps the row (`Row`). They probe backends through the cache (lookup, dial and store
are steps, the dial without the lock), and run `Test` with its wrapper and scratch directory
step by step. An apply's revert also runs `Test` on conf.d. `was`, `witness`, `told` and
`alone` are history: what was true of backends, files and configuration since a request
began, and whether another test overlapped; `unlisted` and `unread` are what could not be
read.

### AgentReport

`buildReport`, one step per section. A process is its id, its kind (owner of a port, unit,
container of an image) and an I/O counter; the kernel reuses ids. The cached sections are
one operator for three caches that have the same rule. `selectProcs` is `Tops`, `Ordered`
and `Kept`; what counts as busiest is any choice. The clock runs on within a report, and a
report's stamp is its start. A fault is a failing section, a hang of a command without a
deadline, a panic, a `Marshal` that fails, or a restart; `ended` says how a report ended.
`asked` (the report that last ran the commands of a section) and `steady` are history. The wall
clock is assumed not to step (`main.go:245` uses UTC(), which drops the monotonic reading), and
a container has an image id: the fallback to its tag (`images.go:241-244`), which would mark
another image after a re-tag, is left out.

## 3. Runs

Every run lists its properties in its cfg; each is stated and explained in its module.
Invariants that belong together are one property, the conjunction of named parts, and the
parts have a mutant each:

| property | parts |
|---|---|
| `SlotSound` | `TypeOK`, `LatestCoversWaiters`, `WaiterHasLeader`, `SlotBound` |
| `FileSound` | `TypeOK`, `BackupBeforeDamage`, `FileIsServed` |
| `ReturnSound` | `TeardownTypeOK`, `OutputComplete`, `GroupIsGone` |
| `NoSilentLoss` | `TypeOK`, `GapTold`, `OutputKept` |
| `BufferSound` | `SenderTypeOK` (the bound of the directory is in it), `MarkKept` |
| `AppliedIsKept` | `TypeOK`, `AppliedIsLive`, `RebootKeeps` |
| `BackoffSound` | `TypeOK` (the cap of the pause is in it), `BackoffLadder` |
| `ReadersAgree` | `TypeOK` (the depths of the readers are in it), `HostnameFound`, `InventoryWhole` |
| `VerdictEarned` | `FidelitySound`, `OwnVhostAccounted` |
| `PayloadReadBack` | `RoundTrip`, `PoolLinked`, `RoutingKept` |
| `StatusHonest` | `TypeOK`, `AppsWitnessed`, `ConfigOkHonest`, `NoLitter` |
| `NumbersTrue` | `TypeOK`, `StampTrue`, `RateBounded`, `AgeHonest` |
| `JoinsComplete` | `PinnedKept`, `InUseComplete` |

(A type invariant alone has a mutant only where a bound of the code is in it.)

| run | instance | result |
|---|---|---|
| `apply` | 2 goroutines, 2 apps and a third file name, 2 domains, one spelt with a capital, 3 payloads, fresh host and host with a hand-written file under an app's name that another needs; goroutines symmetric | passes, with the refinement, 526 k states |
| `coalescer` | 3 goroutines, 2 apps of one repository, 2 revisions under one key, deletes, queue of 1, with fairness | passes, 331 k states |
| `nonce` | 2 goroutines, 4 requests (one forged, one without nonce), Window = Stall = MaxSkew = 1, TTL = 5, time to 9 | passes |
| `pool` | 2 goroutines, 2 upstreams with 2 and 1 backends, one second | passes, 3.6 M states |
| `runner_teardown` | shell and 2 children, any of them deaf to SIGTERM, any child a daemon, 2 lines, pipe of 1 | passes, 106 k states |
| `log_stream` | keepalive 3, jitter 1, call 1, lease 9 (30 s, 15 s, 90 s in the code), 3 lines of two lengths, cap of 3, one call lost in a row | passes, 425 k states |
| `agent_sender` | 2 files, interval 2, backoff 2 then 4, 2 faults, with fairness | passes, 279 k states |
| `ip_guard` | 2 calls at a time, 8 addresses, 3 IPv6 addresses in 3 spellings, 7 policies, 1 failure, unlisted set, kill or reboot; calls symmetric | passes, 2.1 M states |
| `runner_loop` | 2 commands, 2 attempts, 2 faults, 1 outage, backoff 1, 2, 4 | passes |
| `conf_readers` | up to 2 files of together 5 lines out of 37 a person may write; a rendered file of every payload of the list, with every pair of 20 locations | passes, 339 k states |
| `status_probe` | 2 requests of three kinds, 2 apps, 1 backend, TTL 2, dial 1, 1 change of the world or unreadable file or directory | passes, 772 k states |
| `agent_report` | 2 pids, 2 images, list of 1 process, intervals of 2, time to 3, 1 change and 1 fault | passes, 330 k states |

Why the bounds are enough. *apply*: the mutex admits one goroutine, so two show every
interleaving of a holder with a waiter; two apps and two domains are the smallest number
in which a domain can be dropped, taken and wanted back; one payload is refused by
`nginx -t` in some trees only, and one file is needed by another, so that losing it leaves a
tree nginx refuses. *coalescer*: leader, waiter and one to find the queue full or to arrive
when the leader leaves; two revisions let an arrival be older or newer, and their one key is
recorded for the one and replayed for the other. *nonce*: the margin is exact, with TTL = 4 the run fails. *pool*: two
overlapping toggles of different pools, and of the same one; in one second both use the
same backup name, the worst case. *runner_teardown*: one child to be deaf and one not, one
to be waited for and one not, a pipe that is full after one line. *log_stream*: the lease outlasts two intervals, a jitter
and a call, which is what a tick that comes just too early costs; three lines are a full
batch and one that waits, and overrun the cap. *agent_sender*: two marked files fill the
buffer, a third push drops one; two faults are a torn file and a later crash, stop or skipped
file. *ip_guard*: the policies hold a range and a part of it (which nft refuses side by
side), a range named by an inner address, a single address with "/", blocks inside and
around a protected range, and of two protected IPv6 addresses, one plain and one with "/128",
a block of each; one fault is enough to leave kernel and file apart, and the second
call may come before or after it. *runner_loop*: two faults are a lost answer and a crash of
the same cycle, the backoff reaches its cap on the third failure, the margin is just larger
than two ways and the rounding. *conf_readers*: a server, a location and a directive fit in with their closing braces, a
shorter block leaves room for a stray brace, a split opener and a cut directive, and for a
second file in which the readers must have found their place again. *status_probe*: two requests overlap in lookup, dial and store and in every step of
`Test`; one change between them is what can make a report stale. *agent_report*: two pids
fill a list of one; in three units a section is read, sent again and read again; the one
change and the one fault may fall between any two steps.

Fairness. `Coalescer!FairSpec`: a goroutine that can run does (the Go scheduler; locks
are held for a few instructions; `runApplyLocked` is assumed to return, which needs nginx
and systemctl to return). No fairness on new calls. `RunnerTeardown!FairSpec`: the
runner's goroutines and timers make progress, and a killed child is reaped; **nothing** is
assumed of the command's processes, they may print, fork or sleep for ever, and
`ExecuteReturns` names the one that keeps the pipe.
`AgentSender!SenderSpec`: the agent's loop goes on (the ticker fires, calls have timeouts);
nothing is assumed of the intake, `CatchesUp` names the moment from which it stays up and
nothing else fails, whatever the backoff is then.
`RunnerLoop!Spec`: the loop's goroutine and timers go on and `Execute` returns; the panel
serves what it holds and expires leases; no fairness on faults. `StatusProbe!Spec`: a
handler that can go on does (dials have a timeout, `nginx -t` is assumed to return).
`AgentReport!Spec`: the agent's next step is taken; a hung command is not a step, and
`Reported` names it.

## 4. Proofs

`ApplyPipelineProofs` proves for any number of goroutines, apps, domains, payloads and
any `Accepts`:

* `Typing`: TypeOK is inductive together with `CallInv` (a goroutine past the lock has
  its job and target).
* `Mutex`: `MutexInv`, and with it that no path leaves the mutex locked.
* `AlwaysAccepted`: `DiskAccepted`. By itself it is not inductive: promoting needs that
  the overlay was accepted *and* that conf.d has not changed since it was copied, and
  restoring needs that putting the backup back gives the tree the call found. `TreeInv`
  says for each position which of `disk`, `served`, `base`, `overlay` and `backup` agree,
  and rests on `MutexInv`: the others are not inside. `IInv` is the conjunction. A backup
  that could not be read is the one way to an untested tree; it ends with the next reload.
* `NoTrace`, `Success`: the action properties, from `IInv`.
* `NoCollision`: `DomainsDisjoint`, which has its condition (`OneSpelling`) in its statement.
  `DomainInv` relates `domainOwner` to conf.d: a domain owned by an app is declared by nobody
  else, and an admitted payload's domains are free or its own. The condition cannot be
  dropped: `MCApplyCase.cfg` refutes `NamesDisjoint`.
* `NotRegressed`: `AcknowledgedNotRegressed`, if a pipeline has one repository (`OneRepo`;
  pipelines may share one). Only a reload changes what nginx serves, and it loads all of
  conf.d, so the reload for one app may load what a failed write-back left for another.
  `RevisionInv` says that this is no step back: conf.d, and the tree a write-back returns
  to, are nowhere older than what is served and acknowledged, and an admitted payload is
  newer than the map's entry until it is recorded. Without `OneRepo` two repositories that
  deploy to one ref have a counter each.
* `Implements`: `Spec => StoreSpec`, that the pipeline implements `VhostStore`. Initial
  states map to initial states; a rename is a `Change`, because `TreeInv` says that the
  overlay was accepted and conf.d is still what it was copied from; a reload is a `Load`; a
  write-back is a `PutBack`, because the backup in place of the file gives `undo`; a revert
  without a backup is a `Lose`; a failed write-back and a crash are a `GiveUp`; every other step stutters, because by `MutexInv`
  nobody but the holder of the mutex is past a rename. It rests on `IInv`.

`RequestProofs` proves of `NonceReplay`, for any window, TTL, stall, skew (with TTL >
2*Window + Stall + MaxSkew) and set of requests: `ReplayTyping`, `Replay` and `Refusal`. The
invariant says that an accepted request's nonce is in the cache with expiry `accepted +
TTL`, or the time has passed when any handler that got past `CheckTimestamp` could still use
it. Of `Coalescer` it proves, for any number of requests, apps and revisions and any queue
length, `Sound` (`SlotSound`) and `Covers` (`SettledCovers`). `LatestCoversWaiters` is not
inductive: `latest` and `job` are pointers to payloads, and nothing in it says that the
goroutine that brought a payload is still there. `Member` and `PayloadInv` say so: whoever a
slot points at waits on it or leads it. `LeaderInv` ties `running` to one leader, `ListInv`
the list to those who wait, `ResultInv` a "reloaded" to the revision that was applied and a
"noop" to the recorded key, and `KeyInv` a key to the revision it was recorded for, which the
app was at once, and which only a delete takes away.

`PoolToggleProofs` proves for any number of handlers, pools, backends and seconds, with
crashes, failures and reloads of applies in between, `Sound` (`FileSound`), `Acked`
(`AckedHolds`) and `Restored` (`RestoredIsLoaded`). `AloneInv` follows a handler that works
alone through the file it rewrites in place: the file is what it read, then empty, then what
it writes (`ConfInv`), and each of these shows what every other pool was acknowledged for
(`Keeps`), because `SetPoolDown` touches one block and blocks are disjoint
(`SetPoolDownSpares`). Assumed: nginx.conf has an upstream block (`Pools # {}`), without
which there is no request.

`ExecutorProofs` proves of `RunnerTeardown` `Returned` (`ReturnSound`) for any group, whoever of
it is deaf and whoever is a daemon. The output is complete because the end of the pipe comes
when the last writer is gone, and then all was read (`PipeInv`). `LeftInv` says at each
position who may be alive: after SIGTERM those who are deaf or came later, after the shell has
ended by itself only children it did not wait for, after SIGKILL nobody.

Of `LogStream` it proves `Told` (`NoSilentLoss`) and `Leased` (`LeaseKept`) for any number of
lines, batch size, cap, number of lost calls and all intervals with Short < Every, Jitter <
Every and Lease >= 2*Every + Jitter + Short; FlushLines is positive because
`newOutputCollector` makes it so (`exec.go:346-349`). No bound is put on the time between the
end of the shell and the end of its output. For the first, `CountInv` relates the
counter of the sink to that of the collector at each position and `GapInv` the batches that
arrived to the lines that did. For the second, `Silence` bounds how long the panel can have
heard nothing: by the time since the last contact while none is due, then by the tick, then
by the age of the call, and not at all once the keepalive has stopped. `ContactInv` shows that no keepalive starts while a batch is sent.

`RunnerLoopProofs` proves `Held` (`LeasedIsHeld` and `TypeOK`) for any set of commands, window,
latency, number of attempts and faults, if the margin exceeds two ways and the rounding of the
window. `TimeInv` follows a claim on its way out, at the panel and on its way back, and
bounds the deadline's timer at each place: it cannot fire while the panel may still hand out
a command. `CycleInv` counts the reports of a command in hand. Assumed: the mark of an
answer that cannot be decoded is not the name of a command. `OnTheLadder` (`BackoffSound`)
says for every first pause, factor and cap that the pause is the one its run of failures
calls for: the lemma `Rung` is one call of `Backoff.Next`, below the cap, across it and at
it. What a power is the provers do not know; `PowerAssumption` says it (Factor^0 = 1,
Factor^(n+1) = Factor * Factor^n), and TLC evaluates it in the run.

`AgentProofs` proves of `AgentSender`, for any buffer size, interval, backoff and number of
faults, `ReportsKept` (`BufferSound`) and `InOrder` (`LeavesInOrder`). `First` and `Second`
are any two reports of a run. The bound on the directory is not inductive: `RoomInv` says at
which position there may be one file more, and `StoreInv` that files are in the order in
which reports were built as long as the clock was not set back. The lemmas say what `Append`, a suffix and `RemoveAt` do to the
length, the range and the order of a sequence.

Of `AgentReport` it proves, for any processes, images, intervals, list sizes, width of a
counter and history of the host:

* `NumbersAreTrue` (`NumbersTrue`). `StampTrue` speaks of the report only; `DateInv` says the
  same of the caches it is filled from: whatever the host changed after a cached value was
  read, it changed at the value's date or later, because the date is taken before the
  commands run.
* `Throttled` (`ThrottleHolds`): the commands run at the clock's time, the cache has the start
  of the report; `AskedInv` says that it is the start of the report that ran them last.
* `JoinsAreComplete` (`JoinsComplete`). For images, `UseInv` follows a container that runs
  throughout from `docker ps` over `inspect` to `markImagesInUse`. For processes, `KeptList`
  says what the cap does: the first MaxProcs distinct members of a list are all of them or
  MaxProcs, and if the list begins with the pinned ones, either none of these is lost or
  nobody else is kept. That a finite set of ids has an ascending enumeration (`AscendingIs`)
  is shown by counting the smaller ones.

Assumed: the ids are 1..n, which fixes their order and nothing else; a counter has at least
two values.

`IpGuardProofs` proves for any width of an address, any policies and protected ranges, any
number of overlapping calls, failures, kills and reboots:

* `ProtectedStaysOpen` (`ProtectedNeverBlocked`). The guard compares prefixes as the script
  does, the property compares addresses; that two IPv4 ranges the script finds apart have
  none in common is arithmetic of division (`DivBounds` and the lemmas after it). What nft
  prints covers the same addresses as what it was given. An IPv6 entry is compared as a text;
  `Guarded` says of which ones that is enough. `SafeInv` carries this through
  `live`, `file` and a dump on its way from one to the other, and through calls that
  overlap: a call adds only what the policy it has checked wants.
* `WhatIsAppliedIsKept` (`AppliedIsKept`): `ProgressInv` follows a call that is alone
  through the four sets, the difference it has taken and what is left of it, from a listing
  that may be empty; `FileInv` says
  when the file is what is live, and that the flag `changed` is clear only if it still is.
* `NoWindow` (`WantedStays`), from the same: after the additions a set is what the policy
  wants and what is to be deleted, and the two are disjoint.

Assumed, in `NumberAssumption`: 2^m is positive, 2^(m+n) = 2^m * 2^n up to the width (which
the provers do not know, and TLC evaluates), an IPv6 entry is no IPv4 one, and the mark for
"no file" is no dump (`FileAssumption`).

`StatusProbeProofs` proves for any number of requests, apps, backends and any TTL > 0:

* `StatusIsHonest` (`StatusHonest`). `ScanInv` relates what a scan has read, and what is
  still on its list, to the history of each file and to what could not be read; `AloneInv` says that a test with no other
  beside it finds its own wrapper and scratch directory, `VerdictInv` where a verdict comes
  from, `LitterInv` that whatever is in the directory belongs to a test under way.
* `HealthIsFresh` (`HealthFresh`). `ClockInv` says that a cached result, and one that is
  about to be stored, was true at its date or later, so that an older result stored over a
  newer one still carries its own date.

Assumed: the marks for "no file" and "no entry" are neither (`NoneAssumption`).

All inductive invariants were checked by TLC on the instances of section 3 before they were
proved. `NotRegressed` is the one theorem with a hypothesis besides the assumptions on the
constants, `OneRepo`, which holds there too.

Only model-checked:

* liveness, which is out of the prover's reach: `EveryRequestAnswered`, `ExecuteReturns`,
  `CatchesUp`, `Settles`, `Answered`, `Reported`;
* the three invariants of `ConfReaders`, `ReadersAgree`, `VerdictEarned` and
  `PayloadReadBack`: each compares what folds over the lines of a file compute, which takes
  an induction over the file, and the provers have none.

## 5. Findings and observations

Statements of comments, messages and docs that the models refute. The modules define them.
The cfgs marked * check the statement alone and end in its trace; for the others, putting the
statement into the cfg named here gives it.

| statement | cfg | what happens |
|---|---|---|
| `NamesDisjoint` (`server.go:638-640`) | `MCApplyCase.cfg`* | `domainOwner` goes by spelling and keeps domains an app has dropped, the scan folds case: a drops shop.example, b takes Shop.Example, a takes shop.example back without a scan |
| `AckedStays` (`pool.go:21-22`) | `MCPoolLost.cfg`* | two toggles read the same file and each writes its own copy back: an acknowledged change is gone |
| `NobodyStays` (`exec.go:38`, `:258-260`) | `MCRunnerStubborn.cfg`* | the shell dies of SIGTERM, a child ignores it and has redirected its output; no SIGKILL follows, Execute returns and the child runs on |
| `AlwaysReturns` (`exec.go:139`, `:236-237`) | `MCRunnerStubborn.cfg`* | the same with a child that holds the pipe, or a background child of a command that ended in time: Execute waits beyond its deadline |
| `LeaseKeptPending` (`exec.go:417-419`) | `MCLogPending.cfg`* | a line that does not fill a batch holds the keepalive back and nothing flushes it: the lease lapses with no call lost |
| `RevertedIsReverted` (`server.go:588`) | `MCApplyReverted.cfg`* | the write-back fails and is not looked at, or the old file could not be read (`server.go:565-570`) and is removed; the answer says "reverted" |
| `StaleMeansOlder` (`server.go:106`) | `MCApplyShared.cfg`* | two apps of one repo share a counter: a newer payload of one is refused as stale because of the other |
| `TestDependsOnConfigAlone` (`nginx/runner.go:86-87`) | `MCStatusAlone.cfg`* | one test removes the files of another: `config_ok` is false for a sound configuration |
| `LastGoodResent` (`storage.go:36-42`) | `MCAgentReport.cfg` | a reading that fails replaces the last good value, and is then sent for a whole interval |
| `DockerNeverHoldsUp` (`docker.go:27-32`) | `MCAgentReport.cfg` | only `docker stats` has a deadline; `ps`, `inspect` and `images` can hang the agent |
| `HandlesCurrent` (`processes.go:25-30`) | `MCAgentReport.cfg` | an id that is reused between two reports keeps the handle of the dead process |
| `NotInUseIsUnused` (`images.go:226-229`) | `MCAgentReport.cfg` | when the containers could not be read, every image is `in_use: false` |
| `HandWrittenUntouched` (`conf/nginx-app.conf.tmpl:8-11`) | `MCApplyPipeline.cfg` | an apply whose ref names a hand-written file replaces it; only the delete looks at the header |
| `DeleteForgetsRevision` (`server.go:783`) | `MCApplyPipeline.cfg` | `deleteApp` deletes by ref what is stored by repo: a deleted app cannot come back with a lower revision |
| `NoopIsServed` (`pool.go:120-128`) | `MCPoolToggle.cfg` | after a crash between write and reload the retry is told the pool was in that state already, and nothing reloads nginx |
| `LeaseKeptDraining` (`exec.go:214-217`) | `MCLogStream.cfg` | the keepalive stops when the shell is reaped, the reader goes on as long as a child holds the pipe: the lease lapses while the output is still read |
| `OwnVhostReproducible` (`fidelity_test.go:41`) | `MCFidelityOwn.cfg`* | a directive with a comment behind it does not parse; the template writes two, so every vhost the listener renders is `not_reproducible`. The test's vhost has no such comment |
| `ReproducibleIsFlat` (`fidelity.go:28-31`) | `MCFidelityNested.cfg`* | nested locations are read as if they stood side by side: a vhost the template cannot write is called reproducible |
| `ThreeLosses` (`protocol.go:42-44`) | `MCLogStream.cfg` | a tick a moment before `lastContact` is an interval old is skipped, so a quiet command calls every second interval, and one lost call costs the lease |
| `KeepaliveIsNext` (`loop.go:165-169`) | `MCLogStream.cfg` | the keepalive reads the counter after the batch took its number, and arrives before the batch: the panel sees a gap |
| `AllCaughtUp` (`transport.go:61-63`) | `MCAgentSender.cfg` | a torn file is refused and ends every flush: what is behind it waits until newer reports push it out |
| `AppliedIsPersisted` (`deployer-lb-guard.service:7-9`, `ip-lib.sh:115-116`) | `MCIpGuard.cfg` | a call cut short before the dump is repeated; the repetition finds nothing to do, does not write the file, and reports success; a reboot brings back the old sets |

Seen while modelling:

* `ip-lib.sh:336-345` adds before it deletes: a policy that narrows or widens a range asks
  nft for an overlap, is refused, and stays refused however often it is sent
  (`NftFails`).
* `ip-lib.sh:327-329`: an entry nft prints differently (10.0.0.7/24) is added, which changes
  nothing, and its printed form is deleted; the next sync adds it again. `AppliedIsLive`
  and `WantedStays` are therefore stated for canonical policies.
* `buffer.go:43-45`: a failed write leaves its file and returns before `trim`; while the disk
  is full the directory grows beyond `MaxFiles`, by an empty file per tick.
* `exec.go:379`: after the truncation note a shorter line still fits, so the hole may be in
  the middle; `protocol.go:178` says the output "lost its tail".
* `status.go:7-9` says that the status is consistent with what nginx serves; after a crash
  between rename and reload (`server.go:572`, `:576`) it is not until the next reload.
* `status.go:63-64` says that it mirrors the delete's contract; `deleteApp` asks for the
  prefix `# managed-by:` only, which the installer's `00-default.conf` has.
* `server.go:517-519`: a key that was recorded is a no-op whatever the payload's revision is and
  whatever became of the app: replayed after a delete it is answered with success.
* `ipctl.sh:22-26`: `--protect fd00::1/128` protects nothing; the option keeps its "/128", the
  policy's is cut off, and IPv6 is compared as text. Neither does it protect an address that a
  policy spells another way (`Guarded`).
* `ip-lib.sh:161-176`: a set that cannot be listed is taken for empty; nothing is deleted from
  it and the call succeeds (`misread`).
* `storage.go:40` says "at most once per TTL": the interval counts from the start of the report,
  the commands run later in it, so two runs of them can be closer (`ThrottleHolds`).
* `buffer.go:41-42`: names come from the wall clock; after a step back a newer report leaves
  first (`LeavesInOrder` names it).
* `pool.go:144`: a discarded write-back again, answered with `"restored": true`. `pool.go:160`: a write that fails after
  the truncation removes the backup of the truncated file.
* `client.go:84-90`: the wait is rounded up to whole seconds and the client's deadline is
  not, so a margin below one second may be used up by the rounding alone.
* `inventory.go:153-156`: any header comment at the top level, not only "the file's first real
  line", makes the vhosts after it managed; `ParseDump` looks at the first line only.
* `inventory.go:195`: braces in comments and in quotes are counted; with one that is not a
  block's the place is lost until the next file (`NewFile`).
* `inventory.go:89-96`: an opener whose brace is on the next line is not seen, nor a directive
  that ends on the next line, nor a backend without a port, so a pool may be read as down that
  is not.
* `inventory.go`: only the first directive of a line and the first behind a brace are read, and
  a `proxy_pass` nested below a location replaces the location's own.
* `legacy.go`: a `server_name` behind a brace is not found (`HostnameFound` says so): a vhost
  written on one line does not take part in the collision check.
* `fidelity.go:257`: `server { ... }` on one line leaves the depth at 1, and the body of a
  location on one line is not classified: it may be called reproducible.
* `fidelity.go:343-348`: `externalProxyPass` never returns "", `http://` has a colon.
* `locations.go:219-231`: `^~ /a` beside `/a` is accepted; nginx calls it a duplicate.
* `render.go:15-22`: refs that differ in "-" and "_" only share an upstream name.
* `nginx-app.conf.tmpl:38`: an IPv6 upstream is rendered without brackets.
* `readconf.go`: an `include` with a comment behind it is dropped.
* `docker.go:91`: `docker ps -q` leaves stopped containers out, so their images are
  `in_use: false`.
* `nginx/runner.go:93-96`: a wrapper that could not be written is left behind.
* `server.go:510-511`: the comment says a replayed key is a no-op whatever the outcome
  was; a key is recorded on success only.

## 6. Plan

Done: the modules above, in the order of the table in section 2: the core of the listener
first, then what else changes a host.

Next, modules:

1. `Listener`: `Coalescer` over `ApplyPipeline`, `Coalescer`'s single step shown to be what
   `VhostStore` does.
2. `SwapCtl` (`swapctl.sh`: swap file, fstab, resize).
3. `ReadConfTree`: includes, cycles and the depth bound, in front of `ConfReaders`.

Next, theorems: a `Listener` that composes `RequestProofs` with `Implements`, so that an
answer is a statement about `VhostStore`.

## 7. Not modelled

* Text below the line: JSON, quoting, wording, log lines. What a regular expression accepts
  is a set.
* `ReadConfTree` (the fallback of `nginx -T`), see the plan.
* The parsers of the agent's collectors (`docker inspect`, smartctl, ethtool, `/proc`), and
  the sections read on every tick and joined with nothing (server metrics, disk I/O, link
  counters, file systems): pure functions of text.
* `hmacauth`: a signature is genuine or not.
* `swapctl.sh`: see the plan.
* `setup.sh` provisions a host: package installation, downloads, unit files.
* `cmd/apply-server/main.go`: flags and wiring.
