------------------------------ MODULE IpGuard ------------------------------
(***************************************************************************)
(* The firewall sets of a host: scripts/lib/ip-lib.sh and scripts/ipctl.sh,*)
(* with the boot unit systemd/deployer-lb-guard.service.                   *)
(*                                                                         *)
(* `ipctl apply` reads a policy, refuses it if it blocks a protected       *)
(* range, and brings each of four nftables sets to it by the difference of *)
(* two texts: the policy's entries and what nft prints.  What it changed   *)
(* is then dumped into the file the boot unit loads.  Nothing keeps two    *)
(* calls of ipctl apart.                                                   *)
(*                                                                         *)
(* An IPv4 entry is an address and a prefix length in a space of W bits,   *)
(* with or without the "/" that is optional for a single address.  IPv6    *)
(* entries the scripts only compare as texts: an address, or a wider range,*)
(* is a model value, written as nft prints it, with "/128" behind it, or   *)
(* in another spelling.  What nft does with entries is modelled from how   *)
(* the scripts use it: a set of intervals refuses overlapping ones, prints *)
(* a range by its first address, and takes a command's elements all or     *)
(* none.  Every call begins with ensure, so that the table is there; a     *)
(* listing of it may still fail, and the scripts take that for nothing.    *)
(***************************************************************************)
EXTENDS Naturals, Sequences, FiniteSets

CONSTANTS
  W,          \* address bits: 32
  Addr6,      \* IPv6 addresses
  Protected,  \* the --protect options
  Loopback, Loopback6, \* 127.0.0.0/8 and ::1
  Policies,   \* inputs: sets of [action, cidr]
  Runs,       \* processes that run ipctl
  Idle,       \* no policy
  NoFile,     \* the persistence file is missing or empty
  MaxFaults   \* bound on failures, kills and reboots

V4 == {c \in [addr : 0..(2^W - 1), len : 0..W, form : {"slash", "plain"}] :
         c.len < W => c.form = "slash"}
V6 == [addr6 : Addr6, form : {"plain", "slash", "long"}]

ASSUME AddressAssumption ==
  /\ W \in Nat /\ MaxFaults \in Nat /\ V4 \cap V6 = {}
  /\ Protected \subseteq V4 \cup V6 /\ Loopback \in V4 /\ Loopback6 \in V6
\* An IPv6 address is no IPv4 address, and what a power of two is, which the provers do
\* not know.
ASSUME NumberAssumption ==
  /\ Addr6 \cap Nat = {}
  /\ \A m, n \in 0..W : 2^m \in Nat \ {0} /\ (m + n <= W => 2^(m + n) = 2^m * 2^n)
ASSUME PolicyAssumption ==
  /\ Policies \subseteq SUBSET [action : {"allow", "block"}, cidr : V4 \cup V6]
  /\ Idle \notin Policies

IP_GUARD_SETS == <<"bo_allow_v4", "bo_allow_v6", "bo_block_v4", "bo_block_v6">>
SetNames == {IP_GUARD_SETS[i] : i \in DOMAIN IP_GUARD_SETS}
NoElements == [s \in SetNames |-> {}]

VARIABLES
  live,     \* the sets in the kernel
  file,     \* the persisted dump
  pc,       \* per run: "idle", "diff", "add", "del", "persist", "rename", "done"
  policy,   \* per run: its input; Idle for `ipctl ensure`
  at,       \* per run: index of the set it is at
  toAdd, toDel, \* per run: the differences
  changed,  \* per run: added > 0 or removed > 0
  misread,  \* history, per run: nft failed to list a set, which then read as empty
  dump,     \* per run: the temporary file
  alone,    \* history, per run: no other call of ipctl overlapped it
  synced,   \* history: since a call last wrote the file, no other has overlapped,
            \* failed, been cut short or left the dump out, and no restore has failed
  faults

local == <<pc, policy, at, toAdd, toDel, changed, misread, dump>>
vars  == <<live, file, local, alone, synced, faults>>

Elements == [SetNames -> SUBSET (V4 \cup V6)]
ASSUME FileAssumption == NoFile \notin Elements

TypeOK ==
  /\ live \in Elements /\ file \in Elements \cup {NoFile} /\ dump \in [Runs -> Elements]
  /\ pc \in [Runs -> {"idle", "diff", "add", "del", "persist", "rename", "done"}]
  /\ policy \in [Runs -> Policies \cup {Idle}] /\ at \in [Runs -> 1..4]
  /\ toAdd \in [Runs -> SUBSET (V4 \cup V6)] /\ toDel \in [Runs -> SUBSET (V4 \cup V6)]
  /\ changed \in [Runs -> BOOLEAN] /\ misread \in [Runs -> BOOLEAN] /\ alone \in [Runs -> BOOLEAN]
  /\ synced \in BOOLEAN /\ faults \in 0..MaxFaults

-----------------------------------------------------------------------------
(* Addresses *)

\* The number of addresses of a range, and its first address.
Size(c)    == 2^(W - c.len)
Network(c) == (c.addr \div Size(c)) * Size(c)
Addresses(c) == Network(c)..(Network(c) + Size(c) - 1)

\* _v4_contains
Contains(outer, inner) ==
  /\ inner.len >= outer.len
  /\ outer.addr \div Size(outer) = inner.addr \div Size(outer)

\* Mutant of Overlaps: one direction only.
OverlapsAround(c, d) == Contains(c, d)

\* _v4_overlaps
Overlaps(c, d) == Contains(c, d) \/ Contains(d, c)

\* Mutant of Normalize: "/32" stays.
NormalizeNothing(c) == c

\* ip_guard_normalize: a single address is written without its "/32" or "/128".
Normalize(c) ==
  IF (c \in V4 /\ c.len = W) \/ (c \in V6 /\ c.form = "slash")
    THEN [c EXCEPT !.form = "plain"] ELSE c

\* How nft prints an element.
Printed(c) ==
  IF c \in V4
    THEN [addr |-> Network(c), len |-> c.len, form |-> IF c.len < W THEN "slash" ELSE "plain"]
    ELSE [c EXCEPT !.form = "plain"]

\* ip_guard_check_protected: the --protect options are compared as they were given.
Covers(c, p) == IF c \in V6 \/ p \in V6 THEN c = p ELSE Overlaps(c, p)
Critical     == Protected \cup {Loopback, Loopback6}
Refused(p)   == \E e \in p, q \in Critical :
                  e.action = "block" /\ Covers(Normalize(e.cidr), q)

SetOf(e) == CASE e.action = "allow" /\ e.cidr \in V4 -> "bo_allow_v4"
              [] e.action = "allow" /\ e.cidr \in V6 -> "bo_allow_v6"
              [] e.action = "block" /\ e.cidr \in V4 -> "bo_block_v4"
              [] e.action = "block" /\ e.cidr \in V6 -> "bo_block_v6"

\* The texts a policy wants in a set.
Want(p, s) == {Normalize(e.cidr) : e \in {f \in p : SetOf(f) = s}}

-----------------------------------------------------------------------------
(* A call of ipctl *)

Init ==
  /\ live = NoElements /\ file = NoFile /\ dump = [r \in Runs |-> NoElements]
  /\ pc = [r \in Runs |-> "idle"] /\ policy = [r \in Runs |-> Idle]
  /\ at = [r \in Runs |-> 1]
  /\ toAdd = [r \in Runs |-> {}] /\ toDel = [r \in Runs |-> {}]
  /\ changed = [r \in Runs |-> FALSE] /\ misread = [r \in Runs |-> FALSE]
  /\ alone = [r \in Runs |-> FALSE]
  /\ synced = TRUE /\ faults = 0

Goto(r, l) == pc' = [pc EXCEPT ![r] = l]

\* A run that begins: whoever is under way is no longer alone.
Begins(r) ==
  LET nobody == \A q \in Runs : pc[q] = "idle" IN
  /\ alone'  = [q \in Runs |-> q = r /\ nobody]
  /\ synced' = (synced /\ nobody)

\* The process ends; a shell has no state left.
Ends(r) ==
  /\ Goto(r, "idle")
  /\ policy' = [policy EXCEPT ![r] = Idle] /\ at' = [at EXCEPT ![r] = 1]
  /\ toAdd' = [toAdd EXCEPT ![r] = {}] /\ toDel' = [toDel EXCEPT ![r] = {}]
  /\ changed' = [changed EXCEPT ![r] = FALSE] /\ misread' = [misread EXCEPT ![r] = FALSE]
  /\ dump' = [dump EXCEPT ![r] = NoElements]
  /\ alone' = [alone EXCEPT ![r] = FALSE]

\* ensure creates what is missing and leaves the elements; then the input is read.
\* A policy that is refused ends the call there.
Apply(r, p) ==
  /\ pc[r] = "idle"
  /\ ~Refused(p)
  /\ Goto(r, "diff")
  /\ policy' = [policy EXCEPT ![r] = p]
  /\ Begins(r)
  /\ UNCHANGED <<live, file, at, toAdd, toDel, changed, misread, dump, faults>>

\* ipctl ensure, of a new installation or a later one
Ensure(r) ==
  /\ pc[r] = "idle"
  /\ Goto(r, "persist")
  /\ Begins(r)
  /\ UNCHANGED <<live, file, policy, at, toAdd, toDel, changed, misread, dump, faults>>

Here(r) == IP_GUARD_SETS[at[r]]

\* Mutant of Compare: nothing is ever removed.
CompareAdding(r, current) ==
  LET add == Want(policy[r], Here(r)) \ current
  IN /\ toAdd' = [toAdd EXCEPT ![r] = add] /\ UNCHANGED toDel
     /\ changed' = [changed EXCEPT ![r] = @ \/ add # {}]

\* Mutant of Compare: only additions count as a change.
CompareCountingAdds(r, current) ==
  LET desired == Want(policy[r], Here(r))
  IN /\ toAdd' = [toAdd EXCEPT ![r] = desired \ current]
     /\ toDel' = [toDel EXCEPT ![r] = current \ desired]
     /\ changed' = [changed EXCEPT ![r] = @ \/ desired \ current # {}]

\* The differences of one set; they are counted when both have been applied, and
\* looked at after the last set.
Compare(r, current) ==
  LET desired == Want(policy[r], Here(r))
  IN /\ toAdd' = [toAdd EXCEPT ![r] = desired \ current]
     /\ toDel' = [toDel EXCEPT ![r] = current \ desired]
     /\ changed' = [changed EXCEPT ![r] = @ \/ desired # current]

Diff(r) ==
  /\ pc[r] = "diff"
  /\ Compare(r, live[Here(r)])
  /\ Goto(r, "add")
  /\ UNCHANGED <<live, file, policy, at, misread, dump, alone, synced, faults>>

\* ip_guard_set_elements: nft fails to list the table or the set, "|| true" hides it, and
\* the set reads as empty.
DiffUnread(r) ==
  /\ pc[r] = "diff" /\ faults < MaxFaults
  /\ Compare(r, {})
  /\ misread' = [misread EXCEPT ![r] = TRUE] /\ faults' = faults + 1
  /\ Goto(r, "add")
  /\ UNCHANGED <<live, file, policy, at, dump, alone, synced>>

\* nft: what a set is with more elements, and whether it takes them.
With(s, es) == live[s] \cup {Printed(c) : c \in es}
Takes(s, es) == \A c, d \in With(s, es) \cap V4 : c # d => ~Overlaps(c, d)

Add(r) ==
  /\ pc[r] = "add"
  /\ toAdd[r] # {} => Takes(Here(r), toAdd[r])
  /\ live' = [live EXCEPT ![Here(r)] = With(Here(r), toAdd[r])]
  /\ Goto(r, "del")
  /\ UNCHANGED <<file, policy, at, toAdd, toDel, changed, misread, dump, alone, synced, faults>>

\* nft refuses to delete what is not there.  After the last set the dump follows,
\* if anything was different.
Del(r) ==
  /\ pc[r] = "del"
  /\ toDel[r] \subseteq live[Here(r)]
  /\ live' = [live EXCEPT ![Here(r)] = @ \ toDel[r]]
  /\ toAdd' = [toAdd EXCEPT ![r] = {}] /\ toDel' = [toDel EXCEPT ![r] = {}]
  /\ at' = [at EXCEPT ![r] = IF @ = 4 THEN 1 ELSE @ + 1]
  /\ Goto(r, IF at[r] < 4 THEN "diff" ELSE IF changed[r] THEN "persist" ELSE "done")
  /\ UNCHANGED <<file, policy, changed, misread, dump, alone, synced, faults>>

\* ip_guard_persist: the table is listed into a temporary file ...
Dump(r) ==
  /\ pc[r] = "persist"
  /\ dump' = [dump EXCEPT ![r] = live]
  /\ Goto(r, "rename")
  /\ UNCHANGED <<live, file, policy, at, toAdd, toDel, changed, misread, alone, synced, faults>>

\* ip_guard_table_present fails, and nothing is written: no error.
DumpNothing(r) ==
  /\ pc[r] = "persist" /\ faults < MaxFaults
  /\ faults' = faults + 1
  /\ synced' = (synced /\ ~changed[r])
  /\ Goto(r, "done")
  /\ UNCHANGED <<live, file, policy, at, toAdd, toDel, changed, misread, dump, alone>>

\* ... which takes the place of the file.
Rename(r) ==
  /\ pc[r] = "rename"
  /\ file' = dump[r]
  /\ synced' = alone[r]
  /\ Goto(r, "done")
  /\ UNCHANGED <<live, policy, at, toAdd, toDel, changed, misread, dump, alone, faults>>

\* The summary is printed; exit status 0.
Exit(r) ==
  /\ pc[r] = "done"
  /\ Ends(r)
  /\ UNCHANGED <<live, file, synced, faults>>

\* nft refuses the elements, and set -e ends the call.
NftFails(r) ==
  /\ \/ pc[r] = "add" /\ toAdd[r] # {} /\ ~Takes(Here(r), toAdd[r])
     \/ pc[r] = "del" /\ ~(toDel[r] \subseteq live[Here(r)])
  /\ Ends(r)
  /\ synced' = FALSE
  /\ UNCHANGED <<live, file, faults>>

\* Any other command fails, or the SSH session is closed and the shell dies.
Fails(r) ==
  /\ pc[r] # "idle" /\ faults < MaxFaults
  /\ Ends(r)
  /\ faults' = faults + 1
  /\ synced' = (synced /\ pc[r] = "done")
  /\ UNCHANGED <<live, file>>

-----------------------------------------------------------------------------
(* The boot unit *)

\* What the file holds.
Stored == IF file = NoFile THEN NoElements ELSE file

\* ip_guard_restore, between two calls: one transaction replaces the table ...
Restore ==
  /\ \A r \in Runs : pc[r] = "idle"
  /\ file # NoFile
  /\ live' = file
  /\ synced' = TRUE
  /\ UNCHANGED <<file, local, alone, faults>>

\* ... or there is nothing to restore, and the table stays as it is.
RestoreNothing ==
  /\ \A r \in Runs : pc[r] = "idle"
  /\ file = NoFile
  /\ UNCHANGED vars

\* Kernel memory is lost.  The unit loads the file if there is one, or fails and the host
\* comes up unguarded.
Reboot ==
  /\ faults < MaxFaults
  /\ faults' = faults + 1
  /\ live' \in {Stored, NoElements}
  /\ synced' = (live' = Stored)
  /\ pc' = [r \in Runs |-> "idle"] /\ policy' = [r \in Runs |-> Idle]
  /\ at' = [r \in Runs |-> 1] /\ toAdd' = [r \in Runs |-> {}] /\ toDel' = [r \in Runs |-> {}]
  /\ changed' = [r \in Runs |-> FALSE] /\ misread' = [r \in Runs |-> FALSE]
  /\ dump' = [r \in Runs |-> NoElements] /\ alone' = [r \in Runs |-> FALSE]
  /\ UNCHANGED file

Call(r) == Ensure(r) \/ \E p \in Policies : Apply(r, p)
Step(r) == Diff(r) \/ DiffUnread(r) \/ Add(r) \/ Del(r) \/ Dump(r) \/ DumpNothing(r)
        \/ Rename(r) \/ Exit(r) \/ NftFails(r)

Next == (\E r \in Runs : Call(r) \/ Step(r) \/ Fails(r))
     \/ Restore \/ RestoreNothing \/ Reboot

Spec == Init /\ [][Next]_vars

-----------------------------------------------------------------------------
(* Properties *)

Covered(es) ==
  (UNION {Addresses(c) : c \in es \cap V4}) \cup {c.addr6 : c \in es \cap V6}

\* A protected entry that a policy cannot get around: IPv4 is compared by its addresses;
\* IPv6 by its text, so that the option must be written as nft writes it, and no policy may
\* spell the address in another way.
Guarded(p) ==
  \/ p \in V4
  \/ /\ p \in V6 /\ p.form = "plain"
     /\ \A q \in Policies : \A e \in q :
          e.cidr \in V6 /\ e.cidr.addr6 = p.addr6 => e.cidr.form # "long"
Shielded == {p \in Critical : Guarded(p)}

\* ipctl.sh, 22-26: however calls overlap, fail and are replayed at boot, no address of a
\* protected IPv4 range and of the loopback network is in a block set, in the kernel or in
\* the file.  Of IPv6 this holds for a protected address that is written plain and that no
\* policy spells in another way; "--protect fd00::1/128" protects nothing, because the
\* policy's "/128" is cut off and the option's is not.
ProtectedNeverBlocked ==
  \A sets \in {live, Stored}, p \in Shielded :
    Covered(sets["bo_block_v4"] \cup sets["bo_block_v6"]) \cap Covered({p}) = {}

\* Every range is named by its first address, every IPv6 address as nft writes it.
Canonical(p) ==
  \A e \in p : IF e.cidr \in V4 THEN e.cidr.addr = Network(e.cidr) ELSE e.cidr.form # "long"

\* ip_guard_apply: a call that nobody disturbed and that ends with a summary has put all of
\* its policy into the sets, and has left nothing else in them unless nft failed to list
\* one: that set was taken for empty, and kept what it had.
AppliedIsLive ==
  \A r \in Runs : (pc[r] = "done" /\ alone[r] /\ policy[r] # Idle /\ Canonical(policy[r]))
    => \A s \in SetNames :
         /\ Want(policy[r], s) \subseteq live[s]
         /\ live[s] = Want(policy[r], s) \/ misread[r]

\* ip-lib.sh, 286-288 ("no packet is dropped in a window where the set was momentarily
\* empty"): an address that a set has and the policy wants in it stays in it at
\* every step of the call.
WantedStays ==
  [][\A r \in Runs : (pc[r] \in {"add", "del"} /\ pc'[r] # "idle" /\ alone'[r]
                        /\ Canonical(policy[r]))
       => \A s \in SetNames :
            Covered(live[s]) \cap Covered(Want(policy[r], s)) \subseteq Covered(live'[s])]_vars

\* ip_guard_persist and ip_guard_restore: with no call under way, and every call since the
\* file was last written ended alone, not cut short, and with its dump, a reboot brings back
\* what is live.  A call that found nothing to change may leave its dump out.
RebootKeeps == (synced /\ \A r \in Runs : pc[r] = "idle") => Stored = live

\* ip_guard_apply and ip_guard_persist together: what an undisturbed call was asked for the
\* kernel has, whatever was cut short before it, and what is live a reboot brings back.
AppliedIsKept == TypeOK /\ AppliedIsLive /\ RebootKeeps

\* What a comment says and the code does not do, when the call before was cut short: the
\* sets are those of the policy and the file is not, and nothing is different that would
\* have it written.  deployer-lb-guard.service, 4-9 ("ipctl rewrites bo_guard.nft on every apply"): a call that
\* nobody disturbed and that ends with a summary is in the file.
AppliedIsPersisted ==
  \A r \in Runs : (pc[r] = "done" /\ alone[r] /\ policy[r] # Idle /\ Canonical(policy[r]))
    => Stored = live
=============================================================================
