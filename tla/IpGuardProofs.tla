---------------------------- MODULE IpGuardProofs ----------------------------
(***************************************************************************)
(* IpGuard for every address width, every set of policies, any number of   *)
(* overlapping calls and of failures.                                      *)
(*                                                                         *)
(* Three arguments meet here.  The arithmetic of prefixes: two ranges that *)
(* _v4_overlaps finds apart have no address in common, and nft names a     *)
(* range by a text that has the same addresses.  The progress of a call    *)
(* that is alone, set by set and difference by difference.  And what the   *)
(* flag `changed` is for: a call that found nothing to change may leave    *)
(* the file as it is.                                                      *)
(***************************************************************************)
EXTENDS IpGuard, TLAPS

Blocking == {"bo_block_v4", "bo_block_v6"}

\* An entry that has nothing in common with a critical one that is guarded.
Clear(c) == \A p \in Critical : Guarded(p) => Covered({c}) \cap Covered({p}) = {}

\* Everything that is in a block set, or in a dump of one, is clear, and what a call is about to
\* put there is wanted by a policy that was not refused.
SafeInv ==
  /\ \A s \in Blocking : \A c \in live[s] \cup Stored[s] : Clear(c)
  /\ \A r \in Runs, s \in Blocking : \A c \in dump[r][s] : Clear(c)
  /\ \A r \in Runs : pc[r] \in {"diff", "add", "del"} => policy[r] # Idle
  /\ \A r \in Runs : policy[r] # Idle => ~Refused(policy[r])
  /\ \A r \in Runs : pc[r] = "add" => toAdd[r] \subseteq Want(policy[r], Here(r))

\* Who is alone is under way, and nobody else is.
AloneInv ==
  \A r \in Runs : alone[r] => pc[r] # "idle" /\ \A q \in Runs \ {r} : pc[q] = "idle"

\* A call begins with nothing left of an earlier one.
FreshInv ==
  \A r \in Runs : pc[r] = "idle" => at[r] = 1 /\ policy[r] = Idle /\ changed[r] = FALSE

\* How far a call that is alone has come with the set it is at.
DiffInv(r) ==
  LET desired == Want(policy[r], Here(r)) IN
  /\ pc[r] = "add" => /\ desired \subseteq live[Here(r)] \cup toAdd[r]
                      /\ toAdd[r] \subseteq desired
                      /\ toDel[r] \subseteq live[Here(r)] \ desired
                      /\ toDel[r] = live[Here(r)] \ desired \/ misread[r]
  /\ pc[r] = "del" => /\ toDel[r] \cap desired = {}
                      /\ Canonical(policy[r]) =>
                           /\ desired \cup toDel[r] \subseteq live[Here(r)]
                           /\ live[Here(r)] = desired \cup toDel[r] \/ misread[r]

\* A set that is as the policy has it, but for what was not seen.
Met(r, s) ==
  Want(policy[r], s) \subseteq live[s] /\ (live[s] = Want(policy[r], s) \/ misread[r])

\* The sets it has been through are those of the policy, and after the last all are.
DoneInv(r) ==
  (policy[r] # Idle /\ Canonical(policy[r])) =>
    /\ pc[r] \in {"diff", "add", "del"} =>
         \A i \in 1..4 : i < at[r] => Met(r, IP_GUARD_SETS[i])
    /\ pc[r] \in {"persist", "rename", "done"} => \A s \in SetNames : Met(r, s)

ProgressInv == \A r \in Runs : alone[r] => DiffInv(r) /\ DoneInv(r)

\* The file is what is live: with nobody under way, and during a call that has found nothing
\* to change or has written it.
FileInv ==
  /\ synced => \A r \in Runs : pc[r] # "idle" => alone[r]
  /\ RebootKeeps
  /\ \A r \in Runs : alone[r] =>
       /\ pc[r] = "rename" => dump[r] = live
       /\ pc[r] = "done" /\ synced => Stored = live
       /\ pc[r] \in {"diff", "add", "del", "persist"} /\ ~changed[r] =>
            /\ synced => Stored = live
            /\ pc[r] \in {"add", "del"} => toAdd[r] = {} /\ toDel[r] = {}

IInv == TypeOK /\ SafeInv /\ AloneInv /\ FreshInv /\ ProgressInv /\ FileInv

-----------------------------------------------------------------------------
(* Division *)

LEMMA DivBounds ==
  ASSUME NEW a \in Nat, NEW s \in Nat \ {0}
  PROVE  /\ a \div s \in Nat
         /\ (a \div s) * s <= a
         /\ a < (a \div s) * s + s
  OBVIOUS

LEMMA DivUnique ==
  ASSUME NEW a \in Nat, NEW s \in Nat \ {0}, NEW k \in Nat, k * s <= a, a < k * s + s
  PROVE  a \div s = k
<1>. DEFINE q == a \div s
<1>1. q \in Nat /\ q * s <= a /\ a < q * s + s
  BY DivBounds
<1>. HIDE DEF q
<1>2. ~(q < k)
  <2>1. q < k => (q + 1) * s <= k * s
    BY <1>1
  <2>2. (q + 1) * s = q * s + s
    BY <1>1
  <2>. QED BY <1>1, <2>1, <2>2
<1>3. ~(k < q)
  <2>1. k < q => (k + 1) * s <= q * s
    BY <1>1
  <2>2. (k + 1) * s = k * s + s
    BY <1>1
  <2>. QED BY <1>1, <2>1, <2>2
<1>. QED BY <1>1, <1>2, <1>3 DEF q

LEMMA DivDiv ==
  ASSUME NEW a \in Nat, NEW s \in Nat \ {0}, NEW k \in Nat \ {0}
  PROVE  a \div (s * k) = (a \div s) \div k
<1>. DEFINE q == a \div s
            t == q \div k
<1>1. q \in Nat /\ q * s <= a /\ a < q * s + s
  BY DivBounds
<1>. HIDE DEF q
<1>2. t \in Nat /\ t * k <= q /\ q < t * k + k
  BY <1>1, DivBounds
<1>. HIDE DEF t
<1>3. (t * k) * s <= q * s /\ (q + 1) * s <= (t * k + k) * s
  BY <1>1, <1>2
<1>4. (t * k) * s = t * (s * k) /\ (t * k + k) * s = t * (s * k) + s * k
  BY <1>1, <1>2
<1>5. (q + 1) * s = q * s + s /\ s * k \in Nat \ {0} /\ t * (s * k) \in Nat
  BY <1>1, <1>2
<1>6. t * (s * k) <= a /\ a < t * (s * k) + s * k
  BY <1>1, <1>3, <1>4, <1>5
<1>. QED BY <1>2, <1>5, <1>6, DivUnique DEF t, q

-----------------------------------------------------------------------------
(* Ranges *)

LEMMA Sizes ==
  ASSUME NEW c \in V4
  PROVE  /\ Size(c) \in Nat \ {0} /\ c.addr \in Nat /\ c.len \in 0..W /\ W \in Nat
         /\ Network(c) \in Nat /\ Network(c) <= c.addr
         /\ Network(c) = (c.addr \div Size(c)) * Size(c) /\ c.addr \div Size(c) \in Nat
<1>1. c.len \in 0..W /\ W \in Nat /\ c.addr \in 0..(2^W - 1)
  BY AddressAssumption DEF V4
<1>2. W - c.len \in 0..W
  BY <1>1
<1>3. Size(c) \in Nat \ {0}
  BY <1>2, NumberAssumption DEF Size
<1>4. c.addr \in Nat
  BY <1>1
<1>. QED  BY <1>1, <1>3, <1>4, DivBounds DEF Network

\* An address is in a range when its quotient is the range's.
LEMMA InRange ==
  ASSUME NEW c \in V4, NEW x \in Addresses(c)
  PROVE  x \in Nat /\ x \div Size(c) = c.addr \div Size(c)
<1>. DEFINE k == c.addr \div Size(c)
<1>1. k \in Nat /\ Size(c) \in Nat \ {0} /\ Network(c) = k * Size(c) /\ k * Size(c) \in Nat
  BY Sizes
<1>. HIDE DEF k
<1>2. x \in Nat /\ k * Size(c) <= x /\ x < k * Size(c) + Size(c)
  BY <1>1 DEF Addresses
<1>. QED  BY <1>1, <1>2, DivUnique DEF k

\* The size of a range divides that of a wider one.
LEMMA SizeDivides ==
  ASSUME NEW c \in V4, NEW d \in V4, d.len >= c.len
  PROVE  \E k \in Nat \ {0} : Size(c) = Size(d) * k
<1>. DEFINE m == W - d.len
            n == d.len - c.len
<1>1. m \in 0..W /\ n \in 0..W /\ m + n <= W /\ m + n = W - c.len
  BY Sizes
<1>2. 2^n \in Nat \ {0} /\ 2^(m + n) = 2^m * 2^n
  BY <1>1, NumberAssumption
<1>. QED  BY <1>1, <1>2 DEF Size

\* Two ranges with an address in common: the wider contains the other.
LEMMA CommonContains ==
  ASSUME NEW c \in V4, NEW d \in V4, d.len >= c.len,
         NEW x, x \in Addresses(c), x \in Addresses(d)
  PROVE  Contains(c, d)
<1>1. PICK k \in Nat \ {0} : Size(c) = Size(d) * k
  BY SizeDivides
<1>2. x \in Nat /\ x \div Size(c) = c.addr \div Size(c) /\ x \div Size(d) = d.addr \div Size(d)
  BY InRange
<1>3. x \div (Size(d) * k) = (x \div Size(d)) \div k
  BY <1>2, Sizes, DivDiv
<1>4. d.addr \div (Size(d) * k) = (d.addr \div Size(d)) \div k
  BY Sizes, DivDiv
<1>. QED  BY <1>1, <1>2, <1>3, <1>4 DEF Contains

\* _v4_overlaps misses nothing.
LEMMA NoOverlapNoCommon ==
  ASSUME NEW c \in V4, NEW d \in V4, ~Overlaps(c, d)
  PROVE  Addresses(c) \cap Addresses(d) = {}
<1>1. d.len >= c.len \/ c.len >= d.len
  BY Sizes
<1>. QED  BY <1>1, CommonContains DEF Overlaps

LEMMA EntryTyped ==
  ASSUME NEW a \in 0..(2^W - 1), NEW l \in 0..W
  PROVE  /\ [addr |-> a, len |-> l, form |-> "slash"] \in V4
         /\ l = W => [addr |-> a, len |-> l, form |-> "plain"] \in V4
  BY AddressAssumption DEF V4

LEMMA EntryParts ==
  ASSUME NEW c \in V4
  PROVE  /\ c.addr \in 0..(2^W - 1) /\ c.len \in 0..W /\ (c.len < W => c.form = "slash")
         /\ c = [addr |-> c.addr, len |-> c.len, form |-> c.form]
         /\ [c EXCEPT !.form = "plain"] = [addr |-> c.addr, len |-> c.len, form |-> "plain"]
  BY DEF V4

\* nft prints a range that has the same addresses.
LEMMA PrintedTyped ==
  ASSUME NEW c \in V4 \cup V6
  PROVE  /\ Printed(c) \in V4 \cup V6
         /\ c \in V4 => Printed(c) \in V4 /\ Addresses(Printed(c)) = Addresses(c)
         /\ c \in V6 => Printed(c) \in V6 /\ Printed(c).addr6 = c.addr6
<1>1. CASE c \in V6
  BY <1>1, AddressAssumption DEF Printed, V6
<1>2. CASE c \in V4
  <2>. DEFINE k == c.addr \div Size(c)
  <2>1. k \in Nat /\ Size(c) \in Nat \ {0} /\ Network(c) = k * Size(c) /\ Network(c) \in Nat
        /\ Network(c) <= c.addr /\ c.len \in 0..W /\ c.addr \in Nat /\ W \in Nat
    BY <1>2, Sizes
  <2>2. c.addr \in 0..(2^W - 1) /\ 2^W \in Nat
    BY <1>2, <2>1, NumberAssumption DEF V4
  <2>3. Network(c) \in 0..(2^W - 1)
    BY <2>1, <2>2
  <2>4. Printed(c) = [addr |-> Network(c), len |-> c.len, form |-> IF c.len < W THEN "slash"
          ELSE "plain"]
    BY <1>2 DEF Printed
  <2>6. Printed(c) \in V4
    <3>1. CASE c.len < W
      BY <2>1, <2>3, <2>4, <3>1, EntryTyped
    <3>2. CASE c.len = W
      <4>1. Printed(c) = [addr |-> Network(c), len |-> c.len, form |-> "plain"]
        BY <2>1, <2>4, <3>2
      <4>. QED  BY <2>1, <2>3, <4>1, <3>2, EntryTyped
    <3>. QED  BY <2>1, <3>1, <3>2
  <2>7. Size(Printed(c)) = Size(c) /\ Printed(c).addr = Network(c)
    BY <2>4 DEF Size
  <2>. HIDE DEF k
  <2>8. Network(c) \div Size(c) = k
    BY <2>1, DivUnique
  <2>9. Network(Printed(c)) = Network(c)
    BY <2>1, <2>7, <2>8 DEF Network
  <2>10. Addresses(Printed(c)) = Addresses(c)
    BY <2>7, <2>9 DEF Addresses
  <2>. QED  BY <1>2, <2>6, <2>10, AddressAssumption
<1>. QED  BY <1>1, <1>2

LEMMA NormalizeTyped ==
  ASSUME NEW c \in V4 \cup V6
  PROVE  /\ Normalize(c) \in V4 \cup V6
         /\ c \in V4 => Normalize(c) \in V4
         /\ c \in V6 => /\ Normalize(c) \in V6 /\ Normalize(c).addr6 = c.addr6
                        /\ c.form # "long" => Normalize(c).form = "plain"
<1>1. CASE c \in V4 /\ c.len = W
  <2>1. Normalize(c) = [addr |-> c.addr, len |-> c.len, form |-> "plain"]
    BY <1>1, EntryParts DEF Normalize
  <2>2. c.addr \in 0..(2^W - 1) /\ c.len \in 0..W
    BY <1>1, EntryParts
  <2>3. Normalize(c) \in V4
    BY <1>1, <2>1, <2>2, EntryTyped
  <2>. QED  BY <1>1, <2>3, AddressAssumption
<1>2. CASE c \in V4 /\ c.len # W
  BY <1>2, AddressAssumption DEF Normalize
<1>3. CASE c \in V6
  BY <1>3, AddressAssumption DEF Normalize, V6
<1>. QED  BY <1>1, <1>2, <1>3

\* The text of a range that is named by its first address is what nft prints for it.
LEMMA CanonicalPrinted ==
  ASSUME NEW c \in V4 \cup V6, IF c \in V4 THEN c.addr = Network(c) ELSE c.form # "long"
  PROVE  Printed(Normalize(c)) = Normalize(c)
<1>1. CASE c \in V6
  <2>1. c \notin V4 /\ Normalize(c) \notin V4 /\ Normalize(c) \in V6
        /\ Normalize(c).form = "plain"
    BY <1>1, AddressAssumption, NormalizeTyped
  <2>. DEFINE n == Normalize(c)
  <2>. HIDE DEF n
  <2>2. n \in V6 /\ n.form = "plain" => [n EXCEPT !.form = "plain"] = n
    BY DEF V6
  <2>. QED  BY <2>1, <2>2 DEF Printed, n
<1>2. CASE c \in V4
  <2>. DEFINE n == Normalize(c)
  <2>1. n \in V4 /\ c.len \in 0..W /\ W \in Nat
    BY <1>2, NormalizeTyped, Sizes
  <2>2. n.addr = c.addr /\ n.len = c.len
    BY <1>2, AddressAssumption DEF Normalize, V4
  <2>3. n.form = IF c.len < W THEN "slash" ELSE "plain"
    <3>1. CASE c.len = W
      BY <1>2, <2>1, <3>1, EntryParts, AddressAssumption DEF Normalize
    <3>2. CASE c.len < W
      BY <1>2, <2>1, <3>2, EntryParts, AddressAssumption DEF Normalize
    <3>. QED  BY <2>1, <3>1, <3>2
  <2>4. Network(n) = n.addr
    BY <1>2, <2>2 DEF Network, Size
  <2>5. n = [addr |-> n.addr, len |-> n.len, form |-> n.form]
    BY <2>1 DEF V4
  <2>. HIDE DEF n
  <2>. QED  BY <2>1, <2>2, <2>3, <2>4, <2>5 DEF Printed, n
<1>. QED  BY <1>1, <1>2

-----------------------------------------------------------------------------
(* Sets and policies *)

LEMMA Names ==
  /\ IP_GUARD_SETS[1] = "bo_allow_v4" /\ IP_GUARD_SETS[2] = "bo_allow_v6"
  /\ IP_GUARD_SETS[3] = "bo_block_v4" /\ IP_GUARD_SETS[4] = "bo_block_v6"
  /\ SetNames = {"bo_allow_v4", "bo_allow_v6", "bo_block_v4", "bo_block_v6"}
  /\ \A s \in SetNames : \E i \in 1..4 : s = IP_GUARD_SETS[i]
  /\ \A i \in 1..4 : IP_GUARD_SETS[i] \in SetNames
  /\ Blocking \subseteq SetNames
  /\ \A i, j \in 1..4 : IP_GUARD_SETS[i] = IP_GUARD_SETS[j] => i = j
<1>1. DOMAIN IP_GUARD_SETS = 1..4
  BY DEF IP_GUARD_SETS
<1>2. /\ IP_GUARD_SETS[1] = "bo_allow_v4" /\ IP_GUARD_SETS[2] = "bo_allow_v6"
      /\ IP_GUARD_SETS[3] = "bo_block_v4" /\ IP_GUARD_SETS[4] = "bo_block_v6"
  BY DEF IP_GUARD_SETS
<1>3. SetNames = {"bo_allow_v4", "bo_allow_v6", "bo_block_v4", "bo_block_v6"}
  BY <1>1, <1>2 DEF SetNames
<1>. QED  BY <1>2, <1>3 DEF Blocking

LEMMA WantTyped ==
  ASSUME NEW p \in Policies, NEW s \in SetNames, NEW c \in Want(p, s)
  PROVE  \E e \in p : /\ e \in [action : {"allow", "block"}, cidr : V4 \cup V6]
                      /\ c = Normalize(e.cidr) /\ SetOf(e) = s /\ c \in V4 \cup V6
<1>1. PICK e \in p : c = Normalize(e.cidr) /\ SetOf(e) = s
  BY DEF Want
<1>2. e \in [action : {"allow", "block"}, cidr : V4 \cup V6]
  BY <1>1, PolicyAssumption
<1>. QED  BY <1>1, <1>2, NormalizeTyped

\* The texts of a policy with canonical ranges are what nft prints for them.
LEMMA WantPrinted ==
  ASSUME NEW p \in Policies, Canonical(p), NEW s \in SetNames
  PROVE  \A c \in Want(p, s) : Printed(c) = c
  BY WantTyped, CanonicalPrinted DEF Canonical

LEMMA CoveredOne ==
  ASSUME NEW es, NEW x
  PROVE  x \in Covered(es) <=> \E c \in es : x \in Covered({c})
  BY DEF Covered

LEMMA CoveredMonotone ==
  ASSUME NEW es, NEW fs, es \subseteq fs
  PROVE  Covered(es) \subseteq Covered(fs)
  BY DEF Covered

LEMMA NotANumber == \A c \in V6 : c.addr6 \notin Nat /\ c \notin V4
  BY AddressAssumption, NumberAssumption DEF V6

LEMMA CriticalTyped == Critical \subseteq V4 \cup V6
  BY AddressAssumption DEF Critical

LEMMA CoveredRange ==
  ASSUME NEW c \in V4 \cup V6
  PROVE  /\ c \in V4 => Covered({c}) = Addresses(c) /\ Covered({c}) \subseteq Nat
         /\ c \in V6 => Covered({c}) = {c.addr6}
<1>1. CASE c \in V4
  <2>1. Covered({c}) = Addresses(c)
    BY <1>1, AddressAssumption DEF Covered
  <2>2. Addresses(c) \subseteq Nat
    BY <1>1, InRange
  <2>. QED  BY <1>1, <2>1, <2>2, AddressAssumption
<1>2. CASE c \in V6
  BY <1>2, NotANumber DEF Covered
<1>. QED  BY <1>1, <1>2

\* ip_guard_check_protected: what a policy that passes wants to block is clear, as nft has it.
LEMMA NotRefusedClear ==
  ASSUME NEW p \in Policies, ~Refused(p), NEW s \in Blocking, NEW c \in Want(p, s)
  PROVE  Clear(Printed(c))
<1>1. PICK e \in p : /\ e \in [action : {"allow", "block"}, cidr : V4 \cup V6]
                     /\ c = Normalize(e.cidr) /\ SetOf(e) = s /\ c \in V4 \cup V6
  BY WantTyped, Names
<1>2. e.action = "block"
  <2>1. CASE e.action = "allow" /\ e.cidr \in V4
    <3>1. SetOf(e) = "bo_allow_v4"
      BY <2>1, NotANumber DEF SetOf
    <3>. QED  BY <1>1, <3>1 DEF Blocking
  <2>2. CASE e.action = "allow" /\ e.cidr \in V6
    <3>1. SetOf(e) = "bo_allow_v6"
      BY <2>2, NotANumber DEF SetOf
    <3>. QED  BY <1>1, <3>1 DEF Blocking
  <2>. QED  BY <1>1, <2>1, <2>2
<1>. SUFFICES ASSUME NEW q \in Critical, Guarded(q)
              PROVE  Covered({Printed(c)}) \cap Covered({q}) = {}
  BY DEF Clear
<1>3. ~Covers(c, q)
  BY <1>1, <1>2 DEF Refused
<1>4. q \in V4 \cup V6 /\ Printed(c) \in V4 \cup V6
  BY <1>1, CriticalTyped, PrintedTyped
<1>5. CASE c \in V4 /\ q \in V4
  <2>1. Addresses(c) \cap Addresses(q) = {}
    BY <1>3, <1>5, NoOverlapNoCommon, AddressAssumption DEF Covers
  <2>2. Printed(c) \in V4 /\ Addresses(Printed(c)) = Addresses(c)
    BY <1>5, PrintedTyped
  <2>. QED  BY <1>4, <1>5, <2>1, <2>2, CoveredRange
<1>6. CASE c \in V6 /\ q \in V6
  <2>1. c # q /\ q \notin V4
    BY <1>3, <1>6, NotANumber DEF Covers
  <2>2. Printed(c) \in V6 /\ Covered({Printed(c)}) = {c.addr6} /\ Covered({q}) = {q.addr6}
    BY <1>4, <1>6, PrintedTyped, CoveredRange
  <2>3. e.cidr \in V6 /\ c.addr6 = e.cidr.addr6
    BY <1>1, <1>6, NormalizeTyped, NotANumber
  <2>4. ASSUME c.addr6 = q.addr6  PROVE FALSE
    <3>1. e.cidr.form # "long" /\ q.form = "plain"
      BY <1>1, <2>1, <2>3, <2>4 DEF Guarded
    <3>2. c.form = "plain"
      BY <1>1, <2>3, <3>1, NormalizeTyped
    <3>3. c = q
      BY <1>6, <2>4, <3>1, <3>2 DEF V6
    <3>. QED  BY <2>1, <3>3
  <2>. QED  BY <2>2, <2>4
<1>7. CASE c \in V4 /\ q \in V6
  <2>1. Printed(c) \in V4
    BY <1>7, PrintedTyped
  <2>2. Covered({Printed(c)}) \subseteq Nat
    BY <1>4, <2>1, CoveredRange
  <2>3. Covered({q}) = {q.addr6} /\ q.addr6 \notin Nat
    BY <1>4, <1>7, CoveredRange, NotANumber
  <2>. QED  BY <2>2, <2>3
<1>8. CASE c \in V6 /\ q \in V4
  <2>1. Printed(c) \in V6
    BY <1>8, PrintedTyped
  <2>2. Covered({Printed(c)}) = {Printed(c).addr6} /\ Printed(c).addr6 \notin Nat
    BY <1>4, <2>1, CoveredRange, NotANumber
  <2>3. Covered({q}) \subseteq Nat
    BY <1>4, <1>8, CoveredRange
  <2>. QED  BY <2>2, <2>3
<1>. QED  BY <1>1, <1>4, <1>5, <1>6, <1>7, <1>8

\* The steps of a call that goes on.
Working(r) ==
  Diff(r) \/ DiffUnread(r) \/ Add(r) \/ Del(r) \/ Dump(r) \/ DumpNothing(r) \/ Rename(r)

-----------------------------------------------------------------------------
(* The invariant begins, and its parts hold after every step *)

LEMMA ElementsTyped ==
  /\ NoElements \in Elements
  /\ \A s \in SetNames : NoElements[s] = {}
  BY DEF NoElements, Elements

LEMMA StoredTyped ==
  ASSUME TypeOK
  PROVE  Stored \in Elements
  BY ElementsTyped DEF TypeOK, Stored

LEMMA InitIInv == Init => IInv
<1>. SUFFICES ASSUME Init PROVE IInv
  OBVIOUS
<1>1. TypeOK
  BY ElementsTyped, AddressAssumption DEF Init, TypeOK
<1>2. SafeInv
  BY ElementsTyped, Names DEF Init, SafeInv, Stored
<1>3. AloneInv /\ FreshInv /\ ProgressInv
  BY DEF Init, AloneInv, FreshInv, ProgressInv
<1>4. FileInv
  BY DEF Init, FileInv, RebootKeeps, Stored
<1>. QED  BY <1>1, <1>2, <1>3, <1>4 DEF IInv

LEMMA HereTyped ==
  ASSUME TypeOK, NEW r \in Runs
  PROVE  Here(r) \in SetNames /\ live[Here(r)] \subseteq V4 \cup V6
  BY Names DEF TypeOK, Here, Elements

LEMMA WithTyped ==
  ASSUME TypeOK, NEW r \in Runs
  PROVE  [live EXCEPT ![Here(r)] = With(Here(r), toAdd[r])] \in Elements
<1>1. toAdd[r] \subseteq V4 \cup V6
  BY DEF TypeOK
<1>2. With(Here(r), toAdd[r]) \subseteq V4 \cup V6
  BY <1>1, HereTyped, PrintedTyped DEF With
<1>. QED  BY <1>2, HereTyped DEF TypeOK, Elements

LEMMA StepTyped ==
  ASSUME TypeOK, SafeInv, [Next]_vars
  PROVE  TypeOK'
<1>. USE DEF TypeOK, Goto, Begins, Ends, local
<1>1. ASSUME NEW r \in Runs, NEW p \in Policies, Apply(r, p)
      PROVE  TypeOK'
  BY <1>1 DEF Apply
<1>2. ASSUME NEW r \in Runs, Ensure(r)
      PROVE  TypeOK'
  BY <1>2 DEF Ensure
<1>3. ASSUME NEW r \in Runs, Diff(r) \/ DiffUnread(r)
      PROVE  TypeOK'
  <2>1. policy[r] \in Policies /\ Here(r) \in SetNames /\ live[Here(r)] \subseteq V4 \cup V6
    BY <1>3, HereTyped DEF Diff, DiffUnread, SafeInv
  <2>2. Want(policy[r], Here(r)) \subseteq V4 \cup V6
    BY <2>1, WantTyped
  <2>3. PICK current \in SUBSET (V4 \cup V6) : Compare(r, current)
    BY <1>3, <2>1 DEF Diff, DiffUnread
  <2>4. toAdd' \in [Runs -> SUBSET (V4 \cup V6)] /\ toDel' \in [Runs -> SUBSET (V4 \cup V6)]
        /\ changed' \in [Runs -> BOOLEAN]
    BY <2>2, <2>3 DEF Compare
  <2>5. faults' \in 0..MaxFaults
    BY <1>3, AddressAssumption DEF Diff, DiffUnread
  <2>6. misread' \in [Runs -> BOOLEAN]
    <3>1. CASE misread' = misread
      BY <3>1
    <3>2. CASE misread' = [misread EXCEPT ![r] = TRUE]
      BY <3>2
    <3>. QED  BY <1>3, <3>1, <3>2 DEF Diff, DiffUnread
  <2>. QED  BY <1>3, <2>4, <2>5, <2>6 DEF Diff, DiffUnread
<1>4. ASSUME NEW r \in Runs, Add(r)
      PROVE  TypeOK'
  BY <1>4, WithTyped DEF Add
<1>5. ASSUME NEW r \in Runs, Del(r)
      PROVE  TypeOK'
  <2>1. live' \in Elements
    BY <1>5, HereTyped DEF Del, Elements
  <2>2. at' \in [Runs -> 1..4]
    BY <1>5 DEF Del
  <2>. QED  BY <1>5, <2>1, <2>2 DEF Del
<1>6. ASSUME NEW r \in Runs, Dump(r) \/ DumpNothing(r) \/ Rename(r)
      PROVE  TypeOK'
  <2>1. CASE DumpNothing(r)
    <3>1. faults' \in 0..MaxFaults /\ synced' \in BOOLEAN
      BY <2>1, AddressAssumption DEF DumpNothing
    <3>. QED  BY <2>1, <3>1 DEF DumpNothing
  <2>2. CASE Dump(r) \/ Rename(r)
    BY <2>2 DEF Dump, Rename
  <2>. QED  BY <1>6, <2>1, <2>2
<1>7. ASSUME NEW r \in Runs, Exit(r) \/ NftFails(r) \/ Fails(r)
      PROVE  TypeOK'
  <2>1. faults' \in 0..MaxFaults
    BY <1>7, AddressAssumption DEF Exit, NftFails, Fails
  <2>2. synced' \in BOOLEAN
    BY <1>7, Zenon DEF Exit, NftFails, Fails
  <2>3. dump' \in [Runs -> Elements] /\ live' \in Elements /\ file' \in Elements \cup {NoFile}
    BY <1>7, ElementsTyped DEF Exit, NftFails, Fails
  <2>4. Ends(r)
    BY <1>7 DEF Exit, NftFails, Fails
  <2>. QED  BY <2>1, <2>2, <2>3, <2>4
<1>8. CASE Restore \/ RestoreNothing
  BY <1>8 DEF Restore, RestoreNothing, vars
<1>9. CASE Reboot
  <2>1. faults' \in 0..MaxFaults
    BY <1>9, AddressAssumption DEF Reboot
  <2>2. synced' \in BOOLEAN
    BY <1>9, Zenon DEF Reboot
  <2>3. live' \in Elements /\ dump' \in [Runs -> Elements]
    BY <1>9, ElementsTyped, StoredTyped DEF Reboot
  <2>. QED  BY <1>9, <2>1, <2>2, <2>3 DEF Reboot
<1>10. CASE UNCHANGED vars
  BY <1>10 DEF vars
<1>. QED  BY <1>1, <1>2, <1>3, <1>4, <1>5, <1>6, <1>7, <1>8, <1>9, <1>10 DEF Next, Call, Step

LEMMA StepSafe ==
  ASSUME TypeOK, SafeInv, [Next]_vars
  PROVE  SafeInv'
<1>. USE DEF TypeOK, SafeInv, Goto, Begins, Ends, local, Here
<1>1. ASSUME NEW r \in Runs, NEW p \in Policies, Apply(r, p)
      PROVE  SafeInv'
  BY <1>1, PolicyAssumption DEF Apply, Stored
<1>2. ASSUME NEW r \in Runs, Ensure(r)
      PROVE  SafeInv'
  BY <1>2 DEF Ensure, Stored
<1>3. ASSUME NEW r \in Runs, Diff(r) \/ DiffUnread(r)
      PROVE  SafeInv'
  BY <1>3 DEF Diff, DiffUnread, Compare, Stored
<1>4. ASSUME NEW r \in Runs, Add(r)
      PROVE  SafeInv'
  <2>1. policy[r] \in Policies /\ ~Refused(policy[r])
          /\ toAdd[r] \subseteq Want(policy[r], Here(r))
    BY <1>4 DEF Add
  <2>2. \A s \in Blocking : \A c \in live'[s] : Clear(c)
    <3>. SUFFICES ASSUME NEW s \in Blocking, NEW c \in live'[s] PROVE Clear(c)
      OBVIOUS
    <3>1. CASE s # Here(r)
      BY <1>4, <3>1, Names DEF Add, Elements
    <3>2. CASE s = Here(r)
      <4>1. c \in live[s] \/ \E d \in toAdd[r] : c = Printed(d)
        BY <1>4, <3>2, Names DEF Add, With, Elements
      <4>. QED  BY <2>1, <3>2, <4>1, NotRefusedClear
    <3>. QED  BY <3>1, <3>2
  <2>. QED  BY <1>4, <2>2 DEF Add, Stored
<1>5. ASSUME NEW r \in Runs, Del(r)
      PROVE  SafeInv'
  <2>1. \A s \in Blocking : live'[s] \subseteq live[s]
    BY <1>5, Names DEF Del, Elements
  <2>. QED  BY <1>5, <2>1 DEF Del, Stored
<1>6. ASSUME NEW r \in Runs, Dump(r) \/ DumpNothing(r) \/ Rename(r)
      PROVE  SafeInv'
  <2>1. CASE Rename(r)
    <3>1. Stored' = dump[r]
      BY <2>1, FileAssumption DEF Rename, Stored
    <3>. QED  BY <2>1, <3>1 DEF Rename
  <2>2. CASE Dump(r) \/ DumpNothing(r)
    BY <2>2 DEF Dump, DumpNothing, Stored
  <2>. QED  BY <1>6, <2>1, <2>2
<1>7. ASSUME NEW r \in Runs, Exit(r) \/ NftFails(r) \/ Fails(r)
      PROVE  SafeInv'
  <2>0. Ends(r) /\ UNCHANGED <<live, file>>
    BY <1>7 DEF Exit, NftFails, Fails
  <2>1. UNCHANGED live /\ Stored' = Stored
    BY <2>0 DEF Stored
  <2>2. \A q \in Runs \ {r} : /\ pc'[q] = pc[q] /\ policy'[q] = policy[q] /\ at'[q] = at[q]
                             /\ toAdd'[q] = toAdd[q] /\ dump'[q] = dump[q]
    BY <2>0
  <2>3. pc'[r] = "idle" /\ policy'[r] = Idle /\ dump'[r] = NoElements
    BY <2>0
  <2>4. \A q \in Runs, s \in Blocking : \A c \in dump'[q][s] : Clear(c)
    BY <2>2, <2>3, ElementsTyped, Names
  <2>. QED  BY <2>1, <2>2, <2>3, <2>4
<1>8. CASE Restore \/ RestoreNothing
  BY <1>8 DEF Restore, RestoreNothing, Stored, vars
<1>9. CASE Reboot
  BY <1>9, ElementsTyped, Names DEF Reboot, Stored
<1>10. CASE UNCHANGED vars
  BY <1>10 DEF vars, Stored
<1>. QED  BY <1>1, <1>2, <1>3, <1>4, <1>5, <1>6, <1>7, <1>8, <1>9, <1>10 DEF Next, Call, Step

LEMMA StepAlone ==
  ASSUME TypeOK, AloneInv, [Next]_vars
  PROVE  AloneInv'
<1>. USE DEF TypeOK, AloneInv, Goto, Begins, Ends, local
<1>1. ASSUME NEW r \in Runs, Ensure(r) \/ \E p \in Policies : Apply(r, p)
      PROVE  AloneInv'
  BY <1>1 DEF Apply, Ensure
<1>2. ASSUME NEW r \in Runs, Working(r)
      PROVE  AloneInv'
  <2>1. alone' = alone /\ pc[r] # "idle"
    BY <1>2 DEF Working, Diff, DiffUnread, Compare, Add, Del, Dump, DumpNothing, Rename
  <2>2. pc'[r] # "idle" /\ \A q \in Runs \ {r} : pc'[q] = pc[q]
    BY <1>2 DEF Working, Diff, DiffUnread, Compare, Add, Del, Dump, DumpNothing, Rename
  <2>. QED  BY <2>1, <2>2
<1>3. ASSUME NEW r \in Runs, Exit(r) \/ NftFails(r) \/ Fails(r)
      PROVE  AloneInv'
  BY <1>3 DEF Exit, NftFails, Fails
<1>4. CASE Restore \/ RestoreNothing \/ UNCHANGED vars
  BY <1>4 DEF Restore, RestoreNothing, vars
<1>5. CASE Reboot
  BY <1>5 DEF Reboot
<1>. QED  BY <1>1, <1>2, <1>3, <1>4, <1>5 DEF Next, Call, Step, Working

LEMMA StepFresh ==
  ASSUME TypeOK, FreshInv, [Next]_vars
  PROVE  FreshInv'
<1>. USE DEF TypeOK, FreshInv, Goto, Ends, local
<1>1. ASSUME NEW r \in Runs, Ensure(r) \/ \E p \in Policies : Apply(r, p)
      PROVE  FreshInv'
  BY <1>1 DEF Apply, Ensure
<1>2. ASSUME NEW r \in Runs, Working(r)
      PROVE  FreshInv'
  <2>1. pc'[r] # "idle" /\ \A q \in Runs \ {r} : pc'[q] = pc[q]
    BY <1>2 DEF Working, Diff, DiffUnread, Compare, Add, Del, Dump, DumpNothing, Rename
  <2>2. \A q \in Runs \ {r} : at'[q] = at[q] /\ policy'[q] = policy[q] /\ changed'[q] = changed[q]
    BY <1>2 DEF Working, Diff, DiffUnread, Compare, Add, Del, Dump, DumpNothing, Rename
  <2>. QED  BY <2>1, <2>2
<1>3. ASSUME NEW r \in Runs, Exit(r) \/ NftFails(r) \/ Fails(r)
      PROVE  FreshInv'
  BY <1>3 DEF Exit, NftFails, Fails
<1>4. CASE Restore \/ RestoreNothing \/ UNCHANGED vars
  BY <1>4 DEF Restore, RestoreNothing, vars
<1>5. CASE Reboot
  BY <1>5 DEF Reboot
<1>. QED  BY <1>1, <1>2, <1>3, <1>4, <1>5 DEF Next, Call, Step, Working

\* The steps of a call that is under way, for a call that stays alone.
LEMMA OwnStep ==
  ASSUME AloneInv, TypeOK, NEW r \in Runs, NEW q \in Runs,
         Step(r) \/ Fails(r), alone'[q]
  PROVE  q = r /\ alone[r] /\ Working(r)
<1>1. pc[r] # "idle"
  BY DEF Step, Working, Diff, DiffUnread, Add, Del, Dump, DumpNothing, Rename, Exit, NftFails,
     Fails
<1>2. CASE Exit(r) \/ NftFails(r) \/ Fails(r)
  <2>1. alone' = [alone EXCEPT ![r] = FALSE]
    BY <1>2 DEF Exit, NftFails, Fails, Ends
  <2>2. q # r /\ alone[q]
    BY <2>1 DEF TypeOK
  <2>. QED  BY <1>1, <2>2 DEF AloneInv
<1>3. CASE Working(r)
  <2>1. alone' = alone
    BY <1>3 DEF Working, Diff, DiffUnread, Compare, Add, Del, Dump, DumpNothing, Rename
  <2>. QED  BY <1>1, <1>3, <2>1 DEF AloneInv
<1>. QED  BY <1>2, <1>3 DEF Step, Working

\* nft adds the texts of a canonical policy as they are.
LEMMA AddedAsWanted ==
  ASSUME TypeOK, SafeInv, NEW r \in Runs, pc[r] = "add", Canonical(policy[r])
  PROVE  With(Here(r), toAdd[r]) = live[Here(r)] \cup toAdd[r]
<1>1. policy[r] \in Policies /\ Here(r) \in SetNames
        /\ toAdd[r] \subseteq Want(policy[r], Here(r))
  BY HereTyped DEF TypeOK, SafeInv
<1>2. \A c \in toAdd[r] : Printed(c) = c
  BY <1>1, WantPrinted
<1>. QED  BY <1>2 DEF With

LEMMA StepDiffs ==
  ASSUME TypeOK, SafeInv, NEW r \in Runs, alone[r], DiffInv(r), Working(r)
  PROVE  DiffInv(r)'
<1>1. Here(r) \in SetNames /\ live \in Elements
  BY HereTyped DEF TypeOK
<1>2. CASE Diff(r) \/ DiffUnread(r)
  <2>1. live' = live /\ at' = at /\ policy' = policy /\ pc'[r] = "add"
    BY <1>2 DEF Diff, DiffUnread, Goto, TypeOK
  <2>2. PICK current \in {live[Here(r)], {}} :
          Compare(r, current) /\ (current = live[Here(r)] \/ misread'[r])
    BY <1>2 DEF Diff, DiffUnread, TypeOK
  <2>3. /\ toAdd'[r] = Want(policy[r], Here(r)) \ current
        /\ toDel'[r] = current \ Want(policy[r], Here(r))
    BY <2>2 DEF Compare, TypeOK
  <2>. QED  BY <2>1, <2>2, <2>3 DEF DiffInv, Here
<1>3. CASE Add(r)
  <2>1. at' = at /\ policy' = policy /\ toDel' = toDel /\ pc'[r] = "del" /\ pc[r] = "add"
        /\ misread' = misread
    BY <1>3 DEF Add, Goto, TypeOK
  <2>2. live'[Here(r)] = With(Here(r), toAdd[r])
    BY <1>1, <1>3 DEF Add, Elements
  <2>3. Canonical(policy[r]) => live'[Here(r)] = live[Here(r)] \cup toAdd[r]
    BY <2>1, <2>2, AddedAsWanted
  <2>. QED  BY <2>1, <2>3 DEF DiffInv, Here
<1>4. CASE Del(r) \/ Dump(r) \/ DumpNothing(r) \/ Rename(r)
  <2>1. pc'[r] # "add" /\ pc'[r] # "del"
    BY <1>4 DEF Del, Dump, DumpNothing, Rename, Goto, TypeOK
  <2>. QED  BY <2>1, Zenon DEF DiffInv
<1>. QED  BY <1>2, <1>3, <1>4 DEF Working

LEMMA StepDone ==
  ASSUME TypeOK, SafeInv, NEW r \in Runs, alone[r], DiffInv(r), DoneInv(r), Working(r)
  PROVE  DoneInv(r)'
<1>. SUFFICES ASSUME policy'[r] # Idle, Canonical(policy'[r])
              PROVE  /\ pc'[r] \in {"diff", "add", "del"} =>
                          \A i \in 1..4 : i < at'[r] => Met(r, IP_GUARD_SETS[i])'
                     /\ pc'[r] \in {"persist", "rename", "done"} =>
                          \A s \in SetNames : Met(r, s)'
  BY DEF DoneInv
<1>1. policy' = policy /\ (misread[r] => misread'[r])
  BY DEF Working, Diff, DiffUnread, Add, Del, Dump, DumpNothing, Rename, TypeOK
<1>2. Here(r) \in SetNames /\ live \in Elements /\ at[r] \in 1..4
        /\ Here(r) = IP_GUARD_SETS[at[r]]
  BY HereTyped DEF TypeOK, Here
<1>3. CASE Diff(r) \/ DiffUnread(r) \/ Dump(r) \/ DumpNothing(r) \/ Rename(r)
  <2>1. live' = live /\ at' = at
    BY <1>3 DEF Diff, DiffUnread, Dump, DumpNothing, Rename
  <2>2. /\ pc'[r] \in {"diff", "add", "del"} => pc[r] \in {"diff", "add", "del"}
        /\ pc'[r] \in {"persist", "rename", "done"} => pc[r] \in {"persist", "rename", "done"}
    BY <1>3 DEF Diff, DiffUnread, Dump, DumpNothing, Rename, Goto, TypeOK
  <2>3. \A s : Met(r, s) => Met(r, s)'
    BY <1>1, <2>1 DEF Met
  <2>. QED  BY <1>1, <2>1, <2>2, <2>3 DEF DoneInv
<1>4. CASE Add(r)
  <2>1. at' = at /\ pc[r] = "add" /\ pc'[r] = "del"
    BY <1>4 DEF Add, Goto, TypeOK
  <2>2. \A s \in SetNames : s # Here(r) => live'[s] = live[s]
    BY <1>4, <1>2 DEF Add, Elements
  <2>3. \A i \in 1..4 : i < at[r] => IP_GUARD_SETS[i] # Here(r) /\ IP_GUARD_SETS[i] \in SetNames
    BY <1>2, Names
  <2>. QED  BY <1>1, <2>1, <2>2, <2>3 DEF DoneInv, Met
<1>5. CASE Del(r)
  <2>1. pc[r] = "del" /\ at'[r] = IF at[r] = 4 THEN 1 ELSE at[r] + 1
    BY <1>5 DEF Del, TypeOK
  <2>2. live'[Here(r)] = live[Here(r)] \ toDel[r]
    BY <1>2, <1>5 DEF Del, Elements
  <2>. DEFINE Now(s) == /\ Want(policy[r], s) \subseteq live'[s]
                        /\ live'[s] = Want(policy[r], s) \/ misread[r]
  <2>3. Now(Here(r))
    BY <1>1, <2>1, <2>2 DEF DiffInv
  <2>4. \A s \in SetNames : s # Here(r) => live'[s] = live[s]
    BY <1>2, <1>5 DEF Del, Elements
  <2>5. \A i \in 1..4 : i < at[r] => Now(IP_GUARD_SETS[i])
    BY <1>1, <1>2, <2>1, <2>4, Names DEF DoneInv, Met
  <2>6. \A i \in 1..4 : i <= at[r] => Now(IP_GUARD_SETS[i])
    BY <1>2, <2>3, <2>5
  <2>7. \A s \in SetNames : Now(s) => Met(r, s)'
    BY <1>1 DEF Met
  <2>. HIDE DEF Now
  <2>8. CASE at[r] < 4
    <3>1. at'[r] = at[r] + 1 /\ pc'[r] = "diff"
      BY <1>2, <1>5, <2>1, <2>8 DEF Del, Goto, TypeOK
    <3>2. \A i \in 1..4 : i < at'[r] => Met(r, IP_GUARD_SETS[i])'
      BY <1>2, <2>6, <2>7, <3>1, Names
    <3>. QED  BY <3>1, <3>2
  <2>9. CASE at[r] = 4
    <3>1. pc'[r] \in {"persist", "done"}
      BY <1>5, <2>9 DEF Del, Goto, TypeOK
    <3>2. \A s \in SetNames : Met(r, s)'
      BY <2>6, <2>7, <2>9, Names
    <3>. QED  BY <3>1, <3>2
  <2>. QED  BY <1>2, <2>8, <2>9
<1>. QED  BY <1>3, <1>4, <1>5 DEF Working

LEMMA StepProgress ==
  ASSUME IInv, [Next]_vars
  PROVE  ProgressInv'
<1>. SUFFICES ASSUME NEW q \in Runs, alone'[q] PROVE DiffInv(q)' /\ DoneInv(q)'
  BY DEF ProgressInv
<1>1. ASSUME NEW r \in Runs, Step(r) \/ Fails(r)
      PROVE  DiffInv(q)' /\ DoneInv(q)'
  <2>1. q = r /\ alone[r] /\ Working(r)
    BY <1>1, OwnStep DEF IInv
  <2>. QED  BY <2>1, StepDiffs, StepDone DEF IInv, ProgressInv
<1>2. ASSUME NEW r \in Runs, Call(r)
      PROVE  DiffInv(q)' /\ DoneInv(q)'
  <2>1. q = r /\ pc[r] = "idle"
    BY <1>2 DEF Call, Ensure, Apply, Begins
  <2>2. at'[q] = 1 /\ pc'[q] \in {"diff", "persist"} /\ (pc'[q] = "persist" => policy'[q] = Idle)
    BY <1>2, <2>1 DEF Call, Ensure, Apply, Goto, IInv, FreshInv, TypeOK
  <2>. QED  BY <2>2 DEF DiffInv, DoneInv
<1>3. CASE Restore \/ Reboot
  BY <1>3 DEF Restore, Reboot, IInv, AloneInv
<1>4. CASE RestoreNothing \/ UNCHANGED vars
  <2>0. UNCHANGED vars
    BY <1>4 DEF RestoreNothing
  <2>1. alone[q] /\ DiffInv(q) /\ DoneInv(q)
    BY <2>0 DEF vars, IInv, ProgressInv
  <2>. QED  BY <2>0, <2>1 DEF vars, local, DiffInv, DoneInv, Met, Here
<1>. QED  BY <1>1, <1>2, <1>3, <1>4 DEF Next

LEMMA StepFile ==
  ASSUME IInv, [Next]_vars
  PROVE  FileInv'
<1>. USE DEF IInv, FileInv
<1>1. ASSUME NEW r \in Runs, Call(r)
      PROVE  FileInv'
  <2>1. /\ alone' = [q \in Runs |-> q = r /\ \A o \in Runs : pc[o] = "idle"]
        /\ synced' = (synced /\ \A o \in Runs : pc[o] = "idle")
        /\ pc'[r] \in {"diff", "persist"} /\ \A q \in Runs \ {r} : pc'[q] = pc[q]
        /\ UNCHANGED <<live, file, changed>>
    BY <1>1 DEF Call, Ensure, Apply, Begins, Goto, TypeOK
  <2>2. \A q \in Runs : alone'[q] => changed'[q] = FALSE /\ pc'[q] \in {"diff", "persist"}
    BY <2>1 DEF FreshInv
  <2>. QED  BY <2>1, <2>2 DEF RebootKeeps, Stored
<1>2. ASSUME NEW r \in Runs, Working(r)
      PROVE  FileInv'
  <2>1. /\ pc[r] # "idle" /\ pc'[r] # "idle" /\ alone' = alone
        /\ \A q \in Runs \ {r} : pc'[q] = pc[q]
    BY <1>2 DEF Working, Diff, DiffUnread, Compare, Add, Del, Dump, DumpNothing, Rename, Goto,
       TypeOK
  <2>2. synced' => synced \/ alone[r]
    BY <1>2 DEF Working, Diff, DiffUnread, Compare, Add, Del, Dump, DumpNothing, Rename
  <2>3. (synced => \A q \in Runs : pc[q] # "idle" => alone[q])'
    BY <2>1, <2>2 DEF AloneInv
  <2>4. RebootKeeps'
    BY <2>1 DEF RebootKeeps
  <2>5. ASSUME alone[r]
        PROVE  /\ pc'[r] = "rename" => dump'[r] = live'
               /\ pc'[r] = "done" /\ synced' => Stored' = live'
               /\ pc'[r] \in {"diff", "add", "del", "persist"} /\ ~changed'[r] =>
                    /\ synced' => Stored' = live'
                    /\ pc'[r] \in {"add", "del"} => toAdd'[r] = {} /\ toDel'[r] = {}
    <3>1. CASE Diff(r) \/ DiffUnread(r)
      <4>1. PICK current : Compare(r, current)
        BY <3>1 DEF Diff, DiffUnread
      <4>2. ~changed'[r] => ~changed[r] /\ toAdd'[r] = {} /\ toDel'[r] = {}
        BY <4>1 DEF Compare, TypeOK
      <4>. QED  BY <2>5, <3>1, <4>2 DEF Diff, DiffUnread, Goto, TypeOK, Stored
    <3>2. CASE Add(r)
      <4>1. ~changed[r] => live' = live
        <5>1. ~changed[r] => toAdd[r] = {}
          BY <2>5, <3>2 DEF Add, TypeOK
        <5>2. toAdd[r] = {} => With(Here(r), toAdd[r]) = live[Here(r)]
          BY DEF With
        <5>3. Here(r) \in SetNames /\ live \in [SetNames -> SUBSET (V4 \cup V6)]
          BY HereTyped DEF TypeOK, Elements
        <5>. QED  BY <3>2, <5>1, <5>2, <5>3 DEF Add
      <4>. QED  BY <2>5, <3>2, <4>1 DEF Add, Goto, TypeOK, Stored
    <3>3. CASE Del(r)
      <4>1. ~changed[r] => live' = live
        <5>1. ~changed[r] => toDel[r] = {}
          BY <2>5, <3>3 DEF Del, TypeOK
        <5>2. Here(r) \in SetNames /\ live \in [SetNames -> SUBSET (V4 \cup V6)]
          BY HereTyped DEF TypeOK, Elements
        <5>. QED  BY <3>3, <5>1, <5>2 DEF Del
      <4>2. /\ changed' = changed /\ synced' = synced /\ file' = file
            /\ pc'[r] \in {"diff", "persist", "done"} /\ (pc'[r] = "done" => ~changed[r])
        BY <3>3 DEF Del, Goto, TypeOK
      <4>3. ~changed[r] /\ synced => Stored = live
        BY <2>5, <3>3 DEF Del
      <4>. QED  BY <4>1, <4>2, <4>3 DEF Stored
    <3>4. CASE Dump(r) \/ DumpNothing(r)
      BY <2>5, <3>4 DEF Dump, DumpNothing, Goto, TypeOK, Stored
    <3>5. CASE Rename(r)
      <4>1. Stored' = dump[r] /\ pc'[r] = "done" /\ dump[r] = live /\ live' = live
        BY <2>5, <3>5, FileAssumption DEF Rename, Stored, Goto, TypeOK
      <4>. QED  BY <4>1
    <3>. QED  BY <1>2, <3>1, <3>2, <3>3, <3>4, <3>5 DEF Working
  <2>6. \A q \in Runs : alone'[q] => q = r /\ alone[r]
    BY <2>1 DEF AloneInv
  <2>. QED  BY <2>3, <2>4, <2>5, <2>6
<1>3. ASSUME NEW r \in Runs, Exit(r) \/ NftFails(r) \/ Fails(r)
      PROVE  FileInv'
  <2>1. \A q \in Runs : ~alone'[q] \/ (alone[q] /\ q # r /\ pc[r] # "idle")
    BY <1>3 DEF Exit, NftFails, Fails, Ends, TypeOK
  <2>2. \A q \in Runs : ~alone'[q]
    BY <2>1 DEF AloneInv
  <2>3. synced' => synced /\ pc[r] = "done" /\ UNCHANGED <<live, file>>
    BY <1>3 DEF Exit, NftFails, Fails
  <2>4. synced' => alone[r] /\ \A q \in Runs : q # r => pc[q] = "idle"
    BY <2>3 DEF AloneInv
  <2>5. pc'[r] = "idle" /\ \A q \in Runs \ {r} : pc'[q] = pc[q]
    BY <1>3 DEF Exit, NftFails, Fails, Ends, Goto, TypeOK
  <2>6. synced' => Stored' = live'
    BY <2>3, <2>4 DEF Stored
  <2>. QED  BY <2>2, <2>4, <2>5, <2>6 DEF RebootKeeps
<1>4. CASE Restore
  BY <1>4 DEF Restore, RebootKeeps, AloneInv, local, Stored
<1>5. CASE Reboot
  BY <1>5 DEF Reboot, RebootKeeps, Stored
<1>6. CASE RestoreNothing \/ UNCHANGED vars
  BY <1>6 DEF RestoreNothing, vars, local, RebootKeeps, Stored
<1>. QED  BY <1>1, <1>2, <1>3, <1>4, <1>5, <1>6 DEF Next, Step, Working

LEMMA Inductive == IInv /\ [Next]_vars => IInv'
  BY StepTyped, StepSafe, StepAlone, StepFresh, StepProgress, StepFile DEF IInv

-----------------------------------------------------------------------------
(* What is proved *)

\* ip_guard_check_protected, ip_guard_apply, ip_guard_persist and ip_guard_restore: no
\* protected IPv4 address, in whatever prefix it is covered, is ever in a block set of the
\* kernel or of the file, and no protected IPv6 address that is written plain and that no
\* policy spells otherwise.
THEOREM ProtectedStaysOpen == Spec => []ProtectedNeverBlocked
<1>1. IInv => ProtectedNeverBlocked
  <2>. SUFFICES ASSUME IInv, NEW sets \in {live, Stored}, NEW p \in Critical,
                       Guarded(p)
                PROVE  Covered(sets["bo_block_v4"] \cup sets["bo_block_v6"])
                         \cap Covered({p}) = {}
    BY DEF ProtectedNeverBlocked, Shielded
  <2>1. \A c \in sets["bo_block_v4"] \cup sets["bo_block_v6"] :
          Covered({c}) \cap Covered({p}) = {}
    BY DEF IInv, SafeInv, Clear, Blocking
  <2>2. ASSUME NEW x \in Covered(sets["bo_block_v4"] \cup sets["bo_block_v6"]), x \in Covered({p})
        PROVE  FALSE
    <3>1. PICK c \in sets["bo_block_v4"] \cup sets["bo_block_v6"] : x \in Covered({c})
      BY <2>2, CoveredOne
    <3>. QED  BY <2>1, <2>2, <3>1
  <2>. QED  BY <2>2
<1>. QED  BY InitIInv, Inductive, <1>1, PTL DEF Spec

\* ip_guard_apply and ip_guard_persist: a call that was alone and prints its summary leaves all
\* of the policy in the kernel, and nothing else unless nft failed to list a set; after calls
\* that were not cut short, overlapped or without their dump a reboot brings back what was live.
THEOREM WhatIsAppliedIsKept == Spec => []AppliedIsKept
<1>1. IInv => AppliedIsKept
  BY DEF IInv, AppliedIsKept, AppliedIsLive, ProgressInv, DoneInv, Met, FileInv
<1>. QED  BY InitIInv, Inductive, <1>1, PTL DEF Spec

\* ip_guard_apply: an address that is in a set and stays wanted is in it after every step of a call
\* that is alone.
THEOREM NoWindow == Spec => WantedStays
<1>. DEFINE A == \A r \in Runs : (pc[r] \in {"add", "del"} /\ pc'[r] # "idle" /\ alone'[r]
                                    /\ Canonical(policy[r]))
                   => \A s \in SetNames :
                        Covered(live[s]) \cap Covered(Want(policy[r], s))
                          \subseteq Covered(live'[s])
<1>1. IInv /\ [Next]_vars => [A]_vars
  <2>. SUFFICES ASSUME IInv, Next, NEW r \in Runs, pc[r] \in {"add", "del"}, pc'[r] # "idle",
                       alone'[r], Canonical(policy[r]), NEW s \in SetNames
                PROVE  Covered(live[s]) \cap Covered(Want(policy[r], s))
                         \subseteq Covered(live'[s])
    BY Zenon
  <2>. USE DEF IInv
  <2>1. CASE live[s] \subseteq live'[s]
    BY <2>1, CoveredMonotone
  <2>2. ASSUME NEW q \in Runs, Step(q) \/ Fails(q)
        PROVE  Covered(live[s]) \cap Covered(Want(policy[r], s)) \subseteq Covered(live'[s])
    <3>1. q = r /\ alone[r] /\ Working(r)
      BY <2>2, OwnStep
    <3>2. (Add(r) /\ pc[r] = "add") \/ (Del(r) /\ pc[r] = "del")
      BY <3>1 DEF Working, Diff, DiffUnread, Compare, Add, Del, Dump, DumpNothing, Rename
    <3>3. CASE s # Here(r) \/ Add(r)
      <4>1. live[s] \subseteq live'[s]
        BY <3>2, <3>3, HereTyped DEF Add, Del, With, TypeOK, Elements
      <4>. QED  BY <2>1, <4>1
    <3>4. CASE s = Here(r) /\ Del(r) /\ pc[r] = "del"
      <4>1. live'[s] = live[s] \ toDel[r]
        BY <3>4, HereTyped DEF Del, TypeOK, Elements
      <4>2. Want(policy[r], s) \subseteq live[s] /\ toDel[r] \cap Want(policy[r], s) = {}
        BY <3>1, <3>4 DEF ProgressInv, DiffInv
      <4>3. Want(policy[r], s) \subseteq live'[s]
        BY <4>1, <4>2
      <4>. QED  BY <4>3, CoveredMonotone
    <3>. QED  BY <3>2, <3>3, <3>4
  <2>3. ASSUME NEW q \in Runs, Call(q)
        PROVE  FALSE
    BY <2>3 DEF Call, Ensure, Apply, Begins
  <2>4. CASE Restore \/ RestoreNothing \/ Reboot
    BY <2>4 DEF Restore, RestoreNothing, Reboot
  <2>. QED  BY <2>2, <2>3, <2>4 DEF Next
<1>. QED  BY InitIInv, Inductive, <1>1, PTL DEF Spec, WantedStays
=============================================================================
