----------------------------- MODULE MCIpGuard -----------------------------
(* Eight addresses: 0 is the control plane, 6 and 7 are the loopback         *)
(* network.  The policies block and unblock 2..3, narrow the range to an      *)
(* overlapping one, name it by an address inside it, write a single address   *)
(* with "/", and block a range around, and an address of, a protected one.    *)
(* Of two protected IPv6 addresses one is written plain and one with "/128",  *)
(* and policies block both, the second also in another spelling.              *)
EXTENDS IpGuard, TLC

CONSTANTS plain6, slash6, loop6

Range4(a, l) == [addr |-> a, len |-> l, form |-> "slash"]
Address6(a, f) == [addr6 |-> a, form |-> f]
Block(c) == [action |-> "block", cidr |-> c]
Allow(c) == [action |-> "allow", cidr |-> c]

MCLoopback  == Range4(6, 2)
MCLoopback6 == Address6(loop6, "plain")
MCProtected == {Range4(0, 2), Address6(plain6, "plain"), Address6(slash6, "slash")}
MCPolicies  == { {},
                 {Block(Range4(2, 2)), Allow(Range4(2, 3)), Block(Address6(slash6, "slash"))},
                 {Block(Range4(2, 3))},
                 {Block(Range4(3, 2)), Block(Address6(slash6, "long"))},
                 {Block(Range4(0, 1))},
                 {Block(Range4(1, 3))},
                 {Block(Address6(plain6, "slash"))} }

Calls == Permutations(Runs)
=============================================================================
