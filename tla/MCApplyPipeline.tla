-------------------------- MODULE MCApplyPipeline --------------------------
(***************************************************************************)
(* Small instances of ApplyPipeline.  Two apps (a, b) and a third file     *)
(* name h that exists before the listener does.  A body is the upstream    *)
(* block a vhost declares, or uses without declaring it: nginx refuses two *)
(* files with the same block, and a use without a declaration.             *)
(***************************************************************************)
EXTENDS ApplyStore, TLC

CONSTANTS a, b, h, repoA, repoB, d1, d2, D1, p1, p2

Pay(ref, repo, rev, domains, body) ==
  [ref |-> ref, repo |-> repo, rev |-> rev, key |-> <<ref, rev>>,
   domains |-> domains, body |-> body]

MCKeys == {a, b, h} \X (1..3)
MCBodies == {"pool_a", "pool_b", "default", "proxy_to_a"}

MCAccepts(t) ==
  /\ \A r, s \in Refs : (r # s /\ t[r] # NoFile /\ t[s] # NoFile)
                        => t[r].body # t[s].body
  /\ (\E r \in Refs : t[r] # NoFile /\ t[r].body = "proxy_to_a")
       => \E s \in Refs : t[s] # NoFile /\ t[s].body = "pool_a"

\* a moves from one domain to the other and renames its pool, b wants the domain
\* a had and has the pool's new name, which nginx -t refuses twice.  The first
\* domain is spelt with a capital, by everybody.
MCPayloads == {Pay(a, repoA, 1, {D1}, "pool_a"), Pay(a, repoA, 2, {d2}, "pool_b"),
               Pay(b, repoB, 1, {D1}, "pool_b")}

HandWritten(hd, ds, bd) == [header |-> hd, rev |-> 0, domains |-> ds, body |-> bd]

\* A fresh host, and one with a hand-written pool in a file that has the name of
\* app a's, and a hand-written vhost that uses it.
MCInitTrees ==
  {Bare, [Bare EXCEPT ![a] = HandWritten("none", {}, "pool_a"),
                      ![h] = HandWritten("none", {d2}, "proxy_to_a")]}

\* The goroutines are interchangeable.
MCSymmetry == Permutations(Procs)

\* a gives d1 up, b takes it spelt D1, a takes it back.
CasePayloads == {Pay(a, repoA, 1, {d1}, "pool_a"), Pay(a, repoA, 2, {d2}, "pool_a"),
                 Pay(a, repoA, 3, {d1}, "pool_a"), Pay(b, repoB, 1, {D1}, "pool_b")}

\* Two pipelines of one repository.
SharedPayloads == {Pay(a, repoA, 2, {d1}, "pool_a"), Pay(b, repoA, 1, {d2}, "pool_b")}

\* A hand-written file that has the name of app a's file, and a catch-all like the
\* installer's, whose managed-by header names no app.
NamedInitTrees == {[Bare EXCEPT ![a] = HandWritten("none", {d2}, "pool_b"),
                                ![h] = HandWritten("bare", {}, "default")]}

SameFold == [d \in Domains |-> d]
CaseFold == [d \in Domains |-> IF d = D1 THEN d1 ELSE d]
=============================================================================
