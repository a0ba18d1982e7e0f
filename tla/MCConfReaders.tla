--------------------------- MODULE MCConfReaders ---------------------------
(* ConfReaders for TLC.  Payloads: every choice of at most two locations with *)
(* each way to be wrong, and every variant of the rest with one location.     *)
EXTENDS ConfReaders

MCBegins == {<<"/", "/">>, <<"/", "/a">>, <<"/", "/ab">>, <<"/a", "/a">>, <<"/a", "/ab">>}
MCHits   == {<<"ra", "/a">>, <<"ra", "/ab">>, <<"rb", "/ab">>}
MCLength == [p \in {"/", "/a"} |-> IF p = "/" THEN 1 ELSE 2]

Loc(m, path, pass, ws) == [m |-> m, path |-> path, pass |-> pass, ws |-> ws]
SomeLocs ==
  {Loc(m, path, pass, "unset") : m \in {"", "=", "^~"}, path \in {"/", "/a"}, pass \in {"", "ext"}}
  \cup {Loc(m, path, pass, "unset") : m \in {"~", "~*"}, path \in {"ra", "rb"}, pass \in {"", "ext"}}
WrongLocs ==
  {Loc("", "//", "", "unset"), Loc("~", "(", "", "unset"), Loc("@", "@named", "", "unset"),
   Loc("~", "ra", "exturi", "yes"), Loc("", "/a", "exturi", "yes"), Loc("", "/a", "loopback", "no"),
   Loc("", "/a", "garbled", "unset")}

Base == [version |-> 2, revision |-> 1, metaOK |-> TRUE, ref |-> "app", domains |-> <<"d1">>,
         upstreams |-> <<"b1">>, websocket |-> FALSE, cache |-> FALSE, rateLimit |-> FALSE,
         locations |-> <<>>]

MCPayloads ==
  {[Base EXCEPT !.locations = <<a, b>>] : a, b \in SomeLocs}
  \cup {[Base EXCEPT !.upstreams = <<>>, !.locations = <<a>>] : a \in SomeLocs}
  \cup {[Base EXCEPT !.locations = <<a>>, !.websocket = w] : a \in WrongLocs, w \in BOOLEAN}
  \cup {[Base EXCEPT !.version = v, !.revision = r, !.domains = ds, !.upstreams = us,
                     !.cache = c, !.rateLimit = c, !.metaOK = ok, !.locations = locs] :
          v \in 1..3, r \in 0..1, ds \in {<<>>, <<"d1", "d2">>, <<"d?">>},
          us \in {<<>>, <<"b1", "b2">>, <<"b?">>}, c \in BOOLEAN, ok \in BOOLEAN,
          locs \in {<<>>, <<Loc("", "/a", "ext", "no")>>}}

D(name, words) == [name |-> name, words |-> words]
Inline(line, body, shut) == [line EXCEPT !.body = body, !.shut = shut]
Srv == Line("server", "", {})
Ups == Line("upstream", "p", {})
LocA == Line("location", "/a", {""})
Split(line) == [line EXCEPT !.split = TRUE]
Cut(line)   == [line EXCEPT !.cut = TRUE]
Stray(line, n) == [line EXCEPT !.stray = n]

MCHandLines ==
  { Comment, Header("other", 1), Close, Ups, Srv, LocA,
    Line("location", "(", {"~"}), Line("location", "@named", {""}), Line("block", "if", {}),
    Dir("server", {"b1"}), Dir("server", {"b1", "down"}),
    Inline(Ups, <<D("server", {"b1", "down"})>>, TRUE),
    Inline(Ups, <<D("server", {"b1", "down"}), D("server", {"b2"})>>, TRUE),
    Inline(Srv, <<D("server_name", {"d1"})>>, FALSE),
    Inline(Srv, <<D("server_name", {"d1"})>>, TRUE),
    Inline(LocA, <<D("return", {"403"})>>, TRUE),
    Inline(LocA, <<D("proxy_pass", {"p"})>>, FALSE),
    Dir("server_name", {"d2"}), Dir("listen", {"80"}), Dir("listen", {"443"}),
    Tailed(Dir("listen", {"80"})), Dir("proxy_pass", {"p"}), Dir("return", {"403"}),
    Dir("gzip", {"on"}), [Dir("return", {"403"}) EXCEPT !.shut = TRUE],
    Split(Ups), Split(Srv), Split(LocA), Cut(Dir("server_name", {"d2"})),
    Cut(Dir("proxy_pass", {"p"})), Dir("server", {"unix"}),
    Inline(Dir("listen", {"80"}), <<D("server_name", {"d1"})>>, FALSE),
    Inline(Dir("server_name", {"d2"}), <<D("return", {"403"})>>, FALSE),
    Stray(Tailed(Dir("listen", {"80"})), 1), Stray(Tailed(Dir("listen", {"80"})), -1),
    Stray(Dir("gzip", {"on"}), 1), Stray(Tailed(LocA), -1) }

\* A location inside a location.
MCNestedLines == {Srv, LocA, Line("location", "/", {""}), Close}
=============================================================================
