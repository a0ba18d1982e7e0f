---------------------------- MODULE VhostRender ----------------------------
(***************************************************************************)
(* What an accepted payload becomes: ValidatePayload and validateLocations *)
(* (internal/render), OrderedLocations, and the file the template renders. *)
(*                                                                         *)
(* Values that a regular expression accepts or refuses are members of, or  *)
(* strangers to, a constant set.  A file is a sequence of lines, and a     *)
(* line is what the readers of ConfReaders tell apart: its kind, the name  *)
(* and the words of its first directive, the directives that follow on the *)
(* same line (body), whether a closing brace ends it (shut), whether a     *)
(* comment follows the directive (tail), the braces inside its comment or  *)
(* its quotes (stray: 1 opening, -1 closing), and, for what goes on to a   *)
(* second line, whether that is the opening brace (split) or the rest of a *)
(* directive (cut).                                                        *)
(***************************************************************************)
EXTENDS Integers, Sequences, SequencesExt

CONSTANTS
  Refs, Domains, Hosts, \* what the regular expressions and net.ParseIP accept
  Paths, Regexes,       \* what locPathRe accepts; locRegexRe and regexp.Compile
  MaxLocations,
  Begins, Hits,       \* <<path, uri>>: uri begins with path; a regex finds it
  Length                \* of a path

\* Destinations of proxy_pass: a plain one, one with a URI part, a loopback,
\* link-local, multicast or unspecified address, and one proxyPassRe refuses.
Destinations == {"ext", "exturi", "loopback", "garbled"}

-----------------------------------------------------------------------------
(* Validation *)

RegexMatchers == {"~", "~*"}

\* validateProxyPass
ProxyPassOK(loc) ==
  /\ loc.pass # "garbled"
  /\ loc.pass # "loopback"
  /\ ~(loc.m \in RegexMatchers /\ loc.pass = "exturi")

\* Mutant of PoolRule: upstreams may be empty once there are locations.
PoolRuleMissing(p) == TRUE

\* usesPool && len(p.Upstreams) == 0
PoolRule(p) ==
  (\E i \in DOMAIN p.locations : p.locations[i].pass = "") => p.upstreams # <<>>

LocationOK(loc) ==
  /\ \/ loc.m \in {"", "=", "^~"} /\ loc.path \in Paths
     \/ loc.m \in RegexMatchers /\ loc.path \in Regexes
  /\ loc.pass # "" => ProxyPassOK(loc)

validateLocations(p) ==
  p.locations # <<>> =>
    /\ Len(p.locations) <= MaxLocations
    /\ \A i \in DOMAIN p.locations : LocationOK(p.locations[i])
    /\ \A i, j \in DOMAIN p.locations :
         <<p.locations[i].m, p.locations[i].path>> = <<p.locations[j].m, p.locations[j].path>>
           => i = j
    /\ PoolRule(p)

\* The idempotency key, the repo and the exposure are well formed or not, and
\* nothing of them reaches the file: one flag.
ValidatePayload(p) ==
  /\ p.version \in {1, 2}
  /\ p.locations # <<>> => p.version >= 2
  /\ p.revision > 0
  /\ p.metaOK
  /\ p.ref \in Refs
  /\ p.domains # <<>> /\ ToSet(p.domains) \subseteq Domains
  /\ p.upstreams = <<>> => p.locations # <<>>
  /\ ToSet(p.upstreams) \subseteq Hosts
  /\ validateLocations(p)

-----------------------------------------------------------------------------
(* Rendering *)

\* Mutant of matcherGroup: the case-insensitive regexes get a group of their own.
matcherGroupSplit(m) ==
  CASE m = "=" -> 0 [] m = "^~" -> 1 [] m = "~" -> 3 [] m = "~*" -> 4 [] OTHER -> 2

matcherGroup(m) ==
  CASE m = "=" -> 0 [] m = "^~" -> 1 [] m \in RegexMatchers -> 3 [] OTHER -> 2

DefaultLocation == [m |-> "", path |-> "/", pass |-> "", ws |-> "unset"]

\* sort.SliceStable by matcherGroup: the groups one after the other, each in the
\* order of the payload.
OrderedLocations(p) ==
  IF p.locations = <<>> THEN <<DefaultLocation>>
  ELSE LET Group(g) == SelectSeq(p.locations, LAMBDA loc : matcherGroup(loc.m) = g)
       IN Group(0) \o Group(1) \o Group(2) \o Group(3) \o Group(4)

\* Lines.
Line(kind, name, words) ==
  [kind |-> kind, name |-> name, words |-> words, rev |-> 0,
   body |-> <<>>, shut |-> FALSE, tail |-> FALSE, stray |-> 0, split |-> FALSE, cut |-> FALSE]
Dir(name, words)  == Line("dir", name, words)
Tailed(line)      == [line EXCEPT !.tail = TRUE]
Close             == Line("close", "", {})
Comment           == Line("comment", "", {})
Blank             == Line("blank", "", {})
Marker(file)      == Line("marker", file, {})

\* Mutant of Header: the template leaves the revision out.
HeaderNoRevision(ref, rev) == Line("header", ref, {})

\* ManagedByHeader
Header(ref, rev) == [Line("header", ref, {}) EXCEPT !.rev = rev]

\* UpstreamName: one name per ref here (two refs that differ in "-" and "_" share one).
PoolOf(ref) == ref

Destination(loc, p) == IF loc.pass = "" THEN PoolOf(p.ref) ELSE loc.pass

WantsWebsocket(loc, p) == loc.ws = "yes" \/ (loc.ws = "unset" /\ p.websocket)

When(cond, lines) == IF cond THEN lines ELSE <<>>

RenderLocation(loc, p) ==
  << Line("location", loc.path, {loc.m}),
     Dir("proxy_pass", {Destination(loc, p)}),
     Dir("proxy_http_version", {"1.1"}),
     Dir("proxy_set_header", {"Connection", ""}),
     Dir("proxy_set_header", {"Host"}),
     Dir("proxy_pass_request_headers", {"on"}) >>
  \o When(WantsWebsocket(loc, p),
       << Dir("proxy_set_header", {"Upgrade"}),
          Dir("proxy_set_header", {"Connection", "upgrade"}) >>)
  \o << Blank, Dir("proxy_read_timeout", {"60s"}),
        Dir("proxy_next_upstream", {"error"}), Dir("proxy_next_upstream_tries", {"2"}) >>
  \o When(p.rateLimit,
       << Blank, Comment, Dir("limit_req", {"rl"}), Dir("limit_req_status", {"429"}) >>)
  \o When(p.cache,
       << Blank, Dir("proxy_cache", {"cache"}), Dir("proxy_cache_valid", {"200"}),
          Dir("add_header", {"X-Cache-Status"}) >>)
  \o << Close, Blank >>

\* RenderString: the template, line by line.  The three timeouts, the four plain
\* headers and the two cache lifetimes are read alike and stand for one another.
Render(p) ==
  <<Header(p.ref, p.revision)>>
  \o [i \in DOMAIN p.domains |-> Comment]
  \o When(p.cache, <<Dir("proxy_cache_path", {"cache"})>>)
  \o When(p.rateLimit, <<Comment, Dir("limit_req_zone", {"rl"})>>)
  \o When(p.upstreams # <<>>,
       <<Line("upstream", PoolOf(p.ref), {})>>
       \o [i \in DOMAIN p.upstreams |-> Dir("server", {p.upstreams[i]})]
       \o <<Dir("keepalive", {"16"}), Dir("keepalive_timeout", {"60s"}), Close>>)
  \o << Blank, Line("server", "", {}), Tailed(Dir("listen", {"80"})),
        Dir("server_name", ToSet(p.domains)), Dir("underscores_in_headers", {"on"}),
        Comment, Dir("client_max_body_size", {"100m"}),
        Dir("include", {"error-pages"}), Tailed(Dir("include", {"cloudflare-real-ip"})), Blank >>
  \o FlattenSeq([i \in DOMAIN OrderedLocations(p) |-> RenderLocation(OrderedLocations(p)[i], p)])
  \o <<Close>>

-----------------------------------------------------------------------------
(* How nginx picks a location (external) *)

\* nginx refuses two locations with one name; "^~" is a prefix like any other.
NginxTakes(locs) ==
  \A i, j \in DOMAIN locs : i # j =>
    ~(locs[i].path = locs[j].path /\ {locs[i].m, locs[j].m} \subseteq {"", "^~"})

\* Where uri goes: exact, else the longest prefix if it is "^~", else the first
\* regex of the file that matches, else that prefix.  0 is nowhere.
Route(locs, uri) ==
  LET Some(S)  == CHOOSE i \in S : TRUE
      exact    == {i \in DOMAIN locs : locs[i].m = "=" /\ locs[i].path = uri}
      prefixes == {i \in DOMAIN locs :
                     locs[i].m \in {"", "^~"} /\ <<locs[i].path, uri>> \in Begins}
      longest  == {i \in prefixes :
                     \A j \in prefixes : Length[locs[i].path] >= Length[locs[j].path]}
      regexes  == {i \in DOMAIN locs :
                     locs[i].m \in RegexMatchers /\ <<locs[i].path, uri>> \in Hits}
      pick     == IF exact # {} THEN exact
                  ELSE IF \E i \in longest : locs[i].m = "^~" THEN longest
                  ELSE IF regexes # {} THEN {CHOOSE i \in regexes : \A j \in regexes : i <= j}
                  ELSE longest
  IN IF pick = {} THEN 0 ELSE Some(pick)
=============================================================================
