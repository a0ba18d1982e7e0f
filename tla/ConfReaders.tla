---------------------------- MODULE ConfReaders ----------------------------
(***************************************************************************)
(* The readers of nginx configuration text: ParseDump (which hostname is   *)
(* in which file), BuildInventory and ResolvePools (what the panel shows), *)
(* ParseManagedConf (what /v1/status knows of a file), and Fidelity (could *)
(* the template have written this vhost).  None of them is a parser: each  *)
(* goes line by line with a few flags, and each decides on its own.        *)
(*                                                                         *)
(* A dump is written one line at a time, and every reader reads the line.  *)
(* A file is either the rendering of a valid payload, or written by hand   *)
(* from HandLines in any order nginx accepts.  nginx is external: it keeps *)
(* the block structure and what the text really says.  Of the pools and of *)
(* the vhosts only those of the current file are kept.                     *)
(***************************************************************************)
EXTENDS VhostRender

CONSTANTS
  Files,      \* names of files
  Payloads,   \* payloads that may be rendered
  HandLines,  \* lines a person writes
  URIs,
  MaxHand,    \* bound on the lines written by hand
  MaxFiles    \* bound on the files of a dump

VARIABLES
  nfiles,    \* files begun
  lines,     \* lines of the current file so far
  hand,      \* lines written by hand so far
  todo,      \* what is left to write of a rendered file
  payload,   \* history: its payload, as a sequence of at most one
  truth,     \* external: what nginx makes of the current file
  dump,      \* ParseDump: the current block
  inv,       \* BuildInventory
  fid,       \* Fidelity
  conf       \* ParseManagedConf of the current file

vars == <<nfiles, lines, hand, todo, payload, truth, dump, inv, fid, conf>>

IsComment(l) == l.kind \in {"comment", "header"}
IsOpener(l)  == l.kind \in {"upstream", "server", "location", "block"}
Closes(l)    == l.kind = "close" \/ l.shut
\* strings.Count, which counts the braces of comments and quotes too.
Braces(l)    == (IF IsOpener(l) THEN 1 ELSE 0) - (IF Closes(l) THEN 1 ELSE 0) + l.stray
\* A regular expression of a reader finds an opener with its brace, and a directive up
\* to its semicolon, only if they are on one line.
Opens(l, kinds)  == l.kind \in kinds /\ ~l.split
Says(l, name)    == l.kind = "dir" /\ l.name = name /\ ~l.cut
Word(d)      == CHOOSE w \in d.words : TRUE
Directive(l) == [name |-> l.name, words |-> l.words]

-----------------------------------------------------------------------------
(* ParseDump *)

NoBlock(file) == [file |-> file, start |-> TRUE, managed |-> FALSE, app |-> "", names |-> {}]

\* Mutant of ParseDumpLine: any line of the file may be the header.
ParseDumpLineAnywhere(s, l) ==
  IF l.kind = "marker" THEN NoBlock(l.name)
  ELSE [s EXCEPT !.managed = @ \/ l.kind = "header",
                 !.app     = IF l.kind = "header" THEN l.name ELSE @,
                 !.names   = @ \cup IF Says(l, "server_name") THEN l.words ELSE {}]

\* The header counts as the first line that is not blank; a server_name counts at
\* the beginning of a line, wherever it stands.
ParseDumpLine(s, l) ==
  IF l.kind = "marker" THEN NoBlock(l.name)
  ELSE LET owns == s.start /\ l.kind = "header" IN
       [s EXCEPT !.start   = @ /\ l.kind = "blank",
                 !.managed = @ \/ owns,
                 !.app     = IF owns THEN l.name ELSE @,
                 !.names   = @ \cup IF Says(l, "server_name") THEN l.words ELSE {}]

-----------------------------------------------------------------------------
(* ParseManagedConf *)

NoConf == [ok |-> FALSE, app |-> "", rev |-> 0, names |-> {}, ups |-> {}]

\* n is the number of lines before this one.  A backend with parameters, or without a
\* port, is not read: Hosts are the addresses with one.
ParseManagedLine(s, l, n) ==
  IF l.kind = "marker" THEN NoConf
  ELSE IF n = 0
    THEN IF l.kind = "header" THEN [NoConf EXCEPT !.ok = TRUE, !.app = l.name, !.rev = l.rev]
         ELSE NoConf
  ELSE IF ~s.ok THEN s
  ELSE [s EXCEPT !.names = @ \cup IF Says(l, "server_name") THEN l.words ELSE {},
                 !.ups   = @ \cup IF Says(l, "server") /\ l.words \subseteq Hosts THEN l.words ELSE {}]

-----------------------------------------------------------------------------
(* BuildInventory *)

NewVhost(s)    == [managed |-> s.managed, app |-> s.app, names |-> {}, locs |-> <<>>]
NewPool(l)     == [name |-> l.name, servers |-> {}]
NewLocation(l) == [m |-> Word(l), path |-> l.name, pass |-> "", ws |-> FALSE]

NoInventory == [managed |-> FALSE, app |-> "", depth |-> 0, pool |-> <<>>, vhost |-> <<>>,
                loc |-> <<>>, locDepth |-> 0, pools |-> <<>>, vhosts |-> <<>>]

\* pool.Down: every backend, and at least one.
PoolDown(pool) == pool.servers # {} /\ \A b \in pool.servers : "down" \in b

applyLocationLine(loc, d) ==
  CASE d.name = "proxy_pass" -> [loc EXCEPT !.pass = Word(d)]
    [] d.name = "proxy_set_header" /\ d.words = {"Upgrade"} -> [loc EXCEPT !.ws = TRUE]
    [] OTHER -> loc

\* invBackendRe: an address with a port.
Backend(d) == d.name = "server" /\ d.words \cap Hosts # {}

\* One line, or what is left of it behind a brace, inside an upstream.
PoolLine(s, first) ==
  LET pool == [s.pool[1] EXCEPT !.servers = @ \cup {d.words : d \in {e \in ToSet(first) : Backend(e)}}]
  IN IF s.depth <= 0
       THEN [s EXCEPT !.pool = <<>>, !.depth = 0,
                      !.pools = Append(@, [name |-> pool.name, down |-> PoolDown(pool)])]
       ELSE [s EXCEPT !.pool = <<pool>>]

\* The same inside a location ...
LocationLine(s, first) ==
  LET loc == IF first = <<>> THEN s.loc[1] ELSE applyLocationLine(s.loc[1], first[1])
  IN IF s.depth <= s.locDepth
       THEN [s EXCEPT !.loc = <<>>, !.vhost[1].locs = Append(@, loc)]
       ELSE [s EXCEPT !.loc = <<loc>>]

\* Mutant of OpenLocation: what follows the brace is dropped.
OpenLocationOnly(l) == NewLocation(l)

OpenLocation(l) ==
  IF l.body = <<>> THEN NewLocation(l) ELSE applyLocationLine(NewLocation(l), l.body[1])

\* ... and directly inside a server.
VhostLine(s, l, first) ==
  LET named == {d \in ToSet(first) : d.name = "server_name"}
      read  == [s EXCEPT !.vhost[1].names = @ \cup UNION {d.words : d \in named}]
      moved == IF ~Opens(l, {"location"}) THEN read
               ELSE IF l.shut \/ l.stray = -1 THEN [s EXCEPT !.vhost[1].locs = Append(@, OpenLocation(l))]
               ELSE [s EXCEPT !.loc = <<OpenLocation(l)>>, !.locDepth = s.depth - 1]
  IN IF s.depth <= 0
       THEN [moved EXCEPT !.vhost = <<>>, !.depth = 0, !.vhosts = Append(@, moved.vhost[1])]
       ELSE moved

InsideLine(s, l, first) ==
  CASE s.pool # <<>> -> PoolLine(s, first)
    [] s.pool = <<>> /\ s.loc # <<>> -> LocationLine(s, first)
    [] OTHER -> VhostLine(s, l, first)

\* Mutant of OpenLine: what follows the brace is dropped, and not counted.
OpenLineOnly(s, l) ==
  IF l.kind = "upstream" THEN [s EXCEPT !.pool = <<NewPool(l)>>, !.depth = 1]
  ELSE [s EXCEPT !.vhost = <<NewVhost(s)>>, !.depth = 1]

\* `upstream x {` and `server {`: what follows the brace is read as a line of its
\* own, of which only the first directive is recognised.
OpenLine(s, l) ==
  LET opened == IF l.kind = "upstream" THEN [s EXCEPT !.pool = <<NewPool(l)>>]
                ELSE [s EXCEPT !.vhost = <<NewVhost(s)>>]
      first  == SubSeq(l.body, 1, IF l.body = <<>> THEN 0 ELSE 1)
  IN InsideLine([opened EXCEPT !.depth = Braces(l)], [l EXCEPT !.kind = "rest"], first)

\* Mutant of NewFile: the place in the last file is kept.
NewFileInside(s) == [s EXCEPT !.managed = FALSE, !.app = "", !.pools = <<>>, !.vhosts = <<>>]

\* "# configuration file": depth, pool, vhost and loc are cleared.
NewFile(s) == NoInventory

InventoryLine(s, l) ==
  LET top == s.pool = <<>> /\ s.vhost = <<>> IN
  CASE l.kind = "marker" -> NewFile(s)
    [] IsComment(l) \/ l.kind = "blank" ->
         IF top /\ l.kind = "header" THEN [s EXCEPT !.managed = TRUE, !.app = l.name] ELSE s
    [] top /\ Opens(l, {"upstream", "server"}) -> OpenLine(s, l)
    [] top /\ ~Opens(l, {"upstream", "server", "marker", "comment", "header", "blank"}) -> s
    [] OTHER -> InsideLine([s EXCEPT !.depth = @ + Braces(l)], l,
                           IF l.kind = "dir" /\ ~l.cut THEN <<Directive(l)>> ELSE <<>>)

\* ResolvePools: the pool a location is linked to, "" if none is declared.
PoolLink(i, loc) == IF \E p \in ToSet(i.pools) : p.name = loc.pass THEN loc.pass ELSE ""

-----------------------------------------------------------------------------
(* Fidelity *)

\* Mutant of expressible: somebody changed the template and not the table.
expressibleOld ==
  [n \in {"listen"} |-> {{"80"}}] @@ [n \in {"server_name", "proxy_pass", "proxy_cache"} |-> {}]

\* The directives of the template and their values; {} is any value.
expressible ==
  [n \in {"server_name", "proxy_pass", "proxy_read_timeout", "limit_req", "limit_req_zone",
          "limit_req_status", "proxy_cache", "proxy_cache_path", "proxy_cache_valid",
          "keepalive", "keepalive_timeout"} |-> {}]
  @@ [n \in {"underscores_in_headers", "proxy_pass_request_headers"} |-> {{"on"}}]
  @@ [n \in {"listen"} |-> {{"80"}}] @@ [n \in {"client_max_body_size"} |-> {{"100m"}}]
  @@ [n \in {"proxy_http_version"} |-> {{"1.1"}}] @@ [n \in {"proxy_next_upstream"} |-> {{"error"}}]
  @@ [n \in {"proxy_next_upstream_tries"} |-> {{"2"}}]
  @@ [n \in {"include"} |-> {{"error-pages"}, {"cloudflare-real-ip"}}]
  @@ [n \in {"add_header"} |-> {{"X-Cache-Status"}}]
  @@ [n \in {"proxy_set_header"} |->
        {{"Connection", ""}, {"Host"}, {"Upgrade"}, {"Connection", "upgrade"}}]

\* Stand for the table of the same name.
blockers == {"return", "root", "if"}

NewReport   == [names |-> {}, blockers |-> {}, losses |-> {}, unparsed |-> 0, locs |-> <<>>]
NoFidelity  == [managed |-> FALSE, cur |-> <<>>, depth |-> 0, inLoc |-> FALSE, out |-> <<>>]

\* The payload the locations of a vhost are tried in.
Probe(locs) ==
  [version |-> 2, revision |-> 1, metaOK |-> TRUE, ref |-> CHOOSE r \in Refs : TRUE,
   domains |-> <<CHOOSE d \in Domains : TRUE>>, upstreams |-> <<CHOOSE h \in Hosts : TRUE>>,
   websocket |-> FALSE, cache |-> FALSE, rateLimit |-> FALSE, locations |-> locs]

\* Mutant of verdictOf: the write side is not asked.
verdictOfTables(r) ==
  IF r.blockers # {} \/ r.unparsed > 0 THEN "not_reproducible"
  ELSE IF r.losses # {} THEN "reproducible_with_loss" ELSE "reproducible"

verdictOf(r) ==
  IF r.blockers # {} \/ r.unparsed > 0 THEN "not_reproducible"
  ELSE IF r.losses # {} THEN "reproducible_with_loss"
  ELSE IF r.locs # <<>> /\ ~ValidatePayload(Probe(r.locs)) THEN "not_reproducible"
  ELSE "reproducible"

flush(s) ==
  IF s.cur = <<>> THEN s
  ELSE LET r == s.cur[1] IN
       [s EXCEPT !.cur = <<>>, !.inLoc = FALSE,
          !.out = Append(@, [names |-> r.names, blockers |-> r.blockers, losses |-> r.losses,
                             unparsed |-> r.unparsed, verdict |-> verdictOf(r)])]

\* fidDirectiveRe wants the line to end in ";" and takes all of it for the value,
\* fidBlockRe wants it to end in "{".  A proxy_pass always counts as an external
\* destination: externalProxyPass looks for ":" and "http://" has one.
classify(r, l, inLoc) ==
  LET parsed == (l.kind = "dir" /\ ~l.tail /\ ~l.shut /\ ~l.cut)
                  \/ (Opens(l, {"block", "server", "upstream"}) /\ l.body = <<>> /\ ~l.shut)
      name   == IF l.kind \in {"server", "upstream"} THEN l.kind ELSE l.name
      value  == l.words \cup UNION {{d.name} \cup d.words : d \in ToSet(l.body)}
      known  == [r EXCEPT !.names = @ \cup IF name = "server_name" THEN value ELSE {},
                          !.locs  = IF name = "proxy_pass" /\ inLoc
                                      THEN [@ EXCEPT ![Len(@)].pass = Word(l)] ELSE @]
  IN IF l.kind = "close" THEN r
     ELSE IF ~parsed THEN [r EXCEPT !.unparsed = @ + 1]
     ELSE IF name \in blockers THEN [r EXCEPT !.blockers = @ \cup {name}]
     ELSE IF name = "server" /\ ~inLoc THEN r
     ELSE IF name \notin DOMAIN expressible THEN [known EXCEPT !.blockers = @ \cup {name}]
     ELSE IF expressible[name] = {} \/ value \in expressible[name] THEN known
     ELSE [known EXCEPT !.losses = @ \cup {name}]

FidelityLine(s, l) ==
  LET deeper == [s EXCEPT !.depth = @ + Braces(l)] IN
  CASE l.kind = "marker" -> [flush(s) EXCEPT !.managed = FALSE, !.depth = 0, !.out = <<>>]
    [] IsComment(l) \/ l.kind = "blank" ->
         IF s.cur = <<>> /\ s.depth = 0 /\ l.kind = "header" THEN [s EXCEPT !.managed = TRUE] ELSE s
    [] s.cur = <<>> /\ Opens(l, {"server"}) -> [s EXCEPT !.cur = <<NewReport>>, !.depth = 1]
    [] s.cur = <<>> /\ ~Opens(l, {"server", "marker", "comment", "header", "blank"}) -> s
    [] s.cur # <<>> /\ Opens(l, {"location"}) ->
         [deeper EXCEPT !.inLoc = TRUE,
            !.cur[1].blockers = @ \cup IF l.name = "@named" THEN {"location"} ELSE {},
            !.cur[1].locs = Append(@, [m |-> Word(l), path |-> l.name, pass |-> "", ws |-> "unset"])]
    [] OTHER ->
         IF deeper.depth <= 0 THEN [flush(s) EXCEPT !.depth = 0]
         ELSE [deeper EXCEPT !.cur[1] = classify(@, l, s.inLoc),
                             !.inLoc  = @ /\ ~((Closes(l) \/ (l.tail /\ l.stray = -1)) /\ deeper.depth = 1)]

-----------------------------------------------------------------------------
(* nginx (external) *)

\* hidden: hostnames that do not begin a line, or do not end on it; inline: something
\* shares a line with a brace or with a directive; stray: a brace that is no block.
NoTruth == [stack |-> <<>>, started |-> FALSE, header |-> FALSE, names |-> {}, hidden |-> {},
            inline |-> FALSE, stray |-> FALSE, nested |-> FALSE,
            pool |-> <<>>, vhost |-> <<>>, vhosts |-> <<>>, pools |-> <<>>]

Context(t) == IF t.stack = <<>> THEN "top" ELSE Last(t.stack)
Within(t)  == ToSet(t.stack)

MayHold(t, name) ==
  CASE Context(t) = "upstream" -> name = "server"
    [] Context(t) = "server"   -> name \notin {"server", "proxy_pass"}
    [] Context(t) \in {"location", "block"} ->
         name \notin {"server", "server_name", "listen"}
           /\ (name = "proxy_pass" => "location" \in Within(t))
    [] OTHER -> FALSE

Accepts(t, l) ==
  CASE l.kind = "dir" -> MayHold(t, l.name)
    [] l.kind \in {"upstream", "server"} -> t.stack = <<>>
    [] l.kind = "location" -> Context(t) \in {"server", "location"}
    [] l.kind = "block" -> Context(t) \in {"server", "location"}
    [] l.kind = "close" -> t.stack # <<>>
    [] OTHER -> TRUE

\* One directive, in sight of a reader that goes line by line or not.  A proxy_pass
\* belongs to the location it stands in directly; one further down marks the file as
\* nested.
TakeDirective(t, d) ==
  LET deep  == d.name = "proxy_pass" /\ Len(t.stack) > 2
      names == IF d.name = "server_name" THEN d.words ELSE {} IN
  CASE t.pool # <<>> -> [t EXCEPT !.pool[1].servers = @ \cup {d.words},
                                  !.pool[1].odd = @ \/ ~d.seen \/ d.words \cap Hosts = {}]
    [] t.pool = <<>> /\ t.vhost # <<>> ->
         [t EXCEPT !.vhost[1].dirs   = @ \cup {[name |-> d.name, words |-> d.words]},
                   !.vhost[1].names  = @ \cup names,
                   !.vhost[1].missed = @ \cup IF d.seen THEN {} ELSE names,
                   !.vhost[1].odd    = @ \/ (d.name = "proxy_pass" /\ ~d.seen),
                   !.names           = @ \cup names,
                   !.nested          = @ \/ deep,
                   !.vhost[1].locs   = IF d.name = "proxy_pass" /\ ~deep
                                         THEN [@ EXCEPT ![Len(@)].pass = Word(d)] ELSE @]
    [] OTHER -> t

Enter(t, l) ==
  LET pushed == [t EXCEPT !.stack = Append(@, l.kind)] IN
  CASE l.kind = "upstream" ->
         [pushed EXCEPT !.pool = <<[name |-> l.name, servers |-> {}, odd |-> FALSE, split |-> l.split]>>]
    [] l.kind = "server"   ->
         [pushed EXCEPT !.vhost = <<[names |-> {}, missed |-> {}, locs |-> <<>>, dirs |-> {},
                                     odd |-> FALSE, split |-> l.split]>>]
    [] l.kind = "location" ->
         IF Context(t) = "server"
           THEN [pushed EXCEPT !.vhost[1].odd  = @ \/ l.split,
                               !.vhost[1].locs = Append(@, [m |-> Word(l), path |-> l.name, pass |-> ""])]
           ELSE [pushed EXCEPT !.nested = TRUE]
    [] OTHER -> [pushed EXCEPT !.vhost[1].dirs = @ \cup {Directive(l)}]

Leave(t) ==
  LET popped == [t EXCEPT !.stack = Front(@)] IN
  CASE Context(t) = "upstream" ->
         [popped EXCEPT !.pool = <<>>,
            !.pools = Append(@, [name |-> t.pool[1].name, down |-> PoolDown(t.pool[1]),
                                 odd |-> t.pool[1].odd, split |-> t.pool[1].split])]
    [] Context(t) = "server"   -> [popped EXCEPT !.vhost = <<>>, !.vhosts = Append(@, t.vhost[1])]
    [] OTHER -> popped

\* The directives of a line: the first of the line, or the first behind the brace of an
\* opener, is in sight if it ends there.
Directives(l) ==
  LET all == IF l.kind = "dir" THEN <<Directive(l)>> \o l.body ELSE l.body IN
  [i \in DOMAIN all |-> [name |-> all[i].name, words |-> all[i].words, seen |-> i = 1 /\ ~l.cut]]

\* The header counts for the truth as for the listener's contract: the first line.
NginxLine(t, l) ==
  LET begun   == [t EXCEPT !.started = @ \/ l.kind # "blank",
                           !.header  = @ \/ (~t.started /\ l.kind = "header"),
                           !.inline  = @ \/ l.body # <<>> \/ l.shut,
                           !.stray   = @ \/ l.stray # 0,
                           !.hidden  = @ \cup
                             UNION {d.words : d \in {e \in ToSet(Directives(l)) :
                                      e.name = "server_name" /\ ~Says(l, "server_name")}}]
      entered == IF IsOpener(l) THEN Enter(begun, l) ELSE begun
      filled  == FoldLeft(TakeDirective, entered, Directives(l))
  IN IF l.kind = "marker" THEN NoTruth
     ELSE IF Closes(l) THEN Leave(filled) ELSE filled

-----------------------------------------------------------------------------
(* A dump is written and read *)

Init ==
  /\ nfiles = 0 /\ lines = 0 /\ hand = 0 /\ todo = <<>> /\ payload = <<>>
  /\ truth = NoTruth /\ dump = NoBlock("") /\ inv = NoInventory /\ fid = NoFidelity
  /\ conf = NoConf

Read(l) ==
  /\ truth' = NginxLine(truth, l)
  /\ dump'  = ParseDumpLine(dump, l)
  /\ inv'   = InventoryLine(inv, l)
  /\ fid'   = FidelityLine(fid, l)
  /\ conf'  = ParseManagedLine(conf, l, lines)

\* Between two lines at the top level a file may be over.
Whole == nfiles > 0 /\ todo = <<>> /\ truth.stack = <<>>

\* Bound: a rendered file is a dump of its own.
BeginFile(f) ==
  /\ nfiles < MaxFiles /\ (nfiles = 0 \/ Whole) /\ payload = <<>>
  /\ nfiles' = nfiles + 1 /\ lines' = 0
  /\ Read(Marker(f))
  /\ UNCHANGED <<hand, todo, payload>>

\* The listener wrote this one.
Apply(p) ==
  /\ nfiles = 1 /\ lines = 0 /\ payload = <<>>
  /\ ValidatePayload(p)
  /\ payload' = <<p>> /\ todo' = Render(p)
  /\ UNCHANGED <<nfiles, lines, hand, truth, dump, inv, fid, conf>>

ReadRendered ==
  /\ todo # <<>>
  /\ Read(Head(todo))
  /\ todo' = Tail(todo) /\ lines' = lines + 1
  /\ UNCHANGED <<nfiles, hand, payload>>

ReadByHand(l) ==
  /\ nfiles > 0 /\ payload = <<>> /\ hand < MaxHand
  /\ Accepts(truth, l)
  /\ Read(l)
  /\ lines' = lines + 1 /\ hand' = hand + 1
  /\ UNCHANGED <<nfiles, todo, payload>>

Next ==
  \/ \E f \in Files : BeginFile(f)
  \/ \E p \in Payloads : Apply(p)
  \/ ReadRendered
  \/ \E l \in HandLines : ReadByHand(l)

Spec == Init /\ [][Next]_vars

-----------------------------------------------------------------------------
(* Properties *)

\* The readers' own depths are the depth of the text, whatever was written on one
\* line (BuildInventory: else "o depth nunca voltava a zero"), in a file without a
\* brace in a comment or in quotes.
TypeOK ==
  /\ nfiles \in 0..MaxFiles /\ hand \in 0..MaxHand
  /\ Len(inv.pool) + Len(inv.vhost) <= 1 /\ Len(fid.cur) <= 1
  /\ ~truth.stray =>
       inv.depth = IF inv.pool = <<>> /\ inv.vhost = <<>> THEN 0 ELSE Len(truth.stack)
  /\ ~truth.inline /\ ~truth.stray /\ todo = <<>> /\ payload = <<>> =>
       fid.depth = IF fid.cur = <<>> THEN 0 ELSE Len(truth.stack)

\* ParseDump answers its one question for every hostname whose server_name begins a line
\* and ends on it, whatever else the file is like; it invents none, and takes a file for
\* ours only by its first line.
HostnameFound ==
  Whole =>
    /\ dump.managed = truth.header
    /\ dump.names \subseteq truth.names
    /\ truth.names \ dump.names \subseteq truth.hidden

\* The inventory has every pool and every vhost that opens with its brace on the same
\* line, once and in order, with its names, its routes and where they lead -- in a file
\* without a brace in a comment or in quotes, whatever the file before it was like.  A
\* name, a backend or a route may be missed that is not the first thing on its line or
\* behind a brace, or goes on to a second line; so may a backend without a port, and a
\* route that is nested.  Down is right for a pool whose backends are all in sight.
InventoryWhole ==
  Whole /\ ~truth.stray =>
    LET pools  == SelectSeq(truth.pools, LAMBDA p : ~p.split)
        vhosts == SelectSeq(truth.vhosts, LAMBDA v : ~v.split)
    IN /\ Len(inv.pools) = Len(pools) /\ Len(inv.vhosts) = Len(vhosts)
       /\ \A i \in DOMAIN pools :
            inv.pools[i].name = pools[i].name
              /\ (~pools[i].odd => inv.pools[i].down = pools[i].down)
       /\ \A i \in DOMAIN vhosts :
            LET seen == inv.vhosts[i] IN
            /\ seen.names \subseteq vhosts[i].names
            /\ vhosts[i].names \ seen.names \subseteq vhosts[i].missed
            /\ ~truth.nested /\ ~vhosts[i].odd =>
                 [k \in DOMAIN seen.locs |-> [m |-> seen.locs[k].m, path |-> seen.locs[k].path,
                                              pass |-> seen.locs[k].pass]] = vhosts[i].locs

\* A vhost that is called reproducible has no directive the template could not write
\* and, unless locations are nested (they are read as if they stood side by side), no
\* location the listener would refuse -- if no line has anything beside its one
\* directive or brace, where Fidelity does not look, and no brace is in a comment or in
\* quotes.
FidelitySound ==
  Whole /\ ~truth.inline /\ ~truth.stray =>
    LET vhosts == SelectSeq(truth.vhosts, LAMBDA v : ~v.split) IN
    /\ Len(fid.out) = Len(vhosts)
    /\ \A i \in DOMAIN fid.out : fid.out[i].verdict = "reproducible" =>
         /\ \A d \in vhosts[i].dirs :
              d.name \in DOMAIN expressible
                /\ (expressible[d.name] = {} \/ d.words \in expressible[d.name])
         /\ ~truth.nested => \A loc \in ToSet(vhosts[i].locs) : LocationOK(loc)

\* Of what the template writes only its two lines that end in a comment count against it,
\* in any variant of the payload: the table and the template say the same (fidelity.go:
\* "o que o template de fato emite").  Those two lines make every vhost of the listener
\* "not_reproducible".
OwnVhostAccounted ==
  Whole /\ payload # <<>> =>
    LET own == fid.out[1] IN
    own.blockers = {} /\ own.losses = {} /\ own.unparsed = 2 /\ own.verdict = "not_reproducible"

\* TestFidelityAcceptsAVhostTheTemplateReallyProduces, whose vhost has no such comment.
OwnVhostReproducible ==
  Whole /\ payload # <<>> => fid.out[1].verdict = "reproducible"

\* "o template gera este vhost sem perder nada" (VerdictReproducible).
ReproducibleIsFlat ==
  Whole /\ ~truth.inline /\ (\E i \in DOMAIN fid.out : fid.out[i].verdict = "reproducible")
    => ~truth.nested

\* After a restart the file is all there is: what /v1/status, the collision scan and
\* the inventory read back of an accepted payload is that payload.
RoundTrip ==
  Whole /\ payload # <<>> =>
    LET p == payload[1] IN
    /\ conf = [ok |-> TRUE, app |-> p.ref, rev |-> p.revision,
                names |-> ToSet(p.domains), ups |-> ToSet(p.upstreams)]
    /\ dump.managed /\ dump.app = p.ref /\ dump.names = ToSet(p.domains)
    /\ inv.vhosts[1].managed /\ inv.vhosts[1].app = p.ref

\* A route of an accepted payload that goes to the app's pool finds it declared in
\* the same file (validateLocations: "o nginx recusa a config inteira").
PoolLinked ==
  Whole /\ payload # <<>> =>
    \A loc \in ToSet(inv.vhosts[1].locs) :
      loc.pass = PoolOf(payload[1].ref) => PoolLink(inv, loc) = loc.pass

\* The routes of the file, as anybody reads them, send every URI where the routes of
\* the payload do in the order its author wrote them.
RoutingKept ==
  Whole /\ payload # <<>> =>
    LET p        == payload[1]
        declared == IF p.locations = <<>> THEN <<DefaultLocation>> ELSE p.locations
        rendered == inv.vhosts[1].locs
    IN NginxTakes(declared) =>
         \A u \in URIs :
           LET i == Route(declared, u)  j == Route(rendered, u) IN
           IF i = 0 THEN j = 0
           ELSE j # 0 /\ declared[i].m = rendered[j].m /\ declared[i].path = rendered[j].path
                      /\ rendered[j].pass = Destination(declared[i], p)
                      /\ rendered[j].ws = WantsWebsocket(declared[i], p)

\* The readers of a dump (ParseDump, BuildInventory) keep their place in the blocks of a
\* file whose braces are all blocks, find it again at the next file, and tell of it what it
\* says where they look.
ReadersAgree == TypeOK /\ HostnameFound /\ InventoryWhole

\* The verdict of Fidelity is earned, for a vhost written by hand and for our own.
VerdictEarned == FidelitySound /\ OwnVhostAccounted

\* What an accepted payload asks for is what its file says to everyone who reads it: to
\* the listener after a restart, to nginx that looks for its pool, and to a request.
PayloadReadBack == RoundTrip /\ PoolLinked /\ RoutingKept
=============================================================================
