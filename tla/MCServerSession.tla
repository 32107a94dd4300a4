-------------------------- MODULE MCServerSession --------------------------
(* The sessions of the mock server on a store of six files: two groups     *)
(* share an article, one article is not at the path of its number, one     *)
(* file does not parse and one article is kept by message-id only.  And    *)
(* the building of the index when the server starts, on other stores:      *)
(* part says which of the two a behaviour is about.                        *)
EXTENDS ServerSession

VARIABLES part, disk, left, groups, byNumber, byId, built, index

buildVars == <<disk, left, groups, byNumber, byId, built, index>>

Id(k) == <<"id", k>>

SomeDisk == {
  Article(2, 2, Id(2), {"alt.test"}, 5), Article(4, 4, Id(4), {"alt.test", "misc"}, 7),
  Article(7, 6, Id(6), {"misc"}, 9), Article(1, 0, Id(1), {}, 0),
  Article(0, 9, Id(9), {}, 0), Article(0, 2, Id(2), {"alt.test"}, 5), Article(0, 0, Id(8), {}, 0)}

Hyphens == {Id(4), Id(7)}

Missing == {Id(5), Id(7)}

Bare == [kind |-> "", sel |-> Absent, group |-> "", field |-> "plain", match |-> AnyGroup, since |-> 0]

Cmd(kind) == [Bare EXCEPT !.kind = kind]

Ids == {Id(2), Id(4), Id(5), Id(7), Id(8), Id(9)}

Numbers == {Number(n, FALSE) : n \in {1, 2, 3, 4, 6}}

Spans == {Span(1, 0), Span(2, 0), Span(3, 0), Span(1, 2), Span(2, 2), Span(2, 4), Span(3, 2), Span(9, 0)}

SomeCommands ==
  {[Cmd(k) EXCEPT !.sel = s] : k \in RetrievalKinds, s \in {Absent} \cup Numbers \cup {ById(i) : i \in Ids}}
  \cup {[Cmd("Group") EXCEPT !.group = g] : g \in {"alt.test", "ALT.TEST", "comp.lang.rust", "empty.test", "misc", "no"}}
  \cup {[Cmd("ListGroup") EXCEPT !.group = g, !.sel = s] :
          g \in {"alt.test", "comp.lang.rust", "empty.test", "misc"}, s \in {Absent, Number(2, FALSE)} \cup Spans}
  \cup {Cmd("ListGroup"), Cmd("Last"), Cmd("Next")}
  \cup {[Cmd(k) EXCEPT !.match = m] : k \in ListKinds, m \in {AnyGroup, {"alt.test"}, {}}}
  \cup {[Cmd("NewGroups") EXCEPT !.since = t] : t \in {-1, 6, 8, 99}}
  \cup {[Cmd("NewNews") EXCEPT !.since = t, !.match = m] : t \in {-1, 6, 99}, m \in {AnyGroup, {"misc"}}}
  \cup {[Cmd(k) EXCEPT !.sel = s] : k \in OverviewKinds,
          s \in {Absent, Number(2, TRUE), Number(1, TRUE)} \cup Numbers \cup Spans}
  \cup {[Cmd(k) EXCEPT !.sel = ById(i)] : k \in OverviewKinds \ {"Xover"}, i \in Ids}
  \cup {[Cmd(k) EXCEPT !.field = f] : k \in {"Hdr", "Xhdr"}, f \in {"other case", "unsupported"}}
  \cup {Cmd(k) : k \in DOMAIN FixedStatus}

-----------------------------------------------------------------------------
(* The client reads a session by its own table of statuses: src/lib.rs and *)
(* src/protocol.rs each keep one.                                          *)
Client == INSTANCE CommandCoordination

(* The kind of the command as the client knows it.                         *)
ClientKind(c) == IF c.kind \in {"UnknownSyntax", "UnknownTooLong", "UnknownBase64"} THEN "Unknown" ELSE c.kind

Ascending(rows) == \A i, j \in DOMAIN rows : i < j => rows[i].key < rows[j].key

(* Every answer of a session is one the client expects for the command, is *)
(* framed as the client frames it, and keeps the order and the count the   *)
(* client requires of LISTGROUP and OVER rows (handle_command against      *)
(* ResponseDescriptor::for_request_status and the content validators).     *)
AnswersAccepted ==
  \A i \in DOMAIN command :
    LET c == command[i] IN
    \A r \in {reply[j] : j \in DOMAIN reply} : r.source # "leftover" =>
      LET framing == Client!Framing(ClientKind(c), r.status)
      IN  /\ framing # "Unexpected"
          /\ r.rows # <<>> => framing = "Multiline"
          /\ c.kind \in {"ListGroup", "Over"} => Ascending(r.rows)
          /\ c.kind = "ListGroup" /\ r.status = 211 => Len(r.rows) <= r.num
          /\ c.kind \in {"Last", "Next"} /\ r.status = 223 => r.num > 0

-----------------------------------------------------------------------------
(* Directories of up to five of seven files, two of which share a number   *)
(* and two a message-id.                                                   *)
SomeFiles == {
  Article(1, 1, Id(1), {"alt.test"}, 5), Article(2, 2, Id(2), {"alt.test", "misc"}, 3),
  Article(3, 2, Id(3), {"misc"}, 9), Article(4, 4, Id(1), {"alt.test"}, 0),
  Article(5, 0, Id(5), {}, 0), Article(6, 6, Id(4), {}, 2), Article(0, 1, Id(1), {"alt.test"}, 5)}

SomeDisks == {d \in SUBSET SomeFiles : Cardinality(d) <= 5}

Build == INSTANCE ArticleIndex WITH Disks <- SomeDisks

ServerInit ==
  \/ /\ part = "session" /\ Init
     /\ disk = {} /\ left = {} /\ groups = <<>> /\ byNumber = <<>> /\ byId = <<>> /\ built = FALSE /\ index = EmptyIndex
  \/ /\ part = "build" /\ Build!Init
     /\ Init /\ ~dir /\ ~indexed

ServerNext ==
  \/ part = "session" /\ Next /\ UNCHANGED <<part, buildVars>>
  \/ part = "build" /\ Build!Next /\ UNCHANGED <<part, vars>>

ServerSpec == ServerInit /\ [][ServerNext]_<<part, vars, buildVars>>

(* The index does not depend on the order read_dir gives the files in, and *)
(* none of its maps points at nothing, whatever duplicates there are       *)
(* (ArticleStoreIndex::build).                                             *)
OrderFree == Build!OrderFree /\ Build!NoDanglingNumber
=============================================================================
