--------------------------- MODULE ServerSession ---------------------------
(***************************************************************************)
(* A session of the mock server in src/lib.rs: the selected group and the  *)
(* current article, what handle_command answers to each command from the   *)
(* generated payloads, the fixed tables, the article files or the index,   *)
(* and the auxiliary buffer the indexed answers are formatted in.          *)
(*                                                                         *)
(* A command is [kind, sel, group, field, match, since]: field is          *)
(* "plain", "other case" or "unsupported" for HDR; match is the set of     *)
(* group names its wildmat matches, or AnyGroup without one; since is the  *)
(* time of NEWGROUPS and NEWNEWS, -1 before 1970.                          *)
(***************************************************************************)
EXTENDS Selectors

CONSTANTS
  Disk,          \* the files of the article directory
  Commands,      \* the commands the client may send
  FarFuture,     \* FAR_FUTURE_DATETIME_KEY
  MaxBatched,    \* MAX_BATCHED_ARTICLE_RESPONSES
  MaxHeld        \* bound on the responses kept in the auxiliary buffer

AnyGroup == {"*"}

Matches(c, name) == c.match = AnyGroup \/ name \in c.match

RetrievalKinds == {"Article", "Head", "Stat", "Body"}

ListKinds == {"ListActive", "ListActiveTimes", "ListNewsgroups"}

OverviewKinds == {"Over", "Xover", "Hdr", "Xhdr"}

(* The commands answered by one fixed response; Unknown lines are told     *)
(* apart by syntax_error, line_too_long and authinfo_sasl_base64_error.    *)
FixedStatus == [
  List |-> 215, ListOverviewFmt |-> 215, ListHeaders |-> 215, ListDistribPats |-> 215,
  Post |-> 440, Ihave |-> 435, Check |-> 502, TakeThis |-> 502, StartTls |-> 502,
  AuthInfoUser |-> 483, AuthInfoPass |-> 483, AuthInfo |-> 502, ModeStream |-> 502,
  Capabilities |-> 101, Help |-> 100, Date |-> 111, ModeReader |-> 201, Quit |-> 205,
  Unknown |-> 500, UnknownSyntax |-> 501, UnknownTooLong |-> 501, UnknownBase64 |-> 504]

(* A response: its status, the article or group it names, its rows, and    *)
(* where its bytes come from.                                              *)
Frame(status, num, id, rows, source) ==
  [status |-> status, num |-> num, id |-> id, rows |-> rows, source |-> source]

Status(status) == Frame(status, 0, NoId, <<>>, "fixed")

GeneratedId(n) == <<"article", n>>

NavigationId(n) == <<"nav", n>>

VARIABLES
  dir, indexed,    \* article_dir.is_some(), article_index().is_some()
  session,         \* SessionState: [chosen, kind, group, current]
  aux,             \* the responses in aux_response_buffer: whether each is complete
  command, reply,  \* the last commands handled and the responses written
  counted,         \* the SessionStats they added
  open             \* the session has not ended

vars == <<dir, indexed, session, aux, command, reply, counted, open>>

Index == IndexOf(Disk)

ASSUME BatchAssumption == MaxBatched \in Nat

ASSUME SinceAssumption == FarFuture \in Nat /\ \A c \in Commands : c.since \in Int

(* What the parser of request lines hands to the session: only LISTGROUP   *)
(* and the overview commands take ranges, only retrieval and the overview  *)
(* commands a message-id, and a message-id is no number.                   *)
ASSUME CommandsAssumption ==
  \A c \in Commands :
    /\ c.sel.form \in {"none", "num", "range", "id"}
    /\ c.sel.form = "range" => c.kind \in OverviewKinds \cup {"ListGroup"}
    /\ c.sel.form = "id" => c.kind \in RetrievalKinds \cup OverviewKinds /\ c.sel.lo = 0
    /\ c.sel.form # "id" => c.sel.id = NoId

(* The directory is finite, article numbers are naturals, every file has a *)
(* message-id, and the index holds one file of each number.                *)
ASSUME DiskAssumption ==
  /\ IsFiniteSet(Disk)
  /\ \A f \in Disk : f.path \in Nat /\ f.num \in Nat /\ f.id # NoId
  /\ \A f, g \in Numbered(Indexable(Disk)) : f.num = g.num => f = g

NoSession == [chosen |-> FALSE, kind |-> "none", group |-> "", current |-> 0]

Counts(commands, articles, bodies) == [commands |-> commands, articles |-> articles, bodies |-> bodies]

(* ServerConfig::from_bound_args: an index only with a directory; when the *)
(* build fails the server still runs with the directory.                   *)
Init ==
  /\ dir \in BOOLEAN /\ indexed \in {dir, FALSE}
  /\ session = NoSession /\ aux = <<>>
  /\ command = <<>> /\ reply = <<>> /\ counted = Counts(0, 0, 0) /\ open = TRUE

-----------------------------------------------------------------------------
(* SessionState and SelectedGroup.                                         *)
GroupArticles(s) ==
  CASE s.kind = "none" -> {}
    [] s.kind = "Fixture" -> FixtureArticles(s.group)
    [] s.kind = "Indexed" -> Index.groups[s.group].numbers

GroupContains(s, n) == n \in GroupArticles(s)

(* current_group_previous_article and current_group_next_article; 0 is None. *)
PreviousArticle(s) ==
  LET lower == {n \in GroupArticles(s) : n < s.current}
  IN  IF GroupContains(s, s.current) /\ lower # {} THEN Max(lower) ELSE 0

NextArticle(s) ==
  LET higher == {n \in GroupArticles(s) : n > s.current}
  IN  IF GroupContains(s, s.current) THEN FirstOf(higher) ELSE 0

At(s, n) == [s EXCEPT !.current = n]

SelectFixture(g) ==
  [chosen |-> TRUE, kind |-> "Fixture", group |-> g, current |-> FirstOf(FixtureArticles(g))]

One_SelectIndexed(g) == [chosen |-> TRUE, kind |-> "Indexed", group |-> g, current |-> 1]

SelectIndexed(g) ==
  [chosen |-> TRUE, kind |-> "Indexed", group |-> g, current |-> FirstOf(Index.groups[g].numbers)]

(* What a handler returns: the session, the buffer, the responses written, *)
(* and whether it failed with an io error.                                 *)
Result(s, buffer, frames) == [session |-> s, aux |-> buffer, reply |-> frames, failed |-> FALSE]

Say(frame) == Result(session, aux, <<frame>>)

Fail(s, buffer) == [session |-> s, aux |-> buffer, reply |-> <<>>, failed |-> TRUE]

-----------------------------------------------------------------------------
(* article_selector_error; 0 is None.                                      *)
ArticleSelectorError(c) ==
  CASE c.sel.form = "none" -> IF ~session.chosen THEN 412 ELSE IF session.current = 0 THEN 420 ELSE 0
    [] c.sel.form = "num" -> IF ~session.chosen THEN 412
                             ELSE IF ~GroupContains(session, c.sel.lo) THEN 423 ELSE 0
    [] c.sel.form = "id" -> IF indexed /\ ~HasEntryForId(Index, c.sel.id) /\ FileById(Disk, c.sel.id) = {}
                            THEN 430 ELSE 0

NotFound(c) == IF c.sel.form = "id" THEN 430 ELSE 423

(* command.article_id.or(current_article).unwrap_or(1).                    *)
Chosen(c) == IF c.sel.form = "num" THEN c.sel.lo ELSE IF session.current # 0 THEN session.current ELSE 1

RetrievalStatus(kind) ==
  CASE kind = "Article" -> 220 [] kind = "Head" -> 221 [] kind = "Body" -> 222 [] kind = "Stat" -> 223

(* The response builders: number zero for a message-id.                    *)
BuildArticle(n, id) == Frame(220, n, id, <<>>, "generated")

BuildBody(n, id) == Frame(222, n, id, <<>>, "generated")

BuildHead(n, id) == Frame(221, n, id, <<>>, "generated")

BuildStat(n, id) == Frame(223, n, id, <<>>, "generated")

Generated(kind, n, id) ==
  CASE kind = "Article" -> BuildArticle(n, id)
    [] kind = "Body" -> BuildBody(n, id)
    [] kind = "Head" -> BuildHead(n, id)
    [] kind = "Stat" -> BuildStat(n, id)

(* build_stored_article_response parses all but a whole article, which is  *)
(* sent as the file has it.                                                *)
StoredFrame(kind, f) == Frame(RetrievalStatus(kind), f.num, f.id, <<>>, "stored")

StoredBroken(kind, f) == kind # "Article" /\ f.num = 0

(* ARTICLE.                                                                *)
ArticleResult(c) ==
  LET n    == IF c.sel.form = "num" THEN c.sel.lo ELSE IF c.sel.form = "id" THEN 0 ELSE session.current
      file == OpenStored(Disk, n, c.sel.id)
      at   == IF c.sel.form = "num" THEN At(session, n) ELSE session
  IN  IF dir
      THEN IF file = {} THEN Say(Status(NotFound(c)))
           ELSE Result(at, aux, <<StoredFrame("Article", CHOOSE f \in file : TRUE)>>)
      ELSE IF c.sel.form = "id" THEN Say(Generated("Article", 0, c.sel.id))
           ELSE Result(At(session, Chosen(c)), aux, <<Generated("Article", Chosen(c), GeneratedId(Chosen(c)))>>)

(* HEAD, STAT and BODY by message-id.                                      *)
ByIdResult(c) ==
  LET file == FileById(Disk, c.sel.id)
  IN  CASE dir /\ file = {} -> Say(Status(430))
        [] dir /\ file # {} ->
             LET f == CHOOSE f \in file : TRUE
             IN  IF StoredBroken(c.kind, f) THEN Fail(session, aux) ELSE Say(StoredFrame(c.kind, f))
        [] ~dir -> Say(IF c.sel.id \in MissingIds THEN Status(430) ELSE Generated(c.kind, 0, c.sel.id))

(* HEAD, STAT and BODY by number or on the current article: the pointer    *)
(* moves first, and generated bytes stand in for a file that is not there. *)
ByNumberResult(c) ==
  LET n    == Chosen(c)
      file == IF dir THEN FileByNumber(Disk, n) ELSE {}
      f    == CHOOSE f \in file : TRUE
  IN  CASE file = {} -> Result(At(session, n), aux, <<Generated(c.kind, n, GeneratedId(n))>>)
        [] file # {} -> IF StoredBroken(c.kind, f) THEN Fail(At(session, n), aux)
                        ELSE Result(At(session, n), aux, <<StoredFrame(c.kind, f)>>)

RetrievalResult(c) ==
  CASE ArticleSelectorError(c) # 0 -> Say(Status(ArticleSelectorError(c)))
    [] ArticleSelectorError(c) = 0 /\ c.kind = "Article" -> ArticleResult(c)
    [] ArticleSelectorError(c) = 0 /\ c.kind # "Article" /\ c.sel.form = "id" -> ByIdResult(c)
    [] OTHER -> ByNumberResult(c)

-----------------------------------------------------------------------------
(* GROUP: the index first, then the fixtures.                              *)
GroupFrame(g, articles) == Frame(211, Cardinality(articles), <<g>>, <<>>, "table")

GroupResult(c) ==
  LET fixture == FixtureGroupFromName(c.group)
      listed  == indexed /\ c.group \in DOMAIN Index.groups
      frame   == IF listed THEN GroupFrame(c.group, Index.groups[c.group].numbers)
                 ELSE GroupFrame(fixture, FixtureArticles(fixture))
  IN  IF ~listed /\ fixture = "" THEN Say(Status(411))
      ELSE Result(IF listed THEN SelectIndexed(c.group) ELSE SelectFixture(fixture),
                  IF indexed THEN <<TRUE>> ELSE aux, <<frame>>)

(* LISTGROUP: listgroup_state_error knows the fixtures only, and a fixture *)
(* group beside an index is listed whole.                                  *)
ListGroupError(c) ==
  CASE c.group # "" /\ FixtureGroupFromName(c.group) = "" -> 411
    [] c.group = "" /\ ~session.chosen -> 412
    [] OTHER -> 0

ListGroupFrame(g, articles, rows) ==
  Frame(211, Cardinality(articles), <<g>>, [i \in DOMAIN rows |-> [key |-> rows[i], id |-> NoId]], "table")

ListGroupIndexed(c) ==
  LET name     == IF c.group # "" THEN c.group ELSE session.group
      listed   == name \in DOMAIN Index.groups
      articles == IF listed THEN Index.groups[name].numbers ELSE FixtureArticles(FixtureGroupFromName(name))
      rows     == IF listed /\ HasBounds(c.sel) THEN Selected(c.sel, articles) ELSE articles
      frame    == ListGroupFrame(name, articles, InOrder(rows))
  IN  Result(IF listed THEN SelectIndexed(name) ELSE SelectFixture(FixtureGroupFromName(name)), <<TRUE>>, <<frame>>)

ListGroupFixture(c) ==
  LET g == IF c.group # "" THEN FixtureGroupFromName(c.group) ELSE session.group
  IN  Result(SelectFixture(g), aux, <<ListGroupFrame(g, FixtureArticles(g), ListGroupTable(g, c.sel))>>)

ListGroupResult(c) ==
  IF ListGroupError(c) # 0 THEN Say(Status(ListGroupError(c)))
  ELSE IF indexed THEN ListGroupIndexed(c) ELSE ListGroupFixture(c)

-----------------------------------------------------------------------------
(* LAST and NEXT.  Without an index the bounds are one and article_count,  *)
(* and the fixed response is that of the article moved to.                 *)
Edge(kind) == IF kind = "Last" THEN 422 ELSE 421

FixtureMove(kind) ==
  LET other == IF kind = "Last" THEN PreviousArticle(session) ELSE NextArticle(session)
  IN  CASE kind = "Last" /\ session.current <= 1 -> 0
        [] kind = "Next" /\ session.current >= Cardinality(GroupArticles(session)) -> 0
        [] OTHER -> IF other # 0 THEN other ELSE session.current + (IF kind = "Last" THEN -1 ELSE 1)

IndexedMove(kind) == IF kind = "Last" THEN PreviousArticle(session) ELSE NextArticle(session)

Move(kind) == IF indexed THEN IndexedMove(kind) ELSE FixtureMove(kind)

Stale_NavigationFrame(kind, n) == Frame(223, session.current, NavigationId(n), <<>>, "table")

NavigationFrame(kind, n) ==
  IF indexed THEN Frame(223, n, Index.byNumber[n].id, <<>>, "table")
  ELSE IF n \in (IF kind = "Last" THEN {1, 2} ELSE {2, 3}) THEN Frame(223, n, NavigationId(n), <<>>, "table")
  ELSE Status(423)

NavigationResult(c) ==
  LET to == Move(c.kind)
  IN  CASE ~session.chosen -> Say(Status(412))
        [] session.chosen /\ session.current = 0 -> Say(Status(420))
        [] session.chosen /\ session.current # 0 /\ to = 0 -> Say(Status(Edge(c.kind)))
        [] OTHER -> IF indexed /\ to \notin DOMAIN Index.byNumber THEN Fail(At(session, to), aux)
                    ELSE Result(At(session, to), aux, <<NavigationFrame(c.kind, to)>>)

-----------------------------------------------------------------------------
(* LIST ACTIVE, LIST ACTIVE.TIMES and LIST NEWSGROUPS: the indexed form is *)
(* appended to whatever the buffer holds.  Names are in some order. *)
GroupRows(names) ==
  LET order == CHOOSE o \in Bijection(1..Cardinality(names), names) : TRUE
  IN  [i \in 1..Cardinality(names) |-> [key |-> 0, id |-> <<order[i]>>]]

ListFrame(names) == Frame(215, 0, NoId, GroupRows(names), "table")

ListFixture(c) == ListFrame({g \in FixtureGroups : Matches(c, g)})

ListIndexed(c) == ListFrame({g \in DOMAIN Index.groups : Matches(c, g)})

ListResult(c) ==
  LET frame == IF indexed THEN ListIndexed(c) ELSE ListFixture(c)
      kept  == [i \in DOMAIN aux |-> Frame(0, 0, NoId, <<>>, "leftover")]
  IN  IF indexed THEN Result(session, Append(aux, TRUE), Append(kept, frame)) ELSE Say(frame)

(* NEWGROUPS and NEWNEWS.                                                  *)
NotBefore(c, time) == c.since = -1 \/ time >= c.since

NewGroupsIndexed(c) == {g \in DOMAIN Index.groups : NotBefore(c, Index.groups[g].active)}

NewGroupsResult(c) ==
  LET names == IF indexed THEN NewGroupsIndexed(c) ELSE IF c.since >= FarFuture THEN {} ELSE FixtureGroups
      frame == Frame(231, 0, NoId, GroupRows(names), "table")
  IN  Result(session, IF indexed THEN <<TRUE>> ELSE aux, <<frame>>)

NewsRow(id) == [key |-> 0, id |-> id]

NewNewsFixture(c) ==
  IF c.since < FarFuture /\ Matches(c, "alt.test") THEN <<NewsRow(<<"one">>), NewsRow(<<"two">>)>> ELSE <<>>

NewNewsIndexed(c) ==
  LET numbers == {n \in DOMAIN Index.byNumber :
                    /\ NotBefore(c, Index.byNumber[n].date)
                    /\ c.match # AnyGroup => \E g \in Index.byNumber[n].groups : Matches(c, g)}
      sorted  == InOrder(numbers)
  IN  [i \in DOMAIN sorted |-> NewsRow(Index.byNumber[sorted[i]].id)]

NewNewsResult(c) ==
  LET frame == Frame(230, 0, NoId, IF indexed THEN NewNewsIndexed(c) ELSE NewNewsFixture(c), "table")
  IN  Result(session, IF indexed THEN <<TRUE>> ELSE aux, <<frame>>)

-----------------------------------------------------------------------------
(* overview_selector_error; 0 is None.                                     *)
Legacy(kind) == kind \in {"Xover", "Xhdr"}

Modern_OverviewSelectorError(c) ==
  LET s == c.sel
  IN  CASE c.kind \in {"Hdr", "Xhdr"} /\ c.field = "unsupported" -> 503
        [] OTHER ->
           CASE s.form = "none" -> IF ~session.chosen THEN 412 ELSE IF session.current = 0 THEN 420 ELSE 0
             [] s.form # "none" /\ s.form # "id" /\ ~session.chosen -> 412
             [] OTHER ->
                CASE IsRange(s) /\ ~RangeSelects(s, GroupArticles(session)) -> 423
                  [] s.form = "num" /\ ~GroupContains(session, s.lo) -> 423
                  [] s.form = "id" /\ ~IsRange(s) /\ s.id \in MissingIds -> 430
                  [] OTHER -> 0

OverviewSelectorError(c) ==
  LET s == c.sel
  IN  CASE c.kind \in {"Hdr", "Xhdr"} /\ c.field = "unsupported" -> 503
        [] OTHER ->
           CASE s.form = "none" -> IF ~session.chosen THEN 412 ELSE IF session.current = 0 THEN 420 ELSE 0
             [] s.form # "none" /\ s.form # "id" /\ ~session.chosen -> 412
             [] OTHER ->
                CASE IsRange(s) /\ ~RangeSelects(s, GroupArticles(session)) -> IF Legacy(c.kind) THEN 420 ELSE 423
                  [] s.form = "num" /\ ~GroupContains(session, s.lo) -> IF Legacy(c.kind) THEN 420 ELSE 423
                  [] s.form = "id" /\ ~IsRange(s) /\ s.id \in MissingIds -> 430
                  [] OTHER -> 0

OverviewStatus(kind) == CASE kind \in {"Over", "Xover"} -> 224 [] kind = "Hdr" -> 225 [] kind = "Xhdr" -> 221

(* overview_response_for_index_into and header_response_for_index_into:    *)
(* the numbers asked for in order; the first without an entry makes the    *)
(* whole None, with the rows before it left in the buffer.                 *)
Wanted(c) ==
  CASE c.sel.form = "none" -> <<session.current>>
    [] c.sel.form = "id" -> IF c.sel.id \in DOMAIN Index.byId THEN <<Index.byId[c.sel.id]>> ELSE <<0>>
    [] OTHER -> InOrder(Selected(c.sel, GroupArticles(session)))

OverviewRow(c, n) == [key |-> IF c.sel.form = "id" THEN 0 ELSE n, id |-> Index.byNumber[n].id]

HeaderRow(c, n) ==
  [key |-> IF c.sel.form # "id" THEN n ELSE IF c.kind = "Xhdr" THEN -1 ELSE 0, id |-> Index.byNumber[n].id]

IndexRow(c, n) == IF c.kind \in {"Over", "Xover"} THEN OverviewRow(c, n) ELSE HeaderRow(c, n)

IndexRows(c, wanted) ==
  LET gaps  == {i \in DOMAIN wanted : wanted[i] \notin DOMAIN Index.byNumber}
      found == IF gaps = {} THEN Len(wanted) ELSE Min(gaps) - 1
  IN  [i \in 1..found |-> IndexRow(c, wanted[i])]

(* current_overview_args and current_header_args put the current article   *)
(* in place of an absent selector when it is 1, 2 or 3, and for HDR only   *)
(* when the field is written in its own case.                              *)
EffectiveSelector(c) ==
  IF /\ c.sel.form = "none" /\ session.current \in 1..3
     /\ c.kind \in {"Over", "Xover"} \/ c.field = "plain"
  THEN Number(session.current, FALSE) ELSE c.sel

OverviewResult(c) ==
  LET wanted == Wanted(c)
      rows   == IndexRows(c, wanted)
      frame  == Frame(OverviewStatus(c.kind), 0, NoId, rows, "stored")
      fixed  == Frame(OverviewStatus(c.kind), 0, NoId, FixedRows(c.kind, EffectiveSelector(c)), "table")
  IN  CASE OverviewSelectorError(c) # 0 -> Say(Status(OverviewSelectorError(c)))
        [] OverviewSelectorError(c) = 0 /\ ~indexed -> Say(fixed)
        [] OTHER -> IF Len(rows) = Len(wanted) THEN Result(session, <<TRUE>>, <<frame>>)
                    ELSE Result(session, <<FALSE>>, <<fixed>>)

-----------------------------------------------------------------------------
(* One call of handle_command: the answer, the counters and, after QUIT or *)
(* an io error, the end of the session.                                    *)
CountOf(c) == Counts(1, IF c.kind \in {"Article", "Head", "Stat"} THEN 1 ELSE 0, IF c.kind = "Body" THEN 1 ELSE 0)

Answer(c, r) ==
  /\ open
  /\ session' = r.session /\ aux' = r.aux /\ reply' = r.reply
  /\ command' = <<c>> /\ counted' = CountOf(c)
  /\ open' = (~r.failed /\ c.kind # "Quit")
  /\ UNCHANGED <<dir, indexed>>

RetrieveArticle(c) == c.kind = "Article" /\ Answer(c, RetrievalResult(c))

RetrieveHead(c) == c.kind = "Head" /\ Answer(c, RetrievalResult(c))

RetrieveStat(c) == c.kind = "Stat" /\ Answer(c, RetrievalResult(c))

RetrieveBody(c) == c.kind = "Body" /\ Answer(c, RetrievalResult(c))

Group(c) == c.kind = "Group" /\ Answer(c, GroupResult(c))

ListGroup(c) == c.kind = "ListGroup" /\ Answer(c, ListGroupResult(c))

MoveBack(c) == c.kind = "Last" /\ Answer(c, NavigationResult(c))

MoveOn(c) == c.kind = "Next" /\ Answer(c, NavigationResult(c))

ListGroups(c) == c.kind \in ListKinds /\ Len(aux) < MaxHeld /\ Answer(c, ListResult(c))

NewGroups(c) == c.kind = "NewGroups" /\ Answer(c, NewGroupsResult(c))

NewNews(c) == c.kind = "NewNews" /\ Answer(c, NewNewsResult(c))

Overview(c) == c.kind \in OverviewKinds /\ Answer(c, OverviewResult(c))

Fixed(c) == c.kind \in DOMAIN FixedStatus /\ Answer(c, Say(Status(FixedStatus[c.kind])))

Short_BatchCounts(run) == Counts(1, 1, 0)

(* The counters of write_batched_message_id_article_responses.             *)
BatchCounts(run) == Counts(Len(run), Len(run), 0)

(* Two or more ARTICLE <id> in a row are answered by one vectored write.   *)
ArticleBatch(run) ==
  /\ open /\ ~dir
  /\ reply' = [i \in DOMAIN run |-> Generated("Article", 0, run[i].sel.id)]
  /\ command' = run /\ counted' = BatchCounts(run)
  /\ UNCHANGED <<dir, indexed, session, aux, open>>

IdArticles == {c \in Commands : c.kind = "Article" /\ c.sel.form = "id"}

Next ==
  \/ \E c \in Commands : RetrieveArticle(c)
  \/ \E c \in Commands : RetrieveHead(c)
  \/ \E c \in Commands : RetrieveStat(c)
  \/ \E c \in Commands : RetrieveBody(c)
  \/ \E c \in Commands : Group(c)
  \/ \E c \in Commands : ListGroup(c)
  \/ \E c \in Commands : MoveBack(c)
  \/ \E c \in Commands : MoveOn(c)
  \/ \E c \in Commands : ListGroups(c)
  \/ \E c \in Commands : NewGroups(c)
  \/ \E c \in Commands : NewNews(c)
  \/ \E c \in Commands : Overview(c)
  \/ \E c \in Commands : Fixed(c)
  \/ \E run \in UNION {[1..k -> IdArticles] : k \in 2..MaxBatched} : ArticleBatch(run)

Spec == Init /\ [][Next]_vars

-----------------------------------------------------------------------------
(* process_request_to_buffer: the same commands without a session.         *)
BufferArticle(c) ==
  LET file == OpenStored(Disk, c.sel.lo, c.sel.id)
      n    == IF c.sel.form = "num" THEN c.sel.lo ELSE 1
  IN  IF dir THEN IF file = {} THEN Status(IF c.sel.form = "none" THEN 420 ELSE NotFound(c))
                  ELSE StoredFrame("Article", CHOOSE f \in file : TRUE)
      ELSE IF c.sel.form = "id" THEN Generated("Article", 0, c.sel.id) ELSE Generated("Article", n, GeneratedId(n))

BufferPart(c) ==
  LET n    == IF c.sel.form = "num" THEN c.sel.lo ELSE 1
      file == IF dir THEN FileByNumber(Disk, n) ELSE {}
  IN  IF c.sel.form = "id" THEN Generated(c.kind, 0, c.sel.id)
      ELSE IF file # {} THEN StoredFrame(c.kind, CHOOSE f \in file : TRUE)
      ELSE Generated(c.kind, n, GeneratedId(n))

BufferGroup(c) ==
  LET g == FixtureGroupFromName(c.group)
  IN  CASE c.kind = "Group" -> IF g = "" THEN Status(411) ELSE GroupFrame(g, FixtureArticles(g))
        [] c.kind = "ListGroup" /\ c.group = "" ->
             ListGroupFrame("alt.test", FixtureArticles("alt.test"), ListGroupTable("alt.test", c.sel))
        [] OTHER -> IF g = "" THEN Status(411) ELSE ListGroupFrame(g, FixtureArticles(g), ListGroupTable(g, c.sel))

BufferFrame(c) ==
  CASE c.kind = "Article" -> BufferArticle(c)
    [] c.kind \in RetrievalKinds \ {"Article"} -> BufferPart(c)
    [] c.kind \in {"Group", "ListGroup"} -> BufferGroup(c)
    [] c.kind = "Last" -> Frame(223, 1, NavigationId(1), <<>>, "table")
    [] c.kind = "Next" -> Frame(223, 2, NavigationId(2), <<>>, "table")
    [] c.kind \in ListKinds -> IF indexed THEN ListIndexed(c) ELSE ListFixture(c)
    [] c.kind = "NewGroups" /\ ~indexed -> Frame(231, 0, NoId, GroupRows(FixtureGroups), "table")
    [] c.kind = "NewGroups" /\ indexed -> NewGroupsResult(c).reply[1]
    [] c.kind = "NewNews" -> NewNewsResult(c).reply[1]
    [] c.kind \in OverviewKinds -> Frame(OverviewStatus(c.kind), 0, NoId, FixedRows(c.kind, c.sel), "table")
    [] c.kind \in DOMAIN FixedStatus -> Status(FixedStatus[c.kind])

-----------------------------------------------------------------------------
(* A failed command and a message-id form leave group and pointer alone,   *)
(* and only GROUP and LISTGROUP change the group.                          *)
ByIdForm(c) == c.sel.form = "id"

FailuresKeepSelection ==
  [][/\ (reply' # <<>> /\ reply'[1].status >= 400) => session' = session
     /\ (\A i \in DOMAIN command' : ByIdForm(command'[i])) => session' = session
     /\ [session' EXCEPT !.current = 0] # [session EXCEPT !.current = 0]
          => command'[1].kind \in {"Group", "ListGroup"}]_vars

(* An answer that names a number names the article the pointer is at, and  *)
(* inside an indexed group files and navigation agree with the index on    *)
(* its message-id - for every article whose file is at the path of its own *)
(* number.                                                                 *)
WellPlaced(n) == \A f \in Disk : f.path = n => f.num = n

NamesPointer ==
  (/\ Len(command) = 1 /\ reply # <<>> /\ ~ByIdForm(command[1])
   /\ command[1].kind \in RetrievalKinds \cup {"Last", "Next"}
   /\ reply[1].status < 400 /\ (reply[1].source = "stored" => WellPlaced(session.current)))
  => /\ reply[1].num = session.current
     /\ (session.kind = "Indexed" /\ reply[1].source # "generated")
          => reply[1].id = Index.byNumber[session.current].id

(* LAST and NEXT move to the neighbour: no article of the group lies       *)
(* between the old pointer and the new one.                                *)
StepsToNeighbour ==
  [][(Len(command') = 1 /\ command'[1].kind \in {"Last", "Next"} /\ session' # session)
     => /\ (command'[1].kind = "Next") <=> (session'.current > session.current)
        /\ ~\E n \in GroupArticles(session) :
             \/ session.current < n /\ n < session'.current
             \/ session'.current < n /\ n < session.current]_vars

(* process_request_to_buffer gives the answer the session gives wherever   *)
(* the answer does not depend on the session: fixed responses, refusals,   *)
(* lists, discovery, group summaries and generated articles by message-id. *)
Sessionless(c) ==
  \/ c.kind \in DOMAIN FixedStatus \cup {"NewNews"}
  \/ c.kind \in ListKinds \cup {"Group"} /\ ~indexed
  \/ c.kind = "NewGroups" /\ (indexed \/ c.since < FarFuture)
  \/ c.kind = "Article" /\ c.sel.form = "id"

BufferAgrees ==
  (Len(command) = 1 /\ Sessionless(command[1]))
  => reply[1] = BufferFrame(command[1])

(* Inside an indexed group OVER, XOVER, HDR and XHDR answer with exactly   *)
(* the rows of the articles the selector covers, in order.                 *)
IndexedRowsExact ==
  (Len(command) = 1 /\ reply # <<>> /\ command[1].kind \in OverviewKinds /\ session.kind = "Indexed"
     /\ HasBounds(command[1].sel) /\ reply[1].status < 400)
  => [i \in DOMAIN reply[1].rows |-> reply[1].rows[i].key]
       = InOrder(Selected(command[1].sel, GroupArticles(session)))

(* The lists of an index are appended to a buffer the session keeps, which *)
(* the list functions do not clear (format_active_group_response_into).    *)
Appends(c) == indexed /\ c.kind \in ListKinds

(* Every command is counted once and answered by one response, but for the *)
(* lists of an index, which repeat what their buffer holds - also when     *)
(* consecutive ARTICLE commands are batched, where each response is the    *)
(* one handle_command would have written.                                  *)
Answered ==
  /\ counted.commands = Len(command)
  /\ counted.articles + counted.bodies = Cardinality({i \in DOMAIN command : command[i].kind \in RetrievalKinds})
  /\ open /\ (\A i \in DOMAIN command : ~Appends(command[i])) => Len(reply) = Len(command)
  /\ Len(command) > 1 => \A i \in DOMAIN command : reply[i] = RetrievalResult(command[i]).reply[1]

(* The groups a session can select and the articles of each.               *)
Groups ==
  LET keys == {<<"Fixture", g>> : g \in FixtureGroups} \cup {<<"Indexed", g>> : g \in DOMAIN Index.groups}
  IN  [k \in keys |-> IF k[1] = "Fixture" THEN FixtureArticles(k[2]) ELSE Index.groups[k[2]].numbers]

Cursor == INSTANCE ArticleCursor WITH
  Catalogue <- Groups, group <- <<session.kind, session.group>>, at <- session.current

(* The session is a cursor over the groups of the fixtures and the index:  *)
(* failed commands leave it alone, and LAST and NEXT move it by one        *)
(* article (handle_command).                                               *)
IsCursor == Cursor!Spec /\ FailuresKeepSelection /\ StepsToNeighbour

(* What an answer says of articles is so: the number is the pointer's, the *)
(* message-id that of the index, and the rows of OVER and HDR in a group   *)
(* of an index are those of the articles the selector covers. The rows of  *)
(* the built-in groups come from fixed tables: RangeRowsExact, below       *)
(* (handle_command).                                                       *)
AnswersNameArticles == NamesPointer /\ IndexedRowsExact

(* Every command has one answer, the lists of an index excepted, where     *)
(* earlier lists come again before it; and process_request_to_buffer gives *)
(* the same answer wherever the session does not matter (handle_command).  *)
OneAnswerEach == Answered /\ BufferAgrees

-----------------------------------------------------------------------------
(* What tests say of the server and it does not do.                        *)

(* Overview and header ranges answer every row of the range and no other.  *)
RangeRowsExact ==
  (Len(command) = 1 /\ reply # <<>> /\ command[1].kind \in OverviewKinds /\ session.group = "alt.test"
     /\ command[1].sel.form = "range" /\ reply[1].status < 400 /\ ~dir)
  => {reply[1].rows[i].key : i \in DOMAIN reply[1].rows} = Selected(command[1].sel, GroupArticles(session))
=============================================================================
