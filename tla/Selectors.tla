----------------------------- MODULE Selectors -----------------------------
(***************************************************************************)
(* The group fixtures and the article selectors of the mock server in      *)
(* src/lib.rs, and the fixed tables that answer LISTGROUP, OVER, XOVER,    *)
(* HDR and XHDR when there is no article index.  A selector is absent, a   *)
(* number, a range or a message-id; hi = 0 is an open range; a padded      *)
(* number is written with leading zeros.                                   *)
(***************************************************************************)
EXTENDS Integers, Sequences, FiniteSetsExt

CONSTANTS
  MissingIds,    \* the message-ids that contain "missing"
  HyphenIds      \* the message-ids that contain "-"

NoId == <<>>

Absent == [form |-> "none", lo |-> 0, hi |-> 0, padded |-> FALSE, id |-> NoId]

Number(n, padded) == [Absent EXCEPT !.form = "num", !.lo = n, !.hi = n, !.padded = padded]

Span(lo, hi) == [Absent EXCEPT !.form = "range", !.lo = lo, !.hi = hi]

ById(id) == [Absent EXCEPT !.form = "id", !.id = id]

-----------------------------------------------------------------------------
FixtureGroups == {"alt.test", "comp.lang.rust", "empty.test"}

FixtureArticles(group) ==
  CASE group = "alt.test" -> {1, 2, 3}
    [] group = "comp.lang.rust" -> {1}
    [] group = "empty.test" -> {}

(* eq_ignore_ascii_case: the one name of the model that is not lower case. *)
LowerCase(name) == IF name = "ALT.TEST" THEN "alt.test" ELSE name

(* fixture_group_from_name; "" is None.                                    *)
FixtureGroupFromName(name) == IF LowerCase(name) \in FixtureGroups THEN LowerCase(name) ELSE ""

(* The iteration order of the BTreeSets and BTreeMaps that hold numbers.   *)
InOrder(numbers) ==
  [i \in 1..Cardinality(numbers) |-> CHOOSE n \in numbers : Cardinality({m \in numbers : m < n}) = i - 1]

FirstOf(articles) == IF articles = {} THEN 0 ELSE Min(articles)

-----------------------------------------------------------------------------
(* listgroup_range_bounds: a message-id has no bounds.                     *)
HasBounds(s) == s.form \in {"num", "range"}

InBounds(s, n) == n >= s.lo /\ (s.hi = 0 \/ n <= s.hi)

Selected(s, articles) == {n \in articles : InBounds(s, n)}

(* overview_selector_is_range looks for a hyphen, wherever it is.          *)
IsRange(s) == s.form = "range" \/ (s.form = "id" /\ s.id \in HyphenIds)

(* overview_selector_range_selects_articles.                               *)
RangeSelects(s, articles) == HasBounds(s) /\ Selected(s, articles) # {}

(* overview_selector_range_covers.                                         *)
Covers(s, first, last) == s.form = "range" /\ s.lo <= first /\ (s.hi = 0 \/ s.hi >= last)

SelectsOnly(s, n) == HasBounds(s) /\ s.lo = n /\ s.hi = n

SelectsFirstOnly(s) == s.form = "num" /\ s.lo = 1 /\ ~s.padded

Row(n) == [key |-> n, id |-> <<"row", n>>]

(* The *_MESSAGE_ID_RESPONSE constants: article one, numbered zero; XHDR   *)
(* keys the row by the message-id.                                         *)
IdRow(kind) == [key |-> IF kind = "Xhdr" THEN -1 ELSE 0, id |-> <<"row", 1>>]

Rows(numbers) == [i \in DOMAIN numbers |-> Row(numbers[i])]

OverDefault(kind) == IF kind = "Over" THEN Rows(<<1>>) ELSE Rows(<<1, 2>>)

(* over_response_for_args and xover_response_for_args.                     *)
OverviewTable(kind, s) ==
  CASE kind = "Xover" /\ s.form = "none" -> Rows(<<1>>)
    [] s.form = "id" -> <<IdRow(kind)>>
    [] Covers(s, 1, 3) -> Rows(<<1, 2, 3>>)
    [] ~Covers(s, 1, 3) /\ Covers(s, 1, 2) -> Rows(<<1, 2>>)
    [] ~Covers(s, 1, 3) /\ ~Covers(s, 1, 2) /\ Covers(s, 2, 3) -> Rows(<<2, 3>>)
    [] SelectsOnly(s, 2) -> Rows(<<2>>)
    [] SelectsOnly(s, 3) -> Rows(<<3>>)
    [] OTHER -> OverDefault(kind)

(* hdr_response_for_args and xhdr_response_for_args: every field has the   *)
(* same table.                                                             *)
HdrTable(s) ==
  CASE s.form = "id" -> <<IdRow("Hdr")>>
    [] SelectsFirstOnly(s) -> Rows(<<1>>)
    [] Covers(s, 2, 3) -> Rows(<<2, 3>>)
    [] SelectsOnly(s, 2) -> Rows(<<2>>)
    [] SelectsOnly(s, 3) -> Rows(<<3>>)
    [] OTHER -> Rows(<<1, 2>>)

XhdrTable(s) == IF s.form = "id" THEN <<IdRow("Xhdr")>> ELSE HdrTable(s)

FixedRows(kind, s) == 
  CASE kind \in {"Over", "Xover"} -> OverviewTable(kind, s) [] kind = "Hdr" -> HdrTable(s) [] kind = "Xhdr" -> XhdrTable(s)

(* listgroup_range_selects_articles counts from one to article_count.      *)
ListGroupSelects(s, group) ==
  LET high == Cardinality(FixtureArticles(group))
      end  == IF s.hi = 0 \/ s.hi > high THEN high ELSE s.hi
  IN  s.lo <= end /\ s.lo <= high

(* listgroup_response_for_args for a fixture group.                        *)
ListGroupTable(group, s) ==
  CASE group = "empty.test" -> <<>>
    [] group # "empty.test" /\ s.form # "none" /\ ~ListGroupSelects(s, group) -> <<>>
    [] group = "alt.test" /\ s.form # "none" /\ ListGroupSelects(s, group) /\ s.lo = 2 -> <<2, 3>>
    [] OTHER -> InOrder(FixtureArticles(group))

-----------------------------------------------------------------------------
(* The article directory of src/lib.rs and src/article_store.rs: files     *)
(* under a path made from the article number or from the message-id, and   *)
(* the index that the server answers GROUP, OVER and discovery from.  A    *)
(* file is [path, num, id, groups, date]: path is the number its name      *)
(* encodes (0 for a file under msgid/), num the article number of its      *)
(* status line (0 when the file does not parse or has none), date 0 when   *)
(* it has no parsable Date.                                                *)
Article(path, num, id, groups, date) ==
  [path |-> path, num |-> num, id |-> id, groups |-> groups, date |-> date]

(* open_article_response_into with a number: one file per path, or NotFound. *)
FileByNumber(disk, n) == {f \in disk : f.path = n /\ n # 0}

(* open_article_response_into with a message-id: the msgid tree.           *)
FileById(disk, id) == {f \in disk : f.path = 0 /\ f.id = id}

(* open_stored_article_response: the number first, then the message-id.    *)
OpenStored(disk, n, id) ==
  IF FileByNumber(disk, n) # {} THEN FileByNumber(disk, n) ELSE FileById(disk, id)

(* collect_article_paths: files with a numeric name outside msgid.         *)
Indexable(disk) == {f \in disk : f.path # 0}

(* The files ArticleStoreIndex::build does not skip.                       *)
Numbered(files) == {f \in files : f.num # 0}

Entry(f) == [id |-> f.id, groups |-> f.groups, date |-> f.date]

EmptyIndex == [groups |-> <<>>, byNumber |-> <<>>, byId |-> <<>>]

(* What an index of files with distinct numbers and message-ids holds.     *)
IndexOf(disk) ==
  LET files == Numbered(Indexable(disk))
      Of(g) == {f \in files : g \in f.groups}
  IN  [groups   |-> [g \in UNION {f.groups : f \in files} |->
                       [numbers |-> {f.num : f \in Of(g)}, active |-> Max({f.date : f \in Of(g)})]],
       byNumber |-> [n \in {f.num : f \in files} |-> Entry(CHOOSE f \in files : f.num = n)],
       byId     |-> [i \in {f.id : f \in files} |-> (CHOOSE f \in files : f.id = i).num]]

(* ArticleStoreIndex::article_entry_for_message_id finds an entry.         *)
HasEntryForId(index, id) == id \in DOMAIN index.byId /\ index.byId[id] \in DOMAIN index.byNumber
=============================================================================
