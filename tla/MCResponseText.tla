--------------------------- MODULE MCResponseText ---------------------------
(* The text of responses and articles, one question at a time: the parsers *)
(* of responses, articles as they are received, stored and sent, the dates *)
(* and wildmats of the mock server, and the sizes of what it generates.    *)
(* part says which one a behaviour is about; in the others ResponseRules   *)
(* has received nothing and the rest is unused.                            *)
EXTENDS ResponseRules, Terminator

VARIABLES
  part,
  status, text, pieces, article,
  days, date,
  wildmat, group,
  mode, target, payload, prebuilt, capacity, reply

textVars == <<status, text, pieces, article>>
dateVars == <<days, date>>
matVars  == <<wildmat, group>>
sizeVars == <<mode, target, payload, prebuilt, capacity, reply>>

-----------------------------------------------------------------------------
(* Status lines of two words of any shape where the words matter, group    *)
(* lines with every small watermark, and short blocks of good and bad rows *)
(* of each kind.                                                           *)
SomeStatuses ==
  {p[2] : p \in MultilineOf \cup SingleLineOf} \cup GenericErrors \cup (411 .. 412) \cup (420 .. 423)
  \cup {282, 299, 430, 431, 435, 436, 437, 438, 439, 440, 441, 481, 482, 580, 599}

GroupWord == Word("ALT.TEST", "dotted", 8)
IdWord == Word("<A@B>", "id", 5)
TextWord == Word("TEXT", "name", 4)
NulWord == Word("", "nul", 1)
RawWord == Word("", "bytes", 4)
DotWord == Word(".X", "dot", 2)

StatusWords ==
  {Number(0), Number(1), IdWord, GroupWord, TextWord, NulWord, RawWord, Blank, Word("<L@B>", "longid", 251), Word("AB", "name", 2),
   Word("20260101000000", "stamp", 14), Word("=", "equals", 1), Word("LONG", "name", 600)}

GroupLines ==
  {<<Number(a), Number(b), Number(c), GroupWord>> : a, b, c \in 0 .. 3}
  \cup {<<Number(1), Number(1), Number(1)>> \o rest : rest \in {<<>>, <<NulWord>>, <<GroupWord, TextWord>>, <<GroupWord, NulWord>>, <<Blank, GroupWord>>}}

SomeArgLists(k, c) ==
  IF k \in {"Group", "ListGroup"} /\ c = 211 THEN GroupLines
  ELSE IF <<k, c>> \in MultilineOf \ ArticleAnswers THEN {<<>>, <<TextWord, Blank>>, <<NulWord>>}
  ELSE IF <<k, c>> \in ArticleAnswers \cup SingleLineOf \cup (RequestKind \X {401, 431, 438, 439})
       THEN SeqOf(StatusWords, 2) \cup {<<Number(1), IdWord, w>> : w \in StatusWords}
  ELSE {<<>>, <<NulWord>>, <<Word("LONG", "name", 600)>>}

OneWord(letters, is) == <<Word(letters, is, 8)>>

Required == <<OneWord("SUBJECT:", "label"), OneWord("FROM:", "label"), OneWord("DATE:", "label"), OneWord("MESSAGE-ID:", "label"),
              OneWord("REFERENCES:", "label")>>

Overview(n, lines, rest) ==
  <<Number(n), TextWord, TextWord, TextWord, IdWord, Blank, Number(3), lines>> \o rest

SomeRowPool(k) ==
  CASE k \in {"List", "ListActive", "NewGroups"} ->
         {<<GroupWord, Number(a), Number(b), TextWord>> : a, b \in 0 .. 2}
         \cup {<<GroupWord, Blank, Number(1), Number(1), TextWord>>, <<GroupWord, Number(1), Number(1), TextWord, Blank>>,
               <<GroupWord, Number(1), Number(1), Word("=", "equals", 1)>>, <<DotWord, Number(1), Number(1), TextWord>>, <<GroupWord, TextWord>>}
    [] k = "ListActiveTimes" ->
         {<<GroupWord, Number(1), TextWord, TextWord>>, <<GroupWord, Number(1)>>, <<GroupWord, TextWord, TextWord>>, <<GroupWord, Blank, Number(1), RawWord>>}
    [] k = "ListNewsgroups" -> {<<GroupWord, Blank, TextWord>>, <<GroupWord, RawWord, TextWord>>, <<GroupWord, Blank>>, <<GroupWord, NulWord>>}
    [] k = "ListOverviewFmt" -> {OneWord("XREF:FULL", "full"), OneWord(":X", "meta"), OneWord("XREF", "name"), <<DotWord>>}
    [] k = "ListHeaders" -> {OneWord(":", "colon"), OneWord(":BYTES", "meta"), OneWord("SUBJECT", "name"), <<NulWord>>, <<TextWord, TextWord>>}
    [] k = "ListDistribPats" ->
         {<<Number(1), Word("*", "star", 1), TextWord>>, <<Number(1), Word("*", "star", 1), Blank>>, <<TextWord, TextWord, TextWord>>,
          <<Number(1), TextWord, Blank, TextWord>>}
    [] k = "ListGroup" -> {<<Number(n)>> : n \in 0 .. 3} \cup {<<TextWord>>, <<DotWord>>}
    [] k = "NewNews" -> {<<IdWord>>, <<TextWord>>, <<IdWord, Blank>>}
    [] k \in {"Over", "Xover"} ->
         {Overview(n, l, r) : n \in 0 .. 2, l \in {Number(1), Blank}, r \in {<<>>, <<Word("", "labelled", 9)>>, <<TextWord>>}}
         \cup {Overview(1, TextWord, <<>>), Overview(1, Number(1), <<NulWord>>), <<Number(1), TextWord>>, <<DotWord>>}
    [] k = "Hdr" -> {<<Number(0), TextWord>>, <<Number(1)>>, <<IdWord, TextWord>>, <<Number(1), NulWord>>, <<DotWord>>}
    [] k = "Xhdr" -> {<<Number(0), TextWord>>, <<Number(1)>>, <<IdWord, TextWord>>, <<Number(1), NulWord>>, OneWord("(NONE)", "none")}
    [] k = "Capabilities" ->
         {OneWord("READER", "name"), <<Lower(Word("READER", "name", 6))>>, OneWord("READER", "name") \o <<TextWord>>, OneWord("READER", "name") \o <<Blank>>,
          OneWord("VERSION", "name") \o <<Number(2)>>, OneWord("OVER", "name"), OneWord("OVER", "name") \o OneWord("MSGID", "name"),
          OneWord("AUTHINFO", "name") \o OneWord("USER", "name"), OneWord("AUTHINFO", "name") \o <<TextWord>>,
          OneWord("SASL", "name"), OneWord("SASL", "name") \o <<TextWord>>, OneWord("LIST", "name") \o <<TextWord, GroupWord>>,
          <<Word("X-ANY", "dotted", 5), TextWord>>, <<Word("AB", "name", 2)>>, <<Number(1), TextWord>>, <<DotWord>>, <<>>}
    [] OTHER -> {<<TextWord, Blank, TextWord>>, <<NulWord>>, <<RawWord>>, <<DotWord>>, <<>>}

SomeRowStarts(k) ==
  CASE k = "ListOverviewFmt" ->
         {Required \o <<OneWord(a, "meta"), OneWord(b, "meta")>> : a \in {":BYTES", "BYTES:"}, b \in {":LINES", "LINES:"}}
         \cup {Required, Reverse(Required) \o <<OneWord(":BYTES", "meta"), OneWord(":LINES", "meta")>>}
    [] k = "Capabilities" -> {<<>>, <<OneWord("VERSION", "name") \o <<Number(2)>>>>, <<OneWord("VERSION", "name")>>}
    [] OTHER -> {<<>>}

SomeMaxRows(k) == IF k = "ListOverviewFmt" THEN 9 ELSE 3

-----------------------------------------------------------------------------
(* Texts of short lines: headers of each good and bad form, folded lines,  *)
(* empty lines, dot lines, and the bytes that break a line.                *)
SomePieces ==
  {CRLF, <<"a", ":">> \o CRLF, <<"a", ":", " ", "a">> \o CRLF, <<"A", ":", " ", "x">> \o CRLF, <<" ", "TAB", "x">> \o CRLF,
   <<DOT>> \o CRLF, <<DOT, DOT>> \o CRLF, <<DOT, "x", ":", " ">> \o CRLF, <<"TAB", "x">> \o CRLF, <<CR>>, <<LF>>, <<"x">>, <<"NUL">>, <<" ">>}

(* The lines an article of headers, folded lines, a blank line and dotted  *)
(* body lines is made of.                                                  *)
ArticlePieces ==
  {CRLF, <<"a", ":">> \o CRLF, <<"A", ":", " ", "x">> \o CRLF, <<" ", "TAB", "x">> \o CRLF, <<DOT>> \o CRLF, <<DOT, DOT>> \o CRLF,
   <<DOT, DOT, "x", ":", " ">> \o CRLF}

BytePieces == {<<CR>>, <<LF>>, <<DOT>>, <<"x">>}

Article == INSTANCE ArticleText WITH Pieces <- SomePieces, MaxPieces <- 4

Stored == INSTANCE ArticleText WITH Pieces <- ArticlePieces, MaxPieces <- 5

Transfer == INSTANCE ArticleText WITH Pieces <- BytePieces, MaxPieces <- 6

-----------------------------------------------------------------------------
(* The years before 1970, which have no timestamp, the present, and the    *)
(* turn of each century of the era of 400 years that begins in March 2000. *)
SomeYears == (1968 .. 1973) \cup (1999 .. 2033) \cup UNION {y - 2 .. y + 5 : y \in {2100, 2200, 2300, 2400}}

Zone(form, minutes) == [form |-> form, minutes |-> minutes]

Dates == INSTANCE NewsDates WITH
  Years <- SomeYears, Seconds <- {0, 43261, 86399},
  Zones <- {Zone("digits", -210), Zone("digits", 840), Zone("none", 0), Zone("UTC", 0), Zone("name", 0)}

Match == INSTANCE Wildmat WITH Letters <- {"a", "b"}, MaxName <- 3, MaxPattern <- 3, MaxPatterns <- 2

(* The lengths in src/lib.rs, and sizes at each side of a line and of a    *)
(* header.                                                                 *)
Sizes == INSTANCE PayloadSizing WITH
  Line <- 80, Dot <- 3, ArticleFixed <- 218, BodyFixed <- 20, Extra <- 4608,
  Targets <- {0, 1, 47, 48, 49, 79, 80, 81, 160, 272, 273, 274, 511, 720, 4096},
  Encoded <- {76, 600}, Ids <- {3, 26, 27, 28, 250}, Numbers <- {1, 10}

-----------------------------------------------------------------------------
Unused(v) == v = "unused"

NoRules == kind = "Date" /\ code = 0 /\ args = <<>> /\ rows = <<>> /\ initial = "none" /\ frame = {}
NoText  == Unused(status) /\ Unused(text) /\ Unused(pieces) /\ Unused(article)
NoDate  == Unused(days) /\ Unused(date)
NoMat   == Unused(wildmat) /\ Unused(group)
NoSize  == Unused(mode) /\ Unused(target) /\ Unused(payload) /\ Unused(prebuilt) /\ Unused(capacity) /\ Unused(reply)

TextInit ==
  \/ part = "rules" /\ Init /\ NoText /\ NoDate /\ NoMat /\ NoSize
  \/ /\ part \in {"article", "stored", "transfer"}
     /\ Article!Init /\ NoRules /\ NoDate /\ NoMat /\ NoSize
  \/ part = "dates" /\ Dates!Init /\ NoRules /\ NoText /\ NoMat /\ NoSize
  \/ part = "match" /\ Match!Init /\ NoRules /\ NoText /\ NoDate /\ NoSize
  \/ part = "sizes" /\ Sizes!Init /\ NoRules /\ NoText /\ NoDate /\ NoMat

TextNext ==
  \/ part = "rules" /\ Next /\ UNCHANGED <<part, textVars, dateVars, matVars, sizeVars>>
  \/ part = "article" /\ Article!Next /\ UNCHANGED <<part, vars, dateVars, matVars, sizeVars>>
  \/ part = "stored" /\ Stored!Next /\ UNCHANGED <<part, vars, dateVars, matVars, sizeVars>>
  \/ part = "transfer" /\ Transfer!Next /\ UNCHANGED <<part, vars, dateVars, matVars, sizeVars>>
  \/ part = "dates" /\ Dates!Next /\ UNCHANGED <<part, vars, textVars, matVars, sizeVars>>
  \/ part = "match" /\ Match!Next /\ UNCHANGED <<part, vars, textVars, dateVars, sizeVars>>
  \/ part = "sizes" /\ Sizes!Next /\ UNCHANGED <<part, vars, textVars, dateVars, matVars>>

TextSpec == TextInit /\ [][TextNext]_<<part, vars, textVars, dateVars, matVars, sizeVars>>

-----------------------------------------------------------------------------
(* The two validators of responses, staged and whole, agree; whether a     *)
(* response has a block depends on command and status alone; and what they *)
(* accept of LISTGROUP, OVER and CAPABILITIES keeps the rules of each      *)
(* (ResponseInitial and ResponseFrame::parse).                             *)
ResponsesAgree ==
  part = "rules" => ParsersAgree /\ FramingByCode /\ ListGroupSound /\ OverSound /\ CapabilitiesSound

(* An article is one text on every path: the framed and the compatibility  *)
(* parser agree, bytes after the terminator change nothing, the headers    *)
(* are iterated without loss, HEAD and BODY cut from a stored ARTICLE say  *)
(* what it says, and a payload transferred as one block is read back by    *)
(* lines (parse_compatibility_response, build_stored_article_response,     *)
(* write_transfer_request_wire).                                           *)
ArticlesAgree ==
  /\ part = "article" => Article!PathsAgree /\ Article!PackedIgnored /\ Article!HeadersExact
  /\ part = "stored" => Stored!StoredAgree
  /\ part = "transfer" => Transfer!TransferExact

(* What NEWNEWS and NEWGROUPS select: the calendar is counted as it is,    *)
(* DATE read back is the same instant, a year of two digits is the latest  *)
(* not in the future, keys grow with time, zones change nothing, and the   *)
(* last wildmat pattern that matches decides (civil_from_unix_days,        *)
(* nntp_datetime_timestamp, normalized_nntp_date_key, wildmat_matches).    *)
SelectorsExact ==
  /\ part = "dates" =>
       /\ Dates!CalendarExact /\ Dates!DateRoundTrip /\ Dates!ShortYearIsRecent
       /\ Dates!KeysGrow /\ Dates!ZoneInvisible
  /\ part = "match" => Match!PickedByLastMatch

(* A generated response slices its payload within bounds, misses the size  *)
(* asked for by less than a line, is the same prebuilt or on demand, and   *)
(* fits the pooled buffer it is put together in.                           *)
SizesExact ==
  part = "sizes" =>
    /\ Sizes!SliceInRange /\ Sizes!WireSizeClose
    /\ Sizes!PrebuiltAgrees /\ Sizes!FitsPooledBuffer
=============================================================================
