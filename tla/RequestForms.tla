---------------------------- MODULE RequestForms ----------------------------
(***************************************************************************)
(* The words of a command or response line, their validators, and Request  *)
(* (src/protocol.rs): the commands a client can build, the line each is    *)
(* written as, and the accessors that read one.  A word is [text, is, len, lower]: is says what its     *)
(* characters are like, by a sample:                                       *)
(*   name ARTICLE, dotted alt.test, num 12, zero 0, huge 99999999999,       *)
(*   span 1-2, open 2-, badspan 0-2, id <a@b>, longid an id of 251 bytes,   *)
(*   star alt.*, negated !alt.*, list *,!alt.*, meta :bytes,                *)
(*   date 20260101, time 000000, stamp 20260101000000, equals =,            *)
(*   base64 a+b/, addr a@b, hash #x, label Xref:, full Xref:full, colon :,  *)
(*   dot .x, none (none), ctrl a control character, nul NUL, feed a form    *)
(*   feed, bytes not UTF-8, bare a CR or LF of its own, blank no character  *)
(*   at all.                                                               *)
(* A line is its words with one space or tab between any two neighbours,   *)
(* so adjacent separators show as blank words.                             *)
(***************************************************************************)
EXTENDS Integers, Sequences, SequencesExt, FiniteSetsExt

Word(text, is, len) == [text |-> text, is |-> is, len |-> len, lower |-> FALSE]

Lower(w) == [w EXCEPT !.lower = TRUE]

Blank == Word("", "blank", 0)

Digits == {"num", "zero", "huge", "date", "time", "stamp"}

Printable ==
  Digits \cup {"name", "dotted", "span", "open", "badspan", "id", "longid", "star", "negated", "list",
               "meta", "equals", "base64", "addr", "hash"}

(* eq_ignore_ascii_case: the text is the word in capitals.                 *)
Same(w, text) == w.text = text

-----------------------------------------------------------------------------
(* article_number_token_value: a number from one to MAX_ARTICLE_NUMBER.    *)
IsArticleNumber(w) == w.is \in {"num", "date"}

(* parse_response_article_number: zero too.                                *)
IsResponseNumber(w) == w.is \in {"num", "date", "zero", "time"}

IsMessageId(w) == w.is = "id"

(* MessageId::from_str_or_wrap: a word without angle brackets gets them.    *)
WrapId(w) ==
  IF w.is \in {"id", "longid"} THEN w
  ELSE Word("<" \o w.text \o ">",
            IF w.is \notin Printable THEN w.is ELSE IF w.len <= 248 THEN "id" ELSE "longid", w.len + 2)

(* ArticleRef and validate_article_fetch_selector.                         *)
IsFetchSelector(w) == IsArticleNumber(w) \/ IsMessageId(w)

IsListGroupRange(w) == w.is \in {"span", "open"} \/ IsArticleNumber(w)

IsArticleSelector(w) == IsMessageId(w) \/ IsListGroupRange(w)

IsGroupName(w) == w.is \in Printable \ {"star", "negated", "list"}

IsHeaderName(w) == w.is \in Printable

IsWildmat(w) == w.is \in Printable \ {"negated"}

IsNntpDate(w) == w.is = "date"

IsNntpTime(w) == w.is = "time"

IsKeyword(w) == w.is \in {"name", "dotted"} /\ w.len >= 3

(* validate_auth_info_value_bytes.                                         *)
IsAuthInfoValue(words) ==
  /\ \E i \in DOMAIN words : words[i].is # "blank" \/ Len(words) > 1
  /\ \A i \in DOMAIN words : words[i].is \notin {"nul", "bare"}

IsSaslMechanism(w) == w.is \in {"name"} \cup Digits /\ ~w.lower /\ w.len <= 20

IsSaslBase64(w) == w.is \in {"name", "base64"} \cup Digits /\ w.len > 0 /\ w.len % 4 = 0

IsSaslInitialResponse(w) == w.is = "equals" \/ IsSaslBase64(w)

(* validate_p_char_token: printable.                                       *)
IsPCharToken(w) == w.is \in Printable

(* validate_u_chars on the words of a comment.                             *)
IsComment(words) == \A i \in DOMAIN words : words[i].is \notin {"nul", "bytes", "bare"}

-----------------------------------------------------------------------------
IsBlank(w) == w.is = "blank"

(* command_tokens, and split with filter.                                  *)
Tokens(words) == SelectSeq(words, LAMBDA w : ~IsBlank(w))

(* skip_command_ws and strip_command_eol_ws.                               *)
SkipBlanks(words) ==
  LET full == {i \in DOMAIN words : ~IsBlank(words[i])}
  IN  IF full = {} THEN <<>> ELSE SubSeq(words, Min(full), Len(words))

StripBlanks(words) ==
  LET full == {i \in DOMAIN words : ~IsBlank(words[i])}
  IN  IF full = {} THEN <<>> ELSE SubSeq(words, 1, Max(full))

(* The bytes of a line without its CRLF.                                   *)
WordsLen(words) ==
  IF words = <<>> THEN 0 ELSE FoldSeq(LAMBDA w, sum : w.len + sum, Len(words) - 1, words)

-----------------------------------------------------------------------------
(* COMMAND_DESCRIPTORS: the kind of a verb, and its length.                *)
Verbs == [
  ARTICLE |-> "Article", AUTHINFO |-> "AuthInfo", BODY |-> "Body", CAPABILITIES |-> "Capabilities",
  CHECK |-> "Check", DATE |-> "Date", GROUP |-> "Group", HDR |-> "Hdr", HEAD |-> "Head", HELP |-> "Help",
  IHAVE |-> "Ihave", LAST |-> "Last", LIST |-> "List", LISTGROUP |-> "ListGroup", MODE |-> "Mode",
  NEWGROUPS |-> "NewGroups", NEWNEWS |-> "NewNews", NEXT |-> "Next", OVER |-> "Over", POST |-> "Post",
  QUIT |-> "Quit", STARTTLS |-> "StartTls", STAT |-> "Stat", TAKETHIS |-> "TakeThis", XHDR |-> "Xhdr",
  XOVER |-> "Xover"]

VerbLen == [
  ARTICLE |-> 7, AUTHINFO |-> 8, BODY |-> 4, CAPABILITIES |-> 12, CHECK |-> 5, DATE |-> 4, GROUP |-> 5,
  HDR |-> 3, HEAD |-> 4, HELP |-> 4, IHAVE |-> 5, LAST |-> 4, LIST |-> 4, LISTGROUP |-> 9, MODE |-> 4,
  NEWGROUPS |-> 9, NEWNEWS |-> 7, NEXT |-> 4, OVER |-> 4, POST |-> 4, QUIT |-> 4, STARTTLS |-> 8, STAT |-> 4,
  TAKETHIS |-> 8, XHDR |-> 4, XOVER |-> 5]

Verb(text) == Word(text, "name", VerbLen[text])

(* LIST_SUBCOMMANDS.                                                       *)
ListSubcommands == [x \in {"ACTIVE", "ACTIVE.TIMES", "NEWSGROUPS", "OVERVIEW.FMT", "HEADERS", "DISTRIB.PATS"} |->
  CASE x = "ACTIVE" -> "ListActive" [] x = "ACTIVE.TIMES" -> "ListActiveTimes" [] x = "NEWSGROUPS" -> "ListNewsgroups"
    [] x = "OVERVIEW.FMT" -> "ListOverviewFmt" [] x = "HEADERS" -> "ListHeaders" [] x = "DISTRIB.PATS" -> "ListDistribPats"]

SubLen == [x \in DOMAIN ListSubcommands |->
  CASE x = "ACTIVE" -> 6 [] x = "HEADERS" -> 7 [] x = "NEWSGROUPS" -> 10 [] OTHER -> 12]

Sub(text) == Word(text, IF text \in {"ACTIVE", "HEADERS", "NEWSGROUPS"} THEN "name" ELSE "dotted", SubLen[text])

Gmt == Word("GMT", "name", 3)

-----------------------------------------------------------------------------
(* Request: what the constructors build when arguments are made of words.  *)
Request(kind, args) == [kind |-> kind, args |-> args]

None == {}

(* The words of an argument that its type accepts.                         *)
Where(words, Valid(_)) == {w \in words : Valid(w)}

WithOptional(kind, choices) == {Request(kind, <<>>)} \cup {Request(kind, <<w>>) : w \in choices}

RetrievalRequests(words) ==
  UNION {WithOptional(k, Where(words, IsFetchSelector)) : k \in {"Article", "Body", "Head", "Stat"}}

GroupRequests(words) ==
  {Request("Group", <<g>>) : g \in Where(words, IsGroupName)} \cup WithOptional("ListGroup", Where(words, IsGroupName))
  \cup {Request("ListGroup", <<g, r>>) : g \in Where(words, IsGroupName), r \in Where(words, IsListGroupRange)}

OverviewRequests(words) ==
  WithOptional("Over", Where(words, IsArticleSelector)) \cup WithOptional("Xover", Where(words, IsListGroupRange))
  \cup {Request(k, <<h>>) : k \in {"Hdr", "Xhdr"}, h \in Where(words, IsHeaderName)}
  \cup {Request(k, <<h, s>>) : k \in {"Hdr", "Xhdr"}, h \in Where(words, IsHeaderName), s \in Where(words, IsArticleSelector)}

Times(words) == {<<d, t>> \o gmt : d \in Where(words, IsNntpDate), t \in Where(words, IsNntpTime), gmt \in {<<>>, <<Gmt>>}}

DiscoveryRequests(words) ==
  {Request("NewGroups", t) : t \in Times(words)} \cup {Request("NewNews", <<w>> \o t) : w \in Where(words, IsWildmat), t \in Times(words)}

TransferRequests(words) == {Request(k, <<i>>) : k \in {"Ihave", "Check", "TakeThis"}, i \in Where(words, IsMessageId)}

(* A user name or password may hold blanks.                                *)
AuthRequests(words) ==
  {Request(k, v) : k \in {"AuthInfoUser", "AuthInfoPass"},
                   v \in {x \in {<<a>> : a \in words} \cup {<<a, b>> : a, b \in words \cup {Blank}} : IsAuthInfoValue(x)}}

ListRequests(words) ==
  UNION {WithOptional(k, Where(words, IsWildmat)) : k \in {"ListActive", "ListActiveTimes", "ListNewsgroups"}}
  \cup {Request(k, <<>>) : k \in {"List", "ListOverviewFmt", "ListHeaders", "ListDistribPats"}}

PlainRequests(words) ==
  {Request(k, <<>>) : k \in {"Last", "Next", "Post", "StartTls", "Help", "Date", "ModeReader", "ModeStream", "Quit"}}
  \cup WithOptional("Capabilities", Where(words, IsKeyword))

Requests(words) ==
  RetrievalRequests(words) \cup GroupRequests(words) \cup OverviewRequests(words) \cup DiscoveryRequests(words) \cup TransferRequests(words)
  \cup AuthRequests(words) \cup ListRequests(words) \cup PlainRequests(words)

VerbOf(kind) == CHOOSE v \in DOMAIN Verbs : Verbs[v] = kind

ListKindWire(kind) == CHOOSE s \in DOMAIN ListSubcommands : ListSubcommands[s] = kind

(* The writers: the verb, then each argument there is after one space.     *)
Written(head, args) == head \o args

(* write_wire_to; the article of TAKETHIS is in ArticleText.               *)
WriteWire(r) ==
  CASE r.kind \in {ListSubcommands[s] : s \in DOMAIN ListSubcommands} ->
         Written(<<Verb("LIST"), Sub(ListKindWire(r.kind))>>, r.args)
    [] r.kind = "AuthInfoUser" -> Written(<<Verb("AUTHINFO"), Word("USER", "name", 4)>>, r.args)
    [] r.kind = "AuthInfoPass" -> Written(<<Verb("AUTHINFO"), Word("PASS", "name", 4)>>, r.args)
    [] r.kind = "ModeReader" -> Written(<<Verb("MODE"), Word("READER", "name", 6)>>, <<>>)
    [] r.kind = "ModeStream" -> Written(<<Verb("MODE"), Word("STREAM", "name", 6)>>, <<>>)
    [] OTHER -> Written(<<Verb(VerbOf(r.kind))>>, r.args)

(* The accessors of Request.                                               *)
Arg(r, kinds, i) == IF r.kind \in kinds /\ i <= Len(r.args) THEN {r.args[i]} ELSE None

Retrieval == {"Article", "Body", "Head", "Stat"}

MessageIdOf(r) ==
  {w \in Arg(r, Retrieval \cup {"Ihave", "Check", "TakeThis"}, 1) : IsMessageId(w)}

ArticleRefOf(r) == Arg(r, Retrieval, 1)

HeaderQuery(r) == IF r.kind \in {"Hdr", "Xhdr"} THEN {r.args} ELSE None

OverviewSelector(r) == Arg(r, {"Over"}, 1)

GroupNameOf(r) == Arg(r, {"Group", "ListGroup"}, 1)

ListGroupRangeArg(r) == Arg(r, {"ListGroup"}, 2)

DiscoveryDatetime(r) ==
  IF r.kind = "NewGroups" THEN {r.args} ELSE IF r.kind = "NewNews" THEN {Tail(r.args)} ELSE None

WildmatOf(r) == Arg(r, {"ListActive", "ListActiveTimes", "ListNewsgroups", "NewNews"}, 1)

ListVariantOf(r) ==
  IF r.kind \in {ListSubcommands[s] : s \in DOMAIN ListSubcommands} THEN {<<r.kind, WildmatOf(r)>>} ELSE None

AuthInfoOf(r) == IF r.kind \in {"AuthInfoUser", "AuthInfoPass"} THEN {r.args} ELSE None
=============================================================================
