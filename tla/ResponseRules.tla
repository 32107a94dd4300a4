--------------------------- MODULE ResponseRules ---------------------------
(***************************************************************************)
(* Which responses the client takes for an answer to a command             *)
(* (src/protocol.rs): the arguments of the status line, the rows of a      *)
(* multi-line block, and the capability list made of one.  A response is   *)
(* read in two ways: whole, by ResponseFrame::parse, and in stages, by     *)
(* ResponseInitial::parse and then                                         *)
(* validate_framed_non_article_response_content.  The block of an article  *)
(* is left to ArticleText.                                                 *)
(*                                                                         *)
(* A status line is [status, args]; a row is a sequence of words with one  *)
(* separator, the one its kind uses, between neighbours.                   *)
(***************************************************************************)
EXTENDS RequestForms, CommandCoordination, TLC

CONSTANTS
  Statuses,      \* the statuses a peer sends
  ArgLists(_, _), \* the arguments a peer sends with a status to a kind
  RowStarts(_),  \* the first rows of a block
  RowPool(_),    \* the rows that may follow
  MaxRows(_),    \* the rows of a block
  MaxLine,       \* MAX_INITIAL_RESPONSE_LINE_BYTES
  MaxSaslLine,   \* MAX_AUTHINFO_SASL_RESPONSE_LINE_BYTES
  MaxNumber      \* the largest number in a row

ASSUME ResponseAssumption == MaxLine \in Nat /\ MaxSaslLine \in Nat /\ MaxNumber \in Nat

Number(n) == Word(ToString(n), IF n = 0 THEN "zero" ELSE "num", 1)

NumberOf(w) == CHOOSE n \in 0 .. MaxNumber : ToString(n) = w.text

-----------------------------------------------------------------------------
InitialLineLimit(kind, code) == IF kind = "AuthInfo" /\ code \in {283, 383} THEN MaxSaslLine ELSE MaxLine

-----------------------------------------------------------------------------
(* The status line.  split_required_response_tokens::<n>: the first n      *)
(* words; the rest is a comment.                                           *)
HasTokens(args, n) == Len(args) >= n /\ \A i \in 1 .. n : ~IsBlank(args[i])

Comment(args, n) == IsComment(SubSeq(args, n + 1, Len(args)))

Lead(args, Valid(_)) == HasTokens(args, 1) /\ Valid(args[1]) /\ Comment(args, 1)

IsDateStamp(w) == w.is = "stamp"

GroupWatermarks(count, low, high) ==
  IF low = 0 THEN count = 0 /\ high = 0
  ELSE IF count = 0 THEN high >= low \/ high + 1 = low
  ELSE high >= low /\ count <= (high - low) + 1

WatermarkPair(low, high) == IF low = 0 THEN high = 0 ELSE high >= low \/ high + 1 = low

GroupArguments(args) == HasTokens(args, 4) /\ \A i \in 1 .. 3 : IsResponseNumber(args[i])

ValidGroupLine(args) ==
  /\ GroupArguments(args) /\ IsGroupName(args[4]) /\ Comment(args, 4)
  /\ GroupWatermarks(NumberOf(args[1]), NumberOf(args[2]), NumberOf(args[3]))

ValidArticleLine(args, zero) ==
  /\ HasTokens(args, 2) /\ IsResponseNumber(args[1]) /\ (zero \/ args[1].is # "zero")
  /\ IsMessageId(args[2]) /\ Comment(args, 2)

Numbered_InitialArticle(args) == Len(args) >= 2 /\ IsArticleNumber(args[1]) /\ IsMessageId(args[2]) /\ Comment(args, 2)

(* parse_response_initial_article.                                         *)
InitialArticle(args) == Len(args) >= 2 /\ IsResponseNumber(args[1]) /\ IsMessageId(args[2]) /\ Comment(args, 2)

(* parse_first_line of article.rs, which the whole-buffer reader adds.     *)
FirstLine(args) ==
  IF args = <<>> THEN "InvalidStatusPrefix"
  ELSE IF Len(args) = 1 \/ ~IsResponseNumber(args[1]) THEN "InvalidArticleNumber"
  ELSE IF IsMessageId(args[2]) /\ Comment(args, 2) THEN "ok" ELSE "InvalidMessageId"

ArticleAnswers == {<<"Article", 220>>, <<"Head", 221>>, <<"Body", 222>>, <<"Stat", 223>>}

(* validate_response_initial_line.                                         *)
ValidInitialLine(kind, code, args) ==
  CASE kind = "Date" /\ code = 111 -> Lead(args, IsDateStamp)
    [] code = 401 -> Lead(args, IsKeyword)
    [] kind \in {"Group", "ListGroup"} /\ code = 211 -> ValidGroupLine(args)
    [] <<kind, code>> \in ArticleAnswers -> ValidArticleLine(args, TRUE)
    [] kind \in {"Last", "Next"} /\ code = 223 -> ValidArticleLine(args, FALSE)
    [] <<kind, code>> \in ({"Check"} \X {238, 431, 438}) \cup ({"TakeThis"} \X {239, 439}) -> Lead(args, IsMessageId)
    [] kind = "AuthInfo" /\ code = 283 -> Lead(args, IsSaslBase64)
    [] kind = "AuthInfo" /\ code = 383 -> Lead(args, IsSaslInitialResponse)
    [] OTHER -> IsComment(args)

-----------------------------------------------------------------------------
(* The rows of a block.  A row that starts with a single dot is refused.   *)
Dotted(row) == row # <<>> /\ row[1].is = "dot"

CrlfLines(rows, Valid(_)) == \A i \in DOMAIN rows : ~Dotted(rows[i]) /\ Valid(rows[i])

Has(row, shapes) == \E i \in DOMAIN row : row[i].is \in shapes

(* validate_u_text, validate_s_text and validate_hdr_content.              *)
IsUText(words) == words # <<>> /\ words[1].is # "ctrl" /\ IsComment(words)

IsSText(words) == words # <<>> /\ ~Has(words, {"nul", "bare"})

IsHdrContent(words) == ~Has(words, {"nul"})

Single(row, Valid(_)) == Len(row) = 1 /\ Valid(row[1])

(* The status of a group in LIST ACTIVE: "=" needs a group name after it.  *)
IsActiveStatus(w) == IsPCharToken(w) /\ w.is # "equals"

ActiveLine(row) ==
  LET t == Tokens(row)
  IN  /\ Len(t) = 4 /\ ~IsBlank(row[1]) /\ ~IsBlank(row[Len(row)])
      /\ IsGroupName(t[1]) /\ IsResponseNumber(t[2]) /\ IsResponseNumber(t[3])
      /\ WatermarkPair(NumberOf(t[3]), NumberOf(t[2])) /\ IsActiveStatus(t[4])

ActiveTimesLine(row) ==
  /\ row # <<>> /\ IsGroupName(row[1])
  /\ LET rest == SkipBlanks(Tail(row))
     IN  Len(rest) >= 2 /\ rest[1].is \in Digits /\ IsUText(SkipBlanks(Tail(rest)))

NewsgroupsLine(row) == row # <<>> /\ IsGroupName(row[1]) /\ IsSText(SkipBlanks(Tail(row)))

(* priority:wildmat:distribution.                                          *)
DistribPatsLine(row) ==
  /\ Len(row) >= 3 /\ row[1].is \in Digits /\ IsWildmat(row[2])
  /\ SubSeq(row, 3, Len(row)) # <<Blank>>
  /\ \A i \in 3 .. Len(row) : IsBlank(row[i]) \/ IsPCharToken(row[i])

RequiredOverviewFields == <<"SUBJECT:", "FROM:", "DATE:", "MESSAGE-ID:", "REFERENCES:">>

OverviewFmt(rows) ==
  /\ Len(rows) >= 7 /\ \A i \in 1 .. Len(rows) : ~Dotted(rows[i]) /\ Len(rows[i]) = 1
  /\ \A i \in 1 .. 5 : Same(rows[i][1], RequiredOverviewFields[i])
  /\ <<rows[6][1].text, rows[7][1].text>> \in {<<":BYTES", ":LINES">>, <<"BYTES:", "LINES:">>}
  /\ \A i \in 8 .. Len(rows) : rows[i][1].is \in {"full", "meta"}

(* validate_header_name_abnf_bytes.                                        *)
IsAbnfHeaderName(w) == IsHeaderName(w) /\ w.is # "meta"

HeaderList(rows) ==
  /\ CrlfLines(rows, LAMBDA r : Single(r, LAMBDA w : w.is \in {"colon", "meta"} \/ IsAbnfHeaderName(w)))
  /\ ~((\E i \in DOMAIN rows : rows[i][1].is = "colon") /\ (\E i \in DOMAIN rows : IsAbnfHeaderName(rows[i][1])))

ListGroupStart == [ok |-> TRUE, previous |-> -1, actual |-> 0]

(* The closure of validate_listgroup_response_content.                     *)
ListGroupStep(low, high, seen, row) ==
  LET n == IF Single(row, IsResponseNumber) THEN NumberOf(row[1]) ELSE 0
  IN  [ok |-> seen.ok /\ n # 0 /\ low <= high /\ n \in low .. high /\ n > seen.previous,
       previous |-> n, actual |-> seen.actual + 1]

ListGroupContent(args, rows) ==
  /\ GroupArguments(args)
  /\ LET seen == FoldLeft(LAMBDA acc, row : ListGroupStep(NumberOf(args[2]), NumberOf(args[3]), acc, row), ListGroupStart, rows)
     IN  seen.ok /\ (seen.actual <= NumberOf(args[1]) \/ seen.actual = 0)

(* A row of OVER or XOVER: a number and at least seven fields.             *)
OverviewLine(row, Optional(_)) ==
  /\ Len(row) >= 8 /\ IsResponseNumber(row[1]) /\ IsHdrContent(row)
  /\ \A i \in {7, 8} : IsBlank(row[i]) \/ row[i].is \in Digits
  /\ \A i \in 9 .. Len(row) : IsBlank(row[i]) \/ Optional(row[i])

(* The closure of validate_overview_response_content.                      *)
OverStep(seen, row) ==
  IF ~seen.ok \/ Dotted(row) \/ ~OverviewLine(row, LAMBDA w : w.is = "labelled") THEN [seen EXCEPT !.ok = FALSE]
  ELSE [ok |-> NumberOf(row[1]) > seen.previous, previous |-> NumberOf(row[1])]

OverContent(rows) == FoldLeft(OverStep, [ok |-> TRUE, previous |-> -1], rows).ok

HeaderLine(row, Key(_), bare) ==
  row # <<>> /\ Key(row[1]) /\ (Len(row) = 1 => bare) /\ IsHdrContent(Tail(row))

XhdrLine(row) ==
  Single(row, LAMBDA w : w.is = "none") \/ HeaderLine(row, LAMBDA w : IsResponseNumber(w) \/ IsMessageId(w), FALSE)

-----------------------------------------------------------------------------
(* Capabilities.  split_response_ws_token takes a row apart only when it   *)
(* has no blank at either end.                                             *)
Splits(row) == row # <<>> /\ ~IsBlank(row[1]) /\ ~IsBlank(row[Len(row)])

VersionLine(row) ==
  LET t == Tokens(row)
  IN  Splits(row) /\ Same(t[1], "VERSION") /\ Len(t) > 1 /\ \A i \in 2 .. Len(t) : t[i].is = "num" /\ t[i].len <= 6

StartsWithLetter(w) == w.is \in {"name", "dotted", "star", "base64"}

(* validate_known_capability_response_line and what is left to the rest.   *)
CapabilityArguments(label, args) ==
  CASE label.text \in {"HDR", "IHAVE", "MODE-READER", "NEWNEWS", "POST", "READER", "STARTTLS", "STREAMING"} -> args = <<>>
    [] label.text = "LIST" -> args # <<>> /\ \A i \in DOMAIN args : IsKeyword(args[i])
    [] label.text = "OVER" -> args = <<>> \/ Single(args, LAMBDA w : Same(w, "MSGID"))
    [] label.text = "AUTHINFO" -> \A i \in DOMAIN args : args[i].text \in {"USER", "SASL"}
    [] label.text = "SASL" -> args # <<>> /\ \A i \in DOMAIN args : IsSaslMechanism(args[i])
    [] OTHER -> \A i \in DOMAIN args : IsPCharToken(args[i])

CapabilityLine(row) ==
  LET t == Tokens(row)
  IN  /\ Splits(row)
      /\ IF IsKeyword(t[1]) THEN CapabilityArguments(t[1], Tail(t))
         ELSE ~StartsWithLetter(t[1]) /\ \A i \in DOMAIN t : IsPCharToken(t[i])

(* capability_label_seen on the rows after VERSION.                        *)
LabelSeen(rows, i) == \E j \in 2 .. i - 1 : Same(rows[j][1], rows[i][1].text)

(* validate_capabilities_response_content.                                 *)
CapabilitiesContent(rows) ==
  /\ rows # <<>> /\ VersionLine(rows[1])
  /\ \A i \in 2 .. Len(rows) :
       /\ ~Dotted(rows[i]) /\ CapabilityLine(rows[i])
       /\ IsKeyword(rows[i][1]) => ~Same(rows[i][1], "VERSION") /\ ~LabelSeen(rows, i)

CapabilityEntry(row) == [label |-> Tokens(row)[1], arguments |-> Tail(Tokens(row))]

(* CapabilityList::parse.                                                  *)
CapabilityList(rows) ==
  IF CapabilitiesContent(rows)
  THEN {[i \in 1 .. Len(SelectSeq(rows, LAMBDA r : IsKeyword(r[1]))) |->
           CapabilityEntry(SelectSeq(rows, LAMBDA r : IsKeyword(r[1]))[i])]}
  ELSE {}

-----------------------------------------------------------------------------
(* validate_non_article_response_content.                                  *)
NonArticleContent(kind, args, rows) ==
  CASE kind \in {"List", "ListActive", "NewGroups"} -> CrlfLines(rows, ActiveLine)
    [] kind = "ListActiveTimes" -> CrlfLines(rows, ActiveTimesLine)
    [] kind = "ListNewsgroups" -> CrlfLines(rows, NewsgroupsLine)
    [] kind = "ListOverviewFmt" -> OverviewFmt(rows)
    [] kind = "ListHeaders" -> HeaderList(rows)
    [] kind = "ListDistribPats" -> CrlfLines(rows, DistribPatsLine)
    [] kind = "ListGroup" -> CrlfLines(rows, LAMBDA r : TRUE) /\ ListGroupContent(args, rows)
    [] kind = "NewNews" -> CrlfLines(rows, LAMBDA r : Single(r, IsMessageId))
    [] kind = "Over" -> OverContent(rows)
    [] kind = "Xover" -> CrlfLines(rows, LAMBDA r : OverviewLine(r, LAMBDA w : TRUE))
    [] kind = "Hdr" -> CrlfLines(rows, LAMBDA r : HeaderLine(r, IsResponseNumber, TRUE))
    [] kind = "Xhdr" -> CrlfLines(rows, XhdrLine)
    [] kind = "Capabilities" -> CapabilitiesContent(rows)
    [] kind = "Help" -> CrlfLines(rows, IsComment)
    [] kind = "Unknown" -> CrlfLines(rows, LAMBDA r : ~Has(r, {"nul", "bare"}))
    [] OTHER -> TRUE

LineFits(kind, code, args) ==
  (IF args = <<>> THEN 5 ELSE WordsLen(args) + 6) <= InitialLineLimit(kind, code)

(* ResponseFrame::parse on a complete response.                            *)
ParseFrame(kind, code, args, rows) ==
  CASE Framing(kind, code) = "Unexpected" \/ ~LineFits(kind, code, args) \/ ~ValidInitialLine(kind, code, args) -> "invalid"
    [] <<kind, code>> \in ArticleAnswers /\ LineFits(kind, code, args) /\ ValidInitialLine(kind, code, args) ->
         IF FirstLine(args) = "ok" THEN "article" ELSE "invalid"
    [] OTHER -> IF Framing(kind, code) = "Multiline" /\ ~NonArticleContent(kind, args, rows) THEN "invalid" ELSE "complete"

(* ResponseInitial::parse.                                                 *)
ParseInitial(kind, code, args) ==
  IF ~LineFits(kind, code, args) \/ Framing(kind, code) = "Unexpected" THEN "invalid"
  ELSE IF <<kind, code>> \in ArticleAnswers THEN IF InitialArticle(args) THEN "article" ELSE "invalid"
  ELSE IF ValidInitialLine(kind, code, args) THEN "complete" ELSE "invalid"

(* validate_framed_non_article_response_content.                           *)
FramedContent(kind, code, args, rows) ==
  <<kind, code>> \in ArticleAnswers \/ Framing(kind, code) # "Multiline" \/ NonArticleContent(kind, args, rows)

-----------------------------------------------------------------------------
VARIABLES
  kind,   \* the command answered
  code,   \* the status sent for it, 0 before there is one
  args,   \* the rest of the status line
  rows,   \* the block so far
  initial, \* what the stages made of the status line, "none" before it ends
  frame   \* [whole, staged, list] once the response is complete

vars == <<kind, code, args, rows, initial, frame>>

Init == kind \in RequestKind /\ code = 0 /\ args = <<>> /\ rows = <<>> /\ initial = "none" /\ frame = {}

(* The peer ends a status line, and the stages read it.                    *)
StatusLine ==
  /\ code = 0
  /\ \E c \in Statuses : \E a \in ArgLists(kind, c) :
       /\ code' = c /\ args' = a /\ initial' = ParseInitial(kind, c, a)
       /\ rows' \in IF Framing(kind, c) = "Multiline" /\ initial' # "article" THEN RowStarts(kind) ELSE {<<>>}
  /\ UNCHANGED <<kind, frame>>

Row ==
  /\ code # 0 /\ frame = {} /\ Framing(kind, code) = "Multiline" /\ initial # "article" /\ Len(rows) < MaxRows(kind)
  /\ \E row \in RowPool(kind) : rows' = Append(rows, row)
  /\ UNCHANGED <<kind, code, args, initial, frame>>

(* The response is complete: both readers give their verdict.              *)
Complete ==
  /\ code # 0 /\ frame = {}
  /\ frame' = {[whole |-> ParseFrame(kind, code, args, rows),
                staged |-> IF initial # "invalid" /\ FramedContent(kind, code, args, rows) THEN initial ELSE "invalid",
                list |-> IF kind = "Capabilities" THEN CapabilityList(rows) ELSE {}]}
  /\ UNCHANGED <<kind, code, args, rows, initial>>

Next == StatusLine \/ Row \/ Complete

Spec == Init /\ [][Next]_vars

-----------------------------------------------------------------------------
(* The staged reader accepts exactly the responses the whole-buffer parser *)
(* accepts: "retaining the stateless parser's acceptance behavior"         *)
(* (validate_framed_non_article_response_content).                         *)
ParsersAgree == \A f \in frame : f.whole = f.staged

(* A known command and an unknown one with the same answer frame it the    *)
(* same way, but for 211: "extensions keep response framing code-driven    *)
(* except for the 211 GROUP/LISTGROUP exception" (for_request_status).     *)
FramingByCode ==
  code \notin {0, 211} /\ Framing(kind, code) # "Unexpected" => Framing(kind, code) = Framing("Unknown", code)

Numbers == [i \in DOMAIN rows |-> NumberOf(rows[i][1])]

(* An accepted LISTGROUP block lists different article numbers of the      *)
(* group, in order, no more of them than its status line counts.           *)
ListGroupSound ==
  \A f \in frame : kind = "ListGroup" /\ f.staged = "complete" /\ code = 211 =>
    /\ \A i, j \in DOMAIN rows : i < j => Numbers[i] < Numbers[j]
    /\ \A i \in DOMAIN rows : Numbers[i] \in NumberOf(args[2]) .. NumberOf(args[3]) /\ Numbers[i] > 0
    /\ Len(rows) <= NumberOf(args[1])

(* An accepted OVER block never names an article twice, and its rows are   *)
(* in order (validate_overview_response_content).                          *)
OverSound ==
  \A f \in frame : kind = "Over" /\ f.staged = "complete" /\ code = 224 =>
    \A i, j \in DOMAIN rows : i < j => Numbers[i] < Numbers[j]

(* The capability list exists for every accepted block and for no other,   *)
(* starts with VERSION and has one entry for a label, so what get finds    *)
(* does not depend on the order of the rows (CapabilityList::parse).       *)
CapabilitiesSound ==
  \A f \in frame : kind = "Capabilities" /\ code = 101 =>
    /\ initial # "invalid" => (f.list # {} <=> f.whole = "complete")
    /\ \A list \in f.list :
         /\ Same(list[1].label, "VERSION")
         /\ \A i, j \in DOMAIN list : i # j => list[i].label.text # list[j].label.text
=============================================================================
