---------------------------- MODULE ArticleText ----------------------------
(***************************************************************************)
(* The text of an article on the wire (src/protocol/article.rs): a 220,    *)
(* 221, 222 or 223 response after its status line is read as headers and   *)
(* body, by the framed parser and by the compatibility parser of           *)
(* Article::parse; the server makes HEAD and BODY answers from a stored    *)
(* 220 response; the client encodes an article it transfers.  A text is a  *)
(* sequence of bytes; the rules for the status line are in ResponseRules.  *)
(***************************************************************************)
EXTENDS Terminator, SequencesExt

CONSTANTS
  Pieces,    \* byte sequences a peer puts together
  MaxPieces  \* pieces in a text

SP == " "
TAB == "TAB"
COLON == ":"
NUL == "NUL"

IsBlankByte(b) == b \in {SP, TAB}

LowerCase(name) == [i \in DOMAIN name |-> IF name[i] = "A" THEN "a" ELSE name[i]]

Before(data, end) == SubSeq(data, 1, end)

IndexOf(b, line) == SelectInSeq(line, LAMBDA c : c = b)

TrimBlanks(line) == After(line, SelectInSeq(line \o <<NUL>>, LAMBDA b : ~IsBlankByte(b)) - 1)

-----------------------------------------------------------------------------
(* strict_crlf_line_content_end_from, from line to line: the lines before  *)
(* the first that does not end in CRLF, and the bytes from there on.       *)
SplitLines(data) ==
  LET step(s, b) ==
        CASE s.bad -> [s EXCEPT !.rest = Append(@, b)]
          [] ~s.bad /\ b = LF /\ s.rest # <<>> /\ Last(s.rest) = CR ->
               [s EXCEPT !.lines = Append(@, Front(s.rest)), !.rest = <<>>]
          [] OTHER -> [s EXCEPT !.rest = Append(@, b), !.bad = b = LF \/ (s.rest # <<>> /\ Last(s.rest) = CR)]
  IN  FoldLeft(step, [lines |-> <<>>, rest |-> <<>>, bad |-> FALSE], data)

JoinLines(lines) == FlattenSeq([i \in DOMAIN lines |-> lines[i] \o CRLF])

IsFold(line) == line # <<>> /\ IsBlankByte(line[1])

IsHeaderLine(line) == line # <<>> /\ ~IsFold(line)

FirstError(errors) ==
  LET i == SelectInSeq(errors, LAMBDA e : e # "none") IN IF i = 0 THEN "none" ELSE errors[i]

(* validate_headers, line i.  A bare "name:" may go on in a folded line.   *)
HeaderLineError(split, i) ==
  LET line  == split.lines[i]
      next  == IF i < Len(split.lines) THEN split.lines[i + 1] \o CRLF ELSE split.rest
      colon == IndexOf(COLON, line)
  IN  CASE line = <<>> -> "none"
        [] IsFold(line) /\ i = 1 -> "LeadingFold"
        [] IsFold(line) /\ i # 1 -> IF TrimBlanks(line) = <<>> THEN "EmptyFold"
                                    ELSE IF NUL \in ToSet(line) THEN "InvalidContent" ELSE "none"
        [] IsHeaderLine(line) ->
             IF colon = 0 THEN "MissingColon"
             ELSE IF colon = 1 THEN "EmptyName"
             ELSE IF ToSet(Before(line, colon - 1)) \cap {SP, TAB, NUL} # {} THEN "InvalidName"
             ELSE IF colon = Len(line) THEN IF StartsWith(next, <<SP>>) THEN "none" ELSE "MissingSpaceAfterColon"
             ELSE IF line[colon + 1] # SP THEN "MissingSpaceAfterColon"
             ELSE IF NUL \in ToSet(After(line, colon + 1)) THEN "InvalidContent" ELSE "none"

ValidateHeaders(data) ==
  LET split == SplitLines(data)
      error == FirstError([i \in DOMAIN split.lines |-> HeaderLineError(split, i)])
  IN  IF error # "none" THEN error
      ELSE IF split.rest # <<>> THEN "BufferTooShort"
      ELSE IF \A i \in DOMAIN split.lines : ~IsHeaderLine(split.lines[i]) THEN "MissingHeader" ELSE "none"

(* HeaderTransformation and unfold_header_continuations, on lines          *)
(* validate_headers accepted.                                              *)
Unfold(lines) ==
  LET step(done, line) ==
        IF IsFold(line) THEN Append(Front(done), Last(done) \o <<SP>> \o TrimBlanks(line)) ELSE Append(done, line)
  IN  FoldLeft(step, <<>>, lines)

(* HeaderIter, on the unfolded lines.                                      *)
Headers(lines) ==
  LET pair(line) == [name |-> Before(line, IndexOf(COLON, line) - 1), value |-> TrimBlanks(After(line, IndexOf(COLON, line)))]
      named == SelectSeq(lines, IsHeaderLine)
  IN  [i \in DOMAIN named |-> pair(named[i])]

(* Headers::get: the first header of that name, whatever its case.         *)
Get(lines, name) ==
  LET same == {i \in DOMAIN Headers(lines) : LowerCase(Headers(lines)[i].name) = LowerCase(name)}
  IN  IF same = {} THEN {} ELSE {Headers(lines)[Least(same)].value}

-----------------------------------------------------------------------------
(* validate_body_content.                                                  *)
ValidateBody(data) ==
  LET split == SplitLines(data)
  IN  IF \/ NUL \in ToSet(data) \/ split.rest # <<>>
         \/ \E i \in DOMAIN split.lines : StartsWith(split.lines[i], <<DOT>>) /\ ~StartsWith(split.lines[i], <<DOT, DOT>>)
      THEN "InvalidBody" ELSE "none"

(* unstuff_known_dot_lines: the byte after a LF, or the first, may be a    *)
(* stuffing dot.                                                           *)
Unstuff(data) ==
  LET step(s, b) == IF s.start /\ b = DOT THEN [s EXCEPT !.start = FALSE]
                    ELSE [out |-> Append(s.out, b), start |-> b = LF]
  IN  FoldLeft(step, [out |-> <<>>, start |-> TRUE], data).out

Failed(error) == [error |-> error, headers |-> {}, body |-> {}, content |-> <<>>]

Parsed(headers, body, content) == [error |-> "none", headers |-> headers, body |-> body, content |-> content]

(* validate_article_content, then ArticleLayout::materialize.              *)
ParseArticle(content) ==
  LET blank   == FindEnd(content, CRLF \o CRLF)
      headers == Before(content, blank - 2)
      body    == After(content, blank)
  IN  IF blank = 0 THEN Failed("MissingSeparator")
      ELSE IF ValidateHeaders(headers) # "none" THEN Failed(ValidateHeaders(headers))
      ELSE IF ValidateBody(body) # "none" THEN Failed(ValidateBody(body))
      ELSE Parsed({Unfold(SplitLines(headers).lines)}, {Unstuff(body)}, headers \o CRLF \o body)

(* validate_head_content.                                                  *)
ParseHead(content) ==
  IF FindEnd(content, CRLF \o CRLF) # 0 THEN Failed("UnexpectedBody")
  ELSE IF ValidateHeaders(content) # "none" THEN Failed(ValidateHeaders(content))
  ELSE Parsed({Unfold(SplitLines(content).lines)}, {}, content)

(* validate_body_content of FramedArticle.                                 *)
ParseBody(content) ==
  IF ValidateBody(content) # "none" THEN Failed(ValidateBody(content)) ELSE Parsed({}, {Unstuff(content)}, content)

(* validate_stat_content.                                                  *)
ParseStat(content) == IF content # <<>> THEN Failed("UnexpectedBody") ELSE Parsed({}, {}, <<>>)

(* validate_for_status_with_first_line.                                    *)
ParseContent(status, content) ==
  CASE status = 220 -> ParseArticle(content)
    [] status = 221 -> ParseHead(content)
    [] status = 222 -> ParseBody(content)
    [] status = 223 -> ParseStat(content)

-----------------------------------------------------------------------------
(* ResponseFrame::parse after the status line: what the frame takes of the *)
(* text, and {} while the block has no end.                                *)
Frame(status, text) ==
  LET end == DotTerminatedBlockEnd(text, 0)
  IN  IF status = 223 THEN {[consumed |-> 0, content |-> <<>>]}
      ELSE IF end = 0 THEN {}
      ELSE {[consumed |-> end, content |-> Before(text, end - Len(DOT_TERMINATOR))]}

(* Fault: the block of no lines is not looked for.                         *)
Full_FindArticleContentEnd(text) == FindTerminatorContentEnd(text, 0)

FindArticleContentEnd(text) ==
  IF StartsWith(text, DOT_TERMINATOR) THEN {0} ELSE FindTerminatorContentEnd(text, 0)

(* compatibility_content_end: what is wrong with a block that has no end.  *)
UnendedError(status, text) ==
  LET blank  == FindEnd(text, CRLF \o CRLF)
      broken == ValidateHeaders(Before(text, blank - 2))
  IN  CASE status = 220 -> IF blank = 0 THEN "MissingSeparator" ELSE IF broken # "none" THEN broken ELSE "MissingTerminator"
        [] status = 221 -> IF blank # 0 THEN "UnexpectedBody" ELSE "MissingTerminator"
        [] status = 222 -> "MissingTerminator"

(* parse_compatibility_response.                                           *)
Compatibility(status, text) ==
  LET ends == IF status = 223 THEN {Len(text)} ELSE FindArticleContentEnd(text)
  IN  IF ends = {} THEN Failed(UnendedError(status, text))
      ELSE ParseContent(status, Before(text, Least(ends)))

(* Article::parse after the first line: a frame that is the whole buffer   *)
(* is parsed once; everything else takes the compatibility path.           *)
ArticleParse(status, text) ==
  LET whole == {ParseContent(status, f.content) : f \in {g \in Frame(status, text) : g.consumed = Len(text)}}
  IN  IF \E a \in whole : a.error = "none" THEN CHOOSE a \in whole : TRUE ELSE Compatibility(status, text)

-----------------------------------------------------------------------------
(* The server.  append_dot_terminator follows output that ends a line.     *)
StuffLine(line) == IF StartsWith(line, <<DOT>>) THEN <<DOT>> \o line ELSE line

(* append_dot_stuffed_body: an unended last line goes out as it is.        *)
AppendDotStuffed(body) ==
  LET split == SplitLines(body)
  IN  JoinLines([i \in DOMAIN split.lines |-> StuffLine(split.lines[i])]) \o split.rest

AppendDotTerminator(output) ==
  (IF output = <<>> \/ IsSuffix(CRLF, output) THEN output ELSE output \o CRLF) \o DOT_TERMINATOR

(* build_stored_article_response for HEAD and BODY, of a parsed article.   *)
StoredHead(article) == AppendDotTerminator(JoinLines(CHOOSE h \in article.headers : TRUE))

StoredBody(article) == AppendDotTerminator(AppendDotStuffed(CHOOSE b \in article.body : TRUE))

-----------------------------------------------------------------------------
(* The client's transfer.                                                  *)

PayloadStep(s, b) ==
  CASE b = LF /\ s.cr -> [s EXCEPT !.cr = FALSE]
    [] b \in {CR, LF} /\ ~(b = LF /\ s.cr) -> [lines |-> Append(s.lines, s.line), line |-> <<>>, cr |-> b = CR]
    [] OTHER -> [s EXCEPT !.line = Append(@, b), !.cr = FALSE]

(* crlf_normalized_payload_lines: CR, LF and CRLF each end a line.         *)
PayloadLines(payload) ==
  LET all == FoldLeft(PayloadStep, [lines |-> <<>>, line |-> <<>>, cr |-> FALSE], payload)
  IN  IF all.line = <<>> THEN all.lines ELSE Append(all.lines, all.line)

(* write_transfer_request_wire after the command line.                     *)
TransferBlock(payload) ==
  LET lines == PayloadLines(payload)
  IN  JoinLines([i \in DOMAIN lines |-> StuffLine(lines[i])]) \o DOT_TERMINATOR

-----------------------------------------------------------------------------
VARIABLES
  status,  \* of the response
  text,    \* its bytes after the status line
  pieces,  \* how many pieces they are
  article  \* what Article::parse made of them, {} before

vars == <<status, text, pieces, article>>

Init == status \in 220 .. 223 /\ text = <<>> /\ pieces = 0 /\ article = {}

Receive ==
  /\ article = {} /\ pieces < MaxPieces
  /\ \E p \in Pieces : text' = text \o p
  /\ pieces' = pieces + 1
  /\ UNCHANGED <<status, article>>

Parse ==
  /\ article = {}
  /\ article' = {ArticleParse(status, text)}
  /\ UNCHANGED <<status, text, pieces>>

Next == Receive \/ Parse

Spec == Init /\ [][Next]_vars

-----------------------------------------------------------------------------
(* A response that is exactly one frame is accepted, refused and split the *)
(* same by the framed parser and by the compatibility parser behind it     *)
(* ("on the same framed-layout validation path"), and an accepted article  *)
(* covers the whole content of its frame (content_range).                  *)
PathsAgree ==
  \A a \in article : \A f \in Frame(status, text) : f.consumed = Len(text) =>
    /\ Compatibility(status, text) = ParseContent(status, f.content)
    /\ a = Compatibility(status, text)
    /\ a.error = "none" => a.content = f.content

(* Bytes after the terminator never change an article, its headers, its    *)
(* body or its error: "The compatibility entry point still accepts a       *)
(* packed buffer" (parse_compatibility_response).                          *)
PackedIgnored ==
  \A a \in article : \A f \in Frame(status, text) : status # 223 => a = ArticleParse(status, Before(text, f.consumed))

NoBlanks(bytes) == SelectSeq(bytes, LAMBDA b : ~IsBlankByte(b))

(* The bytes of line i and of the folded lines that follow it.             *)
FoldedText(lines, i) ==
  LET next == {j \in i + 1 .. Len(lines) : ~IsFold(lines[j])}
      end  == IF next = {} THEN Len(lines) ELSE Least(next) - 1
  IN  NoBlanks(FlattenSeq(SubSeq(lines, i, end)))

(* Each header line of an accepted block is one header of the iterator, in *)
(* the order sent, and its name and value hold every byte of the line and  *)
(* of the lines folded under it; get finds the first header of a name.     *)
HeadersExact ==
  \A a \in article : \A lines \in a.headers :
    LET sent    == SplitLines(a.content).lines
        block   == IF status = 221 THEN sent ELSE SubSeq(sent, 1, SelectInSubSeq(sent, 2, Len(sent), LAMBDA l : l = <<>>) - 1)
        starts  == SelectSeq([i \in DOMAIN block |-> i], LAMBDA i : IsHeaderLine(block[i]))
        headers == Headers(lines)
    IN  /\ Len(headers) = Len(starts)
        /\ \A i \in DOMAIN headers :
             /\ NoBlanks(headers[i].name \o <<COLON>> \o headers[i].value) = FoldedText(block, starts[i])
             /\ \E j \in 1 .. i : /\ LowerCase(headers[j].name) = LowerCase(headers[i].name)
                                  /\ Get(lines, headers[i].name) = {headers[j].value}

(* The HEAD and BODY answers the server builds from a stored ARTICLE       *)
(* response are accepted by the client and say what the ARTICLE says, dots *)
(* and folded lines included (build_stored_article_response), if the block *)
(* starts with a header line.                                              *)
StoredAgree ==
  \A a \in article : status = 220 /\ a.error = "none" /\ ~StartsWith(text, CRLF) =>
    \A head \in {ArticleParse(221, StoredHead(a))}, body \in {ArticleParse(222, StoredBody(a))} :
      /\ head.error = "none" /\ head.headers = a.headers
      /\ body.error = "none" /\ body.body = a.body

PayloadLine(i) ==
  Len(SelectSeq([j \in 1 .. i - 1 |-> j], LAMBDA j : text[j] = CR \/ (text[j] = LF /\ ~(j > 1 /\ text[j - 1] = CR))))

(* Any bytes at all, sent as the article of a transfer, are one block that *)
(* ends where the transfer ends, and its reader gets the payload's lines   *)
(* back (write_transfer_request_wire).                                     *)
TransferExact ==
  status = 222 /\ article = {} /\ NUL \notin ToSet(text) =>
    LET sent(k) == SelectSeq([i \in DOMAIN text |-> IF PayloadLine(i) = k THEN text[i] ELSE LF], LAMBDA b : b \notin {CR, LF})
        count == PayloadLine(Len(text) + 1) + IF text = <<>> \/ Last(text) \in {CR, LF} THEN 0 ELSE 1
    IN  \A block \in {TransferBlock(text)} :
          /\ DotTerminatedBlockEnd(block, 0) = Len(block)
          /\ \A received \in {ArticleParse(222, block)} :
               /\ received.error = "none"
               /\ \E b \in received.body : SplitLines(b).lines = [k \in 1 .. count |-> sent(k - 1)]
=============================================================================
