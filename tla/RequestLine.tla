----------------------------- MODULE RequestLine -----------------------------
(***************************************************************************)
(* What a line is taken for: RequestLine::parse (src/protocol.rs),         *)
(* parse_command_line with the argument helpers of the mock server's       *)
(* handlers, and parse_session_line for the lines of a --session script    *)
(* (src/lib.rs).                                                           *)
(***************************************************************************)
EXTENDS RequestForms

CONSTANT Files \* the words that name a file which can be read

MaxLine == 512      \* MAX_INITIAL_RESPONSE_LINE_BYTES

MaxArgBytes == 497  \* MAX_COMMAND_ARGUMENT_BYTES

MaxSaslLine == 4096 \* MAX_AUTHINFO_SASL_COMMAND_LINE_BYTES

-----------------------------------------------------------------------------
(* RequestLine::parse.  The arguments have no blanks at either end.        *)
One(args, Valid(_)) == Len(args) = 1 /\ Valid(args[1])

Keeping(kind, ok) == IF ok THEN kind ELSE "Unknown"

IsDateTime(words) ==
  /\ Len(words) \in {2, 3} /\ IsNntpDate(words[1]) /\ IsNntpTime(words[2])
  /\ Len(words) = 3 => Same(words[3], "GMT")

NumbersOnly_ClassifyHeaderQuery(t) ==
  /\ Len(t) \in {1, 2} /\ IsHeaderName(t[1])
  /\ Len(t) = 2 => IsListGroupRange(t[2])

ClassifyHeaderQuery(t) ==
  /\ Len(t) \in {1, 2} /\ IsHeaderName(t[1])
  /\ Len(t) = 2 => IsArticleSelector(t[2])

ClassifyListGroup(t) ==
  /\ Len(t) <= 2
  /\ t # <<>> => IsGroupName(t[1])
  /\ Len(t) = 2 => IsListGroupRange(t[2])

ClassifyDirectCommand(kind, args) ==
  LET t == Tokens(args)
  IN  Keeping(kind,
        CASE kind \in Retrieval -> args = <<>> \/ One(args, IsFetchSelector)
          [] kind = "Group" -> One(args, IsGroupName)
          [] kind = "ListGroup" -> ClassifyListGroup(t)
          [] kind = "Over" -> args = <<>> \/ One(args, IsArticleSelector)
          [] kind = "Xover" -> args = <<>> \/ One(args, IsListGroupRange)
          [] kind \in {"Hdr", "Xhdr"} -> ClassifyHeaderQuery(t)
          [] kind \in {"Ihave", "Check", "TakeThis"} -> One(args, IsMessageId)
          [] kind = "NewGroups" -> IsDateTime(t)
          [] kind = "NewNews" -> t # <<>> /\ IsWildmat(t[1]) /\ IsDateTime(Tail(t))
          [] kind = "Capabilities" -> args = <<>> \/ One(t, IsKeyword)
          [] kind \in {"Date", "Help", "Last", "Next", "Post", "Quit", "StartTls"} -> args = <<>>)

ClassifyAuthInfoSasl(t) ==
  Keeping("AuthInfo",
    /\ Len(t) \in {2, 3} /\ Same(t[1], "SASL") /\ IsSaslMechanism(t[2])
    /\ Len(t) = 3 => IsSaslInitialResponse(t[3]))

ClassifyAuthInfo(args) ==
  LET value == SkipBlanks(Tail(args))
  IN  CASE Len(args) < 2 -> ClassifyAuthInfoSasl(Tokens(args))
        [] Len(args) >= 2 /\ Same(args[1], "USER") /\ IsAuthInfoValue(value) -> "AuthInfoUser"
        [] Len(args) >= 2 /\ Same(args[1], "PASS") /\ IsAuthInfoValue(value) -> "AuthInfoPass"
        [] OTHER -> ClassifyAuthInfoSasl(Tokens(args))

ClassifySubcommand(t) ==
  IF t = <<>> THEN "List"
  ELSE IF t[1].text \notin DOMAIN ListSubcommands THEN "Unknown"
  ELSE LET kind == ListSubcommands[t[1].text]
       IN  Keeping(kind,
             CASE kind \in {"ListActive", "ListActiveTimes", "ListNewsgroups"} ->
                    Len(t) = 1 \/ (Len(t) = 2 /\ IsWildmat(t[2]))
               [] kind = "ListHeaders" -> Len(t) = 1 \/ (Len(t) = 2 /\ t[2].text \in {"MSGID", "RANGE"})
               [] OTHER -> Len(t) = 1)

ClassifyMode(args) ==
  CASE One(args, LAMBDA w : Same(w, "READER")) -> "ModeReader"
    [] One(args, LAMBDA w : Same(w, "STREAM")) -> "ModeStream"
    [] OTHER -> "Unknown"

ClassifyRequestKind(verb, args) ==
  IF verb.text \notin DOMAIN Verbs THEN "Unknown"
  ELSE CASE verb.text = "LIST" -> ClassifySubcommand(Tokens(args))
         [] verb.text = "AUTHINFO" -> ClassifyAuthInfo(args)
         [] verb.text = "MODE" -> ClassifyMode(args)
         [] OTHER -> ClassifyDirectCommand(Verbs[verb.text], args)

LineBytes(line) == WordsLen(line) + 2

Has(line, is) == \E i \in DOMAIN line : line[i].is = is

(* strip_complete_crlf_line and command_spacing_is_invalid.                *)
WellSpaced(line) ==
  ~Has(line, "bare") /\ ~Has(line, "feed") /\ StripBlanks(line) # <<>> /\ ~IsBlank(line[1])

Parse(line) ==
  LET stripped == StripBlanks(line)
      args     == SkipBlanks(Tail(stripped))
      kind     == ClassifyRequestKind(line[1], args)
      long     == LineBytes(line) > MaxLine \/ WordsLen(args) > MaxArgBytes
  IN  IF LineBytes(line) > MaxSaslLine \/ ~WellSpaced(line) THEN [kind |-> "Unknown", verb |-> Blank, args |-> <<>>]
      ELSE [kind |-> IF long /\ kind # "AuthInfo" THEN "Unknown" ELSE kind, verb |-> line[1], args |-> args]

-----------------------------------------------------------------------------
(* parse_command_line.                                                     *)
LineIsAuthInfoSasl(line) ==
  LET t == Tokens(line) IN Len(t) >= 2 /\ Same(t[1], "AUTHINFO") /\ Same(t[2], "SASL")

(* A line with a CR or LF of its own keeps its CRLF and its last blanks.   *)
CommandArgumentLen(line) ==
  LET words == IF Has(line, "bare") THEN line ELSE StripBlanks(line)
  IN  IF Len(words) < 2 THEN 0 ELSE WordsLen(SkipBlanks(Tail(words))) + (IF Has(line, "bare") THEN 2 ELSE 0)

CommandLineIsTooLong(line) ==
  (LineBytes(line) > MaxLine \/ CommandArgumentLen(line) > MaxArgBytes) /\ ~LineIsAuthInfoSasl(line)

Base64Error(p) ==
  LET t == Tokens(p.args)
  IN  /\ Same(p.verb, "AUTHINFO") /\ Len(t) = 3 /\ Same(t[1], "SASL")
      /\ IsSaslMechanism(t[2]) /\ ~IsSaslBase64(t[3])

(* command_line_has_valid_generic_syntax.                                  *)
GenericSyntax(line) ==
  /\ WellSpaced(line) /\ IsKeyword(line[1])
  /\ \A i \in DOMAIN line : IsBlank(line[i]) \/ i = 1 \/ IsPCharToken(line[i])

IsKnownCommandLine(line) == line[1].text \in DOMAIN Verbs

SyntaxError(line) == IsKnownCommandLine(line) \/ ~GenericSyntax(line)

Command(kind, articleId, messageId, syntax, base64, long) ==
  [kind |-> kind, articleId |-> articleId, messageId |-> messageId, syntax |-> syntax, base64 |-> base64, long |-> long]

SlowParse(line) ==
  LET p == Parse(line)
  IN  Command(p.kind,
        {w \in ToSet(p.args) : Len(p.args) = 1 /\ w.is \in Digits},
        {w \in ToSet(p.args) : Len(p.args) = 1 /\ IsMessageId(w)},
        p.kind = "Unknown" /\ SyntaxError(line), Base64Error(p), CommandLineIsTooLong(line))

(* parse_fast_article_message_id_command.                                  *)
FastLine(line) == Len(line) = 2 /\ line[1] = Verb("ARTICLE") /\ IsMessageId(line[2])

FastParse(line) == Command("Article", None, {line[2]}, FALSE, FALSE, FALSE)

ParseCommandLine(line) == IF FastLine(line) THEN FastParse(line) ELSE SlowParse(line)

(* The answer to an unknown line.                                          *)
UnknownStatus(c) ==
  CASE ~c.syntax -> 500 [] c.syntax /\ c.long -> 501 [] c.syntax /\ ~c.long /\ c.base64 -> 504 [] OTHER -> 501

(* command_args: what a handler sees, blanks before the CRLF included.     *)
CommandArgs(line) == SkipBlanks(Tail(line))

Whole(args) == IF Len(args) = 1 THEN {args[1]} ELSE None

NthArg(args, i) == IF Len(Tokens(args)) >= i THEN {Tokens(args)[i]} ELSE None

(* list_variant_wildmat_args.                                              *)
ListWildmat(args) == Whole(SkipBlanks(Tail(SkipBlanks(args))))

(* What the handler of each kind takes from the line: the words by name.   *)
HandlerView(c, line) ==
  LET args == CommandArgs(line)
  IN  CASE c.kind \in Retrieval -> c.articleId \cup c.messageId
        [] c.kind = "Group" -> Whole(args)
        [] c.kind \in {"Over", "Xover"} -> Whole(args)
        [] c.kind = "ListGroup" -> {<<NthArg(args, 1), NthArg(args, 2)>>}
        [] c.kind \in {"Hdr", "Xhdr"} -> {<<NthArg(args, 1), NthArg(args, 2)>>}
        [] c.kind = "NewGroups" -> {<<NthArg(args, 1), NthArg(args, 2)>>}
        [] c.kind = "NewNews" -> {<<NthArg(args, 1), NthArg(args, 2), NthArg(args, 3)>>}
        [] c.kind \in {"ListActive", "ListActiveTimes", "ListNewsgroups"} -> ListWildmat(args)
        [] OTHER -> None

-----------------------------------------------------------------------------
(* parse_session_line: the request a line of a script stands for.  A       *)
(* result is a set of at most one step [request, article]; the article is  *)
(* the file the line names.  The words of a script hold no CR and no form  *)
(* feed, which split_whitespace takes for blanks.                          *)
Step(r, article) == [request |-> r, article |-> article]

(* A constructor of Request and the validation of its arguments.           *)
Built(kind, args, ok) == IF ok THEN {Step(Request(kind, args), None)} ELSE {}

WithId(kind, w) == Built(kind, <<WrapId(w)>>, IsMessageId(WrapId(w)))

LooksLikeId(w) == w.is \in {"id", "longid", "addr"}

(* session_article_command.                                                *)
SessionArticle(kind, rest) ==
  CASE rest = <<>> -> Built(kind, <<>>, TRUE)
    [] Len(rest) = 1 /\ LooksLikeId(rest[1]) -> WithId(kind, rest[1])
    [] Len(rest) = 1 /\ ~LooksLikeId(rest[1]) -> Built(kind, rest, IsFetchSelector(rest[1]))
    [] OTHER -> {}

(* session_list_command.                                                   *)
SessionList(rest) ==
  CASE rest = <<>> -> Built("List", <<>>, TRUE)
    [] rest # <<>> /\ rest[1].text \in DOMAIN ListSubcommands ->
         LET kind == ListSubcommands[rest[1].text]
         IN  Built(kind, Tail(rest),
               \/ Len(rest) = 1
               \/ Len(rest) = 2 /\ kind \in {"ListActive", "ListActiveTimes", "ListNewsgroups"} /\ IsWildmat(rest[2]))
    [] OTHER -> {}

(* session_listgroup_command.                                              *)
SessionListGroup(rest) ==
  Built("ListGroup", rest,
    Len(rest) <= 2 /\ (rest # <<>> => IsGroupName(rest[1])) /\ (Len(rest) = 2 => IsListGroupRange(rest[2])))

(* The date and time of NEWGROUPS and NEWNEWS; GMT is a flag of the request. *)
IsSessionTime(rest) ==
  Len(rest) \in {2, 3} /\ IsNntpDate(rest[1]) /\ IsNntpTime(rest[2]) /\ (Len(rest) = 3 => Same(rest[3], "GMT"))

TimeArgs(rest) == SubSeq(rest, 1, 2) \o (IF Len(rest) = 3 THEN <<Gmt>> ELSE <<>>)

(* session_newgroups_command and session_newnews_command.                  *)
SessionNewGroups(rest) == Built("NewGroups", IF Len(rest) \in {2, 3} THEN TimeArgs(rest) ELSE <<>>, IsSessionTime(rest))

SessionNewNews(rest) ==
  IF Len(rest) \notin {3, 4} THEN {}
  ELSE Built("NewNews", <<rest[1]>> \o TimeArgs(Tail(rest)), IsWildmat(rest[1]) /\ IsSessionTime(Tail(rest)))

Squeezed_SessionAuthInfo(line) ==
  LET rest == SkipBlanks(Tail(line))
      kind == IF Same(rest[1], "USER") THEN "AuthInfoUser" ELSE "AuthInfoPass"
  IN  IF Len(rest) < 2 \/ rest[1].text \notin {"USER", "PASS"} THEN {}
      ELSE Built(kind, Tokens(Tail(rest)), IsAuthInfoValue(Tokens(Tail(rest))))

(* parse_session_authinfo_line: the value keeps the blanks inside it.      *)
SessionAuthInfo(line) ==
  LET rest  == SkipBlanks(Tail(line))
      value == SkipBlanks(Tail(rest))
      kind  == IF Same(rest[1], "USER") THEN "AuthInfoUser" ELSE "AuthInfoPass"
  IN  IF Len(rest) < 2 \/ rest[1].text \notin {"USER", "PASS"} THEN {}
      ELSE Built(kind, value, IsAuthInfoValue(value))

(* A line that names a file: the article is read when the line is parsed.  *)
WithFile(step, w) == IF w \in Files THEN {[s EXCEPT !.article = {w}] : s \in step} ELSE {}

SessionFile(verb, rest) ==
  CASE verb = "POST-ARTICLE" /\ Len(rest) = 1 -> WithFile(Built("Post", <<>>, TRUE), rest[1])
    [] verb = "IHAVE-ARTICLE" /\ Len(rest) = 2 -> WithFile(WithId("Ihave", rest[1]), rest[2])
    [] verb = "TAKETHIS" /\ Len(rest) = 2 -> WithFile(WithId("TakeThis", rest[1]), rest[2])
    [] OTHER -> {}

(* OVER, XOVER, HDR, XHDR and CAPABILITIES.                                *)
SessionOptional(kind, rest, Valid(_)) ==
  Built(kind, rest, rest = <<>> \/ (Len(rest) = 1 /\ Valid(rest[1])))

SessionHeader(kind, rest) ==
  Built(kind, rest, Len(rest) \in {1, 2} /\ IsHeaderName(rest[1]) /\ (Len(rest) = 2 => IsArticleSelector(rest[2])))

(* parse_session_line, on a line without blanks at its ends.               *)
ParseSessionLine(line) ==
  LET t == Tokens(line)  verb == t[1].text  rest == Tail(t)
  IN  CASE verb = "MODE" -> Built("ModeReader", <<>>, Len(rest) = 1 /\ Same(rest[1], "READER"))
        [] verb = "AUTHINFO" -> SessionAuthInfo(line)
        [] verb \in {"POST-ARTICLE", "IHAVE-ARTICLE", "TAKETHIS"} -> SessionFile(verb, rest)
        [] verb = "CHECK" -> IF Len(rest) = 1 THEN WithId("Check", rest[1]) ELSE {}
        [] verb = "GROUP" -> Built("Group", rest, Len(rest) = 1 /\ IsGroupName(rest[1]))
        [] verb \in {"ARTICLE", "BODY", "HEAD", "STAT"} -> SessionArticle(Verbs[verb], rest)
        [] verb \in {"LAST", "NEXT", "DATE", "HELP", "QUIT"} -> Built(Verbs[verb], <<>>, rest = <<>>)
        [] verb = "LIST" -> SessionList(rest)
        [] verb = "LISTGROUP" -> SessionListGroup(rest)
        [] verb = "OVER" -> SessionOptional("Over", rest, IsArticleSelector)
        [] verb = "XOVER" -> SessionOptional("Xover", rest, IsListGroupRange)
        [] verb \in {"HDR", "XHDR"} -> SessionHeader(Verbs[verb], rest)
        [] verb = "CAPABILITIES" -> SessionOptional("Capabilities", rest, IsKeyword)
        [] verb = "NEWGROUPS" -> SessionNewGroups(rest)
        [] verb = "NEWNEWS" -> SessionNewNews(rest)
        [] OTHER -> {}
==============================================================================
