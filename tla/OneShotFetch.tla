---------------------------- MODULE OneShotFetch ----------------------------
(***************************************************************************)
(* The one-shot client of src/lib.rs: FetchArgs, validate_fetch_args, and  *)
(* prepare_fetch, which turns the options of the command line into one     *)
(* request before it connects.  An option is a set of at most one value.   *)
(***************************************************************************)
EXTENDS RequestLine, TLC

CONSTANTS
  Values(_),  \* the values an option may be given
  MaxOptions  \* options given beside --request and --gmt

Options ==
  {"message_id", "selector", "group", "header", "wildmat", "date", "time", "auth_value", "capability",
   "article_body", "article_file", "session"}

(* FetchRequestKind.                                                       *)
FetchRequestKinds ==
  {"Article", "Body", "Head", "Stat", "ListActive", "ListActiveTimes", "ListNewsgroups", "ListOverviewFmt",
   "ListHeaders", "ListDistribPats", "Group", "ListGroup", "Last", "Next", "NewGroups", "NewNews", "Post", "Ihave",
   "Check", "TakeThis", "AuthInfoUser", "AuthInfoPass", "StartTls", "Over", "Xover", "Hdr", "Xhdr", "List", "Help",
   "Capabilities", "Date", "ModeReader", "ModeStream", "Quit"}

VARIABLES
  args,     \* FetchArgs
  runs,     \* what run_fetch goes on with: nothing yet, request, session or load
  prepared, \* the PreparedFetch
  error     \* the ClientError

vars == <<args, runs, prepared, error>>

Given(a, option) == a[option] # {}

The(set) == CHOOSE x \in set : TRUE

-----------------------------------------------------------------------------
(* An error, or a step of RequestLine:  [error, step].                     *)
Err(e) == [error |-> e, step |-> {}]

Checked(step, e) == [error |-> IF step = {} THEN e ELSE "none", step |-> step]

(* fetch_message_id_request.                                               *)
FetchMessageId(a, kind) ==
  IF ~Given(a, "message_id") THEN Err("MissingMessageId") ELSE Checked(WithId(kind, The(a.message_id)), "InvalidMessageId")

(* fetch_article_request: a message-id hides a selector.                   *)
FetchArticle(a, kind) ==
  CASE Given(a, "message_id") -> FetchMessageId(a, kind)
    [] ~Given(a, "message_id") /\ Given(a, "selector") ->
         Checked(Built(kind, <<The(a.selector)>>, IsFetchSelector(The(a.selector))), "InvalidArticleSelector")
    [] OTHER -> Checked(Built(kind, <<>>, TRUE), "none")

(* An optional argument: --wildmat, --selector or --capability.            *)
FetchOptional(a, kind, option, Valid(_), e) ==
  IF Given(a, option) THEN Checked(Built(kind, <<The(a[option])>>, Valid(The(a[option]))), e)
  ELSE Checked(Built(kind, <<>>, TRUE), "none")

(* fetch_header_request: the error is the one of the bad argument.         *)
FetchHeader(a, kind) ==
  LET header == The(a.header)  selector == The(a.selector)
  IN  CASE ~Given(a, "header") -> Err("MissingHeaderName")
        [] Given(a, "header") /\ ~IsHeaderName(header) -> Err("InvalidHeaderName")
        [] Given(a, "header") /\ IsHeaderName(header) /\ Given(a, "selector") ->
             Checked(Built(kind, <<header, selector>>, IsArticleSelector(selector)), "InvalidArticleSelector")
        [] OTHER -> Checked(Built(kind, <<header>>, TRUE), "none")

(* fetch_group_request.                                                    *)
FetchGroup(a) ==
  IF ~Given(a, "group") THEN Err("MissingGroupName")
  ELSE Checked(Built("Group", <<The(a.group)>>, IsGroupName(The(a.group))), "InvalidGroupName")

(* fetch_listgroup_request.                                                *)
FetchListGroup(a) ==
  LET group == The(a.group)  range == The(a.selector)
  IN  CASE Given(a, "group") /\ ~IsGroupName(group) -> Err("InvalidGroupName")
        [] Given(a, "group") /\ IsGroupName(group) /\ Given(a, "selector") ->
             Checked(Built("ListGroup", <<group, range>>, IsListGroupRange(range)), "InvalidArticleSelector")
        [] Given(a, "group") /\ IsGroupName(group) /\ ~Given(a, "selector") -> Checked(Built("ListGroup", <<group>>, TRUE), "none")
        [] ~Given(a, "group") /\ Given(a, "selector") -> Err("MissingGroupName")
        [] OTHER -> Checked(Built("ListGroup", <<>>, TRUE), "none")

(* fetch_newgroups_request and fetch_newnews_request.                      *)
FetchSince(a, kind, first) ==
  LET stamp == <<The(a.date), The(a.time)>> \o (IF a.gmt THEN <<Gmt>> ELSE <<>>)
  IN  CASE ~Given(a, "date") -> Err("MissingDate")
        [] Given(a, "date") /\ ~Given(a, "time") -> Err("MissingTime")
        [] OTHER -> Checked(Built(kind, first \o stamp, IsSessionTime(stamp)), "InvalidDiscoveryArguments")

FetchNewNews(a) ==
  CASE ~Given(a, "wildmat") -> Err("MissingWildmat")
    [] Given(a, "wildmat") /\ Given(a, "date") /\ Given(a, "time") /\ ~IsWildmat(The(a.wildmat)) -> Err("InvalidDiscoveryArguments")
    [] OTHER -> FetchSince(a, "NewNews", <<The(a.wildmat)>>)

(* fetch_authinfo_request.                                                 *)
FetchAuthInfo(a, kind) ==
  IF ~Given(a, "auth_value") THEN Err("MissingAuthInfoValue")
  ELSE Checked(Built(kind, The(a.auth_value), IsAuthInfoValue(The(a.auth_value))), "InvalidAuthInfoValue")

(* fetch_request.                                                          *)
FetchRequest(a) ==
  LET kind == The(a.request)
  IN  CASE kind \in Retrieval -> FetchArticle(a, kind)
        [] kind \in {"ListActive", "ListActiveTimes", "ListNewsgroups"} -> FetchOptional(a, kind, "wildmat", IsWildmat, "InvalidWildmat")
        [] kind = "Group" -> FetchGroup(a)
        [] kind = "ListGroup" -> FetchListGroup(a)
        [] kind = "NewGroups" -> FetchSince(a, kind, <<>>)
        [] kind = "NewNews" -> FetchNewNews(a)
        [] kind \in {"Ihave", "Check"} -> FetchMessageId(a, kind)
        [] kind \in {"AuthInfoUser", "AuthInfoPass"} -> FetchAuthInfo(a, kind)
        [] kind = "Over" -> FetchOptional(a, kind, "selector", IsArticleSelector, "InvalidArticleSelector")
        [] kind = "Xover" -> FetchOptional(a, kind, "selector", IsListGroupRange, "InvalidArticleSelector")
        [] kind \in {"Hdr", "Xhdr"} -> FetchHeader(a, kind)
        [] kind = "Capabilities" -> FetchOptional(a, kind, "capability", IsKeyword, "InvalidCapabilityKeyword")
        [] OTHER -> Checked(Built(kind, <<>>, TRUE), "none")

ArticleKinds == {"Post", "Ihave", "TakeThis"}

(* validate_fetch_args.                                                    *)
Conflicting(a) ==
  \/ Given(a, "session") /\ (a.request # {} \/ \E o \in {"capability", "article_body", "article_file"} : Given(a, o))
  \/ Given(a, "article_body") /\ Given(a, "article_file")
  \/ (Given(a, "article_body") \/ Given(a, "article_file")) /\ a.request \cap ArticleKinds = {}
  \/ Given(a, "capability") /\ a.request # {"Capabilities"}

ValidateFetchArgs(a) ==
  IF Conflicting(a) THEN "ConflictingArguments"
  ELSE IF Given(a, "capability") /\ ~IsKeyword(The(a.capability)) THEN "InvalidCapabilityKeyword" ELSE "none"

(* article_bytes_from_args: a file that cannot be read is an error.        *)
Unreadable(a) == Given(a, "article_file") /\ The(a.article_file) \notin Files

ArticleBytes(a) == IF Given(a, "article_file") THEN a.article_file ELSE a.article_body

(* prepare_fetch, after the validation.                                    *)
PrepareFetch(a) ==
  LET article == ArticleBytes(a)  kind == The(a.request)
      built   == IF kind = "Post" THEN Checked(Built(kind, <<>>, TRUE), "none") ELSE FetchMessageId(a, kind)
  IN  CASE Unreadable(a) -> Err("Io")
        [] kind = "TakeThis" /\ article = {} -> Err("MissingArticleBody")
        [] kind \in ArticleKinds /\ article # {} /\ ~Unreadable(a) ->
             [built EXCEPT !.step = {[s EXCEPT !.article = article] : s \in @}]
        [] OTHER -> FetchRequest(a)

-----------------------------------------------------------------------------
Init ==
  /\ \E kind \in {{}} \cup {{k} : k \in FetchRequestKinds}, gmt \in BOOLEAN :
       args = [o \in Options |-> {}] @@ [request |-> kind, gmt |-> gmt]
  /\ runs = "nothing" /\ prepared = {} /\ error = "none"

(* The command line.                                                       *)
Give ==
  /\ runs = "nothing" /\ error = "none"
  /\ Cardinality({o \in Options : Given(args, o)}) < MaxOptions
  /\ \E o \in Options : ~Given(args, o) /\ \E v \in Values(o) : args' = [args EXCEPT ![o] = {v}]
  /\ UNCHANGED <<runs, prepared, error>>

(* run_fetch up to the connection.                                         *)
Run ==
  /\ runs = "nothing" /\ error = "none"
  /\ LET e == ValidateFetchArgs(args)
         p == IF e = "none" /\ ~Given(args, "session") /\ args.request # {} THEN PrepareFetch(args) ELSE Err(e)
     IN  /\ error' = p.error /\ prepared' = p.step
         /\ runs' = CASE p.error # "none" -> "nothing" [] p.error = "none" /\ Given(args, "session") -> "session"
                      [] p.error = "none" /\ ~Given(args, "session") /\ args.request = {} -> "load" [] OTHER -> "request"
  /\ UNCHANGED args

Next == Give \/ Run

Spec == Init /\ [][Next]_vars

-----------------------------------------------------------------------------
(* The one-shot client and a script of one line ask for the same thing:    *)
(* the request prepared from the options, spelled as a script line, is     *)
(* read by parse_session_line as that request with that article.  The      *)
(* exceptions are what --session documents as rejected, and a value of     *)
(* AUTHINFO with blanks at its ends, which a script line cannot hold.      *)
OneShotIsScriptLine ==
  \A s \in prepared :
    LET file  == s.article # {} /\ s.article \subseteq Files
        words == WriteWire(s.request) \o (IF s.article = {} THEN <<>> ELSE <<The(s.article)>>)
        verb  == CASE s.request.kind = "Post" -> Word("POST-ARTICLE", "name", 12)
                   [] s.request.kind = "Ihave" -> Word("IHAVE-ARTICLE", "name", 13) [] OTHER -> words[1]
        line  == StripBlanks(<<verb>> \o Tail(words))
        value == s.request.args
    IN  \/ s.request.kind \in {"StartTls", "ModeStream"}
        \/ s.request.kind \in ArticleKinds /\ ~file
        \/ s.request.kind \in {"AuthInfoUser", "AuthInfoPass"} /\ SkipBlanks(StripBlanks(value)) # value
        \/ ParseSessionLine(line) = {s}

(* The options validate_fetch_args guards are never dropped: when a run    *)
(* goes ahead, an article given is the one that is sent, a capability      *)
(* given is in the request, and no request is skipped for a session.       *)
NothingDropped ==
  runs # "nothing" =>
    /\ args.request # {} => prepared # {} /\ \A s \in prepared : s.request.kind \in args.request
    /\ \A o \in {"article_body", "article_file"} : Given(args, o) => \E s \in prepared : s.article = args[o]
    /\ Given(args, "capability") => \E s \in prepared : s.request.args = <<The(args.capability)>>
    /\ Given(args, "session") => runs = "session"
=============================================================================
