---------------------------- MODULE CommandLine ----------------------------
(***************************************************************************)
(* A command from the client that builds it to the handler that runs it:   *)
(* a request of RequestForms written as a line, and what RequestLine makes  *)
(* of that line.  A line also comes from elsewhere: any words after a      *)
(* verb, in either case, with blanks added anywhere.                       *)
(***************************************************************************)
EXTENDS RequestLine

CONSTANTS
  ArgWords, \* the words arguments are made of
  MaxArgs,  \* words after the verb of a typed line
  MaxBlanks \* blanks added to a line

-----------------------------------------------------------------------------
VARIABLES
  request, \* the request the line was built from, if any
  base,    \* the line before blanks were added
  line,    \* the line that reaches the server
  command  \* what the server made of it, if it has read it

vars == <<request, base, line, command>>

Init == request = None /\ base = <<>> /\ line = <<>> /\ command = None

(* Request::write_wire_to.                                                 *)
Build ==
  /\ base = <<>>
  /\ \E r \in Requests(ArgWords) : request' = {r} /\ base' = WriteWire(r) /\ line' = WriteWire(r)
  /\ UNCHANGED command

(* Some other client's line.                                               *)
Type ==
  /\ base = <<>>
  /\ \E verb \in {Verb(v) : v \in DOMAIN Verbs} \cup ArgWords, lower \in BOOLEAN, args \in SeqOf(ArgWords, MaxArgs) :
       /\ base' = <<IF lower THEN Lower(verb) ELSE verb>> \o args /\ line' = base'
  /\ UNCHANGED <<request, command>>

AddBlank ==
  /\ base # <<>> /\ command = None /\ Len(line) < Len(base) + MaxBlanks
  /\ \E i \in 1 .. Len(line) + 1 : line' = InsertAt(line, i, Blank)
  /\ UNCHANGED <<request, base, command>>

(* parse_command_line.                                                     *)
Receive ==
  /\ line # <<>> /\ command = None
  /\ command' = {ParseCommandLine(line)}
  /\ UNCHANGED <<request, base, line>>

Next == Build \/ Type \/ AddBlank \/ Receive

Spec == Init /\ [][Next]_vars

-----------------------------------------------------------------------------
Fits(words) == LineBytes(words) <= MaxLine /\ CommandArgumentLen(words) <= MaxArgBytes

(* A request the client could build is never taken by the server for one   *)
(* of another kind.  It is refused only with 501, and only when the line   *)
(* is too long or the user name or password holds nothing but blanks or    *)
(* holds a form feed (Request::write_wire_to against RequestLine::parse).  *)
RoundTrip ==
  \A r \in request, c \in command : line = base =>
    \/ c.kind = r.kind
    \/ /\ c.kind = "Unknown" /\ UnknownStatus(c) = 501
       /\ \/ ~Fits(line)
          \/ r.kind \in {"AuthInfoUser", "AuthInfoPass"} /\ (Tokens(r.args) = <<>> \/ Has(r.args, "feed"))

(* The words the handlers take from a line the client wrote are the ones   *)
(* the request was built with: the accessors of Request on one side,       *)
(* command_args and the argument helpers of src/lib.rs on the other.       *)
ArgumentsAgree ==
  \A r \in request, c \in command : line = base /\ c.kind = r.kind =>
    LET view == HandlerView(c, line)
    IN  CASE r.kind \in Retrieval -> view = ArticleRefOf(r)
          [] r.kind \in {"Over", "Xover"} -> view = Arg(r, {r.kind}, 1) /\ (r.kind = "Over" => view = OverviewSelector(r))
          [] r.kind = "Group" -> view = GroupNameOf(r)
          [] r.kind = "ListGroup" -> view = {<<GroupNameOf(r), ListGroupRangeArg(r)>>}
          [] r.kind \in {"Hdr", "Xhdr"} -> \A q \in HeaderQuery(r) : view = {<<Arg(r, {r.kind}, 1), Arg(r, {r.kind}, 2)>>}
          [] r.kind = "NewGroups" -> \A t \in DiscoveryDatetime(r) : view = {<<{t[1]}, {t[2]}>>}
          [] r.kind = "NewNews" -> \A t \in DiscoveryDatetime(r) : view = {<<WildmatOf(r), {t[1]}, {t[2]}>>}
          [] r.kind \in {"ListActive", "ListActiveTimes", "ListNewsgroups"} -> \A v \in ListVariantOf(r) : v = <<c.kind, view>>
          [] r.kind \in {"AuthInfoUser", "AuthInfoPass"} ->
               \A v \in AuthInfoOf(r) : SkipBlanks(Tail(Parse(line).args)) = SkipBlanks(StripBlanks(v))
          [] OTHER -> c.messageId = MessageIdOf(r)

(* Blanks after the verb never change what a line is taken for, unless     *)
(* they make it too long (skip_command_ws and strip_command_eol_ws).       *)
SpacingInvisible ==
  \A c \in command : ~IsBlank(line[1]) =>
    \/ c.kind = ParseCommandLine(base).kind
    \/ c.kind = "Unknown" /\ c.long /\ Len(line) > Len(base)

(* The short cut for ARTICLE <id> answers every line it takes as the       *)
(* general parser would (parse_fast_article_message_id_command).           *)
FastPathAgrees == \A c \in command : FastLine(line) => c = SlowParse(line)

(* An unknown line gets 504 only when a SASL response is malformed, and    *)
(* 500 only when it is well formed with a verb that no descriptor has      *)
(* (the answers to RequestKind::Unknown in src/lib.rs).                    *)
RefusalsExplained ==
  \A c \in command : c.kind = "Unknown" =>
    /\ UnknownStatus(c) = 504 => LET t == Tokens(line) IN Len(t) = 4 /\ ~IsSaslInitialResponse(t[4])
    /\ UnknownStatus(c) = 500 => line[1].text \notin DOMAIN Verbs /\ IsKeyword(line[1])
=============================================================================
