---------------------------- MODULE MCRequestText ----------------------------
(* The text of commands, one question at a time: the command line between  *)
(* client and server, the scripts of --session, the options of the         *)
(* one-shot client, and the client's writers.  part says which one a       *)
(* behaviour is about; the variables of the others are unused.             *)
EXTENDS RequestForms

VARIABLES
  part,
  request, base, line, command,
  script, phase, commands, quit, output, result,
  args, runs, prepared, error,
  batch, todo, failed,
  sent

lineVars   == <<request, base, line, command>>
scriptVars == <<script, phase, commands, quit, output, result>>
fetchVars  == <<args, runs, prepared, error>>
writeVars  == <<batch, todo, failed>>

-----------------------------------------------------------------------------
(* Argument words of every shape.                                          *)
LineShapes == {
  Word("ALT.TEST", "dotted", 8), Word("1", "num", 1), Word("0", "zero", 1), Word("99999999999", "huge", 11),
  Word("1-2", "span", 3), Word("2-", "open", 2), Word("<A@B>", "id", 5), Word("<L@B>", "longid", 251),
  Word("ALT.*", "star", 5), Word("!ALT.*", "negated", 6), Word("20260101", "date", 8), Word("000000", "time", 6),
  Word("=", "equals", 1), Word("A+B/", "base64", 4), Word("SASL", "name", 4), Word("PLAIN", "name", 5),
  Word("USER", "name", 4), Word("NAMES", "ctrl", 5), Word("", "feed", 3), Word("", "bytes", 4), Word("", "bare", 4),
  Word("LONG", "name", 494)}

FewShapes == {
  Word("ALT.TEST", "dotted", 8), Word("1", "num", 1), Word("<A@B>", "id", 5), Word("SASL", "name", 4),
  Word("PLAIN", "name", 5), Word("=", "equals", 1), Word("A+B/", "base64", 4), Word("A", "name", 5),
  Word("", "bytes", 4), Word("LONG", "name", 494)}

(* Every request, and every line of a verb and up to two words with a      *)
(* blank added anywhere.                                                   *)
Line == INSTANCE CommandLine WITH Files <- {}, ArgWords <- LineShapes, MaxArgs <- 2, MaxBlanks <- 1

(* Lines of a verb and up to three words.                                  *)
Typed == INSTANCE CommandLine WITH Files <- {}, ArgWords <- FewShapes, MaxArgs <- 3, MaxBlanks <- 0

-----------------------------------------------------------------------------
File == Word("ART.TXT", "dotted", 7)

Lost == Word("GONE.TXT", "dotted", 8)

ScriptShapes == {
  File, Word("1", "num", 1), Word("99999999999", "huge", 11), Word("1-2", "span", 3), Word("<A@B>", "id", 5), Word("A@B", "addr", 3),
  Word("ALT.*", "star", 5), Word("20260101", "date", 8), Word("000000", "time", 6), Lower(Gmt),
  Word("ACTIVE", "name", 6), Lower(Word("HEADERS", "name", 7)), Word("MSGID", "name", 5), Word("READER", "name", 6),
  Word("STREAM", "name", 6), Word("USER", "name", 4), Word("SASL", "name", 4), Word("", "nul", 1), Word("LONG", "name", 494)}

Heads ==
  {Lower(Verb(v)) : v \in DOMAIN Verbs}
  \cup {Word("POST-ARTICLE", "name", 12), Word("IHAVE-ARTICLE", "name", 13), Word("#", "hash", 1), Word("XYZ", "name", 3)}

(* Verbs that take three words.                                            *)
Taking == {"AUTHINFO", "NEWGROUPS", "NEWNEWS", "HDR", "LIST", "IHAVE-ARTICLE"}

ScriptLines ==
  {<<h>> \o words : h \in Heads, words \in SeqOf(ScriptShapes \cup {Blank}, 2)}
  \cup {<<h>> \o words : h \in {x \in Heads : x.text \in Taking}, words \in SeqOf(ScriptShapes \cup {Blank}, 3)}
  \cup {<<Verb("NEWNEWS"), Word("ALT.*", "star", 5), Word("20260101", "date", 8), Word("000000", "time", 6), w>> : w \in ScriptShapes}
  \cup {<<Verb("AUTHINFO"), Word("PASS", "name", 4), v, Blank, w>> : v, w \in ScriptShapes}

(* Every line alone in its script.                                         *)
Alone == INSTANCE SessionScript WITH Files <- {File}, Lines <- ScriptLines, MaxScript <- 1

FewLines == {
  <<>>, <<Word("#", "hash", 1)>>, <<Verb("GROUP"), File>>, <<Blank, Verb("ARTICLE"), Blank, Word("A@B", "addr", 3)>>, <<Verb("QUIT")>>,
  <<Word("POST-ARTICLE", "name", 12), File>>, <<Word("IHAVE-ARTICLE", "name", 13), Word("<A@B>", "id", 5), File>>, <<Verb("POST")>>,
  <<Verb("AUTHINFO"), Word("USER", "name", 4), Word("A", "name", 1), Blank, Word("B", "name", 1)>>, <<Verb("DATE"), Word("", "bytes", 2)>>}

(* Scripts of three lines.                                                 *)
Script == INSTANCE SessionScript WITH Files <- {File}, Lines <- FewLines, MaxScript <- 3

-----------------------------------------------------------------------------
Num == Word("1", "num", 1)

(* A good and a bad value for each option.                                 *)
SomeValues(option) ==
  CASE option = "message_id" -> {Word("<A@B>", "id", 5), Word("A@B", "addr", 3), Word("<L@B>", "longid", 251)}
    [] option = "selector" -> {Num, Word("1-2", "span", 3), Word("<A@B>", "id", 5), Word("ALT.*", "star", 5)}
    [] option = "group" -> {File, Word("ALT.*", "star", 5)}
    [] option = "header" -> {Word(":BYTES", "meta", 6), Word("", "ctrl", 2)}
    [] option = "wildmat" -> {Word("ALT.*", "star", 5), Word("!ALT.*", "negated", 6)}
    [] option = "date" -> {Word("20260101", "date", 8), Num}
    [] option = "time" -> {Word("000000", "time", 6), Num}
    [] option = "auth_value" -> {<<Num>>, <<Num, Blank, Num>>, <<Blank, Num>>, <<Blank, Blank>>, <<Word("", "nul", 1)>>}
    [] option = "capability" -> {Word("AUTOUPDATE", "name", 10), Num}
    [] option = "article_body" -> {Word("TEXT", "name", 4)}
    [] option = "article_file" -> {File, Lost}
    [] option = "session" -> {File}

Fetch == INSTANCE OneShotFetch WITH Files <- {File}, Values <- SomeValues, MaxOptions <- 3

-----------------------------------------------------------------------------
WriteShapes == {
  Word("ALT.TEST", "dotted", 8), Word("1", "num", 1), Word("1-2", "span", 3), Word("<A@B>", "id", 5),
  Word("20260101", "date", 8), Word("000000", "time", 6), Word("", "bytes", 4)}

SomeArticles == {<<>>, <<Blank>>, <<Word("TEXT", "name", 4), Blank, Word(".X", "dot", 2)>>}

Second(q) == q.request.kind \in {"TakeThis", "Date", "ModeReader"}

(* Every request on its own, and pairs with each of a few behind it.       *)
SomeBatches(queued) == {<<q>> : q \in queued} \cup {<<q, r>> : q \in queued, r \in {x \in queued : Second(x)}}

Write == INSTANCE RequestWriter WITH
  ArgWords <- WriteShapes, Articles <- SomeArticles, Batches <- SomeBatches, MaxWrite <- 30

-----------------------------------------------------------------------------
Unused(v) == v = "unused"

NoLine   == Unused(request) /\ Unused(base) /\ Unused(line) /\ Unused(command)
NoScript == Unused(script) /\ Unused(phase) /\ Unused(commands) /\ Unused(quit) /\ Unused(output) /\ Unused(result)
NoFetch  == Unused(args) /\ Unused(runs) /\ Unused(prepared) /\ Unused(error)
NoWrite  == Unused(batch) /\ Unused(todo) /\ Unused(failed)

TextInit ==
  \/ part = "line" /\ Line!Init /\ NoScript /\ NoFetch /\ NoWrite /\ Unused(sent)
  \/ part = "typed" /\ Typed!Init /\ NoScript /\ NoFetch /\ NoWrite /\ Unused(sent)
  \/ part = "alone" /\ Alone!Init /\ NoLine /\ NoFetch /\ NoWrite
  \/ part = "script" /\ Script!Init /\ NoLine /\ NoFetch /\ NoWrite
  \/ part = "fetch" /\ Fetch!Init /\ NoLine /\ NoScript /\ NoWrite /\ Unused(sent)
  \/ part = "write" /\ Write!Init /\ NoLine /\ NoScript /\ NoFetch

TextNext ==
  \/ part = "line" /\ Line!Next /\ UNCHANGED <<part, scriptVars, fetchVars, writeVars, sent>>
  \/ part = "typed" /\ Typed!Next /\ UNCHANGED <<part, scriptVars, fetchVars, writeVars, sent>>
  \/ part = "alone" /\ Alone!Next /\ UNCHANGED <<part, lineVars, fetchVars, writeVars>>
  \/ part = "script" /\ Script!Next /\ UNCHANGED <<part, lineVars, fetchVars, writeVars>>
  \/ part = "fetch" /\ Fetch!Next /\ UNCHANGED <<part, lineVars, scriptVars, writeVars, sent>>
  \/ part = "write" /\ Write!Next /\ UNCHANGED <<part, lineVars, scriptVars, fetchVars>>

TextSpec == TextInit /\ [][TextNext]_<<part, lineVars, scriptVars, fetchVars, writeVars, sent>>

-----------------------------------------------------------------------------
(* Client and server read a command line alike: the kind and the arguments *)
(* of every line Request::write_wire_to writes come back from              *)
(* RequestLine::parse and command_args, the short cut for ARTICLE <id>     *)
(* answers as the general parser, blanks after the verb change nothing but *)
(* the length, and a line is refused with 500, 501 or 504 for the reason   *)
(* that code stands for.                                                   *)
LinesAgree ==
  /\ part = "line" =>
       Line!RoundTrip /\ Line!ArgumentsAgree /\ Line!FastPathAgrees /\ Line!SpacingInvisible
  /\ part = "typed" => Typed!RefusalsExplained

(* A script does what it says: parse_session_line and RequestLine::parse   *)
(* take a line for the same command, the line parse_session_script reports *)
(* is the first one at fault, nothing of a script with a bad line is sent, *)
(* and what is printed answers every command or none.  One-shot options    *)
(* build the requests of script lines, and of these options the articles,  *)
(* the capability and the script that validate_fetch_args guards are never *)
(* ignored.  A selector beside a message-id is (fetch_article_request).    *)
ScriptFaithful ==
  /\ part = "alone" => Alone!LineMeansItself /\ Alone!RefusalNamesTheLine
  /\ part = "script" => Script!RefusalNamesTheLine /\ Script!WholeScriptFirst /\ Script!PrintedIsComplete
  /\ part = "fetch" => Fetch!OneShotIsScriptLine /\ Fetch!NothingDropped

(* The client's vectored writers put the form of Request::write_wire_to on *)
(* the socket, however it splits them.                                     *)
WrittenIsWire == part = "write" => Write!WrittenIsWire
==============================================================================
