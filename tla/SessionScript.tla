---------------------------- MODULE SessionScript ----------------------------
(***************************************************************************)
(* --session of src/lib.rs: scripted_session_response reads a script,      *)
(* parses all of it, connects, and runs its commands one after the other   *)
(* on that connection.  The connection is ClientConnection's, here by what *)
(* it answers.                                                             *)
(***************************************************************************)
EXTENDS RequestLine

CONSTANTS
  Lines,    \* the lines scripts are made of
  MaxScript \* lines of a script

VARIABLES
  script,   \* the lines of the file
  phase,    \* reading, connecting, running or done
  commands, \* the parsed commands
  sent,     \* the requests handed to the connection
  quit,     \* QUIT was answered with 205
  output,   \* the responses, by the command each one answers
  result    \* what run_fetch returns, once done

vars == <<script, phase, commands, sent, quit, output, result>>

Result(error, at) == [error |-> error, at |-> at, output |-> <<>>]

Init ==
  /\ script \in SeqOf(Lines, MaxScript) /\ phase = "reading"
  /\ commands = <<>> /\ sent = <<>> /\ quit = FALSE /\ output = <<>> /\ result = Result("none", 0)

(* str::trim on the words of a line.                                       *)
Trimmed(line) == StripBlanks(SkipBlanks(line))

IsSkipped(line) == Trimmed(line) = <<>> \/ Trimmed(line)[1].is = "hash"

Refused(line) == ~IsSkipped(line) /\ ParseSessionLine(Trimmed(line)) = {}

Stop(res) == phase' = "done" /\ result' = res

Kept(lines) == SelectSeq(lines, LAMBDA x : ~IsSkipped(x))

TheCommand(line) == CHOOSE s \in ParseSessionLine(Trimmed(line)) : TRUE

(* The line parse_session_script reports, counting every line of the file. *)
ScriptError(lines) ==
  LET bad == {i \in DOMAIN lines : Refused(lines[i])}
  IN  IF bad # {} THEN {Min(bad)} ELSE IF Kept(lines) = <<>> THEN {0} ELSE {}

(* read_to_string and parse_session_script.                                *)
ParseScript ==
  /\ phase = "reading"
  /\ IF \E i \in DOMAIN script : Has(script[i], "bytes") THEN Stop(Result("Io", 0)) /\ UNCHANGED commands
     ELSE IF ScriptError(script) # {} THEN Stop(Result("InvalidSession", Max(ScriptError(script)))) /\ UNCHANGED commands
     ELSE /\ commands' = [i \in DOMAIN Kept(script) |-> TheCommand(Kept(script)[i])]
          /\ phase' = "connecting" /\ UNCHANGED result
  /\ UNCHANGED <<script, sent, quit, output>>

(* connect_fetch_client.                                                   *)
Connect ==
  /\ phase = "connecting"
  /\ \/ phase' = "running" /\ UNCHANGED result
     \/ Stop(Result("Io", 0))
  /\ UNCHANGED <<script, commands, sent, quit, output>>

Current == commands[Len(sent) + 1]

(* One command of the loop is answered.  A server may also refuse QUIT.    *)
Answered ==
  /\ phase = "running" /\ Len(sent) < Len(commands) /\ ~quit
  /\ sent' = Append(sent, Current) /\ output' = Append(output, Current.request)
  /\ quit' \in IF Current.request.kind = "Quit" THEN BOOLEAN ELSE {FALSE}
  /\ UNCHANGED <<script, phase, commands, result>>

(* execute, post_article or ihave_article fails: the ? ends the session.   *)
Failed ==
  /\ phase = "running" /\ Len(sent) < Len(commands) /\ ~quit
  /\ sent' = Append(sent, Current) /\ Stop(Result("Client", 0))
  /\ UNCHANGED <<script, commands, quit, output>>

(* After 205 the connection takes no more commands.                        *)
Rejected ==
  /\ phase = "running" /\ Len(sent) < Len(commands) /\ quit
  /\ Stop(Result("ConnectionClosed", 0))
  /\ UNCHANGED <<script, commands, sent, quit, output>>

Finish ==
  /\ phase = "running" /\ Len(sent) = Len(commands)
  /\ Stop([error |-> "none", at |-> 0, output |-> output])
  /\ UNCHANGED <<script, commands, sent, quit, output>>

Next == ParseScript \/ Connect \/ Answered \/ Failed \/ Rejected \/ Finish

Spec == Init /\ [][Next]_vars

-----------------------------------------------------------------------------
(* The words of a line without their case.                                 *)
Texts(words) == [i \in DOMAIN words |-> words[i].text]

(* The lines --session says it rejects, and LIST HEADERS with an argument, *)
(* which Request cannot express.                                           *)
Rejects(line) ==
  LET p == Parse(line)
  IN  \/ p.kind \in {"StartTls", "ModeStream", "Post", "Ihave", "TakeThis", "AuthInfo"}
      \/ p.kind = "ListHeaders" /\ Len(Tokens(p.args)) = 2

Fits(words) == LineBytes(words) <= MaxLine /\ WordsLen(words) <= MaxArgBytes + Len(words[1].text)

(* Each line of a parsed script was taken for the command it spells:       *)
(* parse_session_line and RequestLine::parse, two parsers of the same      *)
(* lines, agree.  Where RequestLine::parse knows the line, the request the *)
(* script sends is of that kind with the same arguments.  Where it does    *)
(* not, the line names a file, names an article by an id without its       *)
(* angle brackets, or is too long.                                         *)
LineMeansItself ==
  phase # "reading" /\ commands # <<>> =>
    \A i \in DOMAIN commands :
      LET line == Trimmed(Kept(script)[i])
          read == Parse(line)
          wire == Parse(WriteWire(commands[i].request))
      IN  IF read.kind # "Unknown"
          THEN read.kind = wire.kind /\ Texts(Tokens(wire.args)) = Texts(Tokens(read.args))
               /\ (read.kind \in {"AuthInfoUser", "AuthInfoPass"} => SkipBlanks(Tail(wire.args)) = SkipBlanks(Tail(read.args)))
          ELSE \/ commands[i].article # {}
               \/ \E j \in DOMAIN line : j > 1 /\ line[j].is # "id" /\ WrapId(line[j]) \in ToSet(commands[i].request.args)
               \/ ~Fits(line) \/ Has(line, "nul")

(* A script is refused for a line only when RequestLine::parse does not    *)
(* know that line either, or when it is one --session documents as         *)
(* rejected; and no earlier line is at fault.  The number reported counts  *)
(* the blank lines and comments above it (parse_session_script).           *)
RefusalNamesTheLine ==
  result.error = "InvalidSession" =>
    IF result.at = 0 THEN \A i \in DOMAIN script : IsSkipped(script[i])
    ELSE LET line == Trimmed(script[result.at])
         IN  /\ line # <<>> /\ line[1].is # "hash"
             /\ Parse(line).kind = "Unknown" \/ Rejects(line)
             /\ \A i \in 1 .. result.at - 1 : ~Refused(script[i])

(* No command reaches the server unless every line of the script is good,  *)
(* and commands reach it in script order, without a gap, each with the     *)
(* file its line names (scripted_session_response).                        *)
WholeScriptFirst ==
  sent # <<>> =>
    /\ \A i \in DOMAIN script : ~Refused(script[i])
    /\ Len(sent) <= Len(Kept(script))
    /\ \A i \in DOMAIN sent : {sent[i]} = ParseSessionLine(Trimmed(Kept(script)[i]))

(* What is printed has one response for each command line, in script       *)
(* order; a session that fails at any command prints none of them.         *)
PrintedIsComplete ==
  result.output # <<>> =>
    /\ Len(result.output) = Len(Kept(script)) /\ result.error = "none"
    /\ \A i \in DOMAIN result.output : \E s \in ParseSessionLine(Trimmed(Kept(script)[i])) : s.request = result.output[i]
==============================================================================
