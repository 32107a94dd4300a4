---------------------------- MODULE CommandStream ----------------------------
(***************************************************************************)
(* read_command_batch of src/lib.rs: the mock server cuts a byte stream    *)
(* into batches of command lines, reading the article after TAKETHIS, and  *)
(* after POST and IHAVE when it is already there.  The verbs are single    *)
(* bytes here, T for TAKETHIS, P for POST and IHAVE, D for one that takes  *)
(* no article; the network hands over the bytes in any split.              *)
(***************************************************************************)
EXTENDS Terminator, FiniteSetsExt, SequencesExt

CONSTANTS
  Inputs,        \* what the client sends
  MaxLine,       \* MAX_COMMAND_LINE_BYTES
  BufferSize,    \* the capacity of the BufReader
  MaxDepth       \* max_pipeline_depth

VARIABLES
  input,         \* the whole of what the client sends, in the end
  whole,         \* the commands in it
  waits,         \* the client sends a command only when the last is answered
  arrived,       \* how much of it has been sent
  filled,        \* how much of that the BufReader has read
  pos,           \* how much of that is consumed
  mode,          \* first, more, body, closed or failed
  from,          \* where the line being read began
  body,          \* TakeThisBodyState
  command,       \* the command whose article is being read
  batch,         \* command_batch
  answered       \* the commands of earlier batches

vars == <<input, whole, waits, arrived, filled, pos, mode, from, body, command, batch, answered>>

reader == <<pos, mode, from, body, command, batch, answered>>

(* A command line: its bytes, whether it was replaced for its length, and  *)
(* whether an article was read behind it.                                  *)
Command(start, end, long, taken) == [from |-> start, to |-> end, long |-> long, body |-> taken]

Line(c) == SubSeq(input, c.from + 1, c.to)

NoCommand == Command(0, 0, FALSE, FALSE)

Buffered == SubSeq(input, pos + 1, filled)

-----------------------------------------------------------------------------
(* scan_dot_terminated_body: one byte of an article.                       *)
BodyByte(state, byte) ==
  CASE state = "LineStart" ->
         (CASE byte = DOT -> "LineStartDot" [] byte = CR -> "LineCr" [] byte = LF -> "Invalid" [] OTHER -> "Line")
    [] state = "LineStartDot" ->
         (CASE byte = DOT -> "Line" [] byte = CR -> "LineStartDotCr" [] OTHER -> "Invalid")
    [] state = "LineStartDotCr" -> (IF byte = LF THEN "Complete" ELSE "Invalid")
    [] state = "Line" -> (CASE byte = CR -> "LineCr" [] byte = LF -> "Invalid" [] OTHER -> "Line")
    [] state = "LineCr" -> (IF byte = LF THEN "LineStart" ELSE "Invalid")

(* All the bytes of data, to the one that completes the article or shows   *)
(* that it is none.                                                        *)
BodyScan(state, data) ==
  FoldLeft(LAMBDA scan, byte :
             IF scan.state \in {"Complete", "Invalid"} THEN scan
             ELSE [state |-> BodyByte(scan.state, byte), used |-> scan.used + 1],
           [state |-> state, used |-> 0], data)

(* is_known_transfer_command.                                              *)
HasVerb(line, verb) == line # <<>> /\ Head(line) = verb

(* next_batch_line_contains_colon: in the line data begins with, or as     *)
(* much of it as is there.                                                 *)
NextLineHasColon(data) ==
  \E i \in 1..Len(data) : data[i] = ":" /\ \A j \in 1..(i - 1) : data[j] # LF

(* for_each_request_line_in_batch over bytes seen whole, with no bound on  *)
(* the depth.                                                              *)
RequestLines(data) ==
  LET next[start \in 0..Len(data)] ==
        LET line  == DetectResponseLineEnd(After(data, start))
            end   == start + line.end
            taken == \/ HasVerb(After(data, start), "T")
                     \/ HasVerb(After(data, start), "P") /\ NextLineHasColon(After(data, end))
            scan  == BodyScan("LineStart", After(data, end))
        IN  IF line.status # "CompleteAt" THEN <<>>
            ELSE IF ~taken THEN <<Command(start, end, FALSE, FALSE)>> \o next[end]
            ELSE IF scan.state # "Complete" THEN <<>>
            ELSE <<Command(start, end, FALSE, TRUE)>> \o next[end + scan.used]
  IN  next[0]

(* Where a command of RequestLines and its article end.                    *)
CommandEnd(data, c) ==
  IF c.body THEN c.to + BodyScan("LineStart", After(data, c.to)).used ELSE c.to

(* What the whole of the bytes holds, for the properties and for a client  *)
(* that waits.                                                             *)
Whole(data) ==
  LET requests == RequestLines(data)
  IN  [lines |-> requests, ends |-> [i \in DOMAIN requests |-> CommandEnd(data, requests[i])]]

Init ==
  /\ input \in Inputs /\ waits \in BOOLEAN
  /\ whole = Whole(input)
  /\ arrived = 0 /\ filled = 0 /\ pos = 0 /\ mode = "first" /\ from = 0
  /\ body = "LineStart" /\ command = NoCommand /\ batch = <<>> /\ answered = <<>>

-----------------------------------------------------------------------------
(* The client: it sends what it likes, or up to the end of the first       *)
(* command it has no answer to.                                            *)
Unanswered ==
  IF Len(answered) < Len(whole.lines) THEN whole.ends[Len(answered) + 1] ELSE Len(input)

ClientSend ==
  /\ arrived < Len(input)
  /\ \E n \in (arrived + 1)..(IF waits THEN Unanswered ELSE Len(input)) : arrived' = n
  /\ UNCHANGED <<input, whole, waits, filled, reader>>

(* fill_buf, on an empty buffer.                                           *)
Fill ==
  /\ mode \in {"first", "body"} /\ pos = filled /\ filled < arrived
  /\ \E n \in (filled + 1)..arrived : n - filled <= BufferSize /\ filled' = n
  /\ UNCHANGED <<input, whole, waits, arrived, reader>>

Waiting_ShouldReadTransferBody(line, next) ==
  HasVerb(line, "T") \/ (HasVerb(line, "P") /\ (next = <<>> \/ NextLineHasColon(next)))

(* should_read_transfer_body, for a line and the bytes buffered behind it. *)
ShouldReadTransferBody(line, next) ==
  HasVerb(line, "T") \/ (HasVerb(line, "P") /\ NextLineHasColon(next))

(* push_command.  A line that was replaced has lost its verb.              *)
PushCommand(start, end, long) ==
  LET line == IF long THEN <<"D">> ELSE SubSeq(input, start + 1, end)
  IN  /\ pos' = end
      /\ IF ShouldReadTransferBody(line, SubSeq(input, end + 1, filled))
         THEN /\ mode' = "body" /\ body' = "LineStart" /\ command' = Command(start, end, long, TRUE)
              /\ UNCHANGED batch
         ELSE /\ mode' = "more" /\ batch' = Append(batch, Command(start, end, long, FALSE))
              /\ UNCHANGED <<body, command>>
      /\ UNCHANGED <<input, whole, waits, arrived, filled, from, answered>>

(* read_crlf_line_into: up to the first line feed, or all there is.        *)
TakeFirst == IF LF \in ToSet(Buffered) THEN Min({i \in 1..Len(Buffered) : Buffered[i] = LF}) ELSE Len(Buffered)

ReadFirst ==
  /\ mode = "first" /\ pos < filled
  /\ LET end == pos + TakeFirst
     IN  IF end - from > MaxLine THEN PushCommand(from, end, TRUE)
         ELSE IF input[end] = LF THEN PushCommand(from, end, FALSE)
         ELSE pos' = end /\ UNCHANGED <<input, whole, waits, arrived, filled, mode, from, body, command, batch, answered>>

AtEnd == pos = filled /\ filled = Len(input)

(* The end of the input between lines, in a line, and in an article.       *)
EndOfInput ==
  /\ mode = "first" /\ AtEnd
  /\ mode' = IF pos = from THEN "closed" ELSE "failed"
  /\ UNCHANGED <<input, whole, waits, arrived, filled, pos, from, body, command, batch, answered>>

EndInBody ==
  /\ mode = "body" /\ AtEnd /\ mode' = "failed"
  /\ UNCHANGED <<input, whole, waits, arrived, filled, pos, from, body, command, batch, answered>>

BufferedLineEnd == FindEnd(Buffered, CRLF)

(* read_buffered_crlf_line_into: a further line, when all of it is there.  *)
ReadBuffered ==
  /\ mode = "more" /\ Len(batch) < MaxDepth /\ BufferedLineEnd # 0
  /\ PushCommand(pos, pos + BufferedLineEnd, BufferedLineEnd > MaxLine)

(* The batch is complete; the session answers it and reads the next.       *)
Answer ==
  /\ mode = "more" /\ (Len(batch) = MaxDepth \/ BufferedLineEnd = 0)
  /\ answered' = answered \o batch /\ batch' = <<>>
  /\ mode' = "first" /\ from' = pos
  /\ UNCHANGED <<input, whole, waits, arrived, filled, pos, body, command>>

Forgetful_ReadBody ==
  /\ mode = "body" /\ pos < filled
  /\ LET scan == BodyScan("LineStart", Buffered)
     IN  /\ pos' = pos + scan.used /\ body' = scan.state
         /\ mode' = CASE scan.state = "Complete" -> "more" [] scan.state = "Invalid" -> "failed" [] OTHER -> "body"
         /\ batch' = IF scan.state = "Complete" THEN Append(batch, command) ELSE batch
  /\ UNCHANGED <<input, whole, waits, arrived, filled, from, command, answered>>

(* read_dot_terminated_body: what is buffered of the article.              *)
ReadBody ==
  /\ mode = "body" /\ pos < filled
  /\ LET scan == BodyScan(body, Buffered)
     IN  /\ pos' = pos + scan.used /\ body' = scan.state
         /\ mode' = CASE scan.state = "Complete" -> "more" [] scan.state = "Invalid" -> "failed" [] OTHER -> "body"
         /\ batch' = IF scan.state = "Complete" THEN Append(batch, command) ELSE batch
  /\ UNCHANGED <<input, whole, waits, arrived, filled, from, command, answered>>

(* A client that keeps its next command back until it has an answer.       *)
ClientWaits == waits /\ arrived = Unanswered /\ arrived < Len(input) /\ UNCHANGED vars

Finished == mode \in {"closed", "failed"} /\ UNCHANGED vars

Server == Fill \/ ReadFirst \/ EndOfInput \/ EndInBody \/ ReadBuffered \/ Answer \/ ReadBody

Next == ClientSend \/ ClientWaits \/ Server \/ Finished

Spec == Init /\ [][Next]_vars

(* The session's task runs, and a client that may send does so.            *)
FairSpec == Spec /\ WF_vars(Server) /\ WF_vars(ClientSend)

-----------------------------------------------------------------------------
Commands == answered \o batch

(* The commands before anything that a split may decide: a line that is    *)
(* too long, or POST with an article.                                      *)
PlainCommands ==
  LET odd == {i \in DOMAIN whole.lines :
                \/ whole.lines[i].to - whole.lines[i].from > MaxLine
                \/ whole.lines[i].body /\ HasVerb(Line(whole.lines[i]), "P")}
  IN  IF odd = {} THEN whole.lines ELSE SubSeq(whole.lines, 1, Min(odd) - 1)

AllPlain ==
  /\ PlainCommands = whole.lines
  /\ input = <<>> \/ (whole.ends # <<>> /\ Last(whole.ends) = Len(input))

(* However the network splits the bytes and however deep a batch may be,   *)
(* read_command_batch finds the commands that for_each_request_line_in_    *)
(* batch finds in the whole: articles after TAKETHIS are stepped over, a   *)
(* terminator that arrives in pieces is recognised, and input that ends    *)
(* cleanly ends the session cleanly with every command found.              *)
SplitsInvisible ==
  LET plain == PlainCommands
  IN  /\ IsPrefix(Commands, plain) \/ IsPrefix(plain, Commands)
      /\ mode = "closed" => IsPrefix(plain, Commands)
      /\ AllPlain => (mode # "failed" /\ IsPrefix(Commands, plain))

(* An article is read only where one was sent: behind a command of its     *)
(* kind, whose next line has a colon when it is POST, and up to a          *)
(* terminator, with nothing in between taken for a command.                *)
(* should_read_transfer_body sees only part of that line.                  *)
ArticlesAreSent ==
  \A i \in DOMAIN Commands :
    LET c == Commands[i] IN c.body =>
      /\ HasVerb(Line(c), "T") \/ (HasVerb(Line(c), "P") /\ NextLineHasColon(After(input, c.to)))
      /\ \E end \in (c.to + 3)..pos :
           /\ Occurs(DOT_TERMINATOR, input, end - 3)
           /\ ~\E j \in DOMAIN Commands : Commands[j].from \in c.to..(end - 1)

(* A client that sends no command before the last is answered gets an      *)
(* answer to each: the server never waits for an article that a client     *)
(* keeps back until it is asked for, as the comment in                     *)
(* should_read_transfer_body requires.                                     *)
WaitingClientAnswered == (waits /\ AllPlain) => <>(mode = "closed")
=============================================================================
