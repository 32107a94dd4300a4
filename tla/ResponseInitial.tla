-------------------------- MODULE ResponseInitial --------------------------
(***************************************************************************)
(* Where a response ends, decided from its status line: ResponseInitial    *)
(* and ResponseFrame of src/protocol.rs, on a buffer seen whole.           *)
(*                                                                         *)
(* A status code is one byte of the model; what it means depends on the    *)
(* kind of request (ResponseDescriptor::for_request_status).  The byte "!" *)
(* makes a status line or a content fail validation.                       *)
(***************************************************************************)
EXTENDS Terminator

CONSTANTS
  MaxLine,     \* MAX_INITIAL_RESPONSE_LINE_BYTES
  MaxSaslLine  \* MAX_AUTHINFO_SASL_RESPONSE_LINE_BYTES

(* "4" is an error, "2" success, "3" the SASL challenge of AUTHINFO.       *)
Framing(k, status) ==
  CASE status = "4" -> "SingleLine"
    [] status = "2" -> IF k \in {"Group", "Stat", "AuthInfo"} THEN "SingleLine" ELSE "Multiline"
    [] status = "3" -> IF k = "AuthInfo" THEN "SingleLine" ELSE "Unexpected"
    [] OTHER -> "Unexpected"

(* response_initial_line_limit.                                            *)
LineLimit(k, buffer) ==
  IF k = "AuthInfo" /\ StartsWith(buffer, <<"3">>) THEN MaxSaslLine ELSE MaxLine

Invalid(bytes) == \E i \in 1..Len(bytes) : bytes[i] = "!"

(* ResponseInitial::parse: the status byte is read whatever follows it,    *)
(* and judged when the line is complete.                                   *)
Judged(k, buffer, line) ==
  LET good == Framing(k, buffer[1]) # "Unexpected" /\ ~Invalid(SubSeq(buffer, 1, line.end))
  IN  CASE line.status = "NeedMore" -> line
        [] line.status = "CompleteAt" /\ good -> LineStatus("Complete", line.end)
        [] OTHER -> LineStatus("Invalid", 0)

ParseInitial(k, buffer) == Judged(k, buffer, DetectBoundedResponseLineEnd(buffer, LineLimit(k, buffer)))

(* ResponseFrame::parse, which sees the whole buffer: the bounds of the    *)
(* frame.                                                                  *)
Bounds(status, line, content, end) == [status |-> status, line |-> line, content |-> content, end |-> end]

BlockBounds(line, block) ==
  IF block = 0 THEN Bounds("NeedMore", line, 0, 0)
  ELSE Bounds("Complete", line, block - Len(DOT_TERMINATOR), block)

BoundsAfter(k, buffer, initial) ==
  CASE initial.status # "Complete" -> Bounds(initial.status, initial.end, 0, 0)
    [] initial.status = "Complete" /\ Framing(k, buffer[1]) = "SingleLine"
         -> Bounds("Complete", initial.end, initial.end, initial.end)
    [] OTHER -> BlockBounds(initial.end, DotTerminatedBlockEnd(buffer, initial.end))

WholeBounds(k, buffer) == BoundsAfter(k, buffer, ParseInitial(k, buffer))
=============================================================================
