----------------------------- MODULE LoadReader -----------------------------
(***************************************************************************)
(* LoadResponseReader of src/lib.rs: the load session's reader keeps one   *)
(* buffer for all responses, counts frames instead of keeping them, checks *)
(* the Message-ID of the status line and bounds the size of a response.    *)
(***************************************************************************)
EXTENDS ResponseInitial

CONSTANTS
  Streams,       \* what the peer may send
  Expectations,  \* [kind, id] of the request a response must answer; id <<>> is not verified
  ReadBytes,     \* read_buffer_bytes
  MinSpare,      \* MIN_LOAD_READ_SPARE_BYTES
  MaxResponse,   \* max_response_bytes
  MaxResponses   \* bound on the responses read

Verdict(status, end) == [status |-> status, end |-> end]

(* response_message_id: from the first < to the first > after it.          *)
ResponseMessageId(line) ==
  LET opens  == {i \in 1..Len(line) : line[i] = "<"}
      closes == {i \in 1..Len(line) : line[i] = ">" /\ i > Least(opens)}
  IN  IF opens = {} \/ closes = {} THEN <<>> ELSE SubSeq(line, Least(opens), Least(closes))

(* validate_initial_line.                                                  *)
CheckedId(expected, data, initial) ==
  IF initial.status = "Complete" /\ expected.id # <<>> /\ ResponseMessageId(SubSeq(data, 1, initial.end)) # expected.id
  THEN Verdict("Invalid", 0) ELSE initial

ValidateInitialLine(expected, data) == CheckedId(expected, data, ParseInitial(expected.kind, data))

Multiline(expected, data) == Framing(expected.kind, data[1]) = "Multiline"

(* try_consume_response: the verdict on a buffer seen whole.               *)
ConsumeBlock(data, block) ==
  IF (IF block = 0 THEN Len(data) ELSE block) > MaxResponse THEN Verdict("Invalid", 0)
  ELSE IF block = 0 THEN Verdict("NeedMore", 0) ELSE Verdict("Complete", block)

ConsumeAfter(expected, data, initial) ==
  IF initial.status # "Complete" \/ ~Multiline(expected, data) THEN initial
  ELSE ConsumeBlock(data, DotTerminatedBlockEnd(data, initial.end))

TryConsumeResponse(expected, data) == ConsumeAfter(expected, data, ValidateInitialLine(expected, data))

-----------------------------------------------------------------------------
VARIABLES
  stream, taken,          \* the peer's bytes, and how many were read
  buffer, start, capacity, \* the reader
  pc, expected, multiline, framer, responseLen, \* the read_response in progress
  frames, failed          \* history: the frames counted, and the error

vars == <<stream, taken, buffer, start, capacity, pc, expected, multiline, framer, responseLen,
          frames, failed>>

Init ==
  /\ stream \in Streams /\ taken = 0
  /\ buffer = <<>> /\ start = 0 /\ capacity = ReadBytes
  /\ pc = "idle" /\ expected \in Expectations /\ multiline = FALSE
  /\ framer = NewFramer /\ responseLen = 0
  /\ frames = <<>> /\ failed = "none"

(* read_response is called for the next request.                           *)
StartRead(next) ==
  /\ pc = "idle" /\ Len(frames) < MaxResponses
  /\ expected' = next /\ multiline' = FALSE /\ framer' = NewFramer /\ responseLen' = 0
  /\ pc' = "scan"
  /\ UNCHANGED <<stream, taken, buffer, start, capacity, frames, failed>>

(* Fault: a read that completes nothing is not counted.                    *)
Uncounted_ScanBody(skip, len) ==
  LET data     == After(buffer, start + skip)
      progress == FramerPush(framer, data)
      total    == len + IF progress.complete THEN progress.consumed ELSE 0
  IN  [framer |-> progress.framer, total |-> total,
       status |-> CASE total > MaxResponse -> "Invalid"
                    [] total <= MaxResponse /\ progress.complete -> "Complete"
                    [] OTHER -> "NeedMore",
       start  |-> IF progress.complete THEN start + skip + progress.consumed ELSE Len(buffer)]

(* The body part of a round: push everything after skip bytes of the       *)
(* status line; bounded_response_len on what it adds.                      *)
ScanBody(skip, len) ==
  LET data     == After(buffer, start + skip)
      progress == FramerPush(framer, data)
      total    == len + IF progress.complete THEN progress.consumed ELSE Len(data)
  IN  [framer |-> progress.framer, total |-> total,
       status |-> CASE total > MaxResponse -> "Invalid"
                    [] total <= MaxResponse /\ progress.complete -> "Complete"
                    [] OTHER -> "NeedMore",
       start  |-> IF progress.complete THEN start + skip + progress.consumed ELSE Len(buffer)]

Counted(len) == frames' = Append(frames, [expected |-> expected, len |-> len])

Fails(why) ==
  /\ pc' = "failed" /\ failed' = why
  /\ UNCHANGED <<stream, taken, buffer, start, capacity, expected, multiline, framer,
                 responseLen, frames>>

(* compact_if_needed, on the buffer with from bytes consumed.              *)
Compacted(from) ==
  IF from # 0 /\ (from = Len(buffer) \/ from >= ReadBytes)
  THEN buffer' = After(buffer, from) /\ start' = 0
  ELSE UNCHANGED buffer /\ start' = from

(* The status line is not complete yet.                                    *)
ScanNeedsLine(initial) ==
  /\ initial.status = "NeedMore"
  /\ Compacted(start)
  /\ pc' = "read"
  /\ UNCHANGED <<stream, taken, capacity, expected, multiline, framer, responseLen, frames, failed>>

(* A single-line response is counted as it is.                             *)
ScanSingleLine(initial) ==
  /\ initial.status = "Complete" /\ ~Multiline(expected, After(buffer, start))
  /\ start' = start + initial.end
  /\ Counted(initial.end)
  /\ pc' = "idle"
  /\ UNCHANGED <<stream, taken, buffer, capacity, expected, multiline, framer, responseLen, failed>>

ScanContent(skip, len) ==
  \E scan \in {ScanBody(skip, len)} :
    \/ scan.status = "Invalid" /\ Fails("exceeded")
    \/ /\ scan.status = "Complete"
       /\ start' = scan.start
       /\ Counted(scan.total)
       /\ pc' = "idle"
       /\ UNCHANGED <<stream, taken, buffer, capacity, expected, multiline, framer, responseLen,
                      failed>>
    \/ /\ scan.status = "NeedMore"
       /\ Compacted(scan.start)
       /\ framer' = scan.framer /\ responseLen' = scan.total /\ multiline' = TRUE
       /\ pc' = "read"
       /\ UNCHANGED <<stream, taken, capacity, expected, frames, failed>>

(* One round of read_response up to the read.                              *)
Scan ==
  /\ pc = "scan"
  /\ IF multiline THEN ScanContent(0, responseLen)
     ELSE \E initial \in {ValidateInitialLine(expected, After(buffer, start))} :
            \/ initial.status = "Invalid" /\ Fails("invalid")
            \/ ScanNeedsLine(initial)
            \/ ScanSingleLine(initial)
            \/ /\ initial.status = "Complete" /\ Multiline(expected, After(buffer, start))
               /\ ScanContent(initial.end, initial.end)

(* The capacity after reserve, which at least doubles.                     *)
Reserved ==
  LET spare == capacity - Len(buffer)
  IN  IF spare < ReadBytes /\ spare < MinSpare
      THEN Greatest({capacity, 2 * capacity, Len(buffer) + ReadBytes}) ELSE capacity

(* read_into_load_buffer returns n bytes.                                  *)
ReadBuffer(n) ==
  /\ pc = "read" /\ n > 0 /\ taken + n <= Len(stream)
  /\ capacity' = Reserved
  /\ n <= ReadBytes /\ n <= capacity' - Len(buffer)
  /\ buffer' = buffer \o SubSeq(stream, taken + 1, taken + n)
  /\ taken' = taken + n
  /\ pc' = "scan"
  /\ UNCHANGED <<stream, start, expected, multiline, framer, responseLen, frames, failed>>

ReadEof == pc = "read" /\ taken = Len(stream) /\ Fails("eof")

Next ==
  \/ \E next \in Expectations : StartRead(next)
  \/ Scan
  \/ \E n \in 1..Len(stream) : ReadBuffer(n)
  \/ ReadEof

Spec == Init /\ [][Next]_vars

-----------------------------------------------------------------------------
(* Where the n-th frame starts.                                            *)
FrameStart[n \in 1..(MaxResponses + 1)] ==
  IF n = 1 THEN 0 ELSE FrameStart[n - 1] + frames[n - 1].len

Remainder == After(stream, FrameStart[Len(frames) + 1])

(* Whatever the splits, buffer size and compactions, the reader's verdict  *)
(* on every response is that of try_consume_response on the whole stream:  *)
(* the same length, so the next response starts at the right byte, and a   *)
(* failure for the same reason.                                            *)
VerdictExact ==
  /\ \A n \in DOMAIN frames :
       TryConsumeResponse(frames[n].expected, After(stream, FrameStart[n]))
         = Verdict("Complete", frames[n].len)
  /\ failed \in {"invalid", "exceeded"} =>
       TryConsumeResponse(expected, Remainder).status = "Invalid"
  /\ failed = "eof" => TryConsumeResponse(expected, Remainder).status = "NeedMore"

(* Memory does not grow with the responses: what is buffered fits the read *)
(* size twice and one status line, and the unread part starts inside it.   *)
BufferBound ==
  /\ start <= Len(buffer) /\ Len(buffer) <= capacity
  /\ Len(buffer) < 2 * ReadBytes + MaxLine
  /\ capacity <= 2 * (2 * ReadBytes + MaxLine)
=============================================================================
