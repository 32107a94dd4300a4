----------------------------- MODULE Terminator -----------------------------
(***************************************************************************)
(* The line and multiline terminators of src/terminator.rs, over texts     *)
(* that are sequences of bytes.  Offsets are exclusive ends, as in the     *)
(* code: an end e means the first e bytes.  No end the code reports is 0,  *)
(* so 0 stands for None.                                                   *)
(***************************************************************************)
EXTENDS Naturals, Sequences

CR == "CR"
LF == "LF"
DOT == "."

CRLF           == <<CR, LF>>
TERMINATOR     == <<CR, LF, DOT, CR, LF>>
DOT_TERMINATOR == <<DOT, CR, LF>>

Least(S) == CHOOSE m \in S : \A n \in S : m <= n

Greatest(S) == CHOOSE m \in S : \A n \in S : n <= m

(* The pattern stands in data right after the first at bytes.              *)
Occurs(pattern, data, at) ==
  /\ at + Len(pattern) <= Len(data)
  /\ \A i \in 1..Len(pattern) : data[at + i] = pattern[i]

StartsWith(data, pattern) == Occurs(pattern, data, 0)

(* memmem: the end of the first occurrence.                                *)
FindEnd(data, pattern) ==
  LET hits == {at \in 0..Len(data) : Occurs(pattern, data, at)}
  IN  IF hits = {} THEN 0 ELSE Least(hits) + Len(pattern)

After(data, start) == SubSeq(data, start + 1, Len(data))

-----------------------------------------------------------------------------
(* Lines.                                                                  *)

LineStatus(status, end) == [status |-> status, end |-> end]

(* detect_response_line_end: the first CR or LF decides.                   *)
LineEndAt(buffer, first) ==
  IF buffer[first] = CR /\ first = Len(buffer) THEN LineStatus("NeedMore", 0)
  ELSE IF Occurs(CRLF, buffer, first - 1) THEN LineStatus("CompleteAt", first + 1)
  ELSE LineStatus("Invalid", 0)

DetectResponseLineEnd(buffer) ==
  LET controls == {i \in 1..Len(buffer) : buffer[i] \in {CR, LF}}
  IN  IF controls = {} THEN LineStatus("NeedMore", 0) ELSE LineEndAt(buffer, Least(controls))

Bounded(line, buffer, max) ==
  IF \/ line.status = "CompleteAt" /\ line.end > max
     \/ line.status = "NeedMore" /\ Len(buffer) >= max
  THEN LineStatus("TooLong", 0) ELSE line

DetectBoundedResponseLineEnd(buffer, max) == Bounded(DetectResponseLineEnd(buffer), buffer, max)

-----------------------------------------------------------------------------
(* Blocks seen whole.                                                      *)

FindTerminatorEnd(data) == FindEnd(data, TERMINATOR)

(* find_dot_terminated_block: the end of the block that starts at start.   *)
DotTerminatedBlockEnd(data, start) ==
  LET slice == After(data, start)
  IN  IF StartsWith(slice, DOT_TERMINATOR) THEN start + Len(DOT_TERMINATOR)
      ELSE IF FindTerminatorEnd(slice) = 0 THEN 0
      ELSE start + FindTerminatorEnd(slice)

(* find_terminator_content_end, as a set: {} is None.                      *)
FindTerminatorContentEnd(data, start) ==
  LET end == FindTerminatorEnd(After(data, start))
  IN  IF end = 0 THEN {} ELSE {start + end - 3}

-----------------------------------------------------------------------------
(* Blocks seen chunk by chunk.                                             *)

TERMINATOR_TAIL_SIZE == 4

(* Fault: the window forgets one byte.                                     *)
Short_UpdateTail(tail, chunk) ==
  LET all == tail \o chunk
  IN  IF Len(all) < TERMINATOR_TAIL_SIZE THEN all
      ELSE After(all, Len(all) - TERMINATOR_TAIL_SIZE + 1)

(* MultilineTerminatorDetector::update: the last bytes of all chunks.      *)
UpdateTail(tail, chunk) ==
  LET all == tail \o chunk
  IN  IF Len(all) <= TERMINATOR_TAIL_SIZE THEN all
      ELSE After(all, Len(all) - TERMINATOR_TAIL_SIZE)

(* find_spanning_terminator: k bytes of the terminator are in the chunk    *)
(* and the others end the tail; the four cases are tried for k = 1 first.  *)
FindSpanningTerminator(tail, chunk) ==
  LET Spans(k) == /\ 5 - k <= Len(tail) /\ k <= Len(chunk)
                  /\ Occurs(SubSeq(TERMINATOR, 1, 5 - k), tail, Len(tail) - (5 - k))
                  /\ StartsWith(chunk, SubSeq(TERMINATOR, 6 - k, 5))
      hits == {k \in 1..4 : Spans(k)}
  IN  IF hits = {} THEN 0 ELSE Least(hits)

(* detect_streaming_terminator.                                            *)
DetectStreamingTerminator(tail, chunk) ==
  LET spanning == FindSpanningTerminator(tail, chunk)
  IN  IF spanning # 0 THEN spanning ELSE FindTerminatorEnd(chunk)

(* EmptyMultilineTerminator::detect, after prefix bytes of the empty       *)
(* terminator have been seen.                                              *)
EmptyMatched(prefix, chunk, matched) ==
  IF prefix + matched = Len(DOT_TERMINATOR)
  THEN [status |-> "FoundAt", end |-> matched, prefix |-> 0]
  ELSE IF matched = Len(chunk)
  THEN [status |-> "NeedMore", end |-> 0, prefix |-> prefix + matched]
  ELSE [status |-> "NotFound", end |-> 0, prefix |-> 0]

EmptyDetect(prefix, chunk) ==
  EmptyMatched(prefix, chunk,
    Greatest({n \in 0..(Len(DOT_TERMINATOR) - prefix) :
                StartsWith(chunk, SubSeq(DOT_TERMINATOR, prefix + 1, prefix + n))}))

NewFramer == [started |-> FALSE, prefix |-> 0, tail |-> <<>>, fed |-> 0]

Progress(framer, complete, consumed, content) ==
  [framer |-> framer, complete |-> complete, consumed |-> consumed, content |-> content]

(* MultilineFramer::push, once the content is known not to be empty.       *)
PushContent(framer, tail, before, chunk) ==
  LET end == DetectStreamingTerminator(tail, chunk)
  IN  IF end # 0
      THEN Progress([framer EXCEPT !.tail = tail], TRUE, end, before + end - 3)
      ELSE Progress([framer EXCEPT !.started = TRUE, !.tail = UpdateTail(tail, chunk)],
                    FALSE, 0, 0)

(* MultilineFramer::push while the content may be empty.  A prefix of the  *)
(* empty terminator that turned out to be content joins the tail first.    *)
PushEmpty(framer, next, empty, chunk) ==
  CASE empty.status = "FoundAt"  -> Progress(next, TRUE, empty.end, 0)
    [] empty.status = "NeedMore" -> Progress(next, FALSE, 0, 0)
    [] empty.status = "NotFound" ->
         PushContent([next EXCEPT !.started = TRUE],
                     UpdateTail(framer.tail, SubSeq(DOT_TERMINATOR, 1, framer.prefix)),
                     framer.fed, chunk)

(* MultilineFramer::push.                                                  *)
FramerPush(framer, chunk) ==
  LET fed   == [framer EXCEPT !.fed = @ + Len(chunk)]
      empty == EmptyDetect(framer.prefix, chunk)
  IN  IF framer.started /\ framer.prefix = 0
      THEN PushContent(fed, framer.tail, framer.fed, chunk)
      ELSE PushEmpty(framer, [fed EXCEPT !.prefix = empty.prefix], empty, chunk)
=============================================================================
