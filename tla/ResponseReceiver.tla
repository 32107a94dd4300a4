-------------------------- MODULE ResponseReceiver --------------------------
(***************************************************************************)
(* BufferedResponseReceiver of src/protocol/response_receiver.rs: bytes    *)
(* arrive in pieces of any size, the status line decides how the response  *)
(* ends, and what was read past the end is kept for the next response.     *)
(***************************************************************************)
EXTENDS ResponseInitial

CONSTANTS
  Streams,     \* what the peer may send
  MaxReceives  \* bound on the number of receive calls

Kind == {"Group", "ListGroup", "Article", "Capabilities", "AuthInfo"}

(* validate_response_content, on the content of a multiline response.      *)
ValidContent(content) == ~Invalid(content)

(* into_owned_response: an article is validated when it is used, and an    *)
(* unusable capability list is still one frame.                            *)
Deferred(k, status) == k \in {"Article", "Capabilities"} /\ status = "2"

-----------------------------------------------------------------------------
VARIABLES
  stream, taken,         \* the peer's bytes, and how many were read
  pending, ready,        \* the receiver: unread input, ReceiverState::Ready
  step, kind, decoder,   \* the receive in progress
  base, frames, failed   \* history: where pending starts, frames, last error

vars == <<stream, taken, pending, ready, step, kind, decoder, base, frames, failed>>

NewDecoder == [line |-> <<>>, status |-> "none", framer |-> NewFramer, scanned |-> 0]

Init ==
  /\ stream \in Streams /\ taken = 0
  /\ pending = <<>> /\ ready = TRUE
  /\ step = "idle" /\ kind = "Group" /\ decoder = NewDecoder
  /\ base = 0 /\ frames = <<>> /\ failed = "none"

(* receive: start_response makes the receiver unavailable until a response *)
(* is complete.                                                            *)
StartResponse(k) ==
  /\ step = "idle" /\ ready /\ Len(frames) < MaxReceives
  /\ ready' = FALSE
  /\ step' = "extract" /\ kind' = k /\ decoder' = NewDecoder
  /\ UNCHANGED <<stream, taken, pending, base, frames, failed>>

ReceiveUnavailable ==
  /\ step = "idle" /\ ~ready
  /\ failed' = "ConnectionClosed"
  /\ UNCHANGED <<stream, taken, pending, ready, step, kind, decoder, base, frames>>

(* What a push yields: the decoder after it, how it went, how much of the  *)
(* chunk it consumed and where the content ends.                           *)
Pushed(d, status, consumed, content) ==
  [decoder |-> d, status |-> status, consumed |-> consumed, content |-> content]

Framed(d, skip, progress) ==
  LET next == [d EXCEPT !.framer = progress.framer]
  IN  IF progress.complete
      THEN Pushed(next, "Complete", skip + progress.consumed, Len(d.line) + progress.content)
      ELSE Pushed(next, "NeedMore", 0, 0)

PushBody(d, chunk, skip) ==
  IF skip >= Len(chunk) THEN Pushed(d, "NeedMore", 0, 0)
  ELSE Framed(d, skip, FramerPush(d.framer, After(chunk, skip)))

(* The bytes of a chunk go to the status line one by one until it is      *)
(* complete or refused, or status_buf is full.                             *)
LineVerdict(line) == IF Len(line) > MaxSaslLine THEN "Invalid" ELSE ParseInitial(kind, line).status

PushLine(d, chunk, stop, line) ==
  IF LineVerdict(line) = "Invalid" THEN Pushed(d, "Invalid", 0, 0)
  ELSE LET next == [d EXCEPT !.line = line, !.status = line[1]]
       IN  IF Framing(kind, line[1]) = "SingleLine" THEN Pushed(next, "Complete", stop, Len(line))
           ELSE PushBody(next, chunk, stop)

PushStatus(d, chunk) ==
  LET stops == {n \in 1..Len(chunk) : LineVerdict(d.line \o SubSeq(chunk, 1, n)) # "NeedMore"}
  IN  IF stops = {} THEN Pushed([d EXCEPT !.line = @ \o chunk], "NeedMore", 0, 0)
      ELSE PushLine(d, chunk, Least(stops), d.line \o SubSeq(chunk, 1, Least(stops)))

(* ResponseDecoder::push_framing: only bytes not scanned before.           *)
Push ==
  LET chunk == After(pending, decoder.scanned)
      next  == [decoder EXCEPT !.scanned = Len(pending)]
  IN  IF decoder.status = "none" THEN PushStatus(next, chunk)
      ELSE PushBody(next, chunk, 0)

(* Fault: the end is taken relative to the last chunk.                     *)
Relative_FrameEnd(push) == push.consumed

(* FrameEnd::after_chunk: where the response just completed ends.          *)
FrameEnd(push) == decoder.scanned + push.consumed

(* extract_framed, then into_owned_response.                               *)
Accepted(push) ==
  \/ Deferred(kind, push.decoder.status)
  \/ ValidContent(SubSeq(pending, Len(push.decoder.line) + 1, push.content))

(* split_to: the bytes of the response leave pending.                      *)
SplitFrame(push) ==
  /\ pending' = After(pending, FrameEnd(push))
  /\ base' = base + FrameEnd(push)
  /\ decoder' = push.decoder

ExtractNeedsMore(push) ==
  /\ push.status = "NeedMore"
  /\ decoder' = push.decoder
  /\ step' = "read"
  /\ UNCHANGED <<stream, taken, pending, ready, kind, base, frames, failed>>

ExtractInvalid(push) ==
  /\ push.status = "Invalid"
  /\ step' = "idle" /\ failed' = "InvalidStatusLine"
  /\ UNCHANGED <<stream, taken, pending, ready, kind, decoder, base, frames>>

ExtractRefused(push) ==
  /\ push.status = "Complete" /\ ~Accepted(push)
  /\ SplitFrame(push)
  /\ step' = "idle" /\ failed' = "InvalidStatusLine"
  /\ UNCHANGED <<stream, taken, ready, kind, frames>>

ExtractComplete(push) ==
  /\ push.status = "Complete" /\ Accepted(push)
  /\ SplitFrame(push)
  /\ frames' = Append(frames, [kind |-> kind, start |-> base, end |-> base + FrameEnd(push),
                               content |-> base + push.content])
  /\ ready' = TRUE
  /\ step' = "idle"
  /\ UNCHANGED <<stream, taken, kind, failed>>

(* extract: one push of what is pending, and what follows from it.         *)
Extract ==
  /\ step = "extract"
  /\ \E push \in {Push} : \/ ExtractNeedsMore(push) \/ ExtractInvalid(push)
                          \/ ExtractRefused(push) \/ ExtractComplete(push)

(* read_into_pending_bytes returns n bytes, or none at the end.            *)
ReadMore(n) ==
  /\ step = "read" /\ n > 0 /\ taken + n <= Len(stream)
  /\ pending' = pending \o SubSeq(stream, taken + 1, taken + n)
  /\ taken' = taken + n
  /\ step' = "extract"
  /\ UNCHANGED <<stream, ready, kind, decoder, base, frames, failed>>

ReadEof ==
  /\ step = "read" /\ taken = Len(stream)
  /\ step' = "idle" /\ failed' = "UnexpectedEof"
  /\ UNCHANGED <<stream, taken, pending, ready, kind, decoder, base, frames>>

ReadFails ==
  /\ step = "read"
  /\ step' = "idle" /\ failed' = "Io"
  /\ UNCHANGED <<stream, taken, pending, ready, kind, decoder, base, frames>>

(* The receive is dropped while it waits for bytes.                        *)
Cancel ==
  /\ step = "read"
  /\ step' = "idle" /\ failed' = "cancelled"
  /\ UNCHANGED <<stream, taken, pending, ready, kind, decoder, base, frames>>

Next ==
  \/ \E k \in Kind : StartResponse(k)
  \/ ReceiveUnavailable
  \/ Extract
  \/ \E n \in 1..Len(stream) : ReadMore(n)
  \/ ReadEof \/ ReadFails \/ Cancel

Spec == Init /\ [][Next]_vars

-----------------------------------------------------------------------------
(* The verdict of ResponseFrame::parse once the content is validated.      *)
Validated(buffer, whole) ==
  IF whole.status = "Complete" /\ ~ValidContent(SubSeq(buffer, whole.line + 1, whole.content))
  THEN "Invalid" ELSE whole.status

ParseFrame(k, buffer) == Validated(buffer, WholeBounds(k, buffer))

(* The bytes after the last frame handed out.                              *)
Remainder == After(stream, IF frames = <<>> THEN 0 ELSE frames[Len(frames)].end)

-----------------------------------------------------------------------------
(* Framing does not depend on how the bytes arrive: the receiver hands out *)
(* the frames the whole-buffer parser finds, one right after the other,    *)
(* so bytes of one response never become part of the next.                 *)
FramesExact ==
  \A n \in DOMAIN frames :
    LET f     == frames[n]
        rest  == After(stream, f.start)
        whole == WholeBounds(f.kind, rest)
    IN  /\ f.start = (IF n = 1 THEN 0 ELSE frames[n - 1].end)
        /\ whole.status = "Complete"
        /\ f.end = f.start + whole.end /\ f.content = f.start + whole.content
        /\ Deferred(f.kind, rest[1]) \/ ParseFrame(f.kind, rest) = "Complete"

(* A receive fails for a reason in the bytes: at the end of input only if  *)
(* the whole remainder holds no complete response, as invalid only if the  *)
(* whole-buffer parser refuses the remainder too.                          *)
FailsForCause ==
  /\ failed = "UnexpectedEof" => WholeBounds(kind, Remainder).status = "NeedMore"
  /\ failed = "InvalidStatusLine" => ParseFrame(kind, Remainder) = "Invalid"

(* After a failed or cancelled receive no response is handed out, whoever  *)
(* calls receive again: a partly consumed frame is never taken for a new   *)
(* one.                                                                    *)
FailureIsFinal == [][failed # "none" => frames' = frames]_vars
=============================================================================
