--------------------------- MODULE PayloadSizing ---------------------------
(***************************************************************************)
(* The sizes of generated ARTICLE and BODY responses (src/lib.rs): the     *)
(* payload ServerConfig builds once, the slice of it a response takes      *)
(* after a header of its own length, and the pooled buffer the response is *)
(* put together in.  Byte strings are their lengths.                       *)
(***************************************************************************)
EXTENDS Integers

CONSTANTS
  Line,          \* BODY_LINE.len()
  Dot,           \* DOT_TERMINATOR.len()
  ArticleFixed,  \* an ARTICLE header without its number and its two message-ids
  BodyFixed,     \* a BODY status line without its number and message-id
  Extra,         \* GENERATED_RESPONSE_EXTRA_CAPACITY
  Targets,       \* values of --article-bytes and --body-bytes
  Encoded,       \* lengths a yEnc payload may have
  Ids,           \* lengths of message-ids
  Numbers        \* digits of article numbers

Kinds == {"article", "body"}

(* The header of a response.                                               *)
HeaderLen(kind, number, id) ==
  IF kind = "article" THEN ArticleFixed + number + 2 * id ELSE BodyFixed + number + id

(* ARTICLE_RESPONSE_PREFIX and BODY_RESPONSE_PREFIX: article 1.            *)
PrefixLen(kind) == HeaderLen(kind, 1, 27)

AtLeast(a, b) == IF a >= b THEN a ELSE b

(* repeated_payload_len_at_least, append_repeated_payload_at_least: whole  *)
(* lines.                                                                  *)
RepeatedLen(bytes) == ((bytes + Line - 1) \div Line) * Line

(* saturating_sub.                                                         *)
Less(a, b) == IF a >= b THEN a - b ELSE 0

(* build_server_payload; a yEnc payload has the length the encoder gives.  *)
PayloadLen(m, bytes, encoded) == IF m = "plain" THEN RepeatedLen(bytes) ELSE encoded

(* build_generated_response and frame_prebuilt_payload.                    *)
GeneratedLen(m, kind, bytes, encoded) ==
  PrefixLen(kind) + Dot + (IF m = "yenc" THEN encoded ELSE RepeatedLen(Less(bytes, PrefixLen(kind))))

Wrapped_SliceLen(m, whole, bytes, header) ==
  IF m = "yenc" THEN whole ELSE RepeatedLen((bytes - header) % 65536)

(* prepared_payload_slice.                                                 *)
SliceLen(m, whole, bytes, header) ==
  IF m = "yenc" THEN whole ELSE RepeatedLen(Less(bytes, header))

(* generated_response_buffer_capacity.                                     *)
BufferCapacity(article, body) == AtLeast(AtLeast(article, body), 512) + Extra

-----------------------------------------------------------------------------
VARIABLES
  mode, target, payload, \* --payload-mode, and by kind the bytes asked for and the payload built
  prebuilt,              \* the lengths of article_response and body_response
  capacity,              \* of the buffers in the pool
  reply                  \* the response put together last: [kind, header, slice, total]

vars == <<mode, target, payload, prebuilt, capacity, reply>>

NoReply == [kind |-> "none", header |-> 0, slice |-> 0, total |-> 0]

(* ServerConfig::from_bound_args.                                          *)
Init ==
  /\ mode \in {"plain", "yenc"} /\ target \in [Kinds -> Targets]
  /\ \E e \in [Kinds -> Encoded] :
       /\ payload = [k \in Kinds |-> PayloadLen(mode, target[k], e[k])]
       /\ prebuilt = [k \in Kinds |-> GeneratedLen(mode, k, target[k], e[k])]
  /\ capacity = BufferCapacity(prebuilt["article"], prebuilt["body"])
  /\ reply = NoReply

(* build_article_response_into, build_body_response_into.                  *)
BuildResponse ==
  /\ \E k \in Kinds, number \in Numbers, id \in Ids :
       LET h == HeaderLen(k, number, id)
           s == SliceLen(mode, payload[k], target[k], h)
       IN  reply' = [kind |-> k, header |-> h, slice |-> s, total |-> h + s + Dot]
  /\ UNCHANGED <<mode, target, payload, prebuilt, capacity>>

Next == BuildResponse

Spec == Init /\ [][Next]_vars

-----------------------------------------------------------------------------
(* The slice a response takes lies inside the payload built at start, so   *)
(* indexing the payload cannot panic, whatever the header's length         *)
(* (prepared_payload_slice).                                               *)
SliceInRange == \A k \in Kinds : reply.kind = k => reply.slice <= payload[k]

(* A plain response has the bytes asked for and less than one line more,   *)
(* before its terminator, unless its header alone is longer ("approximate  *)
(* ... response wire bytes in plain mode").                                *)
WireSizeClose ==
  \A k \in Kinds : reply.kind = k /\ mode = "plain" =>
    LET bytes == reply.total - Dot
    IN  IF reply.header >= target[k] THEN bytes = reply.header ELSE bytes >= target[k] /\ bytes < target[k] + Line

(* A response put together for article 1 has the length of the one built   *)
(* at start: the two paths that size a response agree.                     *)
PrebuiltAgrees == \A k \in Kinds : reply.kind = k /\ reply.header = PrefixLen(k) => reply.total = prebuilt[k]

(* A response fits the pooled buffer it is built in.  One that did not     *)
(* would reallocate it, and release drops a buffer of another capacity, so *)
(* the pool would run empty (GeneratedResponseBufferPool).                 *)
FitsPooledBuffer == reply.kind # "none" => reply.total <= capacity
=============================================================================
