--------------------------- MODULE ResponseWriter ---------------------------
(***************************************************************************)
(* How the sessions of the mock server in src/lib.rs put their responses   *)
(* on the wire: PendingWrite collects short responses, longer ones go out  *)
(* behind it in one vectored write, file responses are copied in chunks,   *)
(* and both response buffers come from pools shared by all sessions.  A    *)
(* byte is its session and its place among the bytes that session made;    *)
(* the peer takes any number of bytes at a time or fails.                  *)
(***************************************************************************)
EXTENDS Integers, Sequences, SequencesExt

CONSTANTS
  Sessions,
  Capacity,       \* pending_write_bytes
  Large,          \* the size up to which write_response pushes, 4096 in the code
  Chunk,          \* the size of the file buffer
  MaxBuffers,     \* buffers a pool keeps
  Sizes,          \* sizes of a response
  GreetingSize,
  MaxBatch,       \* commands in a batch
  MaxMade         \* bytes a session makes before its peer is done

VARIABLES
  pool,           \* PendingWritePool: the content of each buffer it holds
  spares,         \* GeneratedResponseBufferPool, likewise
  at,             \* where the session is
  buf,            \* PendingWrite::buf
  scratch,        \* the session's GeneratedResponseBuffer, and whether it has grown
  out,            \* what is left of the write in progress
  then,           \* what the session does after it, and the bytes it counts then
  hold,           \* response bytes that wait for it
  left,           \* commands of the batch not yet answered
  closing,        \* QUIT has been answered
  made,           \* bytes of responses made so far
  wire,           \* bytes the peer has taken
  sent            \* bytes_sent

vars == <<pool, spares, at, buf, scratch, out, then, hold, left, closing, made, wire, sent>>

Then(what, count) == [what |-> what, count |-> count]

Init ==
  /\ pool = <<>> /\ spares = <<>>
  /\ at = [s \in Sessions |-> "off"] /\ buf = [s \in Sessions |-> <<>>]
  /\ scratch = [s \in Sessions |-> [bytes |-> <<>>, grown |-> FALSE]]
  /\ out = [s \in Sessions |-> <<>>] /\ hold = [s \in Sessions |-> <<>>]
  /\ then = [s \in Sessions |-> Then("none", 0)]
  /\ left = [s \in Sessions |-> 0] /\ closing = [s \in Sessions |-> FALSE]
  /\ made = [s \in Sessions |-> 0] /\ wire = [s \in Sessions |-> <<>>] /\ sent = [s \in Sessions |-> 0]

-----------------------------------------------------------------------------
(* acquire pops a buffer or makes one; release keeps it, cleared, when     *)
(* there is room.                                                          *)
Acquired(buffers) == IF buffers = <<>> THEN <<>> ELSE Last(buffers)

Remaining(buffers) == IF buffers = <<>> THEN <<>> ELSE Front(buffers)

Released(buffers, bytes) == IF Len(buffers) < MaxBuffers THEN Append(buffers, <<>>) ELSE buffers

NewBytes(s, k) == [i \in 1..k |-> <<s, made[s] + i>>]

(* One write_all or write_all_vectored of bytes, and what comes after it.  *)
Send(s, bytes, what, count) ==
  /\ at' = [at EXCEPT ![s] = "write"]
  /\ out' = [out EXCEPT ![s] = bytes] /\ then' = [then EXCEPT ![s] = Then(what, count)]

(* serve_session_inner: the buffers, then the greeting.                    *)
Open(s) ==
  /\ at[s] = "off"
  /\ buf' = [buf EXCEPT ![s] = Acquired(pool)] /\ pool' = Remaining(pool)
  /\ scratch' = [scratch EXCEPT ![s].bytes = Acquired(spares)] /\ spares' = Remaining(spares)
  /\ made' = [made EXCEPT ![s] = GreetingSize]
  /\ Send(s, NewBytes(s, GreetingSize), "greeted", GreetingSize)
  /\ UNCHANGED <<hold, left, closing, wire, sent>>

(* The peer takes some of the bytes.                                       *)
WriteSome(s) ==
  /\ at[s] = "write" /\ out[s] # <<>>
  /\ \E k \in 1..Len(out[s]) :
       /\ wire' = [wire EXCEPT ![s] = @ \o SubSeq(out[s], 1, k)]
       /\ out' = [out EXCEPT ![s] = SubSeq(@, k + 1, Len(@))]
  /\ UNCHANGED <<pool, spares, at, buf, scratch, then, hold, left, closing, made, sent>>

(* Drop of both buffers when serve_session_inner returns; one that has     *)
(* grown past the pool's capacity is not kept.                             *)
Leave(s) ==
  /\ at' = [at EXCEPT ![s] = "gone"]
  /\ pool' = Released(pool, buf[s])
  /\ spares' = IF scratch[s].grown THEN spares ELSE Released(spares, scratch[s].bytes)
  /\ buf' = [buf EXCEPT ![s] = <<>>] /\ scratch' = [scratch EXCEPT ![s].bytes = <<>>]
  /\ out' = [out EXCEPT ![s] = <<>>] /\ hold' = [hold EXCEPT ![s] = <<>>]
  /\ UNCHANGED <<then, left, closing, made, wire>>

(* A write error, or a write that takes nothing.                           *)
WriteFails(s) == at[s] = "write" /\ out[s] # <<>> /\ Leave(s) /\ UNCHANGED sent

-----------------------------------------------------------------------------
Overtaking_WriteWithResponse(s, bytes) == Send(s, bytes \o buf[s], "clear", 0) /\ UNCHANGED <<buf, hold>>

(* write_with_response: behind what is buffered, in one write.             *)
WriteWithResponse(s, bytes) == Send(s, buf[s] \o bytes, "clear", 0) /\ UNCHANGED <<buf, hold>>

Keep(s, bytes) ==
  /\ buf' = [buf EXCEPT ![s] = @ \o bytes]
  /\ at' = [at EXCEPT ![s] = "batch"] /\ UNCHANGED <<out, then, hold>>

(* PendingWrite::push.                                                     *)
Push(s, bytes) ==
  IF Len(bytes) > Capacity THEN WriteWithResponse(s, bytes)
  ELSE IF Len(buf[s]) + Len(bytes) > Capacity
       THEN Send(s, buf[s], "append", 0) /\ hold' = [hold EXCEPT ![s] = bytes] /\ UNCHANGED buf
       ELSE Keep(s, bytes)

(* write_response.                                                         *)
WriteResponse(s, bytes) == IF Len(bytes) <= Large THEN Push(s, bytes) ELSE WriteWithResponse(s, bytes)

(* handle_command makes a response of k bytes; QUIT makes the last one.    *)
Make(s, k) ==
  /\ at[s] = "batch" /\ left[s] > 0 /\ made[s] + k <= MaxMade
  /\ made' = [made EXCEPT ![s] = @ + k]
  /\ UNCHANGED <<pool, spares, wire>>

Count(s, k) == sent' = [sent EXCEPT ![s] = @ + k]

(* A fixed or generated response; the generated one is built in the        *)
(* session's buffer, which may have to grow.                               *)
Respond(s, k) ==
  /\ Make(s, k) /\ Count(s, k) /\ WriteResponse(s, NewBytes(s, k))
  /\ left' = [left EXCEPT ![s] = @ - 1] /\ UNCHANGED closing
  /\ \E grown \in {TRUE, scratch[s].grown} :
       scratch' = [scratch EXCEPT ![s] = [bytes |-> NewBytes(s, k), grown |-> grown]]

Quit(s, k) ==
  /\ Make(s, k) /\ Count(s, k) /\ WriteResponse(s, NewBytes(s, k))
  /\ left' = [left EXCEPT ![s] = 0] /\ closing' = [closing EXCEPT ![s] = TRUE]
  /\ UNCHANGED scratch

(* Behind a flush of the pending bytes.                                    *)
AfterFlush(s, k, what) ==
  /\ Make(s, k) /\ Send(s, buf[s], what, 0) /\ hold' = [hold EXCEPT ![s] = NewBytes(s, k)]
  /\ left' = [left EXCEPT ![s] = @ - 1] /\ UNCHANGED <<closing, buf, scratch>>

(* write_message_id_article_response, and the batch of them.               *)
RespondVectored(s, k) == AfterFlush(s, k, "vectored") /\ Count(s, k)

(* write_stored_article_response for a part of an article, and for a file. *)
RespondStored(s, k) == AfterFlush(s, k, "stored") /\ UNCHANGED sent

RespondFile(s, k) == AfterFlush(s, k, "chunk") /\ UNCHANGED sent

(* An io error of the handler ends the session with its buffer unsent.     *)
HandlerFails(s) == at[s] = "batch" /\ left[s] > 0 /\ Leave(s) /\ UNCHANGED sent

-----------------------------------------------------------------------------
(* What follows a completed write.  All of them count what it was to       *)
(* count, and every write but the greeting and a chunk empties the buffer. *)
Written(s, what) ==
  /\ at[s] = "write" /\ out[s] = <<>> /\ then[s].what = what
  /\ UNCHANGED <<left, closing, made, wire>>

Resume(s) ==
  /\ at' = [at EXCEPT ![s] = "batch"] /\ Count(s, then[s].count)
  /\ UNCHANGED <<pool, spares, scratch, out, then>>

Greeted(s) ==
  /\ Written(s, "greeted") /\ Count(s, then[s].count)
  /\ at' = [at EXCEPT ![s] = "read"] /\ UNCHANGED <<pool, spares, buf, scratch, out, then, hold>>

Cleared(s) ==
  /\ Written(s, "clear") /\ Resume(s)
  /\ buf' = [buf EXCEPT ![s] = <<>>] /\ UNCHANGED hold

Appended(s) ==
  /\ Written(s, "append") /\ Resume(s)
  /\ buf' = [buf EXCEPT ![s] = hold[s]] /\ hold' = [hold EXCEPT ![s] = <<>>]

Vectored(s) ==
  /\ Written(s, "vectored") /\ Send(s, hold[s], "clear", 0)
  /\ buf' = [buf EXCEPT ![s] = <<>>] /\ hold' = [hold EXCEPT ![s] = <<>>]
  /\ UNCHANGED <<pool, spares, scratch, sent>>

(* write_response on a buffer that has just been flushed.                  *)
StoredShort(s) ==
  /\ Written(s, "stored") /\ Len(hold[s]) <= Large /\ Len(hold[s]) <= Capacity
  /\ at' = [at EXCEPT ![s] = "batch"] /\ Count(s, Len(hold[s]))
  /\ buf' = [buf EXCEPT ![s] = hold[s]] /\ hold' = [hold EXCEPT ![s] = <<>>]
  /\ UNCHANGED <<pool, spares, scratch, out, then>>

StoredLong(s) ==
  /\ Written(s, "stored") /\ (Len(hold[s]) > Large \/ Len(hold[s]) > Capacity)
  /\ Send(s, hold[s], "clear", 0) /\ Count(s, Len(hold[s]))
  /\ buf' = [buf EXCEPT ![s] = <<>>] /\ hold' = [hold EXCEPT ![s] = <<>>]
  /\ UNCHANGED <<pool, spares, scratch>>

(* write_file_response_to_async: a chunk is counted once it is written.    *)
CopyChunk(s, k) ==
  /\ Send(s, SubSeq(hold[s], 1, k), "chunk", k)
  /\ hold' = [hold EXCEPT ![s] = SubSeq(@, k + 1, Len(@))]

Copy(s) ==
  /\ Written(s, "chunk") /\ hold[s] # <<>> /\ Count(s, then[s].count)
  /\ buf' = [buf EXCEPT ![s] = <<>>]
  /\ CopyChunk(s, IF Len(hold[s]) < Chunk THEN Len(hold[s]) ELSE Chunk)
  /\ UNCHANGED <<pool, spares, scratch>>

Copied(s) ==
  /\ Written(s, "chunk") /\ hold[s] = <<>> /\ Resume(s)
  /\ buf' = [buf EXCEPT ![s] = <<>>] /\ UNCHANGED hold

-----------------------------------------------------------------------------
(* read_command_batch: a batch, the end of the input, or an error.         *)
ReadBatch(s) ==
  /\ at[s] = "read" /\ made[s] < MaxMade
  /\ \E n \in 1..MaxBatch : left' = [left EXCEPT ![s] = n]
  /\ at' = [at EXCEPT ![s] = "batch"]
  /\ UNCHANGED <<pool, spares, buf, scratch, out, then, hold, closing, made, wire, sent>>

ReadEnd(s) ==
  /\ at[s] = "read" /\ Send(s, buf[s], "closed", 0)
  /\ UNCHANGED <<pool, spares, buf, scratch, hold, left, closing, made, wire, sent>>

ReadFails(s) == at[s] = "read" /\ Leave(s) /\ UNCHANGED sent

Waiting_EndBatch(s) ==
  /\ at[s] = "batch" /\ left[s] = 0 /\ buf[s] # <<>>
  /\ Send(s, buf[s], IF closing[s] THEN "closed" ELSE "flushed", 0)
  /\ UNCHANGED <<pool, spares, buf, scratch, hold, left, closing, made, wire, sent>>

(* flush_session_writer at the end of process_command_batch.               *)
EndBatch(s) ==
  /\ at[s] = "batch" /\ left[s] = 0
  /\ Send(s, buf[s], IF closing[s] THEN "closed" ELSE "flushed", 0)
  /\ UNCHANGED <<pool, spares, buf, scratch, hold, left, closing, made, wire, sent>>

Flushed(s) ==
  /\ Written(s, "flushed") /\ at' = [at EXCEPT ![s] = "read"]
  /\ buf' = [buf EXCEPT ![s] = <<>>]
  /\ UNCHANGED <<pool, spares, scratch, out, then, hold, sent>>

Closed(s) ==
  /\ at[s] = "write" /\ out[s] = <<>> /\ then[s].what = "closed"
  /\ Leave(s) /\ UNCHANGED sent

Answers(s) ==
  \E k \in Sizes : Respond(s, k) \/ Quit(s, k) \/ RespondVectored(s, k) \/ RespondStored(s, k) \/ RespondFile(s, k)

Continues(s) ==
  \/ Greeted(s) \/ Cleared(s) \/ Appended(s) \/ Vectored(s) \/ StoredShort(s) \/ StoredLong(s)
  \/ Copy(s) \/ Copied(s) \/ Flushed(s) \/ Closed(s)

Next ==
  \E s \in Sessions :
    \/ Open(s) \/ WriteSome(s) \/ WriteFails(s) \/ Answers(s) \/ HandlerFails(s) \/ Continues(s)
    \/ ReadBatch(s) \/ ReadEnd(s) \/ ReadFails(s) \/ EndBatch(s)

(* The session's own steps are fair while its peer takes bytes; nothing    *)
(* makes a peer send commands.                                             *)
Fairness ==
  \A s \in Sessions :
    /\ WF_vars(WriteSome(s)) /\ WF_vars(Continues(s)) /\ WF_vars(EndBatch(s))
    /\ WF_vars(Answers(s) \/ HandlerFails(s))

Spec == Init /\ [][Next]_vars

FairSpec == Spec /\ Fairness

-----------------------------------------------------------------------------
(* Whatever mix of buffered, vectored, stored and file responses a session *)
(* makes and however the peer takes them, the wire carries that session's  *)
(* own bytes, each once and in the order they were made: nothing overtakes *)
(* PendingWrite, nothing is sent twice after a partial write, and no byte  *)
(* comes from another session through a pooled buffer.                     *)
WireInOrder == \A s \in Sessions : wire[s] = [i \in 1..Len(wire[s]) |-> <<s, i>>]

(* A session that waits for commands has put every response it made on the *)
(* wire: read_command_batch never blocks with an answer in PendingWrite.   *)
NothingWithheld == \A s \in Sessions : at[s] = "read" => (buf[s] = <<>> /\ Len(wire[s]) = made[s])

(* When a session waits for commands, bytes_sent is what the peer has      *)
(* taken, for every way of counting: before the write, or after a chunk.   *)
SentIsWire == \A s \in Sessions : at[s] = "read" => sent[s] = Len(wire[s])

(* The pools hold empty buffers only and no more than they may, through    *)
(* every error that leaves a buffer full; and PendingWrite never grows, so *)
(* its buffer can always be returned.                                      *)
PoolsClean ==
  /\ \A buffers \in {pool, spares} : Len(buffers) <= MaxBuffers /\ \A i \in DOMAIN buffers : buffers[i] = <<>>
  /\ \A s \in Sessions : Len(buf[s]) <= Capacity

(* What a session promises of its output, at any time.                     *)
WritesExact == WireInOrder /\ NothingWithheld /\ SentIsWire /\ PoolsClean

(* A batch that is being answered is finished, while the peer takes bytes: *)
(* the session waits for commands again or is over.                        *)
BatchAnswered == \A s \in Sessions : at[s] = "batch" ~> at[s] \in {"read", "gone"}
=============================================================================
