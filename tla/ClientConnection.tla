-------------------------- MODULE ClientConnection --------------------------
(***************************************************************************)
(* The pipelined client connection of src/client.rs: any number of callers *)
(* share one TCP connection through a send barrier, a request channel, a   *)
(* writer task, an in-flight channel and a reader task.                    *)
(*                                                                         *)
(*   caller --queue--> writer --wire--> peer --frames--> reader --> caller *)
(*                        \------------chan------------>/                  *)
(*                                                                         *)
(* Every object two tasks share (the two mutexes, the two channels, the    *)
(* gate counter, the capability list, the one-shot replies, the socket) is *)
(* touched by at most one kind of operation per action, so the actions     *)
(* interleave the way the tasks do on a multi-threaded runtime.            *)
(*                                                                         *)
(* A request is named by its place in req, the order in which requests     *)
(* entered the request channel.  A response frame carries, for the         *)
(* properties only, the name of the command it answers (of).               *)
(***************************************************************************)
EXTENDS CommandCoordination, Naturals, Sequences, Functions

CONSTANTS
  Caller,     \* tasks that share the connection
  NoOne,      \* holder of a mutex nobody holds
  Calls,      \* the calls a task may make: [kind, article, large]
  Depth,      \* capacity of both channels: pipeline_depth.max(1)
  MaxBatch,   \* commands written by one write (64 in run_writer_task)
  WireCap,    \* commands the sockets hold between writer and peer
  FrameCap,   \* responses the sockets hold between peer and reader
  MaxCalls    \* bound on the number of calls started

(* An article goes only with POST and IHAVE, a large payload only with     *)
(* TAKETHIS (request_has_large_payload).                                   *)
Call ==
  {x \in [kind : RequestKind, article : BOOLEAN, large : BOOLEAN] :
     /\ x.article => x.kind \in ContinuationKind
     /\ x.large => x.kind = "TakeThis"}

ASSUME CallerAssumption == /\ NoOne \notin Caller
                           /\ NoOne \notin Nat
                           /\ Caller \cap Nat = {}

ASSUME CallsAssumption == Calls \subseteq Call

ASSUME SizeAssumption == /\ Depth \in Nat \ {0}
                         /\ MaxBatch \in Nat \ {0}
                         /\ WireCap \in Nat \ {0}
                         /\ FrameCap \in Nat \ {0}
                         /\ MaxCalls \in Nat

VARIABLES
  pc, want, slot, calls,               \* callers: step, call, awaited request
  barrier, probe,                      \* send_barrier, capabilities_probe
  caps, closed, poisoned,              \* capability_list, gate.closed, poisoned
  req, queue, chan, inflight, abort,   \* requests, channels, gate, writer_abort
  wpc, batch, sendq, held, cont, werr, \* run_writer_task
  rpc, cur, resp, rerr,                \* run_reader_task
  wire, frames, wants, open, epoch,    \* the peer and the sockets
  written, done                        \* history: commands written, answered

callerVars == <<pc, want, slot, calls>>
sharedVars == <<barrier, probe, caps, closed, poisoned>>
linkVars   == <<req, queue, chan, inflight, abort>>
writerVars == <<wpc, batch, sendq, held, cont, werr>>
readerVars == <<rpc, cur, resp, rerr>>
peerVars   == <<wire, frames, wants, open, epoch>>
histVars   == <<written, done>>

vars == <<callerVars, sharedVars, linkVars, writerVars, readerVars, peerVars,
          histVars>>

(* SharedEngineError, and what a caller sees when its one-shot is dropped. *)
Error == {"Io", "UnexpectedEof", "InvalidStatusLine", "CapabilitiesUnavailable",
          "ConnectionClosed", "dropped"}

(* Statuses a peer may answer with, as far as the client tells them apart. *)
(* "101bad" is a 101 whose list does not parse, "bad" a response that does *)
(* not frame or validate for its command.                                  *)
PeerStatus(k) ==
  CASE k = "Capabilities" -> {"101", "101bad", "501", "bad"}
    [] k = "Post"         -> {"340", "440", "bad"}
    [] k = "Ihave"        -> {"335", "435", "bad"}
    [] k = "Quit"         -> {"205", "501", "bad"}
    [] k = "ModeReader"   -> {"201", "502", "bad"}
    [] k = "StartTls"     -> {"382", "502", "bad"}
    [] k \in AuthKind     -> {"281", "381", "481", "bad"}
    [] OTHER              -> {"2xx", "bad"}

FinalStatus == {"240", "bad"}

Status == {"101", "101bad", "501", "340", "440", "335", "435", "205",
           "201", "502", "382", "281", "381", "481", "2xx", "240", "bad"}

(* What the peer's answer does to what it can do next: the capability list *)
(* it would return differs after a change of mode, layer or identity.      *)
ChangesPeerCapabilities(k, status) ==
  <<k, status>> \in ({<<"ModeReader", "201">>, <<"StartTls", "382">>}
                       \cup (AuthKind \X {"281"}))

Request == [kind : RequestKind, article : BOOLEAN, large : BOOLEAN,
            mark : BOOLEAN, seen : Nat,
            proceed : {"none", "yes", "no"},
            reply : {"none"} \cup Status \cup Error,
            got : Nat]

Frame == [of : Nat, status : Status, list : Nat]

Item == [id : Nat, art : BOOLEAN]

WriterStep == {"recv", "idle", "collect", "write", "begin", "send", "proceed",
               "article", "poison", "return", "dead"}

ReaderStep == {"recv", "first", "second", "apply", "reply", "release", "end",
               "failEnd", "failAbort", "failPoison", "failReturn", "dead"}

(* The reader holds a request between receiving it and end_inflight.       *)
ReaderCounts == {"first", "second", "apply", "reply", "release", "end", "failEnd"}

NoFrame == [of |-> 0, status |-> "bad", list |-> 0]

(* The types of the engine's state, part by part.                          *)
CallerType ==
  /\ pc \in [Caller -> {"idle", "enqueue", "sending", "waiting", "probe"}]
  /\ want \in [Caller -> Call]
  /\ slot \in [Caller -> Nat]
  /\ calls \in Nat

SharedType ==
  /\ barrier \in {NoOne} \cup Caller \cup Nat
  /\ probe \in {NoOne} \cup Caller
  /\ caps \in Nat
  /\ closed \in BOOLEAN
  /\ poisoned \in {"none"} \cup Error

LinkType ==
  /\ req \in Seq(Request)
  /\ queue \in Seq(Nat) /\ chan \in Seq(Nat)
  /\ inflight \in Nat
  /\ abort \in BOOLEAN

WriterType ==
  /\ wpc \in WriterStep
  /\ batch \in Seq(Nat) /\ sendq \in Seq(Nat)
  /\ held \in Nat /\ cont \in Nat
  /\ werr \in {"none"} \cup Error

ReaderType ==
  /\ rpc \in ReaderStep
  /\ cur \in Nat
  /\ resp \in Frame
  /\ rerr \in {"none"} \cup Error

PeerType ==
  /\ wire \in Seq(Item) /\ frames \in Seq(Frame)
  /\ wants \in Nat /\ epoch \in Nat
  /\ open \in BOOLEAN
  /\ written \in Nat /\ done \in Nat

(* Type invariant.  Its arithmetic part says that inflight, an unsigned    *)
(* counter in the code, never wraps below zero.                            *)
TypeOK == CallerType /\ SharedType /\ LinkType /\ WriterType /\ ReaderType /\ PeerType

AnyCall == [kind |-> "Date", article |-> FALSE, large |-> FALSE]

(* connect_with_options: empty channels, both tasks at their first recv.   *)
Init ==
  /\ pc = [c \in Caller |-> "idle"]
  /\ want = [c \in Caller |-> AnyCall]
  /\ slot = [c \in Caller |-> 0]
  /\ calls = 0
  /\ barrier = NoOne /\ probe = NoOne
  /\ caps = 0 /\ closed = FALSE /\ poisoned = "none"
  /\ req = <<>> /\ queue = <<>> /\ chan = <<>>
  /\ inflight = 0 /\ abort = FALSE
  /\ wpc = "recv" /\ batch = <<>> /\ sendq = <<>>
  /\ held = 0 /\ cont = 0 /\ werr = "none"
  /\ rpc = "recv" /\ cur = 0 /\ resp = NoFrame /\ rerr = "none"
  /\ wire = <<>> /\ frames = <<>> /\ wants = 0 /\ open = TRUE /\ epoch = 1
  /\ written = 0 /\ done = 0

-----------------------------------------------------------------------------
(* Replies and guards of a set of requests that leave the engine together. *)
(* Both one-shots go: the reply is sent or dropped, and a writer waiting   *)
(* on an undecided continuation sees its sender gone.                      *)
Resolve(ids, answer) ==
  [i \in DOMAIN req |->
     IF i \in ids
     THEN [req[i] EXCEPT !.reply = answer,
                         !.proceed = IF @ = "none" THEN "no" ELSE @]
     ELSE req[i]]

Release(ids) == IF barrier \in ids THEN NoOne ELSE barrier

Held == IF held = 0 THEN {} ELSE {held}

(* Requests the writer owns: its batch, written or not, and the held one.  *)
WriterOwned == Range(batch) \cup Range(sendq) \cup Held

-----------------------------------------------------------------------------
(* Callers.  A caller that holds the probe mutex is sending CAPABILITIES   *)
(* on behalf of its call (ensure_capabilities_negotiated).                 *)

Probing(c) == probe = c

SentKind(c) == IF Probing(c) THEN "Capabilities" ELSE want[c].kind

FreeProbe(c) == IF Probing(c) THEN NoOne ELSE probe

(* execute, post_article and ihave_article go straight to enqueue_request. *)
Start(c, call) ==
  /\ pc[c] = "idle" /\ calls < MaxCalls
  /\ want' = [want EXCEPT ![c] = call]
  /\ pc' = [pc EXCEPT ![c] = "enqueue"]
  /\ calls' = calls + 1
  /\ UNCHANGED <<slot, sharedVars, linkVars, writerVars, readerVars, peerVars, histVars>>

(* queue_request_exchange negotiates before it enqueues.                   *)
StartExchange(c, call) ==
  /\ pc[c] = "idle" /\ calls < MaxCalls
  /\ ~call.article
  /\ RequiresCapabilities(call.kind)
  /\ want' = [want EXCEPT ![c] = call]
  /\ pc' = [pc EXCEPT ![c] = "probe"]
  /\ calls' = calls + 1
  /\ UNCHANGED <<slot, sharedVars, linkVars, writerVars, readerVars, peerVars, histVars>>

(* ensure_capabilities_negotiated: under the probe mutex, a stored list    *)
(* ends the negotiation, otherwise this caller sends CAPABILITIES.         *)
ProbeLock(c) ==
  /\ pc[c] = "probe" /\ probe = NoOne
  /\ probe' = IF caps = 0 THEN c ELSE NoOne
  /\ pc' = [pc EXCEPT ![c] = "enqueue"]
  /\ UNCHANGED <<want, slot, calls, barrier, caps, closed, poisoned, linkVars,
                 writerVars, readerVars, peerVars, histVars>>

(* enqueue_request and send_request, with the barrier just locked: QUIT    *)
(* has been answered, and the guard is dropped on return.                  *)
EnqueueRejected(c) ==
  /\ pc[c] = "enqueue" /\ barrier = NoOne
  /\ closed
  /\ pc' = [pc EXCEPT ![c] = "idle"]
  /\ probe' = FreeProbe(c)
  /\ UNCHANGED <<want, slot, calls, barrier, caps, closed, poisoned, linkVars,
                 writerVars, readerVars, peerVars, histVars>>

MustNegotiate(c) ==
  ~Probing(c) /\ RequiresCapabilities(want[c].kind) /\ caps = 0

(* The list is missing under the barrier: drop the guard and probe.        *)
EnqueueNeedsProbe(c) ==
  /\ pc[c] = "enqueue" /\ barrier = NoOne
  /\ ~closed /\ MustNegotiate(c)
  /\ pc' = [pc EXCEPT ![c] = "probe"]
  /\ UNCHANGED <<want, slot, calls, sharedVars, linkVars, writerVars,
                 readerVars, peerVars, histVars>>

EnqueueLocked(c) ==
  /\ pc[c] = "enqueue" /\ barrier = NoOne
  /\ ~closed /\ ~MustNegotiate(c)
  /\ barrier' = c
  /\ pc' = [pc EXCEPT ![c] = "sending"]
  /\ UNCHANGED <<want, slot, calls, probe, caps, closed, poisoned, linkVars,
                 writerVars, readerVars, peerVars, histVars>>

QueuedRequest(c) ==
  [kind    |-> SentKind(c),
   article |-> ~Probing(c) /\ want[c].article,
   large   |-> ~Probing(c) /\ want[c].large,
   mark    |-> ~Probing(c) /\ want[c].kind = "Capabilities",
   seen    |-> caps, proceed |-> "none", reply |-> "none", got |-> 0]

(* Fault: the guard never travels with the request.                        *)
GuardStays_SendRequest(c) ==
  /\ pc[c] = "sending" /\ wpc # "dead" /\ Len(queue) < Depth
  /\ LET id == Len(req) + 1
     IN  /\ req' = Append(req, QueuedRequest(c))
         /\ queue' = Append(queue, id)
         /\ slot' = [slot EXCEPT ![c] = id]
         /\ barrier' = NoOne
  /\ pc' = [pc EXCEPT ![c] = "waiting"]
  /\ UNCHANGED <<want, calls, probe, caps, closed, poisoned, chan, inflight, abort,
                 writerVars, readerVars, peerVars, histVars>>

(* send_request_with_barrier: the channel has room.  The guard travels     *)
(* with a request no command may follow, and is dropped otherwise.         *)
SendRequest(c) ==
  /\ pc[c] = "sending" /\ wpc # "dead" /\ Len(queue) < Depth
  /\ LET id == Len(req) + 1
     IN  /\ req' = Append(req, QueuedRequest(c))
         /\ queue' = Append(queue, id)
         /\ slot' = [slot EXCEPT ![c] = id]
         /\ barrier' = IF RequiresBarrier(SentKind(c)) THEN id ELSE NoOne
  /\ pc' = [pc EXCEPT ![c] = "waiting"]
  /\ UNCHANGED <<want, calls, probe, caps, closed, poisoned, chan, inflight, abort,
                 writerVars, readerVars, peerVars, histVars>>

(* The writer is gone, so the request channel is closed.                   *)
SendFails(c) ==
  /\ pc[c] = "sending" /\ wpc = "dead"
  /\ barrier' = NoOne
  /\ probe' = FreeProbe(c)
  /\ pc' = [pc EXCEPT ![c] = "idle"]
  /\ UNCHANGED <<want, slot, calls, caps, closed, poisoned, linkVars, writerVars,
                 readerVars, peerVars, histVars>>

(* PendingResponse::receive, for the call itself.                          *)
Receive(c) ==
  /\ pc[c] = "waiting" /\ req[slot[c]].reply # "none" /\ ~Probing(c)
  /\ pc' = [pc EXCEPT ![c] = "idle"]
  /\ UNCHANGED <<want, slot, calls, sharedVars, linkVars, writerVars, readerVars,
                 peerVars, histVars>>

(* The answer to the probe: 101 lets the call go back to the barrier.      *)
ProbeReceive(c) ==
  /\ pc[c] = "waiting" /\ req[slot[c]].reply # "none" /\ Probing(c)
  /\ probe' = NoOne
  /\ pc' = [pc EXCEPT ![c] = IF req[slot[c]].reply = "101" THEN "enqueue" ELSE "idle"]
  /\ UNCHANGED <<want, slot, calls, barrier, caps, closed, poisoned, linkVars,
                 writerVars, readerVars, peerVars, histVars>>

(* The caller's future is dropped at an await point, with its guards.      *)
Cancel(c) ==
  /\ pc[c] # "idle"
  /\ pc' = [pc EXCEPT ![c] = "idle"]
  /\ probe' = FreeProbe(c)
  /\ barrier' = Release({c})
  /\ UNCHANGED <<want, slot, calls, caps, closed, poisoned, linkVars, writerVars,
                 readerVars, peerVars, histVars>>

-----------------------------------------------------------------------------
(* run_writer_task.                                                        *)

IsExclusive(id) == Exclusive(req[id].kind)

Alone(id) == IsExclusive(id) \/ req[id].large

FirstStep(id) ==
  IF IsExclusive(id) THEN "idle" ELSE IF req[id].large THEN "write" ELSE "collect"

(* The first command of a batch: the held one before the channel.          *)
WriterTakeHeld ==
  /\ wpc = "recv" /\ held # 0
  /\ batch' = <<held>> /\ held' = 0
  /\ wpc' = FirstStep(held)
  /\ UNCHANGED <<callerVars, sharedVars, linkVars, sendq, cont, werr, readerVars,
                 peerVars, histVars>>

WriterRecv ==
  /\ wpc = "recv" /\ held = 0 /\ queue # <<>>
  /\ batch' = <<Head(queue)>> /\ queue' = Tail(queue)
  /\ wpc' = FirstStep(Head(queue))
  /\ UNCHANGED <<callerVars, sharedVars, req, chan, inflight, abort, sendq, held,
                 cont, werr, readerVars, peerVars, histVars>>

(* Fault: an exclusive command does not wait for earlier responses.        *)
NoWait_WriterIdle ==
  /\ wpc = "idle"
  /\ wpc' = "write"
  /\ UNCHANGED <<callerVars, sharedVars, linkVars, batch, sendq, held, cont, werr,
                 readerVars, peerVars, histVars>>

(* gate.wait_until_idle returns: no response is awaited.                   *)
WriterIdle ==
  /\ wpc = "idle" /\ inflight = 0
  /\ wpc' = "write"
  /\ UNCHANGED <<callerVars, sharedVars, linkVars, batch, sendq, held, cont, werr,
                 readerVars, peerVars, histVars>>

(* try_recv yields a command that may share the write.                     *)
WriterCollect ==
  /\ wpc = "collect" /\ Len(batch) < MaxBatch /\ queue # <<>>
  /\ ~Alone(Head(queue))
  /\ batch' = Append(batch, Head(queue)) /\ queue' = Tail(queue)
  /\ UNCHANGED <<callerVars, sharedVars, req, chan, inflight, abort, wpc, sendq,
                 held, cont, werr, readerVars, peerVars, histVars>>

(* try_recv yields a command that must start its own batch.                *)
WriterHold ==
  /\ wpc = "collect" /\ Len(batch) < MaxBatch /\ queue # <<>>
  /\ Alone(Head(queue))
  /\ held' = Head(queue) /\ queue' = Tail(queue)
  /\ wpc' = "write"
  /\ UNCHANGED <<callerVars, sharedVars, req, chan, inflight, abort, batch, sendq,
                 cont, werr, readerVars, peerVars, histVars>>

WriterCollected ==
  /\ wpc = "collect" /\ (Len(batch) >= MaxBatch \/ queue = <<>>)
  /\ wpc' = "write"
  /\ UNCHANGED <<callerVars, sharedVars, linkVars, batch, sendq, held, cont, werr,
                 readerVars, peerVars, histVars>>

(* One command of the batch reaches the socket; the write ends with the    *)
(* last one.  The peer may answer a command before the write ends.         *)
WriterWrite ==
  /\ wpc = "write" /\ Len(wire) < WireCap
  /\ wire' = Append(wire, [id |-> Head(batch), art |-> FALSE])
  /\ batch' = Tail(batch)
  /\ sendq' = Append(sendq, Head(batch))
  /\ wpc' = IF Len(batch) = 1 THEN "begin" ELSE "write"
  /\ written' = written + 1
  /\ UNCHANGED <<callerVars, sharedVars, linkVars, held, cont, werr, readerVars,
                 frames, wants, open, epoch, done>>

(* The writer answers everything it owns with the error, drops the guards  *)
(* and goes on to poison_writer_engine.                                    *)
WriterFail(error) ==
  /\ req' = Resolve(WriterOwned, error)
  /\ barrier' = Release(WriterOwned)
  /\ batch' = <<>> /\ sendq' = <<>> /\ held' = 0
  /\ werr' = error
  /\ wpc' = "poison"
  /\ UNCHANGED <<callerVars, probe, caps, closed, poisoned, queue, chan, abort, cont,
                 readerVars, peerVars, histVars>>

WriterWriteFails ==
  /\ wpc = "write" /\ ~open
  /\ WriterFail("Io")
  /\ UNCHANGED inflight

(* Fault: the gate does not count the command.                             *)
NoCount_WriterBegin ==
  /\ wpc = "begin"
  /\ wpc' = "send"
  /\ UNCHANGED <<callerVars, sharedVars, linkVars, batch, sendq, held, cont, werr,
                 readerVars, peerVars, histVars>>

(* gate.begin_inflight for the next command of the batch.                  *)
WriterBegin ==
  /\ wpc = "begin"
  /\ inflight' = inflight + 1
  /\ wpc' = "send"
  /\ UNCHANGED <<callerVars, sharedVars, req, queue, chan, abort, batch, sendq, held,
                 cont, werr, readerVars, peerVars, histVars>>

AfterSend(rest) == IF rest = <<>> THEN "recv" ELSE "begin"

(* inflight_tx.send: the reader may now receive this command's response.   *)
(* A continuation stays with the writer until the reader decides.          *)
WriterSend ==
  /\ wpc = "send" /\ rpc # "dead" /\ Len(chan) < Depth
  /\ chan' = Append(chan, Head(sendq))
  /\ sendq' = Tail(sendq)
  /\ LET id == Head(sendq)
     IN  /\ cont' = IF req[id].article THEN id ELSE 0
         /\ wpc' = IF req[id].article THEN "proceed" ELSE AfterSend(Tail(sendq))
  /\ UNCHANGED <<callerVars, sharedVars, req, queue, inflight, abort, batch, held,
                 werr, readerVars, peerVars, histVars>>

(* The reader is gone: its half of the in-flight channel is closed.        *)
WriterSendFails ==
  /\ wpc = "send" /\ rpc = "dead"
  /\ inflight' = inflight - 1
  /\ WriterFail("ConnectionClosed")

(* Fault: a dropped or negative decision is taken for permission.          *)
Eager_WriterProceed ==
  /\ wpc = "proceed" /\ req[cont].proceed # "none"
  /\ wpc' = "article"
  /\ UNCHANGED <<callerVars, sharedVars, linkVars, batch, sendq, held, cont, werr,
                 readerVars, peerVars, histVars>>

(* proceed_rx: the reader's decision, "no" also when the sender is gone.   *)
WriterProceed ==
  /\ wpc = "proceed" /\ req[cont].proceed # "none"
  /\ wpc' = IF req[cont].proceed = "yes" THEN "article" ELSE AfterSend(sendq)
  /\ cont' = IF req[cont].proceed = "yes" THEN cont ELSE 0
  /\ UNCHANGED <<callerVars, sharedVars, linkVars, batch, sendq, held, werr,
                 readerVars, peerVars, histVars>>

WriterArticle ==
  /\ wpc = "article" /\ Len(wire) < WireCap
  /\ wire' = Append(wire, [id |-> cont, art |-> TRUE])
  /\ cont' = 0
  /\ wpc' = AfterSend(sendq)
  /\ UNCHANGED <<callerVars, sharedVars, linkVars, batch, sendq, held, werr,
                 readerVars, frames, wants, open, epoch, histVars>>

(* The article does not reach the socket; the POST stays with the reader.  *)
WriterArticleFails ==
  /\ wpc = "article" /\ ~open
  /\ WriterFail("Io")
  /\ UNCHANGED inflight

StorePoisoned(error) == IF poisoned = "none" THEN error ELSE poisoned

(* poison_writer_engine: requests still in the channel are answered.       *)
WriterPoison ==
  /\ wpc = "poison"
  /\ poisoned' = StorePoisoned(werr)
  /\ req' = Resolve(Range(queue), werr)
  /\ barrier' = Release(Range(queue))
  /\ queue' = <<>>
  /\ wpc' = "return"
  /\ UNCHANGED <<callerVars, probe, caps, closed, chan, inflight, abort, batch, sendq,
                 held, cont, werr, readerVars, peerVars, histVars>>

(* The task returns: both channels close, and a request that arrived since *)
(* the drain is dropped.                                                   *)
WriterReturn ==
  /\ wpc = "return"
  /\ req' = Resolve(Range(queue), "dropped")
  /\ barrier' = Release(Range(queue))
  /\ queue' = <<>>
  /\ wpc' = "dead"
  /\ UNCHANGED <<callerVars, probe, caps, closed, poisoned, chan, inflight, abort, batch,
                 sendq, held, cont, werr, readerVars, peerVars, histVars>>

(* Fault: requests still in the channel outlive the aborted writer.        *)
QueueKept_WriterAborted ==
  /\ abort /\ wpc # "dead"
  /\ req' = Resolve(WriterOwned, "dropped")
  /\ barrier' = Release(WriterOwned)
  /\ batch' = <<>> /\ sendq' = <<>> /\ held' = 0
  /\ wpc' = "dead"
  /\ UNCHANGED <<callerVars, probe, caps, closed, poisoned, queue, chan, inflight,
                 abort, cont, werr, readerVars, peerVars, histVars>>

(* writer_abort takes effect at an await point: the task's locals and its  *)
(* end of both channels are dropped, and with them every one-shot.         *)
WriterAborted ==
  /\ abort /\ wpc # "dead"
  /\ req' = Resolve(WriterOwned \cup Range(queue), "dropped")
  /\ barrier' = Release(WriterOwned \cup Range(queue))
  /\ queue' = <<>> /\ batch' = <<>> /\ sendq' = <<>> /\ held' = 0
  /\ wpc' = "dead"
  /\ UNCHANGED <<callerVars, probe, caps, closed, poisoned, chan, inflight, abort,
                 cont, werr, readerVars, peerVars, histVars>>

-----------------------------------------------------------------------------
(* run_reader_task.                                                        *)

ReaderRecv ==
  /\ rpc = "recv" /\ chan # <<>>
  /\ cur' = Head(chan) /\ chan' = Tail(chan)
  /\ rpc' = "first"
  /\ UNCHANGED <<callerVars, sharedVars, req, queue, inflight, abort, writerVars,
                 resp, rerr, peerVars, histVars>>

(* inflight_rx.recv returns None: the writer is gone.                      *)
ReaderExit ==
  /\ rpc = "recv" /\ chan = <<>> /\ wpc = "dead"
  /\ rpc' = "dead"
  /\ UNCHANGED <<callerVars, sharedVars, linkVars, writerVars, cur, resp, rerr,
                 peerVars, histVars>>

FrameReady == frames # <<>> /\ Head(frames).status # "bad"

(* Fault: the interim response is taken for the final one.                 *)
OneFrame_ReaderInterim ==
  /\ rpc = "first" /\ req[cur].article /\ FrameReady
  /\ resp' = Head(frames) /\ frames' = Tail(frames)
  /\ LET proceed == Proceeds(req[cur].kind, Head(frames).status)
     IN  req' = [req EXCEPT ![cur].proceed = IF proceed THEN "yes" ELSE "no"]
  /\ rpc' = "apply"
  /\ UNCHANGED <<callerVars, sharedVars, queue, chan, inflight, abort, writerVars,
                 cur, rerr, wire, wants, open, epoch, histVars>>

(* receiver.receive yields the first response of a command that carries    *)
(* an article: the writer is told, and after 340 or 335 the reader waits   *)
(* for the final response.                                                 *)
ReaderInterim ==
  /\ rpc = "first" /\ req[cur].article /\ FrameReady
  /\ resp' = Head(frames) /\ frames' = Tail(frames)
  /\ LET proceed == Proceeds(req[cur].kind, Head(frames).status)
     IN  /\ req' = [req EXCEPT ![cur].proceed = IF proceed THEN "yes" ELSE "no"]
         /\ rpc' = IF proceed THEN "second" ELSE "apply"
  /\ UNCHANGED <<callerVars, sharedVars, queue, chan, inflight, abort, writerVars,
                 cur, rerr, wire, wants, open, epoch, histVars>>

(* Fault: the response stays in the receive buffer.                        *)
Unconsumed_ReaderReceive ==
  /\ rpc = "second" \/ (rpc = "first" /\ ~req[cur].article)
  /\ FrameReady
  /\ resp' = Head(frames)
  /\ rpc' = "apply"
  /\ UNCHANGED <<callerVars, sharedVars, linkVars, writerVars, cur, rerr, peerVars, histVars>>

(* receiver.receive yields the response that completes the command.        *)
ReaderReceive ==
  /\ rpc = "second" \/ (rpc = "first" /\ ~req[cur].article)
  /\ FrameReady
  /\ resp' = Head(frames) /\ frames' = Tail(frames)
  /\ rpc' = "apply"
  /\ UNCHANGED <<callerVars, sharedVars, linkVars, writerVars, cur, rerr, wire, wants,
                 open, epoch, histVars>>

(* store_capability_transition refuses this response.                      *)
TransitionFails ==
  /\ req[cur].kind = "Capabilities"
  /\ resp.status = "101bad" \/ (req[cur].mark /\ resp.status # "101")

(* Fault: MODE READER and STARTTLS clear the list only on success.         *)
Forgetful_ReaderApply ==
  /\ rpc = "apply"
  /\ caps' = IF req[cur].kind = "Capabilities" /\ resp.status = "101" THEN resp.list
             ELSE IF ResponseInvalidates(req[cur].kind, resp.status)
                       /\ req[cur].kind \in AuthKind THEN 0
             ELSE caps
  /\ rpc' = "reply"
  /\ UNCHANGED <<callerVars, barrier, probe, closed, poisoned, linkVars, writerVars,
                 cur, resp, rerr, peerVars, histVars>>

(* The capability list after this response, under its mutex.               *)
ReaderApply ==
  /\ rpc = "apply"
  /\ caps' = IF req[cur].kind = "Capabilities" /\ resp.status = "101" THEN resp.list
             ELSE IF ResponseInvalidates(req[cur].kind, resp.status) THEN 0
             ELSE caps
  /\ rpc' = "reply"
  /\ UNCHANGED <<callerVars, barrier, probe, closed, poisoned, linkVars, writerVars,
                 cur, resp, rerr, peerVars, histVars>>

(* QUIT 205 closes the gate, then the caller is answered.                  *)
ReaderReply ==
  /\ rpc = "reply"
  /\ closed' = (closed \/ (req[cur].kind = "Quit" /\ resp.status = "205"))
  /\ req' = [req EXCEPT ![cur].reply = IF TransitionFails
                                       THEN "CapabilitiesUnavailable"
                                       ELSE resp.status,
                        ![cur].got = resp.of]
  /\ rpc' = "release"
  /\ done' = done + 1
  /\ UNCHANGED <<callerVars, barrier, probe, caps, poisoned, queue, chan, inflight,
                 abort, writerVars, cur, resp, rerr, peerVars, written>>

ReaderRelease ==
  /\ rpc = "release"
  /\ barrier' = Release({cur})
  /\ rpc' = "end"
  /\ UNCHANGED <<callerVars, probe, caps, closed, poisoned, linkVars, writerVars, cur,
                 resp, rerr, peerVars, histVars>>

(* Fault: the gate is left counting a finished command.                    *)
Leaky_ReaderEnd ==
  /\ rpc = "end"
  /\ cur' = 0
  /\ rpc' = "recv"
  /\ UNCHANGED <<callerVars, sharedVars, linkVars, writerVars, resp, rerr, peerVars,
                 histVars>>

(* gate.end_inflight.                                                      *)
ReaderEnd ==
  /\ rpc = "end"
  /\ inflight' = inflight - 1
  /\ cur' = 0
  /\ rpc' = "recv"
  /\ UNCHANGED <<callerVars, sharedVars, req, queue, chan, abort, writerVars, resp, rerr,
                 peerVars, histVars>>

ReceiveError(error) ==
  \/ error = "InvalidStatusLine" /\ frames # <<>> /\ Head(frames).status = "bad"
  \/ error = "UnexpectedEof" /\ ~open /\ frames = <<>>
  \/ error = "Io" /\ ~open

(* receiver.receive fails, for the first or the second response.           *)
ReaderFails(error) ==
  /\ rpc \in {"first", "second"} /\ ReceiveError(error)
  /\ req' = Resolve({cur}, error)
  /\ rerr' = error
  /\ rpc' = "failEnd"
  /\ UNCHANGED <<callerVars, sharedVars, queue, chan, inflight, abort, writerVars, cur,
                 resp, peerVars, histVars>>

ReaderFailEnd ==
  /\ rpc = "failEnd"
  /\ inflight' = inflight - 1
  /\ rpc' = "failAbort"
  /\ UNCHANGED <<callerVars, sharedVars, req, queue, chan, abort, writerVars, cur, resp,
                 rerr, peerVars, histVars>>

ReaderFailAbort ==
  /\ rpc = "failAbort"
  /\ abort' = TRUE
  /\ rpc' = "failPoison"
  /\ UNCHANGED <<callerVars, sharedVars, req, queue, chan, inflight, writerVars, cur,
                 resp, rerr, peerVars, histVars>>

(* poison_reader_engine: requests in the channel are answered, and the     *)
(* gate keeps counting them.                                               *)
ReaderFailPoison ==
  /\ rpc = "failPoison"
  /\ poisoned' = StorePoisoned(rerr)
  /\ req' = Resolve(Range(chan), rerr)
  /\ barrier' = Release(Range(chan))
  /\ chan' = <<>>
  /\ rpc' = "failReturn"
  /\ UNCHANGED <<callerVars, probe, caps, closed, queue, inflight, abort, writerVars, cur,
                 resp, rerr, peerVars, histVars>>

(* The task returns: its guard and what the channel received since drop.   *)
ReaderFailReturn ==
  /\ rpc = "failReturn"
  /\ req' = Resolve(Range(chan), "dropped")
  /\ barrier' = Release({cur} \cup Range(chan))
  /\ chan' = <<>> /\ cur' = 0
  /\ rpc' = "dead"
  /\ UNCHANGED <<callerVars, probe, caps, closed, poisoned, queue, inflight, abort,
                 writerVars, resp, rerr, peerVars, histVars>>

-----------------------------------------------------------------------------
(* The peer (external): it reads commands in order and answers each one,   *)
(* waiting for an article after 340 or 335, and may close at any time.     *)

PeerAnswer ==
  /\ open /\ wants = 0 /\ wire # <<>> /\ Len(frames) < FrameCap
  /\ wire' = Tail(wire)
  /\ LET item == Head(wire)
         kind == req[item.id].kind
     IN  \E status \in (IF item.art THEN {"bad"} ELSE PeerStatus(kind)) :
           /\ epoch' = IF ChangesPeerCapabilities(kind, status) THEN epoch + 1 ELSE epoch
           /\ wants' = IF Proceeds(kind, status) THEN item.id ELSE 0
           /\ frames' = Append(frames, [of |-> item.id, status |-> status, list |-> epoch'])
  /\ UNCHANGED <<callerVars, sharedVars, linkVars, writerVars, readerVars, open, histVars>>

(* While it waits for an article, the peer takes whatever comes as its     *)
(* text; the article itself ends with the terminator and is answered.      *)
PeerArticle ==
  /\ open /\ wants # 0 /\ wire # <<>> /\ Len(frames) < FrameCap
  /\ wire' = Tail(wire)
  /\ IF Head(wire).art
     THEN \E status \in FinalStatus :
            /\ frames' = Append(frames, [of |-> wants, status |-> status, list |-> epoch])
            /\ wants' = 0
     ELSE UNCHANGED <<frames, wants>>
  /\ UNCHANGED <<callerVars, sharedVars, linkVars, writerVars, readerVars, open, epoch,
                 histVars>>

PeerClose ==
  /\ open
  /\ open' = FALSE
  /\ UNCHANGED <<callerVars, sharedVars, linkVars, writerVars, readerVars, wire, frames,
                 wants, epoch, histVars>>

(* Drop for ConnectionHandle: no caller is left, both tasks are aborted.   *)
DropConnection ==
  /\ \A c \in Caller : pc[c] = "idle"
  /\ wpc # "dead" \/ rpc # "dead"
  /\ calls' = MaxCalls
  /\ req' = [i \in DOMAIN req |->
               IF req[i].reply = "none" THEN [req[i] EXCEPT !.reply = "dropped"] ELSE req[i]]
  /\ barrier' = NoOne
  /\ queue' = <<>> /\ chan' = <<>> /\ batch' = <<>> /\ sendq' = <<>>
  /\ held' = 0 /\ cur' = 0
  /\ abort' = TRUE /\ open' = FALSE
  /\ wpc' = "dead" /\ rpc' = "dead"
  /\ UNCHANGED <<pc, want, slot, probe, caps, closed, poisoned, inflight, cont, werr,
                 resp, rerr, wire, frames, wants, epoch, histVars>>

(* Every call has returned and no more are made.                           *)
Finished ==
  /\ calls = MaxCalls /\ \A c \in Caller : pc[c] = "idle"
  /\ UNCHANGED vars

-----------------------------------------------------------------------------
CallerNext(c) ==
  \/ \E call \in Calls : Start(c, call) \/ StartExchange(c, call)
  \/ ProbeLock(c) \/ EnqueueRejected(c) \/ EnqueueNeedsProbe(c) \/ EnqueueLocked(c)
  \/ SendRequest(c) \/ SendFails(c) \/ Receive(c) \/ ProbeReceive(c) \/ Cancel(c)

WriterNext ==
  \/ WriterTakeHeld \/ WriterRecv \/ WriterIdle \/ WriterCollect \/ WriterHold
  \/ WriterCollected \/ WriterWrite \/ WriterWriteFails \/ WriterBegin
  \/ WriterSend \/ WriterSendFails \/ WriterProceed \/ WriterArticle
  \/ WriterArticleFails \/ WriterPoison \/ WriterReturn \/ WriterAborted

ReaderNext ==
  \/ ReaderRecv \/ ReaderExit \/ ReaderInterim \/ ReaderReceive \/ ReaderApply
  \/ ReaderReply \/ ReaderRelease \/ ReaderEnd
  \/ \E error \in Error : ReaderFails(error)
  \/ ReaderFailEnd \/ ReaderFailAbort \/ ReaderFailPoison \/ ReaderFailReturn

PeerNext == PeerAnswer \/ PeerArticle

Next ==
  \/ \E c \in Caller : CallerNext(c)
  \/ WriterNext
  \/ ReaderNext
  \/ PeerNext \/ PeerClose
  \/ DropConnection
  \/ Finished

Spec == Init /\ [][Next]_vars

(* Tasks are polled when they are ready (weak fairness); tokio mutexes     *)
(* serve waiters in order, so a waiter for which the lock is free again    *)
(* and again gets it (strong fairness); the peer goes on answering while   *)
(* it is connected.  Nothing obliges a caller to call or to give up, or    *)
(* the peer to close.                                                      *)
Fairness ==
  /\ WF_vars(WriterNext)
  /\ WF_vars(ReaderNext)
  /\ WF_vars(PeerNext)
  /\ \A c \in Caller :
       /\ WF_vars(SendRequest(c) \/ SendFails(c))
       /\ WF_vars(Receive(c) \/ ProbeReceive(c))
       /\ SF_vars(ProbeLock(c))
       /\ SF_vars(EnqueueRejected(c) \/ EnqueueNeedsProbe(c) \/ EnqueueLocked(c))

FairSpec == Spec /\ Fairness

-----------------------------------------------------------------------------
(* Properties.                                                             *)

(* Commands on the connection whose response has not been accepted.        *)
Outstanding == (done + 1)..written

(* Pipelined responses reach the right callers: a request answered with a  *)
(* status was answered by the response to its own command, although the    *)
(* reader pairs the n-th response with the n-th command by position only.  *)
ResponseMatch ==
  \A i \in DOMAIN req : req[i].reply \in Status => req[i].got = i

(* requires_exclusive_connection: no other command is outstanding while an *)
(* exclusive one runs.  After a failed response the reader lowers the gate *)
(* before it aborts the writer (failAbort), and the promise ends there.    *)
ExclusiveAlone ==
  ~abort /\ rpc # "failAbort" =>
    \A i \in Outstanding : Exclusive(req[i].kind) => Outstanding = {i}

(* The send barrier: nothing is written behind a command that no command   *)
(* may follow until its response has been accepted, and nothing ever       *)
(* behind a QUIT that was answered 205.                                    *)
NoFollow ==
  /\ ~abort => \A i \in Outstanding : AllowsFollowing(req[i].kind) \/ written = i
  /\ \A i \in DOMAIN req : req[i].kind = "Quit" /\ req[i].reply = "205" => written = i

(* The peer waits for an article that was handed over with its command; a  *)
(* bare POST or IHAVE, which the client takes for answered at 340 or 335,  *)
(* leaves it waiting for a text nobody has.                                *)
ArticleAwaited == wants # 0 /\ req[wants].article

(* post_article and ihave_article, also beside the bare post and ihave: an *)
(* article is on the wire only while the peer waits for that article, and  *)
(* no command reaches the peer during the pause, so no command is taken    *)
(* for text of the article.                                                *)
ArticlePause ==
  /\ \A n \in DOMAIN wire : wire[n].art => wire[n].id = wants
  /\ ArticleAwaited /\ ~abort => \A n \in DOMAIN wire : wire[n].art

(* Commands counted by begin_inflight and not yet by end_inflight: in the  *)
(* channel, being sent to it, or served by the reader.                     *)
Publishing == IF wpc = "send" THEN 1 ELSE 0

Serving == IF rpc \in ReaderCounts THEN 1 ELSE 0

Counted == Len(chan) + Publishing + Serving

(* PipelineGate.inflight counts exactly the commands handed to the reader  *)
(* and not finished by it, so wait_until_idle means what it says.          *)
GateExact == ~abort => inflight = Counted

(* A command that needs the capability list was sent with the list the     *)
(* peer would return when it reads the command: no mode, identity or layer *)
(* change slips between the check of the list and the command.             *)
CapsFresh ==
  ~abort => \A n \in DOMAIN wire :
    RequiresCapabilities(req[wire[n].id].kind) /\ ~wire[n].art
      => req[wire[n].id].seen = epoch

(* The requests some live task has or will receive.                        *)
Owned ==
  (IF wpc = "dead" THEN {} ELSE Range(queue) \cup WriterOwned)
    \cup (IF rpc = "dead" THEN {} ELSE Range(chan))
    \cup (IF rpc \in {"first", "second", "apply", "reply"} THEN {cur} ELSE {})

(* No request is stranded: as long as a caller has no answer, its request  *)
(* (with the one-shot sender) is with a live task or in a channel a live   *)
(* task receives from, through write failures, poisoning, aborts and the   *)
(* drop of the connection.                                                 *)
NoStrandedRequest ==
  \A i \in DOMAIN req : req[i].reply = "none" => i \in Owned

(* What a request has come to: the response read for it, if it is its own, *)
(* or an error without one.                                                *)
Outcome(i) ==
  IF req[i].reply = "none" THEN "pending"
  ELSE IF req[i].got = i THEN "answered"
  ELSE IF req[i].got = 0 THEN "failed" ELSE "another's"

Exchange == INSTANCE OrderedExchange WITH outcome <- [i \in DOMAIN req |-> Outcome(i)]

(* The connection is an ordered exchange: through batches, held commands,  *)
(* two tasks and every failure, requests are answered in the order they    *)
(* entered the request channel, and once one has failed no later one is    *)
(* answered.                                                               *)
AnswersInOrder == Exchange!Spec

(* Every call returns: whatever fails, no caller waits for ever.           *)
CallsReturn == \A c \in Caller : pc[c] # "idle" ~> pc[c] = "idle"

=============================================================================
