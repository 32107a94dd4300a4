----------------------- MODULE ClientConnectionProofs -----------------------
(***************************************************************************)
(* Proofs about the client connection for any number of callers, calls,    *)
(* channel and socket capacities.  First types, buffers and the gate; then *)
(* the order of the requests: the request channel, the writer's batch, the *)
(* in-flight channel and the reader hold consecutive ones, the send        *)
(* barrier goes with the last of them, and an exclusive command is alone.  *)
(***************************************************************************)
EXTENDS ClientConnection, TLAPS, SequenceTheorems

(* The steps are left to Zenon, those that say so to SMT.                   *)
USE ZenonT(30)

(* A function on 1..n is a sequence.                                       *)
LEMMA FunctionIsSeq ==
  ASSUME NEW S, NEW n \in Nat, NEW f \in [1..n -> S]
  PROVE  f \in Seq(S)
  BY SeqDef

(* Replacing one element by one of the same type keeps a sequence one.     *)
LEMMA ExceptKeepsSeq ==
  ASSUME NEW S, NEW s \in Seq(S), NEW i \in Nat, NEW e,
         i \in DOMAIN s => e \in S
  PROVE  /\ [s EXCEPT ![i] = e] \in Seq(S)
         /\ DOMAIN [s EXCEPT ![i] = e] = DOMAIN s
  <1>1. s \in [1..Len(s) -> S] /\ Len(s) \in Nat /\ DOMAIN s = 1..Len(s)
    BY LenProperties
  <1>2. [s EXCEPT ![i] = e] \in [1..Len(s) -> S]
    BY <1>1
  <1> QED BY <1>1, <1>2, FunctionIsSeq

(* Resolve answers some requests and keeps the table a table of requests.  *)
LEMMA ResolveType ==
  ASSUME req \in Seq(Request), NEW ids, NEW answer \in Error
  PROVE  Resolve(ids, answer) \in Seq(Request)
  <1>1. req \in [1..Len(req) -> Request] /\ Len(req) \in Nat /\ DOMAIN req = 1..Len(req)
    BY LenProperties
  <1>2. ASSUME NEW i \in DOMAIN req
        PROVE  [req[i] EXCEPT !.reply = answer,
                              !.proceed = IF @ = "none" THEN "no" ELSE @] \in Request
    <2>1. req[i] \in Request BY <1>1
    <2> QED BY <2>1 DEF Request
  <1>3. Resolve(ids, answer) \in [1..Len(req) -> Request]
    BY <1>1, <1>2 DEF Resolve
  <1> QED BY <1>1, <1>3, FunctionIsSeq

(* The statuses the peer answers with are statuses of the model.           *)
LEMMA PeerStatusType == \A k : PeerStatus(k) \subseteq Status
  BY DEF PeerStatus, Status, AuthKind

(* Which of the writer's buffers are in use where.                         *)
WriterShape ==
  /\ wpc \in {"recv", "begin", "send", "proceed", "article"} => batch = <<>>
  /\ wpc = "collect" => held = 0
  /\ wpc \in {"idle", "collect", "write"} => batch # <<>>
  /\ wpc \in {"begin", "send"} => sendq # <<>>
  /\ wpc = "poison" => werr \in Error
  /\ wpc \in {"poison", "return"} => batch = <<>> /\ sendq = <<>> /\ held = 0

(* A reader that failed knows why.                                         *)
ReaderShape ==
  rpc \in {"failEnd", "failAbort", "failPoison"} => rerr \in Error

(* The gate never counts less than there is, so it never wraps below zero; *)
(* it counts exactly until the reader gives up.                            *)
GateShape ==
  /\ inflight >= Counted
  /\ abort => rpc \in {"failPoison", "failReturn", "dead"}
  /\ rpc \in {"failPoison", "failReturn"} => abort
  /\ rpc = "dead" => abort \/ wpc = "dead"

IInv == TypeOK /\ WriterShape /\ ReaderShape /\ GateShape /\ GateExact

(* Where writer_loop goes with the request it has just taken.              *)
LEMMA FirstStepType == \A id : FirstStep(id) \in {"idle", "write", "collect"}
  BY DEF FirstStep

(* Where writer_loop goes when a request is in the in-flight channel.      *)
LEMMA AfterSendType == \A rest : AfterSend(rest) \in {"recv", "begin"}
  BY DEF AfterSend

(* A request that enters the channel has every field.                      *)
LEMMA QueuedRequestType ==
  ASSUME TypeOK, NEW c \in Caller
  PROVE  QueuedRequest(c) \in Request
  <1>1. want[c] \in [kind : RequestKind, article : BOOLEAN, large : BOOLEAN]
    BY DEF TypeOK, CallerType, Call
  <1>2. SentKind(c) \in RequestKind
    BY <1>1 DEF SentKind, RequestKind, PipelinedKind
  <1>3. caps \in Nat
    BY DEF TypeOK, SharedType
  <1> QED BY <1>1, <1>2, <1>3 DEF QueuedRequest, Request

(* Where the gate is lowered, it counts at least one command.              *)
LEMMA GateFacts ==
  ASSUME IInv
  PROVE  /\ wpc = "send" => inflight >= 1
         /\ rpc \in ReaderCounts => inflight >= 1
  <1> DEFINE n == Len(chan)
  <1>1. n \in Nat /\ inflight \in Nat
    BY LenProperties DEF IInv, TypeOK, LinkType
  <1>2. inflight >= n + Publishing + Serving
    BY DEF IInv, GateShape, Counted
  <1> HIDE DEF n
  <1>3. /\ wpc = "send" => inflight >= 1
        /\ rpc \in ReaderCounts => inflight >= 1
    BY SMT, <1>1, <1>2 DEF Publishing, Serving
  <1> QED BY <1>1, <1>3

(* The request table and the channels keep their types in every step.      *)
LEMMA LinkTypeStep == IInv /\ Next => LinkType'
  <1> SUFFICES ASSUME IInv, Next PROVE LinkType' OBVIOUS
  <1> USE DEF IInv, TypeOK, LinkType, linkVars
  <1>1. ASSUME NEW c \in Caller, SendRequest(c)
        PROVE  LinkType'
    BY SMT, <1>1, QueuedRequestType, AppendProperties DEF SendRequest
  <1>2. ASSUME NEW c \in Caller,
               \/ (\E call \in Calls : Start(c, call) \/ StartExchange(c, call))
               \/ ProbeLock(c) \/ EnqueueRejected(c) \/ EnqueueNeedsProbe(c) \/ EnqueueLocked(c)
               \/ SendFails(c) \/ Receive(c) \/ ProbeReceive(c) \/ Cancel(c)
        PROVE  LinkType'
    BY <1>2 DEF Start, StartExchange, ProbeLock, EnqueueRejected,
           EnqueueNeedsProbe, EnqueueLocked, SendFails, Receive, ProbeReceive,
           Cancel
  <1>3. CASE WriterRecv
    BY <1>3, HeadTailProperties DEF WriterRecv, FirstStep
  <1>4. CASE WriterCollect
    BY <1>4, HeadTailProperties DEF WriterCollect
  <1>5. CASE WriterHold
    BY <1>5, HeadTailProperties DEF WriterHold
  <1>6. CASE WriterWriteFails
    BY <1>6, ResolveType, EmptySeq DEF WriterWriteFails, WriterFail, Error
  <1>7. CASE WriterBegin
    BY SMT, <1>7 DEF WriterBegin
  <1>8. CASE WriterSend
    BY <1>8, HeadTailProperties, AppendProperties DEF WriterSend, AfterSend,
           WriterType, WriterShape
  <1>9. CASE WriterSendFails
    BY SMT, <1>9, ResolveType, EmptySeq, GateFacts DEF WriterSendFails, WriterFail,
           Error
  <1>10. CASE WriterArticleFails
    BY <1>10, ResolveType, EmptySeq DEF WriterArticleFails, WriterFail, Error
  <1>11. CASE WriterPoison
    BY <1>11, ResolveType, EmptySeq DEF WriterPoison, WriterShape
  <1>12. CASE WriterReturn
    BY <1>12, ResolveType, EmptySeq DEF WriterReturn, Error
  <1>13. CASE WriterAborted
    BY <1>13, ResolveType, EmptySeq DEF WriterAborted, Error
  <1>14. CASE WriterTakeHeld \/ WriterIdle \/ WriterCollected \/ WriterWrite \/
             WriterProceed \/ WriterArticle
    BY <1>14 DEF WriterTakeHeld, WriterIdle, WriterCollected, WriterWrite,
           WriterProceed, WriterArticle
  <1>15. CASE ReaderRecv
    BY <1>15, HeadTailProperties DEF ReaderRecv
  <1>16. CASE ReaderInterim
    <2>1. cur \in Nat
      BY DEF ReaderType
    <2> DEFINE decision == IF Proceeds(req[cur].kind, Head(frames).status) THEN "yes" ELSE "no"
               answered == [req[cur] EXCEPT !.proceed = decision]
    <2>2. req' = [req EXCEPT ![cur] = answered]
      BY <1>16 DEF ReaderInterim
    <2>3. cur \in DOMAIN req => answered \in Request
      <3> SUFFICES ASSUME cur \in DOMAIN req PROVE answered \in Request OBVIOUS
      <3>1. req[cur] \in Request
        BY LenProperties
      <3> QED BY <3>1 DEF Request
    <2>4. req' \in Seq(Request)
      BY <2>1, <2>2, <2>3, ExceptKeepsSeq
    <2> QED BY <1>16, <2>4 DEF ReaderInterim
  <1>17. CASE ReaderReply
    <2>1. cur \in Nat /\ resp \in Frame
      BY DEF ReaderType
    <2> DEFINE reply == IF TransitionFails THEN "CapabilitiesUnavailable" ELSE resp.status
               answered == [req[cur] EXCEPT !.reply = reply, !.got = resp.of]
    <2>2. req' = [req EXCEPT ![cur] = answered]
      BY <1>17 DEF ReaderReply
    <2>3. cur \in DOMAIN req => answered \in Request
      <3> SUFFICES ASSUME cur \in DOMAIN req PROVE answered \in Request OBVIOUS
      <3>1. req[cur] \in Request
        BY LenProperties
      <3> QED BY <2>1, <3>1 DEF Request, Frame, Error
    <2>4. req' \in Seq(Request)
      BY <2>1, <2>2, <2>3, ExceptKeepsSeq
    <2> QED BY <1>17, <2>4 DEF ReaderReply
  <1>18. CASE ReaderEnd
    BY SMT, <1>18, GateFacts DEF ReaderEnd, ReaderCounts
  <1>19. ASSUME NEW error \in Error, ReaderFails(error)
        PROVE  LinkType'
    BY <1>19, ResolveType, EmptySeq DEF ReaderFails, Error
  <1>20. CASE ReaderFailEnd
    BY SMT, <1>20, GateFacts DEF ReaderFailEnd, ReaderCounts
  <1>21. CASE ReaderFailAbort
    BY <1>21 DEF ReaderFailAbort
  <1>22. CASE ReaderFailPoison
    BY <1>22, ResolveType, EmptySeq DEF ReaderFailPoison, ReaderShape
  <1>23. CASE ReaderFailReturn
    BY <1>23, ResolveType, EmptySeq DEF ReaderFailReturn, Error
  <1>24. CASE ReaderExit \/ ReaderReceive \/ ReaderApply \/ ReaderRelease
    BY <1>24 DEF ReaderExit, ReaderReceive, ReaderApply, ReaderRelease
  <1>25. CASE DropConnection
    <2>1. req' \in Seq(Request)
      <3>1. /\ req \in [1..Len(req) -> Request] /\ Len(req) \in Nat
            /\ DOMAIN req = 1..Len(req)
        BY LenProperties
      <3>2. ASSUME NEW i \in DOMAIN req
            PROVE  [req[i] EXCEPT !.reply = "dropped"] \in Request
        <4>1. req[i] \in Request BY <3>1
        <4> QED BY <4>1 DEF Request, Error
      <3>3. req' \in [1..Len(req) -> Request]
        BY <1>25, <3>1, <3>2 DEF DropConnection
      <3> QED BY <3>1, <3>3, FunctionIsSeq
    <2> QED BY <1>25, <2>1, EmptySeq DEF DropConnection
  <1>26. CASE PeerAnswer \/ PeerArticle \/ PeerClose
    BY <1>26 DEF PeerAnswer, PeerArticle, PeerClose
  <1>27. CASE Finished
    BY <1>27 DEF Finished, vars
  <1> QED BY <1>1, <1>2, <1>3, <1>4, <1>5, <1>6, <1>7, <1>8, <1>9, <1>10,
               <1>11, <1>12, <1>13, <1>14, <1>15, <1>16, <1>17, <1>18, <1>19,
               <1>20, <1>21, <1>22, <1>23, <1>24, <1>25, <1>26, <1>27
           DEF Next, CallerNext, WriterNext, ReaderNext, PeerNext

(* The sockets and the counters keep their types in every step.            *)
LEMMA PeerTypeStep == IInv /\ Next => PeerType'
  <1> SUFFICES ASSUME IInv, Next PROVE PeerType' OBVIOUS
  <1> USE DEF IInv, TypeOK, PeerType, peerVars, histVars
  <1>1. ASSUME NEW c \in Caller,
               \/ (\E call \in Calls : Start(c, call) \/ StartExchange(c, call))
               \/ ProbeLock(c) \/ EnqueueRejected(c) \/ EnqueueNeedsProbe(c) \/ EnqueueLocked(c)
               \/ SendRequest(c) \/ SendFails(c) \/ Receive(c) \/ ProbeReceive(c) \/ Cancel(c)
        PROVE  PeerType'
    BY <1>1 DEF Start, StartExchange, ProbeLock, EnqueueRejected,
           EnqueueNeedsProbe, EnqueueLocked, SendRequest, SendFails, Receive,
           ProbeReceive, Cancel
  <1>2. CASE WriterWrite
    <2>1. batch # <<>> /\ batch \in Seq(Nat)
      BY <1>2 DEF WriterWrite, WriterType, WriterShape
    <2>2. [id |-> Head(batch), art |-> FALSE] \in Item
      BY <2>1, HeadTailProperties DEF Item
    <2>3. wire' \in Seq(Item)
      BY <1>2, <2>2, AppendProperties DEF WriterWrite
    <2> QED BY SMT, <1>2, <2>3 DEF WriterWrite
  <1>3. CASE WriterArticle
    BY <1>3, HeadTailProperties, AppendProperties DEF WriterArticle, AfterSend,
           WriterType, WriterShape, Item
  <1>4. CASE WriterTakeHeld \/ WriterRecv \/ WriterIdle \/ WriterCollect \/
             WriterHold \/ WriterCollected \/ WriterWriteFails \/ WriterBegin
             \/ WriterSend \/ WriterSendFails \/ WriterProceed \/
             WriterArticleFails \/ WriterPoison \/ WriterReturn \/
             WriterAborted
    BY <1>4 DEF WriterTakeHeld, WriterRecv, WriterIdle, WriterCollect,
           WriterHold, WriterCollected, WriterWriteFails, WriterBegin,
           WriterSend, WriterSendFails, WriterProceed, WriterArticleFails,
           WriterPoison, WriterReturn, WriterAborted, WriterFail
  <1>5. CASE ReaderInterim
    BY <1>5, HeadTailProperties DEF ReaderInterim, FrameReady
  <1>6. CASE ReaderReceive
    BY <1>6, HeadTailProperties DEF ReaderReceive, FrameReady
  <1>7. CASE ReaderReply
    BY SMT, <1>7 DEF ReaderReply
  <1>8. CASE ReaderRecv \/ ReaderExit \/ ReaderApply \/ ReaderRelease \/
             ReaderEnd \/ (\E error \in Error : ReaderFails(error)) \/
             ReaderFailEnd \/ ReaderFailAbort \/ ReaderFailPoison \/
             ReaderFailReturn
    BY <1>8 DEF ReaderRecv, ReaderExit, ReaderApply, ReaderRelease, ReaderEnd,
           ReaderFails, ReaderFailEnd, ReaderFailAbort, ReaderFailPoison,
           ReaderFailReturn
  <1>9. CASE PeerAnswer
    <2>1. wire # <<>> /\ wire' = Tail(wire)
      BY <1>9 DEF PeerAnswer
    <2>2. Head(wire) \in Item /\ wire' \in Seq(Item)
      BY <2>1, HeadTailProperties
    <2> DEFINE item == Head(wire)
               kind == req[item.id].kind
    <2>3. PICK status \in (IF item.art THEN {"bad"} ELSE PeerStatus(kind)) :
            /\ epoch' = IF ChangesPeerCapabilities(kind, status) THEN epoch + 1 ELSE epoch
            /\ wants' = IF Proceeds(kind, status) THEN item.id ELSE 0
            /\ frames' = Append(frames, [of |-> item.id, status |-> status, list |-> epoch'])
      BY <1>9 DEF PeerAnswer
    <2>4. status \in Status
      BY <2>3, PeerStatusType DEF Status
    <2>5. item.id \in Nat
      BY <2>2 DEF Item
    <2>6. epoch' \in Nat /\ wants' \in Nat
      BY SMT, <2>3, <2>5
    <2>7. [of |-> item.id, status |-> status, list |-> epoch'] \in Frame
      BY <2>4, <2>5, <2>6 DEF Frame
    <2>8. frames' \in Seq(Frame)
      BY <2>3, <2>7, AppendProperties
    <2> QED BY <1>9, <2>2, <2>6, <2>8 DEF PeerAnswer
  <1>10. CASE PeerArticle
    <2>1. wire # <<>> /\ wire' = Tail(wire)
      BY <1>10 DEF PeerArticle
    <2>2. wire' \in Seq(Item)
      BY <2>1, HeadTailProperties
    <2>3. \A status \in FinalStatus :
            [of |-> wants, status |-> status, list |-> epoch] \in Frame
      BY DEF Frame, FinalStatus, Status
    <2>4. frames' \in Seq(Frame) /\ wants' \in Nat
      <3>1. CASE Head(wire).art
        <4>1. PICK status \in FinalStatus :
                /\ frames' = Append(frames, [of |-> wants, status |-> status, list |-> epoch])
                /\ wants' = 0
          BY <1>10, <3>1 DEF PeerArticle
        <4> QED BY <2>3, <4>1, AppendProperties
      <3>2. CASE ~Head(wire).art
        BY <1>10, <3>2 DEF PeerArticle
      <3> QED BY <3>1, <3>2
    <2> QED BY <1>10, <2>2, <2>4 DEF PeerArticle
  <1>11. CASE PeerClose
    BY <1>11 DEF PeerClose
  <1>12. CASE DropConnection
    BY <1>12 DEF DropConnection
  <1>13. CASE Finished
    BY <1>13 DEF Finished, vars
  <1> QED BY <1>1, <1>2, <1>3, <1>4, <1>5, <1>6, <1>7, <1>8, <1>9, <1>10,
               <1>11, <1>12, <1>13
           DEF Next, CallerNext, WriterNext, ReaderNext, PeerNext

-----------------------------------------------------------------------------
(* Steps of the other parties leave a task's own variables alone.          *)

(* A caller touches nothing of writer, reader and peer.                    *)
LEMMA CallerFrame ==
  ASSUME NEW c \in Caller, CallerNext(c)
  PROVE  UNCHANGED <<chan, inflight, abort, writerVars, readerVars, peerVars, histVars>>
  BY DEF CallerNext, Start, StartExchange, ProbeLock, EnqueueRejected,
         EnqueueNeedsProbe, EnqueueLocked, SendRequest, SendFails, Receive,
         ProbeReceive, Cancel, linkVars

(* The writer touches nothing of the callers and of the reader.            *)
LEMMA WriterFrame ==
  ASSUME WriterNext
  PROVE  UNCHANGED <<callerVars, probe, caps, closed, abort, readerVars>>
  BY DEF WriterNext, WriterTakeHeld, WriterRecv, WriterIdle, WriterCollect,
         WriterHold, WriterCollected, WriterWrite, WriterWriteFails,
         WriterBegin, WriterSend, WriterSendFails, WriterProceed,
         WriterArticle, WriterArticleFails, WriterPoison, WriterReturn,
         WriterAborted, WriterFail, sharedVars, linkVars

(* The reader touches nothing of the callers and of the writer.            *)
LEMMA ReaderFrame ==
  ASSUME ReaderNext
  PROVE  UNCHANGED <<callerVars, probe, queue, writerVars>>
  BY DEF ReaderNext, ReaderRecv, ReaderExit, ReaderInterim, ReaderReceive,
         ReaderApply, ReaderReply, ReaderRelease, ReaderEnd, ReaderFails,
         ReaderFailEnd, ReaderFailAbort, ReaderFailPoison, ReaderFailReturn,
         sharedVars, linkVars

(* The peer touches nothing but the sockets.                               *)
LEMMA PeerFrame ==
  ASSUME PeerNext \/ PeerClose \/ Finished
  PROVE  UNCHANGED <<callerVars, sharedVars, linkVars, writerVars, readerVars, histVars>>
  BY DEF PeerNext, PeerAnswer, PeerArticle, PeerClose, Finished, vars

-----------------------------------------------------------------------------
(* The gate.                                                               *)

(* The engine's invariant: types, the shape of its buffers and the gate.   *)
THEOREM IInvHolds == Spec => []IInv
  <1>InitIInv. Init => IInv
    <2> SUFFICES ASSUME Init PROVE IInv OBVIOUS
    <2>1. AnyCall \in Call
      BY DEF AnyCall, Call, RequestKind, PipelinedKind
    <2>2. NoFrame \in Frame
      BY DEF NoFrame, Frame, Status
    <2>3. TypeOK
      <3>1. CallerType BY <2>1 DEF Init, CallerType
      <3>2. SharedType BY DEF Init, SharedType
      <3>3. LinkType BY EmptySeq DEF Init, LinkType
      <3>4. WriterType BY EmptySeq DEF Init, WriterType, WriterStep
      <3>5. ReaderType BY <2>2 DEF Init, ReaderType, ReaderStep
      <3>6. PeerType BY EmptySeq DEF Init, PeerType
      <3> QED BY <3>1, <3>2, <3>3, <3>4, <3>5, <3>6 DEF TypeOK
    <2>4. WriterShape /\ ReaderShape /\ GateShape /\ GateExact
      BY SMT DEF Init, WriterShape, ReaderShape, GateShape, Counted, Publishing, Serving,
             GateExact, ReaderCounts
    <2> QED BY <2>3, <2>4 DEF IInv
  <1>CallerTypeStep. IInv /\ Next => CallerType'
    <2> SUFFICES ASSUME IInv, Next PROVE CallerType' OBVIOUS
    <2> USE DEF IInv, TypeOK, CallerType, callerVars
    <2>1. ASSUME NEW c \in Caller, NEW call \in Calls, Start(c, call)
          PROVE  CallerType'
      BY SMT, <2>1, CallsAssumption DEF Start
    <2>2. ASSUME NEW c \in Caller, NEW call \in Calls, StartExchange(c, call)
          PROVE  CallerType'
      BY SMT, <2>2, CallsAssumption DEF StartExchange
    <2>3. ASSUME NEW c \in Caller, ProbeLock(c)
          PROVE  CallerType'
      BY <2>3 DEF ProbeLock
    <2>4. ASSUME NEW c \in Caller, EnqueueRejected(c)
          PROVE  CallerType'
      BY <2>4 DEF EnqueueRejected, FreeProbe
    <2>5. ASSUME NEW c \in Caller, EnqueueNeedsProbe(c)
          PROVE  CallerType'
      BY <2>5 DEF EnqueueNeedsProbe
    <2>6. ASSUME NEW c \in Caller, EnqueueLocked(c)
          PROVE  CallerType'
      BY <2>6 DEF EnqueueLocked
    <2>7. ASSUME NEW c \in Caller, SendRequest(c)
          PROVE  CallerType'
      BY SMT, <2>7 DEF SendRequest, QueuedRequest, SentKind
    <2>8. ASSUME NEW c \in Caller, SendFails(c)
          PROVE  CallerType'
      BY <2>8 DEF SendFails, FreeProbe
    <2>9. ASSUME NEW c \in Caller, Receive(c)
          PROVE  CallerType'
      BY <2>9 DEF Receive
    <2>10. ASSUME NEW c \in Caller, ProbeReceive(c)
          PROVE  CallerType'
      BY <2>10 DEF ProbeReceive
    <2>11. ASSUME NEW c \in Caller, Cancel(c)
          PROVE  CallerType'
      BY <2>11 DEF Cancel, Release, FreeProbe
    <2>12. CASE WriterTakeHeld \/ WriterRecv \/ WriterIdle \/ WriterCollect \/
               WriterHold \/ WriterCollected \/ WriterWrite \/ WriterWriteFails
               \/ WriterBegin \/ WriterSend \/ WriterSendFails \/ WriterProceed
               \/ WriterArticle \/ WriterArticleFails \/ WriterPoison \/
               WriterReturn \/ WriterAborted
      BY <2>12 DEF WriterTakeHeld, WriterRecv, WriterIdle, WriterCollect,
             WriterHold, WriterCollected, WriterWrite, WriterWriteFails,
             WriterBegin, WriterSend, WriterSendFails, WriterProceed,
             WriterArticle, WriterArticleFails, WriterPoison, WriterReturn,
             WriterAborted, WriterFail
    <2>13. CASE ReaderRecv \/ ReaderExit \/ ReaderInterim \/ ReaderReceive \/
               ReaderApply \/ ReaderReply \/ ReaderRelease \/ ReaderEnd \/ (\E
               error \in Error : ReaderFails(error)) \/ ReaderFailEnd \/
               ReaderFailAbort \/ ReaderFailPoison \/ ReaderFailReturn
      BY <2>13 DEF ReaderRecv, ReaderExit, ReaderInterim, ReaderReceive,
             ReaderApply, ReaderReply, ReaderRelease, ReaderEnd, ReaderFails,
             ReaderFailEnd, ReaderFailAbort, ReaderFailPoison, ReaderFailReturn
    <2>14. CASE DropConnection
      BY <2>14, SizeAssumption DEF DropConnection
    <2>15. CASE PeerAnswer \/ PeerArticle \/ PeerClose
      BY <2>15 DEF PeerAnswer, PeerArticle, PeerClose
    <2>16. CASE Finished
      BY <2>16 DEF Finished, vars
    <2> QED BY <2>1, <2>2, <2>3, <2>4, <2>5, <2>6, <2>7, <2>8, <2>9, <2>10,
                 <2>11, <2>12, <2>13, <2>14, <2>15, <2>16
             DEF Next, CallerNext, WriterNext, ReaderNext, PeerNext
  <1>SharedTypeStep. IInv /\ Next => SharedType'
    <2> SUFFICES ASSUME IInv, Next PROVE SharedType' OBVIOUS
    <2> USE DEF IInv, TypeOK, SharedType, sharedVars
    <2>1. ASSUME NEW c \in Caller, ProbeLock(c)
          PROVE  SharedType'
      BY <2>1 DEF ProbeLock
    <2>2. ASSUME NEW c \in Caller, EnqueueRejected(c)
          PROVE  SharedType'
      BY <2>2 DEF EnqueueRejected, FreeProbe
    <2>3. ASSUME NEW c \in Caller, EnqueueLocked(c)
          PROVE  SharedType'
      BY <2>3 DEF EnqueueLocked
    <2>4. ASSUME NEW c \in Caller, SendRequest(c)
          PROVE  SharedType'
      BY SMT, <2>4 DEF SendRequest, QueuedRequest, SentKind
    <2>5. ASSUME NEW c \in Caller, SendFails(c)
          PROVE  SharedType'
      BY <2>5 DEF SendFails, FreeProbe
    <2>6. ASSUME NEW c \in Caller, ProbeReceive(c)
          PROVE  SharedType'
      BY <2>6 DEF ProbeReceive
    <2>7. ASSUME NEW c \in Caller, Cancel(c)
          PROVE  SharedType'
      BY <2>7 DEF Cancel, Release, FreeProbe
    <2>8. ASSUME NEW c \in Caller,
                 \/ (\E call \in Calls : Start(c, call) \/ StartExchange(c, call))
                 \/ EnqueueNeedsProbe(c) \/ Receive(c)
          PROVE  SharedType'
      BY <2>8 DEF Start, StartExchange, EnqueueNeedsProbe, Receive
    <2>9. CASE WriterWriteFails
      BY <2>9 DEF WriterWriteFails, Release, WriterFail
    <2>10. CASE WriterSendFails
      BY <2>10 DEF WriterSendFails, Release, WriterFail
    <2>11. CASE WriterArticleFails
      BY <2>11 DEF WriterArticleFails, Release, WriterFail
    <2>12. CASE WriterPoison
      BY <2>12 DEF WriterPoison, Release, StorePoisoned, WriterType
    <2>13. CASE WriterReturn
      BY <2>13 DEF WriterReturn, Release
    <2>14. CASE WriterAborted
      BY <2>14 DEF WriterAborted, Release
    <2>15. CASE WriterTakeHeld \/ WriterRecv \/ WriterIdle \/ WriterCollect \/
               WriterHold \/ WriterCollected \/ WriterWrite \/ WriterBegin \/
               WriterSend \/ WriterProceed \/ WriterArticle
      BY <2>15 DEF WriterTakeHeld, WriterRecv, WriterIdle, WriterCollect,
             WriterHold, WriterCollected, WriterWrite, WriterBegin, WriterSend,
             WriterProceed, WriterArticle
    <2>16. CASE ReaderApply
      BY <2>16 DEF ReaderApply, ReaderType, Frame
    <2>17. CASE ReaderReply
      BY <2>17 DEF ReaderReply
    <2>18. CASE ReaderRelease
      BY <2>18 DEF ReaderRelease, Release
    <2>19. CASE ReaderFailPoison
      BY <2>19 DEF ReaderFailPoison, Release, StorePoisoned, ReaderType
    <2>20. CASE ReaderFailReturn
      BY <2>20 DEF ReaderFailReturn, Release
    <2>21. CASE ReaderRecv \/ ReaderExit \/ ReaderInterim \/ ReaderReceive \/
               ReaderEnd \/ (\E error \in Error : ReaderFails(error)) \/
               ReaderFailEnd \/ ReaderFailAbort
      BY <2>21 DEF ReaderRecv, ReaderExit, ReaderInterim, ReaderReceive,
             ReaderEnd, ReaderFails, ReaderFailEnd, ReaderFailAbort
    <2>22. CASE DropConnection
      BY <2>22 DEF DropConnection
    <2>23. CASE PeerAnswer \/ PeerArticle \/ PeerClose
      BY <2>23 DEF PeerAnswer, PeerArticle, PeerClose
    <2>24. CASE Finished
      BY <2>24 DEF Finished, vars
    <2> QED BY <2>1, <2>2, <2>3, <2>4, <2>5, <2>6, <2>7, <2>8, <2>9, <2>10,
                 <2>11, <2>12, <2>13, <2>14, <2>15, <2>16, <2>17, <2>18, <2>19,
                 <2>20, <2>21, <2>22, <2>23, <2>24
             DEF Next, CallerNext, WriterNext, ReaderNext, PeerNext
  <1>WriterTypeStep. IInv /\ Next => WriterType'
    <2> SUFFICES ASSUME IInv, Next PROVE WriterType' OBVIOUS
    <2> USE DEF IInv, TypeOK, WriterType, writerVars, WriterStep
    <2>1. ASSUME NEW c \in Caller,
                 \/ (\E call \in Calls : Start(c, call) \/ StartExchange(c, call))
                 \/ ProbeLock(c) \/ EnqueueRejected(c) \/ EnqueueNeedsProbe(c) \/ EnqueueLocked(c)
                 \/ SendRequest(c) \/ SendFails(c) \/ Receive(c) \/ ProbeReceive(c) \/ Cancel(c)
          PROVE  WriterType'
      BY <2>1 DEF Start, StartExchange, ProbeLock, EnqueueRejected,
             EnqueueNeedsProbe, EnqueueLocked, SendRequest, SendFails, Receive,
             ProbeReceive, Cancel
    <2>2. CASE WriterTakeHeld
      <3>1. wpc' \in WriterStep
        BY <2>2, FirstStepType DEF WriterTakeHeld
      <3>2. batch' \in Seq(Nat) /\ held' \in Nat
        BY SMT, <2>2 DEF WriterTakeHeld
      <3>3. UNCHANGED <<sendq, cont, werr>>
        BY <2>2 DEF WriterTakeHeld
      <3> QED BY <3>1, <3>2, <3>3
    <2>3. CASE WriterRecv
      <3>1. wpc' \in WriterStep
        BY <2>3, FirstStepType DEF WriterRecv
      <3>2. batch' \in Seq(Nat)
        BY SMT, <2>3, HeadTailProperties DEF WriterRecv, LinkType
      <3>3. UNCHANGED <<sendq, held, cont, werr>>
        BY <2>3 DEF WriterRecv
      <3> QED BY <3>1, <3>2, <3>3
    <2>4. CASE WriterIdle
      BY <2>4 DEF WriterIdle
    <2>5. CASE WriterCollect
      BY <2>5, HeadTailProperties, AppendProperties DEF WriterCollect, LinkType
    <2>6. CASE WriterHold
      BY <2>6, HeadTailProperties, AppendProperties DEF WriterHold, LinkType
    <2>7. CASE WriterCollected
      BY <2>7 DEF WriterCollected
    <2>8. CASE WriterWrite
      BY <2>8, HeadTailProperties, AppendProperties DEF WriterWrite, WriterShape
    <2>9. CASE WriterWriteFails
      BY <2>9, EmptySeq DEF WriterWriteFails, Release, WriterFail, Error
    <2>10. CASE WriterBegin
      BY <2>10 DEF WriterBegin
    <2>11. CASE WriterSend
      BY <2>11, AfterSendType, HeadTailProperties, AppendProperties DEF
             WriterSend, AfterSend, WriterShape
    <2>12. CASE WriterSendFails
      BY <2>12, EmptySeq DEF WriterSendFails, Release, WriterFail, Error
    <2>13. CASE WriterProceed
      BY <2>13, AfterSendType DEF WriterProceed, AfterSend, WriterShape
    <2>14. CASE WriterArticle
      BY <2>14, AfterSendType DEF WriterArticle, AfterSend, WriterShape
    <2>15. CASE WriterArticleFails
      BY <2>15, EmptySeq DEF WriterArticleFails, Release, WriterFail, Error
    <2>16. CASE WriterPoison
      BY <2>16, EmptySeq DEF WriterPoison, Release, StorePoisoned
    <2>17. CASE WriterReturn
      BY <2>17, EmptySeq DEF WriterReturn, Release
    <2>18. CASE WriterAborted
      BY <2>18, EmptySeq DEF WriterAborted, Release
    <2>19. CASE ReaderRecv \/ ReaderExit \/ ReaderInterim \/ ReaderReceive \/
               ReaderApply \/ ReaderReply \/ ReaderRelease \/ ReaderEnd \/ (\E
               error \in Error : ReaderFails(error)) \/ ReaderFailEnd \/
               ReaderFailAbort \/ ReaderFailPoison \/ ReaderFailReturn
      BY <2>19 DEF ReaderRecv, ReaderExit, ReaderInterim, ReaderReceive,
             ReaderApply, ReaderReply, ReaderRelease, ReaderEnd, ReaderFails,
             ReaderFailEnd, ReaderFailAbort, ReaderFailPoison, ReaderFailReturn
    <2>20. CASE DropConnection
      BY <2>20, EmptySeq DEF DropConnection
    <2>21. CASE PeerAnswer \/ PeerArticle \/ PeerClose
      BY <2>21 DEF PeerAnswer, PeerArticle, PeerClose
    <2>22. CASE Finished
      BY <2>22 DEF Finished, vars
    <2> QED BY <2>1, <2>2, <2>3, <2>4, <2>5, <2>6, <2>7, <2>8, <2>9, <2>10,
                 <2>11, <2>12, <2>13, <2>14, <2>15, <2>16, <2>17, <2>18, <2>19,
                 <2>20, <2>21, <2>22
             DEF Next, CallerNext, WriterNext, ReaderNext, PeerNext
  <1>ReaderTypeStep. IInv /\ Next => ReaderType'
    <2> SUFFICES ASSUME IInv, Next PROVE ReaderType' OBVIOUS
    <2> USE DEF IInv, TypeOK, ReaderType, readerVars, ReaderStep
    <2>1. ASSUME NEW c \in Caller,
                 \/ (\E call \in Calls : Start(c, call) \/ StartExchange(c, call))
                 \/ ProbeLock(c) \/ EnqueueRejected(c) \/ EnqueueNeedsProbe(c) \/ EnqueueLocked(c)
                 \/ SendRequest(c) \/ SendFails(c) \/ Receive(c) \/ ProbeReceive(c) \/ Cancel(c)
          PROVE  ReaderType'
      BY <2>1 DEF Start, StartExchange, ProbeLock, EnqueueRejected,
             EnqueueNeedsProbe, EnqueueLocked, SendRequest, SendFails, Receive,
             ProbeReceive, Cancel
    <2>2. CASE WriterTakeHeld \/ WriterRecv \/ WriterIdle \/ WriterCollect \/
               WriterHold \/ WriterCollected \/ WriterWrite \/ WriterWriteFails
               \/ WriterBegin \/ WriterSend \/ WriterSendFails \/ WriterProceed
               \/ WriterArticle \/ WriterArticleFails \/ WriterPoison \/
               WriterReturn \/ WriterAborted
      BY <2>2 DEF WriterTakeHeld, WriterRecv, WriterIdle, WriterCollect,
             WriterHold, WriterCollected, WriterWrite, WriterWriteFails,
             WriterBegin, WriterSend, WriterSendFails, WriterProceed,
             WriterArticle, WriterArticleFails, WriterPoison, WriterReturn,
             WriterAborted, WriterFail
    <2>3. CASE ReaderRecv
      BY <2>3, HeadTailProperties DEF ReaderRecv, LinkType
    <2>4. CASE ReaderExit
      BY <2>4 DEF ReaderExit
    <2>5. CASE ReaderInterim
      BY <2>5, HeadTailProperties DEF ReaderInterim, PeerType, FrameReady
    <2>6. CASE ReaderReceive
      BY <2>6, HeadTailProperties DEF ReaderReceive, PeerType, FrameReady
    <2>7. CASE ReaderApply
      BY <2>7 DEF ReaderApply
    <2>8. CASE ReaderReply
      BY <2>8 DEF ReaderReply
    <2>9. CASE ReaderRelease
      BY <2>9 DEF ReaderRelease, Release
    <2>10. CASE ReaderEnd
      BY <2>10 DEF ReaderEnd
    <2>11. ASSUME NEW error \in Error, ReaderFails(error)
          PROVE  ReaderType'
      BY <2>11 DEF ReaderFails
    <2>12. CASE ReaderFailEnd
      BY <2>12 DEF ReaderFailEnd
    <2>13. CASE ReaderFailAbort
      BY <2>13 DEF ReaderFailAbort
    <2>14. CASE ReaderFailPoison
      BY <2>14 DEF ReaderFailPoison, Release, StorePoisoned
    <2>15. CASE ReaderFailReturn
      BY <2>15 DEF ReaderFailReturn, Release
    <2>16. CASE DropConnection
      BY <2>16 DEF DropConnection
    <2>17. CASE PeerAnswer \/ PeerArticle \/ PeerClose
      BY <2>17 DEF PeerAnswer, PeerArticle, PeerClose
    <2>18. CASE Finished
      BY <2>18 DEF Finished, vars
    <2> QED BY <2>1, <2>2, <2>3, <2>4, <2>5, <2>6, <2>7, <2>8, <2>9, <2>10,
                 <2>11, <2>12, <2>13, <2>14, <2>15, <2>16, <2>17, <2>18
             DEF Next, CallerNext, WriterNext, ReaderNext, PeerNext
  <1>WriterShapeStep. IInv /\ Next => WriterShape'
    <2> SUFFICES ASSUME IInv, Next PROVE WriterShape' OBVIOUS
    <2> USE DEF IInv, WriterShape
    <2>1. CASE WriterTakeHeld
      BY <2>1, FirstStepType DEF WriterTakeHeld
    <2>2. CASE WriterRecv
      BY <2>2, FirstStepType DEF WriterRecv
    <2>3. CASE WriterIdle
      BY <2>3 DEF WriterIdle
    <2>4. CASE WriterCollect
      <3>1. batch \in Seq(Nat) /\ queue \in Seq(Nat) /\ queue # <<>>
        BY <2>4 DEF WriterCollect, TypeOK, LinkType, WriterType
      <3>2. Append(batch, Head(queue)) # <<>>
        BY SMT, <3>1, HeadTailProperties, AppendProperties
      <3> QED BY <2>4, <3>2 DEF WriterCollect
    <2>5. CASE WriterHold
      BY <2>5 DEF WriterHold
    <2>6. CASE WriterCollected
      BY <2>6 DEF WriterCollected
    <2>7. CASE WriterWrite
      <3>1. batch \in Seq(Nat) /\ batch # <<>> /\ sendq \in Seq(Nat)
        BY <2>7 DEF WriterWrite, TypeOK, WriterType
      <3>2. Head(batch) \in Nat /\ Len(Tail(batch)) = Len(batch) - 1
        BY <3>1, HeadTailProperties
      <3>3. Append(sendq, Head(batch)) # <<>>
        <4>1. /\ Append(sendq, Head(batch)) \in Seq(Nat) /\ Len(sendq) \in Nat
              /\ Len(Append(sendq, Head(batch))) = Len(sendq) + 1
          BY <3>1, <3>2, AppendProperties, LenProperties
        <4>2. Len(sendq) + 1 # 0
          BY SMT, <4>1
        <4> QED BY <4>1, <4>2, EmptySeq
      <3>4. Len(batch) # 1 => Tail(batch) # <<>>
        <4>1. Len(batch) \in Nat
          BY <3>1, LenProperties
        <4>2. ASSUME Tail(batch) = <<>> PROVE Len(batch) = 1
          <5>1. Len(Tail(batch)) = 0
            BY <4>2, EmptySeq
          <5> QED BY SMT, <3>2, <4>1, <5>1
        <4> QED BY <4>2
      <3>5. Len(batch) = 1 => Tail(batch) = <<>>
        <4>1. ASSUME Len(batch) = 1 PROVE Len(Tail(batch)) = 0 /\ Tail(batch) \in Seq(Nat)
          BY SMT, <3>1, <3>2, <4>1, HeadTailProperties
        <4> QED BY <4>1, EmptySeq
      <3> QED BY <2>7, <3>3, <3>4, <3>5 DEF WriterWrite
    <2>8. CASE WriterWriteFails
      BY <2>8 DEF WriterWriteFails, WriterFail, Error
    <2>9. CASE WriterBegin
      BY <2>9 DEF WriterBegin
    <2>10. CASE WriterSend
      BY <2>10 DEF WriterSend, AfterSend
    <2>11. CASE WriterSendFails
      BY <2>11 DEF WriterSendFails, WriterFail, Error
    <2>12. CASE WriterProceed
      BY <2>12 DEF WriterProceed, AfterSend
    <2>13. CASE WriterArticle
      BY <2>13 DEF WriterArticle, AfterSend
    <2>14. CASE WriterArticleFails
      BY <2>14 DEF WriterArticleFails, WriterFail, Error
    <2>15. CASE WriterPoison
      BY <2>15 DEF WriterPoison
    <2>16. CASE WriterReturn
      BY <2>16 DEF WriterReturn
    <2>17. CASE WriterAborted
      BY <2>17 DEF WriterAborted
    <2>18. CASE DropConnection
      BY <2>18 DEF DropConnection
    <2>19. CASE UNCHANGED writerVars
      BY <2>19 DEF writerVars
    <2> QED BY <2>1, <2>2, <2>3, <2>4, <2>5, <2>6, <2>7, <2>8, <2>9, <2>10,
             <2>11, <2>12, <2>13, <2>14, <2>15, <2>16, <2>17, <2>18, <2>19,
             CallerFrame, ReaderFrame, PeerFrame
             DEF Next, WriterNext
  <1>ReaderShapeStep. IInv /\ Next => ReaderShape'
    <2> SUFFICES ASSUME IInv, Next PROVE ReaderShape' OBVIOUS
    <2> USE DEF IInv, ReaderShape
    <2>1. CASE ReaderRecv
      BY <2>1 DEF ReaderRecv
    <2>2. CASE ReaderExit
      BY <2>2 DEF ReaderExit
    <2>3. CASE ReaderInterim
      BY <2>3 DEF ReaderInterim
    <2>4. CASE ReaderReceive
      BY <2>4 DEF ReaderReceive
    <2>5. CASE ReaderApply
      BY <2>5 DEF ReaderApply
    <2>6. CASE ReaderReply
      BY <2>6 DEF ReaderReply
    <2>7. CASE ReaderRelease
      BY <2>7 DEF ReaderRelease
    <2>8. CASE ReaderEnd
      BY <2>8 DEF ReaderEnd
    <2>9. ASSUME NEW error \in Error, ReaderFails(error)
          PROVE  ReaderShape'
      BY <2>9 DEF ReaderFails
    <2>10. CASE ReaderFailEnd
      BY <2>10 DEF ReaderFailEnd
    <2>11. CASE ReaderFailAbort
      BY <2>11 DEF ReaderFailAbort
    <2>12. CASE ReaderFailPoison
      BY <2>12 DEF ReaderFailPoison
    <2>13. CASE ReaderFailReturn
      BY <2>13 DEF ReaderFailReturn
    <2>14. CASE DropConnection
      BY <2>14 DEF DropConnection
    <2>15. CASE UNCHANGED readerVars
      BY <2>15 DEF readerVars
    <2> QED BY <2>1, <2>2, <2>3, <2>4, <2>5, <2>6, <2>7, <2>8, <2>9, <2>10,
             <2>11, <2>12, <2>13, <2>14, <2>15, CallerFrame, WriterFrame,
             PeerFrame
             DEF Next, ReaderNext
  <1>GateStep. IInv /\ Next => (GateShape /\ GateExact)'
    <2> SUFFICES ASSUME IInv, Next PROVE (GateShape /\ GateExact)' OBVIOUS
    <2> USE DEF IInv, GateShape, GateExact
    <2>1. /\ inflight \in Nat /\ Len(chan) \in Nat /\ chan \in Seq(Nat)
          /\ sendq \in Seq(Nat) /\ abort \in BOOLEAN
          /\ Publishing \in Nat /\ Serving \in Nat
      BY LenProperties DEF TypeOK, LinkType, WriterType, Publishing, Serving
    <2>2. CASE WriterBegin
      <3>1. /\ wpc = "begin" /\ wpc' = "send" /\ inflight' = inflight + 1
            /\ chan' = chan /\ abort' = abort /\ rpc' = rpc
        BY <2>2 DEF WriterBegin, readerVars
      <3>2. Publishing' = Publishing + 1 /\ Serving' = Serving
        BY SMT, <3>1 DEF Publishing, Serving
      <3>3. /\ inflight' >= Counted'
            /\ inflight = Counted => inflight' = Counted'
        BY SMT, <2>1, <3>1, <3>2 DEF Counted
      <3> QED BY <3>1, <3>3
    <2>3. CASE WriterSend
      <3>1. sendq # <<>> /\ chan' = Append(chan, Head(sendq))
        BY <2>3 DEF WriterSend, WriterShape
      <3>2. Len(chan') = Len(chan) + 1
        BY SMT, <2>1, <3>1, HeadTailProperties, AppendProperties
      <3>3. /\ wpc = "send" /\ wpc' # "send" /\ rpc # "dead"
            /\ inflight' = inflight /\ abort' = abort /\ rpc' = rpc
        BY <2>3 DEF WriterSend, AfterSend, readerVars
      <3>4. Publishing' = Publishing - 1 /\ Serving' = Serving
        BY SMT, <3>3 DEF Publishing, Serving
      <3>5. /\ inflight' >= Counted'
            /\ inflight = Counted => inflight' = Counted'
        BY SMT, <2>1, <3>2, <3>3, <3>4 DEF Counted
      <3> QED BY <3>3, <3>5
    <2>4. CASE WriterSendFails
      <3>1. /\ wpc = "send" /\ rpc = "dead" /\ wpc' = "poison"
            /\ inflight' = inflight - 1
            /\ chan' = chan /\ abort' = abort /\ rpc' = rpc
        BY <2>4 DEF WriterSendFails, WriterFail, readerVars
      <3>2. Publishing' = Publishing - 1 /\ Serving' = Serving
        BY SMT, <3>1 DEF Publishing, Serving
      <3>3. inflight' >= Counted'
        BY SMT, <2>1, <3>1, <3>2 DEF Counted
      <3> QED BY <3>1, <3>3
    <2>5. CASE WriterAborted
      <3>1. /\ abort /\ abort' /\ wpc' = "dead"
            /\ chan' = chan /\ inflight' = inflight /\ rpc' = rpc
        BY <2>5 DEF WriterAborted, readerVars
      <3>2. Publishing' = 0 /\ Serving' = Serving
        BY <3>1 DEF Publishing, Serving
      <3>3. inflight' >= Counted'
        BY SMT, <2>1, <3>1, <3>2 DEF Counted
      <3> QED BY <3>1, <3>3
    <2>6. CASE \/ WriterTakeHeld \/ WriterRecv \/ WriterIdle \/ WriterCollect
               \/ WriterHold \/ WriterCollected \/ WriterWrite \/ WriterWriteFails
               \/ WriterProceed \/ WriterArticle \/ WriterArticleFails
               \/ WriterPoison \/ WriterReturn
      <3>1. /\ wpc # "send" /\ wpc' # "send" /\ wpc # "dead"
            /\ UNCHANGED <<chan, inflight, abort, rpc>>
        BY <2>6, FirstStepType, AfterSendType
           DEF WriterTakeHeld, WriterRecv, WriterIdle, WriterCollect, WriterHold,
               WriterCollected, WriterWrite, WriterWriteFails, WriterProceed,
               WriterArticle, WriterArticleFails, WriterPoison, WriterReturn,
               WriterFail, linkVars, readerVars
      <3>2. Counted' = Counted
        BY <3>1 DEF Counted, Publishing, Serving
      <3> QED BY <3>1, <3>2
    <2>7. CASE ReaderRecv
      <3>1. Len(chan') = Len(chan) - 1
        BY <2>1, <2>7, HeadTailProperties DEF ReaderRecv
      <3>2. /\ rpc = "recv" /\ rpc' = "first"
            /\ UNCHANGED <<inflight, abort, wpc>>
        BY <2>7 DEF ReaderRecv, writerVars
      <3>3. Publishing' = Publishing /\ Serving' = Serving + 1
        BY SMT, <3>2 DEF Publishing, Serving, ReaderCounts
      <3>4. Counted' = Counted
        BY SMT, <2>1, <3>1, <3>3 DEF Counted
      <3> QED BY <3>2, <3>4
    <2>8. CASE ReaderExit
      <3>1. /\ rpc = "recv" /\ rpc' = "dead" /\ wpc = "dead"
            /\ UNCHANGED <<chan, inflight, abort, wpc>>
        BY <2>8 DEF ReaderExit, linkVars, writerVars
      <3>2. Counted' = Counted
        BY <3>1 DEF Counted, Publishing, Serving, ReaderCounts
      <3> QED BY <3>1, <3>2
    <2>9. CASE \/ ReaderInterim \/ ReaderReceive \/ ReaderApply \/ ReaderReply
               \/ ReaderRelease \/ \E error \in Error : ReaderFails(error)
      <3>1. /\ rpc \in ReaderCounts /\ rpc' \in ReaderCounts
            /\ UNCHANGED <<chan, inflight, abort, wpc>>
        BY <2>9 DEF ReaderInterim, ReaderReceive, ReaderApply, ReaderReply,
                    ReaderRelease, ReaderFails, linkVars, writerVars, ReaderCounts
      <3>2. Counted' = Counted
        BY <3>1 DEF Counted, Publishing, Serving
      <3> QED BY <3>1, <3>2 DEF ReaderCounts
    <2>10. CASE ReaderEnd \/ ReaderFailEnd
      <3>1. /\ rpc \in {"end", "failEnd"} /\ rpc' \in {"recv", "failAbort"}
            /\ inflight' = inflight - 1
            /\ chan' = chan /\ abort' = abort /\ wpc' = wpc
        BY <2>10 DEF ReaderEnd, ReaderFailEnd, writerVars
      <3>2. Publishing' = Publishing /\ Serving' = Serving - 1
        BY SMT, <3>1 DEF Publishing, Serving, ReaderCounts
      <3>3. /\ inflight' >= Counted'
            /\ inflight = Counted => inflight' = Counted'
        BY SMT, <2>1, <3>1, <3>2 DEF Counted
      <3> QED BY <3>1, <3>3
    <2>11. CASE ReaderFailAbort
      <3>1. /\ rpc = "failAbort" /\ rpc' = "failPoison" /\ abort'
            /\ UNCHANGED <<chan, inflight, wpc>>
        BY <2>11 DEF ReaderFailAbort, writerVars
      <3>2. Counted' = Counted
        BY <3>1 DEF Counted, Publishing, Serving, ReaderCounts
      <3> QED BY <3>1, <3>2
    <2>12. CASE ReaderFailPoison \/ ReaderFailReturn
      <3>1. /\ rpc \in {"failPoison", "failReturn"}
            /\ rpc' \in {"failReturn", "dead"}
            /\ Len(chan') = 0
            /\ UNCHANGED <<inflight, abort, wpc>>
        BY <2>12, EmptySeq DEF ReaderFailPoison, ReaderFailReturn, writerVars
      <3>2. abort /\ abort'
        BY <3>1
      <3>3. Publishing' = Publishing /\ Serving' = 0
        BY <3>1 DEF Publishing, Serving, ReaderCounts
      <3>4. inflight' >= Counted'
        BY SMT, <2>1, <3>1, <3>3 DEF Counted
      <3> QED BY <3>1, <3>2, <3>4
    <2>13. CASE DropConnection
      <3>1. /\ wpc' = "dead" /\ rpc' = "dead" /\ abort' /\ Len(chan') = 0
            /\ inflight' = inflight
        BY <2>13, EmptySeq DEF DropConnection
      <3>2. Counted' = 0
        BY SMT, <3>1 DEF Counted, Publishing, Serving, ReaderCounts
      <3> QED BY SMT, <2>1, <3>1, <3>2
    <2>14. CASE UNCHANGED <<chan, inflight, abort, writerVars, readerVars>>
      BY <2>14 DEF Counted, Publishing, Serving, writerVars, readerVars
    <2>15. CASE WriterNext
      BY <2>15, <2>2, <2>3, <2>4, <2>5, <2>6 DEF WriterNext
    <2>16. CASE ReaderNext
      BY <2>16, <2>7, <2>8, <2>9, <2>10, <2>11, <2>12 DEF ReaderNext
    <2>17. CASE \E c \in Caller : CallerNext(c)
      BY <2>17, <2>14, CallerFrame
    <2>18. CASE PeerNext \/ PeerClose \/ Finished
      BY <2>18, <2>14, PeerFrame DEF linkVars
    <2> QED BY <2>13, <2>15, <2>16, <2>17, <2>18 DEF Next
  <1>1. IInv /\ [Next]_vars => IInv'
    <2>1. IInv /\ Next => IInv'
      BY <1>CallerTypeStep, <1>SharedTypeStep, LinkTypeStep, <1>WriterTypeStep,
         <1>ReaderTypeStep, PeerTypeStep, <1>WriterShapeStep, <1>ReaderShapeStep, <1>GateStep
         DEF IInv, TypeOK
    <2>2. IInv /\ UNCHANGED vars => IInv'
      <3> SUFFICES ASSUME IInv, UNCHANGED vars PROVE IInv' OBVIOUS
      <3> USE DEF IInv, TypeOK, vars
      <3>1. CallerType' /\ SharedType'
        BY DEF CallerType, SharedType, callerVars, sharedVars
      <3>2. LinkType' /\ WriterType'
        BY DEF LinkType, WriterType, linkVars, writerVars
      <3>3. ReaderType' /\ PeerType'
        BY DEF ReaderType, PeerType, readerVars, peerVars, histVars
      <3>4. WriterShape' /\ ReaderShape'
        BY DEF WriterShape, ReaderShape, writerVars, readerVars
      <3>5. GateShape' /\ GateExact'
        BY DEF GateShape, Counted, Publishing, Serving, GateExact, linkVars,
               writerVars, readerVars
      <3> QED BY <3>1, <3>2, <3>3, <3>4, <3>5
    <2> QED BY <2>1, <2>2
  <1> QED BY <1>1, <1>InitIInv, PTL DEF Spec

(* Every variable keeps its type; in particular gate.inflight, an unsigned *)
(* counter decremented by both tasks, never goes below zero.               *)
THEOREM TypeCorrect == Spec => []TypeOK
  <1>1. IInv => TypeOK BY DEF IInv
  <1> QED BY <1>1, IInvHolds, PTL

(* PipelineGate.inflight is exact until the reader gives up, whatever the  *)
(* interleaving of begin_inflight, end_inflight and the in-flight channel. *)
THEOREM GateIsExact == Spec => []GateExact
  <1>1. IInv => GateExact BY DEF IInv
  <1> QED BY <1>1, IInvHolds, PTL

-----------------------------------------------------------------------------
(* No request is stranded.                                                 *)

(* An empty channel holds no request.                                      *)
LEMMA RangeEmpty == Range(<<>>) = {}
  BY SMT DEF Range

(* A channel that receives a request holds one more.                       *)
LEMMA RangeAppend ==
  ASSUME NEW s \in Seq(Nat), NEW e \in Nat
  PROVE  Range(Append(s, e)) = Range(s) \cup {e}
  <1>1. /\ DOMAIN s = 1..Len(s) /\ Len(s) \in Nat
        /\ DOMAIN Append(s, e) = 1..(Len(s) + 1)
    BY SMT, LenProperties, AppendProperties
  <1>2. /\ \A i \in 1..Len(s) : Append(s, e)[i] = s[i]
        /\ Append(s, e)[Len(s) + 1] = e
    BY SMT, AppendProperties
  <1> QED BY SMT, <1>1, <1>2 DEF Range

(* A channel that loses its first request holds the others.                *)
LEMMA RangeHeadTail ==
  ASSUME NEW s \in Seq(Nat), s # <<>>
  PROVE  Range(s) = {Head(s)} \cup Range(Tail(s)) /\ Head(s) \in Nat
  <1>1. /\ DOMAIN s = 1..Len(s) /\ Len(s) \in Nat \ {0}
        /\ DOMAIN Tail(s) = 1..(Len(s) - 1)
        /\ Head(s) = s[1] /\ Head(s) \in Nat
    <2>1. DOMAIN s = 1..Len(s) /\ Len(s) \in Nat \ {0}
      BY LenProperties, EmptySeq
    <2>2. Tail(s) \in Seq(Nat) /\ Len(Tail(s)) = Len(s) - 1 /\ Head(s) \in Nat
      BY HeadTailProperties
    <2>3. DOMAIN Tail(s) = 1..(Len(s) - 1)
      BY <2>2, LenProperties
    <2>4. Head(s) = s[1]
      BY SMT
    <2> QED BY <2>1, <2>2, <2>3, <2>4
  <1>2. \A i \in 1..(Len(s) - 1) : Tail(s)[i] = s[i + 1]
    BY <1>1, HeadTailProperties
  <1>3. ASSUME NEW i \in 1..Len(s), i # 1
        PROVE  s[i] \in Range(Tail(s))
    <2>1. i - 1 \in 1..(Len(s) - 1) /\ (i - 1) + 1 = i
      BY SMT, <1>1, <1>3
    <2>2. Tail(s)[i - 1] = s[i]
      BY <1>2, <2>1
    <2> QED BY <1>1, <2>1, <2>2 DEF Range
  <1>4. Range(s) \subseteq {Head(s)} \cup Range(Tail(s))
    BY <1>1, <1>3 DEF Range
  <1>5. {Head(s)} \cup Range(Tail(s)) \subseteq Range(s)
    BY SMT, <1>1, <1>2 DEF Range
  <1> QED BY <1>1, <1>4, <1>5

(* A caller without an answer always has its request, with the one-shot    *)
(* sender, in a channel or in a live task: no failure path of the writer,  *)
(* of the reader, of poisoning, of abort or of drop strands a caller.      *)
THEOREM NoRequestStranded == Spec => []NoStrandedRequest
  (* A step that only moves requests about.                                  *)
  <1>MoveKeeps.
      ASSUME NoStrandedRequest, req' = req, Owned \subseteq Owned'
      PROVE  NoStrandedRequest'
    BY <1>MoveKeeps DEF NoStrandedRequest
  (* A step that answers the requests it takes out of the engine.            *)
  <1>AnswerKeeps.
      ASSUME NoStrandedRequest, TypeOK, NEW ids, NEW answer \in Error,
             req' = Resolve(ids, answer), Owned \subseteq Owned' \cup ids
      PROVE  NoStrandedRequest'
    <2> USE <1>AnswerKeeps
    <2> SUFFICES ASSUME NEW i \in DOMAIN req', req'[i].reply = "none"
                 PROVE  (i \in Owned)'
      BY DEF NoStrandedRequest
    <2>1. i \in DOMAIN req /\ (i \notin ids => req'[i] = req[i])
      BY DEF Resolve
    <2>2. i \notin ids
      <3> SUFFICES ASSUME i \in ids PROVE FALSE OBVIOUS
      <3>1. req'[i] = [req[i] EXCEPT !.reply = answer,
                                     !.proceed = IF @ = "none" THEN "no" ELSE @]
        BY <2>1 DEF Resolve
      <3>2. req[i] \in Request
        BY <2>1, LenProperties DEF TypeOK, LinkType
      <3>3. req'[i].reply = answer
        BY <3>1, <3>2 DEF Request
      <3> QED BY <3>3 DEF Error
    <2>3. req[i].reply = "none"
      BY <2>1, <2>2
    <2>4. i \in Owned
      BY <2>1, <2>3 DEF NoStrandedRequest
    <2> QED BY <2>2, <2>4
  <1>WriterKeepsRequests.
      ASSUME IInv, NoStrandedRequest, WriterNext
      PROVE  NoStrandedRequest'
    <2> USE <1>WriterKeepsRequests
    <2> USE DEF Owned, WriterOwned, Held
    <2>1. /\ queue \in Seq(Nat) /\ chan \in Seq(Nat)
          /\ batch \in Seq(Nat) /\ sendq \in Seq(Nat) /\ held \in Nat
      BY DEF IInv, TypeOK, LinkType, WriterType
    <2>2. CASE WriterTakeHeld
      <3>1. Range(<<held>>) = {held} BY SMT DEF Range
      <3>2. Owned \subseteq Owned'
        BY <2>2, <3>1, RangeEmpty, FirstStepType
        DEF WriterTakeHeld, IInv, WriterShape, linkVars, readerVars
      <3> QED BY <2>2, <3>2, <1>MoveKeeps DEF WriterTakeHeld, linkVars
    <2>3. CASE WriterRecv
      <3>1. Range(<<Head(queue)>>) = {Head(queue)} BY SMT DEF Range
      <3>2. Range(queue) = {Head(queue)} \cup Range(queue')
        BY <2>1, <2>3, RangeHeadTail DEF WriterRecv
      <3>3. Owned \subseteq Owned'
        BY <2>3, <3>1, <3>2, RangeEmpty, FirstStepType
        DEF WriterRecv, IInv, WriterShape, readerVars
      <3> QED BY <2>3, <3>3, <1>MoveKeeps DEF WriterRecv
    <2>4. CASE WriterCollect
      <3>1. Range(queue) = {Head(queue)} \cup Range(queue') /\ Head(queue) \in Nat
        BY <2>1, <2>4, RangeHeadTail DEF WriterCollect
      <3>2. Range(batch') = Range(batch) \cup {Head(queue)}
        BY <2>1, <2>4, <3>1, RangeAppend DEF WriterCollect
      <3>3. Owned \subseteq Owned'
        BY <2>4, <3>1, <3>2 DEF WriterCollect, readerVars
      <3> QED BY <2>4, <3>3, <1>MoveKeeps DEF WriterCollect
    <2>5. CASE WriterHold
      <3>1. Range(queue) = {Head(queue)} \cup Range(queue')
        BY <2>1, <2>5, RangeHeadTail DEF WriterHold
      <3>2. Owned \ {0} \subseteq Owned'
        BY <2>5, <3>1 DEF WriterHold, IInv, WriterShape, readerVars
      <3>3. 0 \notin DOMAIN req
        BY SMT, LenProperties DEF IInv, TypeOK, LinkType
      <3> QED BY SMT, <2>5, <3>2, <3>3 DEF WriterHold, NoStrandedRequest
    <2>6. CASE WriterWrite
      <3>1. batch # <<>>
        BY <2>6 DEF WriterWrite, IInv, WriterShape
      <3>2. Range(batch) = {Head(batch)} \cup Range(batch') /\ Head(batch) \in Nat
        BY <2>1, <2>6, <3>1, RangeHeadTail DEF WriterWrite
      <3>3. Range(sendq') = Range(sendq) \cup {Head(batch)}
        BY <2>1, <2>6, <3>2, RangeAppend DEF WriterWrite
      <3>4. Owned \subseteq Owned'
        BY <2>6, <3>2, <3>3 DEF WriterWrite, linkVars, readerVars
      <3> QED BY <2>6, <3>4, <1>MoveKeeps DEF WriterWrite, linkVars
    <2>7. CASE WriterSend
      <3>1. sendq # <<>>
        BY <2>7 DEF WriterSend, IInv, WriterShape
      <3>2. Range(sendq) = {Head(sendq)} \cup Range(sendq') /\ Head(sendq) \in Nat
        BY <2>1, <2>7, <3>1, RangeHeadTail DEF WriterSend
      <3>3. Range(chan') = Range(chan) \cup {Head(sendq)}
        BY <2>1, <2>7, <3>2, RangeAppend DEF WriterSend
      <3>4. Owned \subseteq Owned'
        BY <2>7, <3>2, <3>3, AfterSendType DEF WriterSend, readerVars
      <3> QED BY <2>7, <3>4, <1>MoveKeeps DEF WriterSend
    <2>8. CASE WriterIdle \/ WriterCollected \/ WriterBegin \/ WriterProceed \/ WriterArticle
      <3>1. UNCHANGED <<req, queue, chan, batch, sendq, held, rpc, cur>>
        BY <2>8 DEF WriterIdle, WriterCollected, WriterBegin, WriterProceed,
                    WriterArticle, linkVars, readerVars
      <3>2. wpc # "dead" /\ wpc' # "dead"
        BY <2>8, AfterSendType
           DEF WriterIdle, WriterCollected, WriterBegin, WriterProceed,
                                   WriterArticle
      <3> QED BY <3>1, <3>2, <1>MoveKeeps
    <2>9. CASE WriterWriteFails \/ WriterSendFails \/ WriterArticleFails
      <3>1. PICK error \in {"Io", "ConnectionClosed"} : WriterFail(error)
        BY <2>9 DEF WriterWriteFails, WriterSendFails, WriterArticleFails
      <3>2. Owned \subseteq Owned' \cup WriterOwned
        BY <3>1 DEF WriterFail, readerVars
      <3>3. req' = Resolve(WriterOwned, error) /\ error \in Error
        BY <3>1 DEF WriterFail, Error
      <3> QED BY <3>2, <3>3, <1>AnswerKeeps DEF IInv
    <2>10. CASE WriterPoison
      <3>1. Owned \subseteq Owned' \cup Range(queue)
        BY <2>10 DEF WriterPoison, readerVars
      <3>2. req' = Resolve(Range(queue), werr) /\ werr \in Error
        BY <2>10 DEF WriterPoison, IInv, WriterShape
      <3> QED BY <3>1, <3>2, <1>AnswerKeeps DEF IInv
    <2>11. CASE WriterReturn
      <3>1. Owned \subseteq Owned' \cup Range(queue)
        BY <2>11, RangeEmpty DEF WriterReturn, IInv, WriterShape, readerVars
      <3>2. req' = Resolve(Range(queue), "dropped")
        BY <2>11 DEF WriterReturn
      <3> QED BY <3>1, <3>2, <1>AnswerKeeps DEF IInv, Error
    <2>12. CASE WriterAborted
      <3>1. Owned \subseteq Owned' \cup (WriterOwned \cup Range(queue))
        BY <2>12 DEF WriterAborted, readerVars
      <3>2. req' = Resolve(WriterOwned \cup Range(queue), "dropped")
        BY <2>12 DEF WriterAborted
      <3> QED BY <3>1, <3>2, <1>AnswerKeeps DEF IInv, Error
    <2> QED BY <2>2, <2>3, <2>4, <2>5, <2>6, <2>7, <2>8, <2>9, <2>10, <2>11, <2>12
            DEF WriterNext
  <1>ReaderKeepsRequests.
      ASSUME IInv, NoStrandedRequest, ReaderNext
      PROVE  NoStrandedRequest'
    <2> USE <1>ReaderKeepsRequests
    <2> USE DEF Owned, WriterOwned, Held
    <2>1. chan \in Seq(Nat) /\ cur \in Nat
      BY DEF IInv, TypeOK, LinkType, ReaderType
    <2>2. CASE ReaderRecv
      <3>1. Range(chan) = {Head(chan)} \cup Range(chan')
        BY <2>1, <2>2, RangeHeadTail DEF ReaderRecv
      <3>2. Owned \subseteq Owned'
        BY <2>2, <3>1 DEF ReaderRecv, writerVars
      <3> QED BY <2>2, <3>2, <1>MoveKeeps DEF ReaderRecv
    <2>3. CASE ReaderExit \/ ReaderReceive \/ ReaderApply \/ ReaderRelease \/ ReaderEnd
               \/ ReaderFailEnd \/ ReaderFailAbort
      <3>1. Owned \subseteq Owned'
        BY <2>3, RangeEmpty
           DEF ReaderExit, ReaderReceive, ReaderApply, ReaderRelease, ReaderEnd,
                    ReaderFailEnd, ReaderFailAbort, linkVars, writerVars
      <3>2. req' = req
        BY <2>3 DEF ReaderExit, ReaderReceive, ReaderApply, ReaderRelease, ReaderEnd,
                    ReaderFailEnd, ReaderFailAbort, linkVars
      <3> QED BY <3>1, <3>2, <1>MoveKeeps
    <2>4. CASE ReaderInterim
      <3>1. Owned \subseteq Owned'
        BY <2>4 DEF ReaderInterim, writerVars
      <3>2. /\ DOMAIN req' = DOMAIN req
            /\ \A i \in DOMAIN req : req'[i].reply = req[i].reply
        <4>1. \A i \in DOMAIN req : req[i] \in Request
          BY LenProperties DEF IInv, TypeOK, LinkType
        <4> QED BY <2>4, <4>1 DEF ReaderInterim, Request
      <3> QED BY <3>1, <3>2 DEF NoStrandedRequest
    <2>5. CASE ReaderReply
      <3>1. Owned \subseteq Owned' \cup {cur}
        BY <2>5 DEF ReaderReply, writerVars
      <3>2. /\ DOMAIN req' = DOMAIN req
            /\ \A i \in DOMAIN req : i # cur => req'[i] = req[i]
        BY <2>5 DEF ReaderReply
      <3>3. cur \in DOMAIN req => req'[cur].reply # "none"
        <4> SUFFICES ASSUME cur \in DOMAIN req PROVE req'[cur].reply # "none" OBVIOUS
        <4>1. req[cur] \in Request /\ resp \in Frame
          BY LenProperties DEF IInv, TypeOK, LinkType, ReaderType
        <4>2. req'[cur].reply = IF TransitionFails THEN "CapabilitiesUnavailable"
                                ELSE resp.status
          BY <2>5, <4>1 DEF ReaderReply, Request
        <4> QED BY <4>1, <4>2 DEF Frame, Status
      <3> QED BY SMT, <3>1, <3>2, <3>3 DEF NoStrandedRequest
    <2>6. ASSUME NEW error \in Error, ReaderFails(error)
          PROVE  NoStrandedRequest'
      <3>1. Owned \subseteq Owned' \cup {cur}
        BY <2>6 DEF ReaderFails, writerVars
      <3>2. req' = Resolve({cur}, error)
        BY <2>6 DEF ReaderFails
      <3> QED BY <3>1, <3>2, <1>AnswerKeeps DEF IInv
    <2>7. CASE ReaderFailPoison
      <3>1. Owned \subseteq Owned' \cup Range(chan)
        BY <2>7 DEF ReaderFailPoison, writerVars
      <3>2. req' = Resolve(Range(chan), rerr) /\ rerr \in Error
        BY <2>7 DEF ReaderFailPoison, IInv, ReaderShape
      <3> QED BY <3>1, <3>2, <1>AnswerKeeps DEF IInv
    <2>8. CASE ReaderFailReturn
      <3>1. Owned \subseteq Owned' \cup Range(chan)
        BY <2>8 DEF ReaderFailReturn, writerVars
      <3>2. req' = Resolve(Range(chan), "dropped")
        BY <2>8 DEF ReaderFailReturn
      <3> QED BY <3>1, <3>2, <1>AnswerKeeps DEF IInv, Error
    <2> QED BY <2>2, <2>3, <2>4, <2>5, <2>6, <2>7, <2>8 DEF ReaderNext
  <1>CallerKeepsRequests.
      ASSUME IInv, NoStrandedRequest, NEW c \in Caller, CallerNext(c)
      PROVE  NoStrandedRequest'
    <2> USE <1>CallerKeepsRequests
    <2> USE DEF Owned, WriterOwned, Held
    <2>1. CASE SendRequest(c)
      <3>1. queue \in Seq(Nat) /\ req \in Seq(Request) /\ Len(req) + 1 \in Nat
        BY SMT, LenProperties DEF IInv, TypeOK, LinkType
      <3>2. Range(queue') = Range(queue) \cup {Len(req) + 1}
        BY <2>1, <3>1, RangeAppend DEF SendRequest
      <3>3. Owned \subseteq Owned' /\ Len(req) + 1 \in Owned'
        BY <2>1, <3>2 DEF SendRequest, writerVars, readerVars
      <3>4. /\ DOMAIN req' = DOMAIN req \cup {Len(req) + 1}
            /\ \A i \in DOMAIN req : req'[i] = req[i]
        <4>1. QueuedRequest(c) \in Request
          BY QueuedRequestType DEF IInv
        <4>2. req' = Append(req, QueuedRequest(c))
          BY <2>1 DEF SendRequest
        <4>3. /\ req' \in Seq(Request) /\ Len(req') = Len(req) + 1
              /\ \A i \in 1..Len(req) : req'[i] = req[i]
          BY SMT, <3>1, <4>1, <4>2, AppendProperties
        <4>4. DOMAIN req = 1..Len(req) /\ Len(req) \in Nat /\ DOMAIN req' = 1..(Len(req) + 1)
          BY <3>1, <4>3, LenProperties
        <4> QED BY SMT, <4>3, <4>4
      <3> HIDE DEF Owned, WriterOwned, Held
      <3>5. ASSUME NEW i \in DOMAIN req', req'[i].reply = "none"
            PROVE  i \in Owned'
        <4>1. CASE i \in DOMAIN req
          BY <3>3, <3>4, <3>5, <4>1 DEF NoStrandedRequest
        <4>2. CASE i = Len(req) + 1
          BY <3>3, <4>2
        <4> QED BY <3>4, <3>5, <4>1, <4>2
      <3> QED BY <3>5 DEF NoStrandedRequest
    <2>2. CASE \/ \E call \in Calls : Start(c, call) \/ StartExchange(c, call)
               \/ ProbeLock(c) \/ EnqueueRejected(c) \/ EnqueueNeedsProbe(c)
               \/ EnqueueLocked(c) \/ SendFails(c) \/ Receive(c) \/ ProbeReceive(c)
               \/ Cancel(c)
      <3>1. UNCHANGED <<req, queue, chan, batch, sendq, held, wpc, rpc, cur>>
        BY <2>2 DEF Start, StartExchange, ProbeLock, EnqueueRejected, EnqueueNeedsProbe,
                    EnqueueLocked, SendFails, Receive, ProbeReceive, Cancel, linkVars,
                    writerVars, readerVars
      <3> QED BY <3>1, <1>MoveKeeps
    <2> QED BY <2>1, <2>2 DEF CallerNext
  <1>1. Init => NoStrandedRequest
    BY SMT DEF Init, NoStrandedRequest
  <1>2. IInv /\ NoStrandedRequest /\ [Next]_vars => NoStrandedRequest'
    <2> SUFFICES ASSUME IInv, NoStrandedRequest, [Next]_vars
                 PROVE  NoStrandedRequest'
      OBVIOUS
    <2>1. CASE UNCHANGED <<linkVars, writerVars, readerVars>>
      <3>1. UNCHANGED <<req, queue, chan, batch, sendq, held, wpc, rpc, cur>>
        BY <2>1 DEF linkVars, writerVars, readerVars
      <3> QED BY <3>1, <1>MoveKeeps DEF Owned, WriterOwned, Held
    <2>2. CASE DropConnection
      <3>1. \A i \in DOMAIN req : req[i] \in Request
        BY LenProperties DEF IInv, TypeOK, LinkType
      <3>2. \A i \in DOMAIN req' : req'[i].reply # "none"
        BY <2>2, <3>1 DEF DropConnection, Request
      <3> QED BY <3>2 DEF NoStrandedRequest
    <2>3. CASE PeerNext \/ PeerClose \/ Finished
      BY <2>1, <2>3, PeerFrame
    <2>4. CASE UNCHANGED vars
      BY <2>1, <2>4 DEF vars
    <2> QED BY <2>2, <2>3, <2>4, <1>CallerKeepsRequests, <1>WriterKeepsRequests,
               <1>ReaderKeepsRequests DEF Next
  <1> QED BY <1>1, <1>2, IInvHolds, PTL DEF Spec

-----------------------------------------------------------------------------
(* Runs of consecutive numbers.                                            *)

(* s holds base + 1, base + 2, ...                                         *)
Run(s, base) == \A k \in DOMAIN s : s[k] = base + k

(* What the receiving end of a channel leaves in it.                       *)
LEMMA TailAt ==
  ASSUME NEW S, NEW s \in Seq(S), s # <<>>
  PROVE  /\ Tail(s) \in Seq(S) /\ Len(s) \in Nat \ {0}
         /\ Len(Tail(s)) = Len(s) - 1
         /\ DOMAIN s = 1..Len(s) /\ DOMAIN Tail(s) = 1..(Len(s) - 1)
         /\ Head(s) = s[1] /\ Head(s) \in S
         /\ \A k \in DOMAIN Tail(s) : Tail(s)[k] = s[k + 1] /\ k + 1 \in DOMAIN s
  <1>1. DOMAIN s = 1..Len(s) /\ Len(s) \in Nat \ {0}
    BY LenProperties, EmptySeq
  <1>2. Tail(s) \in Seq(S) /\ Len(Tail(s)) = Len(s) - 1 /\ Head(s) \in S
    BY HeadTailProperties
  <1>3. DOMAIN Tail(s) = 1..(Len(s) - 1)
    BY <1>2, LenProperties
  <1>4. Head(s) = s[1]
    BY SMT
  <1>5. \A k \in 1..(Len(s) - 1) : Tail(s)[k] = s[k + 1]
    BY <1>1, HeadTailProperties
  <1> QED BY SMT, <1>1, <1>2, <1>3, <1>4, <1>5

(* What the sending end of a channel puts into it.                         *)
LEMMA AppendAt ==
  ASSUME NEW S, NEW s \in Seq(S), NEW e \in S
  PROVE  /\ Append(s, e) \in Seq(S) /\ Len(s) \in Nat
         /\ Len(Append(s, e)) = Len(s) + 1
         /\ DOMAIN s = 1..Len(s) /\ DOMAIN Append(s, e) = 1..(Len(s) + 1)
         /\ \A k \in DOMAIN s : Append(s, e)[k] = s[k]
         /\ Append(s, e)[Len(s) + 1] = e
  <1>1. DOMAIN s = 1..Len(s) /\ Len(s) \in Nat
    BY LenProperties
  <1>2. /\ Append(s, e) \in Seq(S) /\ Len(Append(s, e)) = Len(s) + 1
        /\ \A i \in 1..Len(s) : Append(s, e)[i] = s[i]
        /\ Append(s, e)[Len(s) + 1] = e
    BY SMT, AppendProperties
  <1>3. DOMAIN Append(s, e) = 1..(Len(s) + 1)
    BY <1>2, LenProperties
  <1> QED BY <1>1, <1>2, <1>3

(* Consecutive requests without their first are consecutive.               *)
LEMMA RunTail ==
  ASSUME NEW s \in Seq(Nat), s # <<>>, NEW base \in Int, Run(s, base)
  PROVE  Head(s) = base + 1 /\ Run(Tail(s), base + 1)
  <1>1. Head(s) = base + 1
    BY SMT, TailAt DEF Run
  <1>2. ASSUME NEW k \in DOMAIN Tail(s)
        PROVE  Tail(s)[k] = (base + 1) + k
    <2>1. /\ Tail(s)[k] = s[k + 1] /\ k + 1 \in DOMAIN s
          /\ DOMAIN Tail(s) = 1..(Len(s) - 1) /\ Len(s) \in Nat
      BY TailAt
    <2>2. s[k + 1] = base + (k + 1)
      BY <2>1 DEF Run
    <2> QED BY SMT, <2>1, <2>2
  <1> QED BY <1>1, <1>2 DEF Run

(* The members of a run are the numbers from base + 1 to base + Len(s).    *)
LEMMA RunRange ==
  ASSUME NEW s \in Seq(Nat), NEW base \in Int, Run(s, base)
  PROVE  /\ Len(s) \in Nat
         /\ \A i \in Range(s) : i \in Nat /\ base < i /\ i <= base + Len(s)
  <1>1. DOMAIN s = 1..Len(s) /\ Len(s) \in Nat /\ \A k \in DOMAIN s : s[k] \in Nat
    BY LenProperties
  <1>2. ASSUME NEW i \in Range(s)
        PROVE  i \in Nat /\ base < i /\ i <= base + Len(s)
    <2>1. PICK k \in DOMAIN s : s[k] = i
      BY DEF Range
    <2>2. i = base + k
      BY <2>1 DEF Run
    <2> QED BY SMT, <1>1, <2>1, <2>2
  <1> QED BY <1>1, <1>2

-----------------------------------------------------------------------------
(* What no step changes in a request.                                      *)

(* Requests are only added, and the command of a request never changes.    *)
Kept ==
  /\ Len(req) \in Nat /\ DOMAIN req = 1..Len(req)
  /\ Len(req') \in Nat /\ DOMAIN req' = 1..Len(req')
  /\ Len(req') >= Len(req)
  /\ \A i \in 1..Len(req) :
       /\ req'[i].kind = req[i].kind /\ req'[i].article = req[i].article
       /\ req'[i].large = req[i].large /\ req'[i].seen = req[i].seen

(* The request table is indexed by the numbers of its requests.            *)
LEMMA ReqDomain ==
  ASSUME IInv
  PROVE  /\ req \in Seq(Request) /\ Len(req) \in Nat /\ DOMAIN req = 1..Len(req)
         /\ \A i \in 1..Len(req) : req[i] \in Request
  BY LenProperties DEF IInv, TypeOK, LinkType

(* Resolve leaves everything alone but the two one-shots of its requests.  *)
LEMMA ResolveAt ==
  ASSUME IInv, NEW ids, NEW answer \in Error, req' = Resolve(ids, answer)
  PROVE  /\ Len(req') = Len(req) /\ DOMAIN req' = DOMAIN req
         /\ \A i \in 1..Len(req) :
              /\ req'[i].kind = req[i].kind /\ req'[i].article = req[i].article
              /\ req'[i].large = req[i].large /\ req'[i].seen = req[i].seen
              /\ req'[i].got = req[i].got
              /\ i \notin ids => req'[i] = req[i]
              /\ i \in ids => /\ req'[i].reply = answer
                             /\ req'[i].proceed = IF req[i].proceed = "none"
                                                  THEN "no" ELSE req[i].proceed
  <1>1. /\ req \in Seq(Request) /\ DOMAIN req = 1..Len(req) /\ Len(req) \in Nat
        /\ \A i \in 1..Len(req) : req[i] \in Request
    BY ReqDomain
  <1>2. req' \in Seq(Request)
    BY <1>1, ResolveType
  <1>3. DOMAIN req' = DOMAIN req
    BY DEF Resolve
  <1>4. Len(req') = Len(req)
    BY SMT, <1>1, <1>2, <1>3, LenProperties
  <1>5. ASSUME NEW i \in 1..Len(req)
        PROVE  /\ req'[i].kind = req[i].kind /\ req'[i].article = req[i].article
               /\ req'[i].large = req[i].large /\ req'[i].seen = req[i].seen
               /\ req'[i].got = req[i].got
               /\ i \notin ids => req'[i] = req[i]
               /\ i \in ids => /\ req'[i].reply = answer
                              /\ req'[i].proceed = IF req[i].proceed = "none"
                                                   THEN "no" ELSE req[i].proceed
    <2>1. req[i] \in Request /\ i \in DOMAIN req
      BY <1>1
    <2>2. CASE i \in ids
      <3>1. req'[i] = [req[i] EXCEPT !.reply = answer,
                                     !.proceed = IF @ = "none" THEN "no" ELSE @]
        BY <2>1, <2>2 DEF Resolve
      <3> QED BY <2>1, <2>2, <3>1 DEF Request
    <2>3. CASE i \notin ids
      <3>1. req'[i] = req[i]
        BY <2>1, <2>3 DEF Resolve
      <3> QED BY <2>3, <3>1
    <2> QED BY <2>2, <2>3
  <1> QED BY <1>3, <1>4, <1>5

(* send_request_with_barrier adds one request at the end.                  *)
LEMMA SendRequestAt ==
  ASSUME IInv, NEW c \in Caller, SendRequest(c)
  PROVE  /\ Len(req) \in Nat /\ Len(req') = Len(req) + 1
         /\ DOMAIN req' = 1..(Len(req) + 1)
         /\ \A i \in 1..Len(req) : req'[i] = req[i]
         /\ req'[Len(req) + 1] = QueuedRequest(c)
  BY SMT, ReqDomain, QueuedRequestType, AppendAt DEF SendRequest, IInv

(* A response changes the one request it answers.                          *)
LEMMA ReaderInterimAt ==
  ASSUME IInv, ReaderInterim
  PROVE  /\ Len(req') = Len(req) /\ DOMAIN req' = DOMAIN req
         /\ \A i \in 1..Len(req) :
              /\ req'[i].kind = req[i].kind /\ req'[i].article = req[i].article
              /\ req'[i].large = req[i].large /\ req'[i].seen = req[i].seen
              /\ req'[i].got = req[i].got /\ req'[i].reply = req[i].reply
              /\ i # cur => req'[i] = req[i]
              /\ i = cur => req'[i].proceed = IF Proceeds(req[cur].kind, Head(frames).status)
                                              THEN "yes" ELSE "no"
  <1>1. /\ req \in Seq(Request) /\ DOMAIN req = 1..Len(req) /\ Len(req) \in Nat
        /\ \A i \in 1..Len(req) : req[i] \in Request
    BY ReqDomain
  <1>2. req' \in Seq(Request) /\ DOMAIN req' = DOMAIN req
    BY LinkTypeStep DEF ReaderInterim, LinkType, Next, ReaderNext
  <1>3. Len(req') = Len(req)
    BY SMT, <1>1, <1>2, LenProperties
  <1> DEFINE decision == IF Proceeds(req[cur].kind, Head(frames).status) THEN "yes" ELSE "no"
  <1>4. req' = [req EXCEPT ![cur].proceed = decision]
    BY DEF ReaderInterim
  <1> HIDE DEF decision
  <1>5. ASSUME NEW i \in 1..Len(req)
        PROVE  /\ req'[i].kind = req[i].kind /\ req'[i].article = req[i].article
               /\ req'[i].large = req[i].large /\ req'[i].seen = req[i].seen
               /\ req'[i].got = req[i].got /\ req'[i].reply = req[i].reply
               /\ i # cur => req'[i] = req[i]
               /\ i = cur => req'[i].proceed = decision
    <2>1. req[i] \in Request /\ i \in DOMAIN req
      BY <1>1
    <2> QED BY <1>4, <2>1 DEF Request
  <1> QED BY <1>2, <1>3, <1>5 DEF decision

(* reply.send changes only the request the reader serves.                  *)
LEMMA ReaderReplyAt ==
  ASSUME IInv, ReaderReply
  PROVE  /\ Len(req') = Len(req) /\ DOMAIN req' = DOMAIN req
         /\ \A i \in 1..Len(req) :
              /\ req'[i].kind = req[i].kind /\ req'[i].article = req[i].article
              /\ req'[i].large = req[i].large /\ req'[i].seen = req[i].seen
              /\ req'[i].proceed = req[i].proceed
              /\ i # cur => req'[i] = req[i]
              /\ i = cur => /\ req'[i].got = resp.of
                            /\ req'[i].reply \in {"CapabilitiesUnavailable", resp.status}
                            /\ req[cur].kind # "Capabilities" => req'[i].reply = resp.status
  <1>1. /\ req \in Seq(Request) /\ DOMAIN req = 1..Len(req) /\ Len(req) \in Nat
        /\ \A i \in 1..Len(req) : req[i] \in Request
    BY ReqDomain
  <1>2. req' \in Seq(Request) /\ DOMAIN req' = DOMAIN req
    BY LinkTypeStep DEF ReaderReply, LinkType, Next, ReaderNext
  <1>3. Len(req') = Len(req)
    BY SMT, <1>1, <1>2, LenProperties
  <1> DEFINE answer == IF TransitionFails THEN "CapabilitiesUnavailable" ELSE resp.status
  <1>4. req' = [req EXCEPT ![cur].reply = answer, ![cur].got = resp.of]
    BY DEF ReaderReply
  <1>5. /\ answer \in {"CapabilitiesUnavailable", resp.status}
        /\ req[cur].kind # "Capabilities" => answer = resp.status
    BY DEF TransitionFails
  <1> HIDE DEF answer
  <1>6. ASSUME NEW i \in 1..Len(req)
        PROVE  /\ req'[i].kind = req[i].kind /\ req'[i].article = req[i].article
               /\ req'[i].large = req[i].large /\ req'[i].seen = req[i].seen
               /\ req'[i].proceed = req[i].proceed
               /\ i # cur => req'[i] = req[i]
               /\ i = cur => req'[i].got = resp.of /\ req'[i].reply = answer
    <2>1. req[i] \in Request /\ i \in DOMAIN req
      BY <1>1
    <2> QED BY <1>4, <2>1 DEF Request
  <1> QED BY <1>2, <1>3, <1>5, <1>6

(* Dropping the connection answers requests and changes nothing else.      *)
LEMMA DropAt ==
  ASSUME IInv, DropConnection
  PROVE  /\ Len(req') = Len(req) /\ DOMAIN req' = DOMAIN req
         /\ \A i \in 1..Len(req) :
              /\ req'[i].kind = req[i].kind /\ req'[i].article = req[i].article
              /\ req'[i].large = req[i].large /\ req'[i].seen = req[i].seen
              /\ req'[i].got = req[i].got
              /\ req[i].reply = "none" => req'[i].reply = "dropped"
              /\ req[i].reply # "none" => req'[i] = req[i]
  <1>1. /\ req \in Seq(Request) /\ DOMAIN req = 1..Len(req) /\ Len(req) \in Nat
        /\ \A i \in 1..Len(req) : req[i] \in Request
    BY ReqDomain
  <1>2. req' \in Seq(Request) /\ DOMAIN req' = DOMAIN req
    BY LinkTypeStep DEF DropConnection, LinkType, Next
  <1>3. Len(req') = Len(req)
    BY SMT, <1>1, <1>2, LenProperties
  <1>4. ASSUME NEW i \in 1..Len(req)
        PROVE  /\ req'[i].kind = req[i].kind /\ req'[i].article = req[i].article
               /\ req'[i].large = req[i].large /\ req'[i].seen = req[i].seen
               /\ req'[i].got = req[i].got
               /\ req[i].reply = "none" => req'[i].reply = "dropped"
               /\ req[i].reply # "none" => req'[i] = req[i]
    <2>1. req[i] \in Request /\ i \in DOMAIN req
      BY <1>1
    <2>2. req'[i] = IF req[i].reply = "none" THEN [req[i] EXCEPT !.reply = "dropped"] ELSE req[i]
      BY <2>1 DEF DropConnection
    <2> QED BY <2>1, <2>2 DEF Request
  <1> QED BY <1>2, <1>3, <1>4

(* Only send_request_with_barrier makes a request.                         *)
LEMMA LenStep ==
  ASSUME IInv, Next
  PROVE  Len(req') = Len(req) \/ \E c \in Caller : SendRequest(c)
  <1>1. CASE \E ids : \E answer \in Error : req' = Resolve(ids, answer)
    BY <1>1, ResolveAt
  <1>2. CASE ReaderInterim \/ ReaderReply \/ DropConnection
    BY <1>2, ReaderInterimAt, ReaderReplyAt, DropAt
  <1>3. CASE WriterWriteFails \/ WriterSendFails \/ WriterArticleFails
    BY <1>1, <1>3 DEF WriterWriteFails, WriterSendFails, WriterArticleFails, WriterFail, Error
  <1>4. CASE WriterPoison \/ WriterReturn \/ WriterAborted
    BY <1>1, <1>4 DEF WriterPoison, WriterReturn, WriterAborted, IInv, WriterShape, Error
  <1>5. CASE \/ WriterTakeHeld \/ WriterRecv \/ WriterIdle \/ WriterCollect
             \/ WriterHold \/ WriterCollected \/ WriterWrite \/ WriterBegin
             \/ WriterSend \/ WriterProceed \/ WriterArticle
    BY <1>5 DEF WriterTakeHeld, WriterRecv, WriterIdle, WriterCollect, WriterHold,
         WriterCollected, WriterWrite, WriterBegin, WriterSend, WriterProceed,
         WriterArticle, linkVars
  <1>6. CASE \E error \in Error : ReaderFails(error)
    BY <1>1, <1>6 DEF ReaderFails
  <1>7. CASE ReaderFailPoison \/ ReaderFailReturn
    BY <1>1, <1>7 DEF ReaderFailPoison, ReaderFailReturn, IInv, ReaderShape, Error
  <1>8. CASE \/ ReaderRecv \/ ReaderExit \/ ReaderReceive \/ ReaderApply \/ ReaderRelease
             \/ ReaderEnd \/ ReaderFailEnd \/ ReaderFailAbort
    BY <1>8 DEF ReaderRecv, ReaderExit, ReaderReceive, ReaderApply, ReaderRelease,
         ReaderEnd, ReaderFailEnd, ReaderFailAbort, linkVars
  <1>9. CASE PeerNext \/ PeerClose \/ Finished
    BY <1>9, PeerFrame DEF linkVars
  <1>10. ASSUME NEW c \in Caller, CallerNext(c), ~SendRequest(c)
         PROVE  req' = req
    BY <1>10 DEF CallerNext, Start, StartExchange, ProbeLock, EnqueueRejected,
                 EnqueueNeedsProbe, EnqueueLocked, SendFails, Receive, ProbeReceive,
                 Cancel, linkVars
  <1> QED BY <1>2, <1>3, <1>4, <1>5, <1>6, <1>7, <1>8, <1>9, <1>10
          DEF Next, WriterNext, ReaderNext

(* No step changes the command of a request.                               *)
LEMMA KeptStep ==
  ASSUME IInv, Next
  PROVE  Kept
  <1>1. Len(req) \in Nat /\ DOMAIN req = 1..Len(req)
    BY ReqDomain
  <1>2. CASE req' = req
    BY SMT, <1>1, <1>2 DEF Kept
  <1>3. CASE \E c \in Caller : SendRequest(c)
    BY SMT, <1>1, <1>3, SendRequestAt DEF Kept
  <1>4. CASE \E ids : \E answer \in Error : req' = Resolve(ids, answer)
    BY SMT, <1>1, <1>4, ResolveAt DEF Kept
  <1>5. CASE ReaderInterim
    BY SMT, <1>1, <1>5, ReaderInterimAt DEF Kept
  <1>6. CASE ReaderReply
    BY SMT, <1>1, <1>6, ReaderReplyAt DEF Kept
  <1>7. CASE DropConnection
    BY SMT, <1>1, <1>7, DropAt DEF Kept
  <1>8. CASE WriterNext
    <2>1. CASE WriterWriteFails \/ WriterSendFails \/ WriterArticleFails
      BY <1>4, <2>1 DEF WriterWriteFails, WriterSendFails, WriterArticleFails, WriterFail, Error
    <2>2. CASE WriterPoison \/ WriterReturn \/ WriterAborted
      BY <1>4, <2>2 DEF WriterPoison, WriterReturn, WriterAborted, IInv, WriterShape, Error
    <2>3. CASE \/ WriterTakeHeld \/ WriterRecv \/ WriterIdle \/ WriterCollect
               \/ WriterHold \/ WriterCollected \/ WriterWrite \/ WriterBegin
               \/ WriterSend \/ WriterProceed \/ WriterArticle
      <3>1. req' = req
        BY <2>3 DEF WriterTakeHeld, WriterRecv, WriterIdle, WriterCollect, WriterHold,
             WriterCollected, WriterWrite, WriterBegin, WriterSend, WriterProceed,
             WriterArticle, linkVars
      <3> QED BY <1>2, <3>1
    <2> QED BY <1>8, <2>1, <2>2, <2>3 DEF WriterNext
  <1>9. CASE ReaderNext
    <2>1. CASE \E error \in Error : ReaderFails(error)
      BY <1>4, <2>1 DEF ReaderFails
    <2>2. CASE ReaderFailPoison \/ ReaderFailReturn
      BY <1>4, <2>2 DEF ReaderFailPoison, ReaderFailReturn, IInv, ReaderShape, Error
    <2>3. CASE \/ ReaderRecv \/ ReaderExit \/ ReaderReceive \/ ReaderApply \/ ReaderRelease
               \/ ReaderEnd \/ ReaderFailEnd \/ ReaderFailAbort
      <3>1. req' = req
        BY <2>3 DEF ReaderRecv, ReaderExit, ReaderReceive, ReaderApply, ReaderRelease,
             ReaderEnd, ReaderFailEnd, ReaderFailAbort, linkVars
      <3> QED BY <1>2, <3>1
    <2> QED BY <1>5, <1>6, <1>9, <2>1, <2>2, <2>3 DEF ReaderNext
  <1>10. CASE PeerNext \/ PeerClose \/ Finished
    BY <1>2, <1>10, PeerFrame DEF linkVars
  <1>11. ASSUME NEW c \in Caller, CallerNext(c), ~SendRequest(c)
         PROVE  req' = req
    BY <1>11 DEF CallerNext, Start, StartExchange, ProbeLock, EnqueueRejected,
                 EnqueueNeedsProbe, EnqueueLocked, SendFails, Receive, ProbeReceive,
                 Cancel, linkVars
  <1> QED BY <1>2, <1>3, <1>7, <1>8, <1>9, <1>10, <1>11 DEF Next

-----------------------------------------------------------------------------
(* Consecutive requests.                                                   *)

WriterDone == wpc \in {"poison", "return", "dead"}

HeldCount == IF held = 0 THEN 0 ELSE 1

(* What the writer has still to write: its batch, the held command and the *)
(* request channel, in this order, up to the last request made.            *)
WriterOrder ==
  /\ Len(sendq) <= written
  /\ Run(queue, Len(req) - Len(queue))
  /\ Run(batch, written)
  /\ Run(sendq, written - Len(sendq))
  /\ held # 0 => held = written + Len(batch) + 1
  /\ WriterDone => batch = <<>> /\ sendq = <<>> /\ held = 0
  /\ written + Len(batch) + HeldCount + Len(queue) <= Len(req)
  /\ ~WriterDone => written + Len(batch) + HeldCount + Len(queue) = Len(req)

(* Types of the state the order of the requests speaks of.                 *)
LEMMA OrderTypes ==
  ASSUME IInv
  PROVE  /\ queue \in Seq(Nat) /\ batch \in Seq(Nat) /\ sendq \in Seq(Nat) /\ chan \in Seq(Nat)
         /\ Len(queue) \in Nat /\ Len(batch) \in Nat /\ Len(sendq) \in Nat /\ Len(chan) \in Nat
         /\ held \in Nat /\ cont \in Nat /\ cur \in Nat /\ written \in Nat /\ done \in Nat
         /\ Len(req) \in Nat /\ HeldCount \in Nat /\ abort \in BOOLEAN
         /\ wpc \in WriterStep /\ rpc \in ReaderStep
  <1>1. /\ queue \in Seq(Nat) /\ batch \in Seq(Nat) /\ sendq \in Seq(Nat) /\ chan \in Seq(Nat)
        /\ held \in Nat /\ cont \in Nat /\ cur \in Nat /\ written \in Nat /\ done \in Nat
        /\ req \in Seq(Request) /\ abort \in BOOLEAN /\ wpc \in WriterStep /\ rpc \in ReaderStep
    BY DEF IInv, TypeOK, LinkType, WriterType, ReaderType, PeerType
  <1> QED BY <1>1, LenProperties DEF HeldCount

(* An emptied channel has length 0.                                        *)
LEMMA LenEmpty == Len(<<>>) = 0
  OBVIOUS

Published == written - Len(sendq)

(* The reader has taken a request whose response it has not accepted.      *)
Serves == rpc \in {"first", "second", "apply", "reply", "failEnd", "failAbort"}

Reading == rpc \in {"recv", "first", "second", "apply", "reply", "release", "end"}

BeforeAbort == Reading \/ rpc \in {"failEnd", "failAbort"}

(* The last request the reader has taken from the in-flight channel.       *)
Taken == IF Serves THEN done + 1 ELSE done

(* The reader accepts responses for request after request, and the channel *)
(* holds the requests that follow, up to the last one published.           *)
ReaderOrder ==
  /\ done <= Published
  /\ \A k \in DOMAIN chan : done < chan[k] /\ chan[k] <= Published
  /\ BeforeAbort => Run(chan, Taken) /\ Taken + Len(chan) <= Published
  /\ BeforeAbort /\ ~WriterDone => Taken + Len(chan) = Published
  /\ Serves => cur = done + 1
  /\ rpc \in {"release", "end"} => cur = done

(* Where the requests of each buffer lie.                                  *)
LEMMA Bounds ==
  ASSUME IInv, WriterOrder, ReaderOrder
  PROVE  /\ \A i \in WriterOwned : i \in Nat /\ Published < i /\ i <= Len(req) - Len(queue)
         /\ \A i \in Range(queue) : i \in Nat /\ Len(req) - Len(queue) < i /\ i <= Len(req)
         /\ \A i \in Range(chan) : i \in Nat /\ done < i /\ i <= Published
         /\ BeforeAbort => \A i \in Range(chan) : Taken < i
         /\ Serves => cur = done + 1 /\ done < Published
         /\ done <= Published /\ Published <= written /\ written <= Len(req) - Len(queue)
         /\ done \in Nat /\ Published \in Nat /\ written \in Nat /\ Len(req) \in Nat
         /\ Len(queue) \in Nat /\ Len(queue) <= Len(req)
  <1>1. /\ queue \in Seq(Nat) /\ batch \in Seq(Nat) /\ sendq \in Seq(Nat) /\ chan \in Seq(Nat)
        /\ Len(queue) \in Nat /\ Len(batch) \in Nat /\ Len(sendq) \in Nat /\ Len(chan) \in Nat
        /\ held \in Nat /\ cur \in Nat /\ written \in Nat /\ done \in Nat
        /\ Len(req) \in Nat /\ HeldCount \in Nat
    BY OrderTypes
  <1> DEFINE q == Len(queue)  b == Len(batch)  s == Len(sendq)  n == Len(req)
  <1>2. /\ s <= written /\ written + b + HeldCount + q <= n
        /\ Run(queue, n - q) /\ Run(batch, written) /\ Run(sendq, written - s)
        /\ held # 0 => held = written + b + 1
    BY DEF WriterOrder
  <1>3. /\ Published \in Nat /\ Published = written - s /\ Published <= written
        /\ written <= n - q /\ q <= n
    BY SMT, <1>1, <1>2 DEF Published
  <1>4. \A i \in Range(queue) : i \in Nat /\ n - q < i /\ i <= n
    <2>1. n - q \in Int /\ (n - q) + q = n
      BY SMT, <1>1
    <2> QED BY <1>1, <1>2, <2>1, RunRange
  <1>5. \A i \in Range(batch) : i \in Nat /\ Published < i /\ i <= n - q
    <2>1. \A i \in Range(batch) : i \in Nat /\ written < i /\ i <= written + b
      BY SMT, <1>1, <1>2, RunRange
    <2> HIDE DEF q, b, s, n
    <2>2. written + b <= n - q
      BY SMT, <1>1, <1>2 DEF q, b, s, n
    <2> QED BY SMT, <1>1, <1>3, <2>1, <2>2 DEF q, b, s, n
  <1>6. \A i \in Range(sendq) : i \in Nat /\ Published < i /\ i <= n - q
    <2>1. written - s \in Int /\ (written - s) + s = written
      BY SMT, <1>1
    <2>2. \A i \in Range(sendq) : i \in Nat /\ written - s < i /\ i <= written
      BY <1>1, <1>2, <2>1, RunRange
    <2> QED BY SMT, <1>1, <1>3, <2>2
  <1>7. held # 0 => Published < held /\ held <= n - q
    BY SMT, <1>1, <1>2, <1>3 DEF HeldCount
  <1>8. \A i \in WriterOwned : i \in Nat /\ Published < i /\ i <= n - q
    BY <1>1, <1>5, <1>6, <1>7 DEF WriterOwned, Held
  <1>9. \A i \in Range(chan) : i \in Nat /\ done < i /\ i <= Published
    BY SMT, <1>1 DEF ReaderOrder, Range
  <1>10. BeforeAbort => \A i \in Range(chan) : Taken < i
    <2> SUFFICES ASSUME BeforeAbort PROVE \A i \in Range(chan) : Taken < i OBVIOUS
    <2>1. Taken \in Int /\ Run(chan, Taken)
      BY SMT, <1>1 DEF Taken, ReaderOrder
    <2> QED BY <1>1, <2>1, RunRange
  <1>11. Serves => cur = done + 1 /\ done < Published
    <2> SUFFICES ASSUME Serves PROVE cur = done + 1 /\ done < Published OBVIOUS
    <2>1. BeforeAbort /\ Taken = done + 1
      BY DEF Serves, BeforeAbort, Reading, Taken
    <2>2. cur = done + 1 /\ (done + 1) + Len(chan) <= Published
      BY <2>1 DEF ReaderOrder
    <2> QED BY SMT, <1>1, <1>3, <2>2
  <1> QED BY <1>1, <1>3, <1>4, <1>8, <1>9, <1>10, <1>11 DEF ReaderOrder

OrderInv == IInv /\ WriterOrder /\ ReaderOrder

(* Requests keep their order from the request channel to the response.     *)
LEMMA OrderHolds == Spec => []OrderInv
  <1>RunEmpty. \A base : Run(<<>>, base)
    BY SMT DEF Run
  <1>RunOne. \A b \in Int : Run(<<b + 1>>, b)
    BY SMT DEF Run
  <1>RunAppend.
      ASSUME NEW s \in Seq(Nat), NEW base \in Int, Run(s, base), NEW e \in Nat,
             e = base + Len(s) + 1
      PROVE  Run(Append(s, e), base)
    <2> USE <1>RunAppend
    <2> SUFFICES ASSUME NEW k \in DOMAIN Append(s, e)
                 PROVE  Append(s, e)[k] = base + k
      BY DEF Run
    <2>1. /\ Len(s) \in Nat /\ k \in 1..(Len(s) + 1) /\ DOMAIN s = 1..Len(s)
          /\ \A i \in DOMAIN s : Append(s, e)[i] = s[i]
          /\ Append(s, e)[Len(s) + 1] = e
      BY SMT, AppendAt
    <2>2. CASE k = Len(s) + 1
      BY SMT, <2>1, <2>2
    <2>3. CASE k \in DOMAIN s
      BY <2>1, <2>3 DEF Run
    <2> QED BY SMT, <2>1, <2>2, <2>3
  <1>WriterOrderStep.
      ASSUME IInv, WriterOrder, Next
      PROVE  WriterOrder'
    <2> USE <1>WriterOrderStep
    <2>1. /\ queue \in Seq(Nat) /\ batch \in Seq(Nat) /\ sendq \in Seq(Nat)
          /\ Len(queue) \in Nat /\ Len(batch) \in Nat /\ Len(sendq) \in Nat
          /\ held \in Nat /\ written \in Nat /\ Len(req) \in Nat
      BY OrderTypes
    <2>2. Len(req') \in Nat /\ Len(req') >= Len(req)
      BY KeptStep DEF Kept
    <2> USE DEF WriterOrder, HeldCount
    <2>3. CASE /\ UNCHANGED <<queue, batch, sendq, held, written>>
               /\ Len(req') = Len(req) /\ (WriterDone' <=> WriterDone)
      BY <2>3
    <2>4. ASSUME NEW c \in Caller, SendRequest(c)
          PROVE  WriterOrder'
      <3>1. /\ Len(req') = Len(req) + 1 /\ queue' = Append(queue, Len(req) + 1)
            /\ UNCHANGED <<wpc, batch, sendq, held, written>>
        BY <2>4, SendRequestAt DEF SendRequest, writerVars, histVars
      <3>2. Len(queue') = Len(queue) + 1
        BY SMT, <2>1, <3>1, AppendAt
      <3>3. Run(queue', Len(req) - Len(queue))
        BY SMT, <2>1, <3>1, <1>RunAppend
      <3>4. Len(req) - Len(queue) = Len(req') - Len(queue')
        BY SMT, <2>1, <3>1, <3>2
      <3>5. /\ WriterDone' = WriterDone /\ HeldCount' = HeldCount
            /\ Run(queue', Len(req') - Len(queue'))
        BY <3>1, <3>3, <3>4 DEF WriterDone
      <3>6. /\ written' + Len(batch') + HeldCount' + Len(queue') <= Len(req')
            /\ ~WriterDone => written' + Len(batch') + HeldCount' + Len(queue') = Len(req')
        BY SMT, <2>1, <3>1, <3>2
      <3> QED BY <3>1, <3>5, <3>6
    <2>5. CASE WriterTakeHeld
      <3>1. /\ batch = <<>> /\ held # 0 /\ wpc = "recv" /\ batch' = <<held>> /\ held' = 0
            /\ wpc' \in {"idle", "write", "collect"}
            /\ UNCHANGED <<req, queue, sendq, written>>
        BY <2>5, FirstStepType DEF WriterTakeHeld, IInv, WriterShape, linkVars, histVars
      <3>2. held = written + 1
        BY SMT, <2>1, <3>1, LenEmpty
      <3>3. Run(batch', written) /\ Len(batch') = 1
        BY SMT, <2>1, <3>1, <3>2, <1>RunOne
      <3> QED BY SMT, <2>1, <3>1, <3>2, <3>3, LenEmpty DEF WriterDone
    <2>6. CASE WriterRecv
      <3>1. /\ batch = <<>> /\ held = 0 /\ wpc = "recv" /\ batch' = <<Head(queue)>>
            /\ queue # <<>> /\ queue' = Tail(queue)
            /\ wpc' \in {"idle", "write", "collect"}
            /\ UNCHANGED <<req, held, sendq, written>>
        BY <2>6, FirstStepType DEF WriterRecv, IInv, WriterShape, histVars
      <3>2. Len(queue') = Len(queue) - 1
        BY <2>1, <3>1, TailAt
      <3>3. written + Len(queue) = Len(req)
        BY SMT, <2>1, <3>1, LenEmpty DEF WriterDone
      <3>4. Head(queue) = written + 1 /\ Run(queue', Len(req) - Len(queue) + 1)
        BY SMT, <2>1, <3>1, <3>3, RunTail
      <3>5. Run(batch', written) /\ Len(batch') = 1
        BY SMT, <2>1, <3>1, <3>4, <1>RunOne
      <3>6. Len(req) - Len(queue) + 1 = Len(req') - Len(queue')
        BY SMT, <2>1, <3>1, <3>2
      <3> QED BY SMT, <2>1, <3>1, <3>2, <3>3, <3>4, <3>5, <3>6 DEF WriterDone
    <2>7. CASE WriterCollect
      <3>1. /\ held = 0 /\ wpc = "collect" /\ batch' = Append(batch, Head(queue))
            /\ queue # <<>> /\ queue' = Tail(queue)
            /\ UNCHANGED <<req, held, sendq, written, wpc>>
        BY <2>7 DEF WriterCollect, IInv, WriterShape, histVars
      <3>2. Len(queue') = Len(queue) - 1 /\ Head(queue) \in Nat
        BY <2>1, <3>1, TailAt
      <3>3. written + Len(batch) + Len(queue) = Len(req)
        BY SMT, <2>1, <3>1 DEF WriterDone
      <3>4. Head(queue) = written + Len(batch) + 1 /\ Run(queue', Len(req) - Len(queue) + 1)
        <4>1. Len(req) - Len(queue) \in Int /\ Len(req) - Len(queue) = written + Len(batch)
          BY SMT, <2>1, <3>3
        <4> QED BY <2>1, <3>1, <4>1, RunTail
      <3>5. Run(batch', written) /\ Len(batch') = Len(batch) + 1
        BY SMT, <2>1, <3>1, <3>2, <3>4, <1>RunAppend, AppendAt
      <3>6. Len(req) - Len(queue) + 1 = Len(req') - Len(queue')
        BY SMT, <2>1, <3>1, <3>2
      <3> QED BY SMT, <2>1, <3>1, <3>2, <3>3, <3>4, <3>5, <3>6 DEF WriterDone
    <2>8. CASE WriterHold
      <3>1. /\ held = 0 /\ wpc = "collect" /\ wpc' = "write" /\ held' = Head(queue)
            /\ queue # <<>> /\ queue' = Tail(queue)
            /\ UNCHANGED <<req, batch, sendq, written>>
        BY <2>8 DEF WriterHold, IInv, WriterShape, histVars
      <3>2. Len(queue') = Len(queue) - 1
        BY <2>1, <3>1, TailAt
      <3>3. written + Len(batch) + Len(queue) = Len(req)
        BY SMT, <2>1, <3>1 DEF WriterDone
      <3>4. held' = written + Len(batch) + 1 /\ Run(queue', Len(req) - Len(queue) + 1)
        <4>1. Len(req) - Len(queue) \in Int /\ Len(req) - Len(queue) = written + Len(batch)
          BY SMT, <2>1, <3>3
        <4> QED BY <2>1, <3>1, <4>1, RunTail
      <3>5. Len(req) - Len(queue) + 1 = Len(req') - Len(queue')
        BY SMT, <2>1, <3>1, <3>2
      <3>6. /\ HeldCount' = 1 /\ ~WriterDone'
            /\ written' + Len(batch') + HeldCount' + Len(queue') = Len(req')
        BY SMT, <2>1, <3>1, <3>2, <3>3, <3>4 DEF WriterDone
      <3>7. Len(req') \in Nat /\ written' + Len(batch') + HeldCount' + Len(queue') <= Len(req')
        BY SMT, <2>2, <3>6
      <3> QED BY <3>1, <3>4, <3>5, <3>6, <3>7
    <2>9. CASE WriterWrite
      <3>1. /\ batch # <<>> /\ wpc = "write" /\ wpc' \in {"begin", "write"}
            /\ batch' = Tail(batch) /\ sendq' = Append(sendq, Head(batch))
            /\ written' = written + 1 /\ UNCHANGED <<req, queue, held>>
        BY <2>9 DEF WriterWrite, IInv, WriterShape, linkVars
      <3>2. Len(batch') = Len(batch) - 1 /\ Head(batch) \in Nat
        BY <2>1, <3>1, TailAt
      <3>3. Head(batch) = written + 1 /\ Run(batch', written + 1)
        BY SMT, <2>1, <3>1, RunTail
      <3>4. written + 1 = (written - Len(sendq)) + Len(sendq) + 1
        BY SMT, <2>1
      <3>5. Len(sendq') = Len(sendq) + 1
        BY SMT, <2>1, <3>1, <3>2, AppendAt
      <3>6. Run(sendq', written - Len(sendq))
        BY SMT, <2>1, <3>1, <3>2, <3>3, <3>4, <1>RunAppend
      <3>7. written - Len(sendq) = written' - Len(sendq')
        BY SMT, <2>1, <3>1, <3>5
      <3> QED BY SMT, <2>1, <3>1, <3>2, <3>3, <3>5, <3>6, <3>7 DEF WriterDone
    <2>10. CASE WriterSend
      <3>1. /\ sendq # <<>> /\ wpc = "send" /\ wpc' \in {"proceed", "recv", "begin"}
            /\ sendq' = Tail(sendq) /\ UNCHANGED <<req, queue, batch, held, written>>
        BY <2>10, AfterSendType DEF WriterSend, IInv, WriterShape, histVars
      <3>2. Len(sendq') = Len(sendq) - 1
        BY <2>1, <3>1, TailAt
      <3>3. Run(sendq', written - Len(sendq) + 1)
        BY SMT, <2>1, <3>1, RunTail
      <3>4. written - Len(sendq) + 1 = written' - Len(sendq')
        BY SMT, <2>1, <3>1, <3>2
      <3> QED BY SMT, <2>1, <3>1, <3>2, <3>3, <3>4 DEF WriterDone
    <2>11. ASSUME NEW error \in Error, WriterFail(error), ~WriterDone
           PROVE  WriterOrder'
      <3>1. /\ batch' = <<>> /\ sendq' = <<>> /\ held' = 0 /\ wpc' = "poison"
            /\ UNCHANGED <<queue, written>>
        BY <2>11 DEF WriterFail, histVars
      <3>2. Len(req') = Len(req)
        BY <2>11, ResolveAt DEF WriterFail
      <3> QED BY SMT, <2>1, <3>1, <3>2, <1>RunEmpty, LenEmpty DEF WriterDone
    <2>12. CASE WriterPoison \/ WriterReturn \/ WriterAborted \/ DropConnection
      <3>1. /\ batch' = <<>> /\ sendq' = <<>> /\ held' = 0 /\ WriterDone'
            /\ queue' = <<>> /\ written' = written
        BY <2>12 DEF WriterPoison, WriterReturn, WriterAborted, DropConnection, histVars,
                     WriterDone
      <3> QED BY SMT, <2>1, <2>2, <3>1, <1>RunEmpty, LenEmpty
    <2>13. CASE WriterNext
      <3>1. CASE WriterWriteFails \/ WriterSendFails \/ WriterArticleFails
        BY <2>11, <3>1
           DEF WriterWriteFails, WriterSendFails, WriterArticleFails, WriterDone, Error
      <3>2. CASE WriterIdle \/ WriterCollected \/ WriterBegin \/ WriterProceed \/ WriterArticle
        <4>1. /\ UNCHANGED <<queue, batch, sendq, held, written, req>>
              /\ ~WriterDone /\ ~WriterDone'
          BY <3>2, AfterSendType DEF WriterIdle, WriterCollected, WriterBegin, WriterProceed,
             WriterArticle, linkVars, histVars, WriterDone
        <4> QED BY <2>3, <4>1
      <3> QED BY <2>5, <2>6, <2>7, <2>8, <2>9, <2>10, <2>12, <2>13, <3>1, <3>2 DEF WriterNext
    <2>14. CASE ReaderNext
      <3>1. UNCHANGED <<queue, batch, sendq, held, written, wpc>>
        BY <2>14 DEF ReaderNext, ReaderRecv, ReaderExit, ReaderInterim, ReaderReceive,
                     ReaderApply, ReaderReply, ReaderRelease, ReaderEnd, ReaderFails,
                     ReaderFailEnd, ReaderFailAbort, ReaderFailPoison, ReaderFailReturn,
                     writerVars, histVars, linkVars
      <3>2. Len(req') = Len(req)
        <4>1. CASE req' = req
          BY <4>1
        <4>2. CASE ReaderInterim \/ ReaderReply
          BY <4>2, ReaderInterimAt, ReaderReplyAt
        <4>3. CASE \E error \in Error : ReaderFails(error)
          BY <4>3, ResolveAt DEF ReaderFails
        <4>4. CASE ReaderFailPoison \/ ReaderFailReturn
          BY <4>4, ResolveAt DEF ReaderFailPoison, ReaderFailReturn, IInv, ReaderShape, Error
        <4>5. CASE \/ ReaderRecv \/ ReaderExit \/ ReaderReceive \/ ReaderApply \/ ReaderRelease
                   \/ ReaderEnd \/ ReaderFailEnd \/ ReaderFailAbort
          BY <4>5 DEF ReaderRecv, ReaderExit, ReaderReceive, ReaderApply, ReaderRelease,
               ReaderEnd, ReaderFailEnd, ReaderFailAbort, linkVars
        <4> QED BY <2>14, <4>1, <4>2, <4>3, <4>4, <4>5 DEF ReaderNext
      <3> QED BY <2>3, <3>1, <3>2 DEF WriterDone
    <2>15. CASE PeerNext \/ PeerClose \/ Finished
      <3>1. UNCHANGED <<queue, batch, sendq, held, written, wpc, req>>
        BY <2>15
           DEF PeerNext, PeerAnswer, PeerArticle, PeerClose, Finished, vars, linkVars,
                     writerVars, histVars
      <3> QED BY <2>3, <3>1 DEF WriterDone
    <2>16. ASSUME NEW c \in Caller, CallerNext(c), ~SendRequest(c)
           PROVE  WriterOrder'
      <3>1. UNCHANGED <<queue, batch, sendq, held, written, wpc, req>>
        BY <2>16 DEF CallerNext, Start, StartExchange, ProbeLock, EnqueueRejected,
                   EnqueueNeedsProbe, EnqueueLocked, SendFails, Receive, ProbeReceive,
                   Cancel, linkVars, writerVars, histVars
      <3> QED BY <2>3, <3>1 DEF WriterDone
    <2> QED BY <2>4, <2>12, <2>13, <2>14, <2>15, <2>16 DEF Next
  <1>ReaderOrderStep.
      ASSUME IInv, WriterOrder, ReaderOrder, Next
      PROVE  ReaderOrder'
    <2> USE <1>ReaderOrderStep
    <2>1. /\ chan \in Seq(Nat) /\ sendq \in Seq(Nat) /\ Len(chan) \in Nat /\ Len(sendq) \in Nat
          /\ DOMAIN chan = 1..Len(chan)
          /\ cur \in Nat /\ written \in Nat /\ done \in Nat /\ Published \in Nat
      <3>1. /\ chan \in Seq(Nat) /\ sendq \in Seq(Nat) /\ Len(chan) \in Nat /\ Len(sendq) \in Nat
            /\ cur \in Nat /\ written \in Nat /\ done \in Nat
        BY OrderTypes
      <3>2. Published \in Nat
        BY SMT, <3>1 DEF WriterOrder, Published
      <3>3. DOMAIN chan = 1..Len(chan)
        BY <3>1, LenProperties
      <3> QED BY <3>1, <3>2, <3>3
    <2> USE DEF ReaderOrder
    <2>2. CASE /\ UNCHANGED <<chan, cur, rpc, done>> /\ Published' = Published
               /\ (WriterDone' <=> WriterDone)
      <3>1. /\ BeforeAbort' = BeforeAbort /\ Serves' = Serves /\ Taken' = Taken
        BY <2>2 DEF BeforeAbort, Reading, Serves, Taken
      <3> QED BY <2>2, <3>1
    <2>3. CASE WriterSend
      <3>1. /\ sendq # <<>> /\ wpc = "send" /\ wpc' \in {"proceed", "recv", "begin"}
            /\ sendq' = Tail(sendq) /\ chan' = Append(chan, Head(sendq))
            /\ UNCHANGED <<written, done, rpc, cur>>
        BY <2>3, AfterSendType DEF WriterSend, IInv, WriterShape, histVars, readerVars
      <3>2. Len(sendq') = Len(sendq) - 1 /\ Head(sendq) \in Nat
        BY <2>1, <3>1, TailAt
      <3>3. Published' = Published + 1
        BY SMT, <2>1, <3>1, <3>2 DEF Published
      <3>4. Head(sendq) = Published + 1
        <4>1. written - Len(sendq) \in Int /\ Run(sendq, written - Len(sendq))
          BY SMT, <2>1 DEF WriterOrder
        <4> QED BY <2>1, <3>1, <4>1, RunTail DEF Published
      <3>5. /\ Len(chan') = Len(chan) + 1 /\ DOMAIN chan' = 1..(Len(chan) + 1)
            /\ \A k \in DOMAIN chan : chan'[k] = chan[k]
            /\ chan'[Len(chan) + 1] = Published + 1
        BY SMT, <2>1, <3>1, <3>2, <3>4, AppendAt
      <3>6. \A k \in DOMAIN chan' : done' < chan'[k] /\ chan'[k] <= Published'
        <4> SUFFICES ASSUME NEW k \in DOMAIN chan'
                     PROVE  done < chan'[k] /\ chan'[k] <= Published + 1
          BY <3>1, <3>3
        <4>1. CASE k \in DOMAIN chan
          <5>1. chan'[k] = chan[k] /\ chan[k] \in Nat
            BY SMT, <2>1, <3>5, <4>1
          <5> QED BY SMT, <2>1, <4>1, <5>1
        <4>2. CASE k = Len(chan) + 1
          BY SMT, <2>1, <3>5, <4>2
        <4> QED BY SMT, <2>1, <3>5, <4>1, <4>2
      <3>7. /\ BeforeAbort' = BeforeAbort /\ Serves' = Serves /\ Taken' = Taken
            /\ ~WriterDone /\ ~WriterDone'
        BY <3>1 DEF BeforeAbort, Reading, Serves, Taken, WriterDone
      <3>8. BeforeAbort => Run(chan', Taken) /\ Taken + Len(chan') = Published'
        <4> SUFFICES ASSUME BeforeAbort
                     PROVE  Run(chan', Taken) /\ Taken + Len(chan') = Published'
          OBVIOUS
        <4>1. Taken \in Nat
          BY <2>1 DEF Taken
        <4>2. Head(sendq) = Taken + Len(chan) + 1
          BY <2>1, <3>4, <3>7
        <4>3. Run(chan', Taken)
          BY SMT, <2>1, <3>1, <3>2, <4>1, <4>2, <1>RunAppend
        <4>4. Taken + (Len(chan) + 1) = Published + 1
          BY SMT, <2>1, <3>7, <4>1
        <4> QED BY <3>3, <3>5, <4>3, <4>4
      <3>9. Taken \in Nat /\ Len(chan') \in Nat /\ Published' \in Nat /\ done' <= Published'
        BY SMT, <2>1, <3>1, <3>3, <3>5 DEF Taken
      <3> QED BY SMT, <3>1, <3>6, <3>7, <3>8, <3>9
    <2>4. CASE WriterWriteFails \/ WriterSendFails \/ WriterArticleFails \/ WriterAborted
      <3>1. /\ sendq' = <<>> /\ WriterDone' /\ UNCHANGED <<chan, cur, rpc, done, written>>
        BY <2>4 DEF WriterWriteFails, WriterSendFails, WriterArticleFails, WriterAborted,
                    WriterFail, WriterDone, readerVars, histVars
      <3>2. Published' = written /\ Published <= written
        BY SMT, <2>1, <3>1, LenEmpty DEF Published
      <3>3. \A k \in DOMAIN chan : chan[k] \in Nat
        BY SMT, <2>1
      <3>4. /\ BeforeAbort' = BeforeAbort /\ Serves' = Serves /\ Taken' = Taken /\ Taken \in Nat
        BY <2>1, <3>1 DEF BeforeAbort, Reading, Serves, Taken
      <3>5. done <= written /\ \A k \in DOMAIN chan : done < chan[k] /\ chan[k] <= written
        BY SMT, <2>1, <3>2, <3>3
      <3>6. BeforeAbort => Taken + Len(chan) <= written
        BY SMT, <2>1, <3>2, <3>4
      <3> QED BY <3>1, <3>2, <3>4, <3>5, <3>6
    <2>5. CASE WriterWrite
      <3>1. /\ batch # <<>> /\ sendq' = Append(sendq, Head(batch)) /\ written' = written + 1
            /\ wpc = "write" /\ wpc' \in {"begin", "write"}
            /\ UNCHANGED <<chan, cur, rpc, done>>
        BY <2>5 DEF WriterWrite, IInv, WriterShape, linkVars, readerVars
      <3>2. Head(batch) \in Nat
        BY <3>1, OrderTypes, TailAt
      <3>3. Len(sendq') = Len(sendq) + 1
        BY SMT, <2>1, <3>1, <3>2, AppendAt
      <3>4. Published' = Published
        BY SMT, <2>1, <3>1, <3>3 DEF Published
      <3> QED BY <2>2, <3>1, <3>4 DEF WriterDone
    <2>6. CASE WriterPoison \/ WriterReturn
      <3>1. UNCHANGED <<chan, cur, rpc, done, sendq, written>> /\ WriterDone /\ WriterDone'
        BY <2>6 DEF WriterPoison, WriterReturn, WriterDone, readerVars, histVars
      <3> QED BY <2>2, <3>1 DEF Published
    <2>7. CASE WriterNext
      <3>1. CASE \/ WriterTakeHeld \/ WriterRecv \/ WriterIdle \/ WriterCollect \/ WriterHold
                 \/ WriterCollected \/ WriterBegin \/ WriterProceed \/ WriterArticle
        <4>1. /\ UNCHANGED <<chan, cur, rpc, done, sendq, written>>
              /\ ~WriterDone /\ ~WriterDone'
          BY <3>1, FirstStepType, AfterSendType
             DEF WriterTakeHeld, WriterRecv, WriterIdle, WriterCollect, WriterHold,
                 WriterCollected, WriterBegin, WriterProceed, WriterArticle, WriterDone,
                 linkVars, readerVars, histVars
        <4> QED BY <2>2, <4>1 DEF Published
      <3> QED BY <2>3, <2>4, <2>5, <2>6, <2>7, <3>1 DEF WriterNext
    <2>8. CASE ReaderNext
      <3>0. UNCHANGED <<written, sendq, wpc>> /\ Published' = Published /\ WriterDone' = WriterDone
        BY <2>8 DEF ReaderNext, ReaderRecv, ReaderExit, ReaderInterim, ReaderReceive,
                    ReaderApply, ReaderReply, ReaderRelease, ReaderEnd, ReaderFails,
                    ReaderFailEnd, ReaderFailAbort, ReaderFailPoison, ReaderFailReturn,
                    writerVars, histVars, Published, WriterDone
      <3>1. CASE ReaderRecv
        <4>1. /\ rpc = "recv" /\ rpc' = "first" /\ chan # <<>> /\ cur' = Head(chan)
              /\ chan' = Tail(chan) /\ done' = done
          BY <3>1 DEF ReaderRecv, histVars
        <4>2. BeforeAbort /\ Taken = done /\ BeforeAbort' /\ Taken' = done + 1 /\ Serves'
          BY <4>1 DEF BeforeAbort, Reading, Serves, Taken
        <4>3. Head(chan) = done + 1 /\ Run(chan', done + 1)
          BY SMT, <2>1, <4>1, <4>2, RunTail
        <4>4. /\ Len(chan') = Len(chan) - 1
              /\ \A k \in DOMAIN chan' : chan'[k] = chan[k + 1] /\ k + 1 \in DOMAIN chan
          BY <2>1, <4>1, TailAt
        <4>5. \A k \in DOMAIN chan' : done < chan'[k] /\ chan'[k] <= Published
          BY <4>4
        <4>6. (done + 1) + Len(chan') = done + Len(chan)
          BY SMT, <2>1, <4>4
        <4> QED BY <3>0, <4>1, <4>2, <4>3, <4>5, <4>6
      <3>2. CASE ReaderExit
        <4>1. UNCHANGED <<chan, done>> /\ rpc' = "dead"
          BY <3>2 DEF ReaderExit, linkVars, histVars
        <4> QED BY <3>0, <4>1 DEF BeforeAbort, Reading, Serves
      <3>3. CASE \/ ReaderInterim \/ ReaderReceive \/ ReaderApply \/ ReaderFailEnd
                 \/ \E error \in Error : ReaderFails(error)
        <4>1. UNCHANGED <<chan, done, cur>> /\ Serves /\ Serves' /\ BeforeAbort
          BY <3>3 DEF ReaderInterim, ReaderReceive, ReaderApply, ReaderFailEnd, ReaderFails,
                      Serves, BeforeAbort, Reading, linkVars, histVars
        <4>2. BeforeAbort' /\ Taken' = Taken /\ rpc' \notin {"release", "end"}
          BY <4>1 DEF Serves, BeforeAbort, Reading, Taken
        <4> QED BY <3>0, <4>1, <4>2
      <3>4. CASE ReaderReply
        <4>1. UNCHANGED <<chan, cur>> /\ rpc = "reply" /\ rpc' = "release" /\ done' = done + 1
          BY <3>4 DEF ReaderReply
        <4>2. BeforeAbort /\ Taken = done + 1 /\ BeforeAbort' /\ Taken' = done + 1 /\ ~Serves' /\ Serves
          BY <4>1 DEF BeforeAbort, Reading, Serves, Taken
        <4>3. \A k \in DOMAIN chan : done + 1 < chan[k]
          <5> SUFFICES ASSUME NEW k \in DOMAIN chan PROVE done + 1 < chan[k] OBVIOUS
          <5>1. chan[k] = (done + 1) + k
            BY <4>2 DEF Run
          <5> QED BY SMT, <2>1, <5>1
        <4>4. done + 1 <= Published
          BY SMT, <2>1, <4>2
        <4> QED BY <3>0, <4>1, <4>2, <4>3, <4>4
      <3>5. CASE ReaderRelease \/ ReaderEnd
        <4>1. /\ UNCHANGED <<chan, done>> /\ rpc \in {"release", "end"}
              /\ \/ rpc' = "end" /\ cur' = cur
                 \/ rpc' = "recv"
          BY <3>5 DEF ReaderRelease, ReaderEnd, linkVars, histVars
        <4>2. BeforeAbort /\ Taken = done /\ BeforeAbort' /\ Taken' = done /\ ~Serves'
          BY <4>1 DEF BeforeAbort, Reading, Serves, Taken
        <4> QED BY <3>0, <4>1, <4>2
      <3>6. CASE ReaderFailAbort
        <4>1. UNCHANGED <<chan, done>> /\ rpc' = "failPoison"
          BY <3>6 DEF ReaderFailAbort, histVars
        <4> QED BY <3>0, <4>1 DEF BeforeAbort, Reading, Serves
      <3>7. CASE ReaderFailPoison \/ ReaderFailReturn
        <4>1. chan' = <<>> /\ done' = done /\ rpc' \in {"failReturn", "dead"}
          BY <3>7 DEF ReaderFailPoison, ReaderFailReturn, histVars
        <4> QED BY SMT, <3>0, <4>1 DEF BeforeAbort, Reading, Serves
      <3> QED BY <2>8, <3>1, <3>2, <3>3, <3>4, <3>5, <3>6, <3>7 DEF ReaderNext
    <2>9. CASE DropConnection
      <3>1. /\ chan' = <<>> /\ sendq' = <<>> /\ rpc' = "dead" /\ UNCHANGED <<written, done>>
        BY <2>9 DEF DropConnection, histVars
      <3>2. done' <= Published'
        BY SMT, <2>1, <3>1, LenEmpty DEF Published
      <3> QED BY SMT, <3>1, <3>2 DEF BeforeAbort, Reading, Serves
    <2>10. CASE UNCHANGED <<chan, cur, rpc, done, sendq, written, wpc>>
      BY <2>2, <2>10 DEF Published, WriterDone
    <2>11. CASE (\E c \in Caller : CallerNext(c)) \/ PeerNext \/ PeerClose \/ Finished
      <3>1. UNCHANGED <<chan, cur, rpc, done, sendq, written, wpc>>
        BY <2>11 DEF CallerNext, Start, StartExchange, ProbeLock, EnqueueRejected,
                   EnqueueNeedsProbe, EnqueueLocked, SendRequest, SendFails, Receive,
                   ProbeReceive, Cancel, PeerNext, PeerAnswer, PeerArticle, PeerClose,
                   Finished, vars, linkVars, writerVars, readerVars, histVars
      <3> QED BY <2>10, <3>1
    <2> QED BY <2>7, <2>8, <2>9, <2>11 DEF Next
  <1>1. Init => WriterOrder /\ ReaderOrder
    <2> SUFFICES ASSUME Init PROVE WriterOrder /\ ReaderOrder OBVIOUS
    <2>1. WriterOrder
      BY SMT, <1>RunEmpty, LenEmpty DEF Init, WriterOrder, WriterDone, HeldCount
    <2>2. ReaderOrder
      <3>0. sendq = <<>> /\ written = 0 /\ chan = <<>> /\ done = 0 /\ rpc = "recv"
        BY DEF Init
      <3>1. Published = 0
        <4>1. Len(sendq) = 0 /\ written = 0
          BY <3>0, LenEmpty
        <4> QED BY SMT, <4>1 DEF Published
      <3>2. ~Serves /\ Taken = 0 /\ Taken + Len(chan) = 0
        BY SMT, <3>0, LenEmpty DEF Serves, Taken
      <3>3. Run(chan, Taken)
        BY <3>0, <1>RunEmpty
      <3> QED BY SMT, <3>0, <3>1, <3>2, <3>3 DEF ReaderOrder
    <2> QED BY <2>1, <2>2
  <1>2. IInv /\ WriterOrder /\ ReaderOrder /\ [Next]_vars => (WriterOrder /\ ReaderOrder)'
    <2> SUFFICES ASSUME IInv, WriterOrder, ReaderOrder, [Next]_vars
                 PROVE  (WriterOrder /\ ReaderOrder)'
      OBVIOUS
    <2>1. CASE Next
      BY <2>1, <1>WriterOrderStep, <1>ReaderOrderStep
    <2>2. CASE UNCHANGED vars
      <3>1. UNCHANGED <<queue, batch, sendq, held, written, wpc, req, chan, rpc, cur, done>>
        BY <2>2 DEF vars, linkVars, writerVars, readerVars, histVars
      <3>2. WriterOrder'
        BY <3>1 DEF WriterOrder, WriterDone, HeldCount
      <3>3. ReaderOrder'
        BY <3>1 DEF ReaderOrder, Published, BeforeAbort, Reading, Serves, Taken, WriterDone
      <3> QED BY <3>2, <3>3
    <2> QED BY <2>1, <2>2
  <1> QED BY <1>1, <1>2, IInvHolds, PTL DEF Spec, OrderInv

-----------------------------------------------------------------------------
(* Requests nobody has decided about.                                      *)

Fresh(i) == req[i].reply = "none" /\ req[i].proceed = "none"

(* Request i is in the request channel, with the writer, in the in-flight  *)
(* channel, or with the reader before its first response.                  *)
Waiting(i) ==
  /\ i \in 1..Len(req)
  /\ \/ Len(req) - Len(queue) < i
     \/ ~WriterDone /\ Published < i
     \/ i \in Range(chan)
     \/ rpc = "first" /\ i = cur

(* The reader has the response of request i and has not sent it on.        *)
InHand(i) == i \in 1..Len(req) /\ i = cur /\ rpc \in {"second", "apply", "reply"}

Unserved ==
  \A i \in 1..Len(req) :
    /\ Waiting(i) => Fresh(i)
    /\ InHand(i) => req[i].reply = "none"

(* Nobody has answered a request that is still on its way.                 *)
LEMMA UnservedHolds == Spec => []Unserved
  (* A step that only moves requests about.                                  *)
  <1>UnservedMoves.
      ASSUME Unserved, req' = req,
             \A i \in 1..Len(req) : Waiting(i)' => Waiting(i),
             \A i \in 1..Len(req) : InHand(i)' => InHand(i) \/ Waiting(i)
      PROVE  Unserved'
    BY <1>UnservedMoves DEF Unserved, Fresh
  (* A step that answers some requests, and keeps none of them.              *)
  <1>UnservedResolves.
      ASSUME IInv, Unserved, NEW ids, NEW answer \in Error, req' = Resolve(ids, answer),
             \A i \in 1..Len(req) : Waiting(i)' => Waiting(i) /\ i \notin ids,
             \A i \in 1..Len(req) : InHand(i)' => InHand(i) /\ i \notin ids
      PROVE  Unserved'
    <2> USE <1>UnservedResolves
    <2>1. Len(req') = Len(req) /\ \A i \in 1..Len(req) : i \notin ids => req'[i] = req[i]
      BY ResolveAt
    <2> QED BY <2>1 DEF Unserved, Fresh
  <1>WriterUnserved.
      ASSUME OrderInv, Unserved, WriterNext
      PROVE  Unserved'
    <2> USE <1>WriterUnserved
    <2>1. /\ \A i \in WriterOwned : i \in Nat /\ Published < i /\ i <= Len(req) - Len(queue)
          /\ \A i \in Range(queue) : i \in Nat /\ Len(req) - Len(queue) < i /\ i <= Len(req)
          /\ \A i \in Range(chan) : i \in Nat /\ done < i /\ i <= Published
          /\ Serves => cur = done + 1 /\ done < Published
          /\ Published <= written /\ written <= Len(req) - Len(queue)
          /\ done \in Nat /\ Published \in Nat /\ written \in Nat /\ Len(req) \in Nat
          /\ Len(queue) \in Nat
      BY Bounds DEF OrderInv
    <2>2. UNCHANGED <<rpc, cur>> /\ (rpc \in {"first", "second", "apply", "reply"} => Serves)
      BY WriterFrame DEF readerVars, Serves
    <2>3. /\ queue \in Seq(Nat) /\ sendq \in Seq(Nat) /\ chan \in Seq(Nat)
      BY OrderTypes DEF OrderInv
    <2>4. CASE /\ UNCHANGED <<req, sendq, written, chan>> /\ ~WriterDone /\ ~WriterDone'
               /\ Len(queue') \in Nat /\ Len(queue') <= Len(queue)
      <3>1. Published' = Published
        BY <2>4 DEF Published
      <3>2. \A i \in 1..Len(req) : Waiting(i)' => Waiting(i)
        BY SMT, <2>1, <2>2, <2>4, <3>1 DEF Waiting
      <3>3. \A i \in 1..Len(req) : InHand(i)' => InHand(i)
        BY <2>2, <2>4 DEF InHand
      <3> QED BY <2>4, <3>2, <3>3, <1>UnservedMoves
    <2>5. CASE \/ WriterTakeHeld \/ WriterIdle \/ WriterCollected \/ WriterBegin
               \/ WriterProceed \/ WriterArticle
      <3>1. UNCHANGED <<req, sendq, written, chan, queue>> /\ ~WriterDone /\ ~WriterDone'
        BY <2>5, FirstStepType, AfterSendType
           DEF WriterTakeHeld, WriterIdle, WriterCollected, WriterBegin, WriterProceed,
               WriterArticle, WriterDone, linkVars, histVars
      <3> QED BY SMT, <2>1, <2>4, <3>1
    <2>6. CASE WriterRecv \/ WriterCollect \/ WriterHold
      <3>1. /\ UNCHANGED <<req, sendq, written, chan>> /\ ~WriterDone /\ ~WriterDone'
            /\ queue # <<>> /\ queue' = Tail(queue)
        BY <2>6, FirstStepType DEF WriterRecv, WriterCollect, WriterHold, WriterDone, histVars
      <3>2. Len(queue') \in Nat /\ Len(queue') <= Len(queue)
        BY SMT, <2>1, <2>3, <3>1, TailAt
      <3> QED BY <2>4, <3>1, <3>2
    <2>7. CASE WriterWrite
      <3>1. /\ UNCHANGED <<req, queue, chan>> /\ ~WriterDone /\ ~WriterDone'
            /\ batch # <<>> /\ sendq' = Append(sendq, Head(batch)) /\ written' = written + 1
        BY <2>7 DEF WriterWrite, WriterDone, OrderInv, IInv, WriterShape, linkVars
      <3>2. Len(sendq') = Len(sendq) + 1 /\ Len(sendq) \in Nat
        BY SMT, <2>3, <3>1, OrderTypes, TailAt, AppendAt DEF OrderInv
      <3>3. Published' = Published
        BY SMT, <2>1, <3>1, <3>2 DEF Published
      <3>4. \A i \in 1..Len(req) : Waiting(i)' => Waiting(i)
        BY <2>2, <3>1, <3>3 DEF Waiting
      <3>5. \A i \in 1..Len(req) : InHand(i)' => InHand(i)
        BY <2>2, <3>1 DEF InHand
      <3> QED BY <3>1, <3>4, <3>5, <1>UnservedMoves
    <2>8. CASE WriterSend
      <3>1. /\ UNCHANGED <<req, queue, written>> /\ ~WriterDone /\ ~WriterDone'
            /\ sendq # <<>> /\ sendq' = Tail(sendq) /\ chan' = Append(chan, Head(sendq))
        BY <2>8, AfterSendType
           DEF WriterSend, WriterDone, OrderInv, IInv, WriterShape, histVars
      <3>2. /\ Len(sendq') = Len(sendq) - 1 /\ Len(sendq) \in Nat
            /\ Head(sendq) \in Range(sendq) /\ Head(sendq) \in Nat
        BY <2>3, <3>1, TailAt, RangeHeadTail
      <3>3. Published' = Published + 1 /\ Published < Head(sendq)
        BY SMT, <2>1, <3>1, <3>2 DEF Published, WriterOwned
      <3>4. Range(chan') = Range(chan) \cup {Head(sendq)}
        BY <2>3, <3>1, <3>2, RangeAppend
      <3>5. \A i \in 1..Len(req) : Waiting(i)' => Waiting(i)
        BY SMT, <2>1, <2>2, <3>1, <3>3, <3>4 DEF Waiting
      <3>6. \A i \in 1..Len(req) : InHand(i)' => InHand(i)
        BY <2>2, <3>1 DEF InHand
      <3> QED BY <3>1, <3>5, <3>6, <1>UnservedMoves
    <2>9. ASSUME NEW ids, NEW answer \in Error, req' = Resolve(ids, answer), WriterDone',
                 chan' = chan,
                 \A i \in ids : i \in Nat /\ Published < i,
                 \/ queue' = <<>>
                 \/ queue' = queue /\ \A i \in ids : i <= Len(req) - Len(queue)
          PROVE  Unserved'
      <3>1. Len(req') = Len(req)
        BY <2>9, ResolveAt DEF OrderInv
      <3>2. ASSUME NEW i \in 1..Len(req), Waiting(i)'
            PROVE  Waiting(i) /\ i \notin ids
        <4>1. CASE Len(req') - Len(queue') < i
          BY SMT, <2>1, <2>9, <3>1, <4>1, LenEmpty DEF Waiting
        <4>2. CASE i \in Range(chan) \/ (rpc = "first" /\ i = cur)
          BY SMT, <2>1, <2>2, <2>9, <4>2 DEF Waiting
        <4> QED BY <2>2, <2>9, <3>2, <4>1, <4>2 DEF Waiting
      <3>3. ASSUME NEW i \in 1..Len(req), InHand(i)'
            PROVE  InHand(i) /\ i \notin ids
        BY SMT, <2>1, <2>2, <2>9, <3>1, <3>3 DEF InHand
      <3> QED BY <2>9, <3>2, <3>3, <1>UnservedResolves DEF OrderInv
    <2>10. CASE WriterWriteFails \/ WriterSendFails \/ WriterArticleFails
      BY <2>1, <2>9, <2>10
         DEF WriterWriteFails, WriterSendFails, WriterArticleFails, WriterFail,
                               WriterDone, Error
    <2>11. CASE WriterPoison \/ WriterReturn
      <3>1. \A i \in Range(queue) : i \in Nat /\ Published < i
        BY SMT, <2>1
      <3>2. /\ queue' = <<>> /\ chan' = chan /\ WriterDone'
            /\ \E answer \in Error : req' = Resolve(Range(queue), answer)
        BY <2>11 DEF WriterPoison, WriterReturn, OrderInv, IInv, WriterShape, WriterDone, Error
      <3> QED BY <2>9, <3>1, <3>2
    <2>12. CASE WriterAborted
      <3>1. \A i \in WriterOwned \cup Range(queue) : i \in Nat /\ Published < i
        BY SMT, <2>1
      <3>2. /\ queue' = <<>> /\ chan' = chan /\ WriterDone'
            /\ \E answer \in Error : req' = Resolve(WriterOwned \cup Range(queue), answer)
        BY <2>12 DEF WriterAborted, WriterDone, Error
      <3> QED BY <2>9, <3>1, <3>2
    <2> QED BY <2>5, <2>6, <2>7, <2>8, <2>10, <2>11, <2>12 DEF WriterNext
  <1>ReaderUnserved.
      ASSUME OrderInv, Unserved, ReaderNext
      PROVE  Unserved'
    <2> USE <1>ReaderUnserved
    <2>1. /\ \A i \in Range(chan) : i \in Nat /\ done < i /\ i <= Published
          /\ BeforeAbort => \A i \in Range(chan) : Taken < i
          /\ Serves => cur = done + 1 /\ done < Published
          /\ Published <= written /\ written <= Len(req) - Len(queue)
          /\ done \in Nat /\ Published \in Nat /\ written \in Nat /\ Len(req) \in Nat
          /\ Len(queue) \in Nat
      BY Bounds DEF OrderInv
    <2>2. /\ UNCHANGED <<queue, written, sendq, wpc>>
          /\ Published' = Published /\ WriterDone' = WriterDone
      BY DEF ReaderNext, ReaderRecv, ReaderExit, ReaderInterim, ReaderReceive,
             ReaderApply, ReaderReply, ReaderRelease, ReaderEnd, ReaderFails,
             ReaderFailEnd, ReaderFailAbort, ReaderFailPoison, ReaderFailReturn,
             writerVars, histVars, linkVars, Published, WriterDone
    <2>3. chan \in Seq(Nat) /\ cur \in Nat
      BY OrderTypes DEF OrderInv
    <2>Behind. ASSUME Serves, BeforeAbort, Taken = cur,
                      NEW i \in 1..Len(req),
                      Len(req) - Len(queue) < i \/ Published < i \/ i \in Range(chan)
               PROVE  i # cur
      <3>1. CASE i \in Range(chan)
        BY SMT, <2>1, <2>3, <2>Behind, <3>1
      <3>2. CASE Len(req) - Len(queue) < i \/ Published < i
        BY SMT, <2>1, <2>Behind, <3>2
      <3> QED BY <2>Behind, <3>1, <3>2
    <2>4. CASE ReaderRecv
      <3>1. Range(chan) = {Head(chan)} \cup Range(chan')
        BY <2>3, <2>4, RangeHeadTail DEF ReaderRecv
      <3>2. req' = req /\ rpc' = "first" /\ cur' = Head(chan)
        BY <2>4 DEF ReaderRecv
      <3>3. \A i \in 1..Len(req) : Waiting(i)' => Waiting(i)
        BY <2>2, <3>1, <3>2 DEF Waiting
      <3>4. \A i \in 1..Len(req) : InHand(i)' => InHand(i)
        BY <3>2 DEF InHand
      <3> QED BY <3>2, <3>3, <3>4, <1>UnservedMoves
    <2>5. CASE \/ ReaderExit \/ ReaderReceive \/ ReaderApply \/ ReaderRelease \/ ReaderEnd
               \/ ReaderFailEnd \/ ReaderFailAbort
      <3>1. /\ req' = req /\ chan' = chan /\ rpc' # "first"
            /\ rpc' \in {"second", "apply", "reply"}
                 => cur' = cur /\ rpc \in {"first", "second", "apply", "reply"}
        BY <2>5 DEF ReaderExit, ReaderReceive, ReaderApply, ReaderRelease, ReaderEnd,
                    ReaderFailEnd, ReaderFailAbort, linkVars
      <3>2. \A i \in 1..Len(req) : Waiting(i)' => Waiting(i)
        BY <2>2, <3>1 DEF Waiting
      <3>3. \A i \in 1..Len(req) : InHand(i)' => InHand(i) \/ Waiting(i)
        BY <3>1 DEF InHand, Waiting
      <3> QED BY <3>1, <3>2, <3>3, <1>UnservedMoves
    <2>6. CASE ReaderInterim
      <3>1. /\ chan' = chan /\ cur' = cur /\ rpc = "first" /\ rpc' \in {"second", "apply"}
        BY <2>6 DEF ReaderInterim
      <3>2. Serves /\ BeforeAbort /\ Taken = cur
        BY <2>1, <3>1 DEF Serves, BeforeAbort, Reading, Taken
      <3>3. /\ Len(req') = Len(req)
            /\ \A i \in 1..Len(req) : /\ req'[i].reply = req[i].reply
                                      /\ i # cur => req'[i] = req[i]
        BY <2>6, ReaderInterimAt DEF OrderInv
      <3>4. ASSUME NEW i \in 1..Len(req), Waiting(i)' PROVE Waiting(i) /\ i # cur
        <4>1. Len(req) - Len(queue) < i \/ (~WriterDone /\ Published < i) \/ i \in Range(chan)
          BY <2>2, <3>1, <3>3, <3>4 DEF Waiting
        <4>2. i # cur
          BY <2>Behind, <3>2, <4>1
        <4> QED BY <4>1, <4>2 DEF Waiting
      <3>5. \A i \in 1..Len(req) : InHand(i)' => Waiting(i)
        BY <3>1 DEF InHand, Waiting
      <3> QED BY <3>3, <3>4, <3>5 DEF Unserved, Fresh
    <2>7. CASE ReaderReply
      <3>1. /\ chan' = chan /\ cur' = cur /\ rpc = "reply" /\ rpc' = "release"
        BY <2>7 DEF ReaderReply
      <3>2. Serves /\ BeforeAbort /\ Taken = cur
        BY <2>1, <3>1 DEF Serves, BeforeAbort, Reading, Taken
      <3>3. /\ Len(req') = Len(req)
            /\ \A i \in 1..Len(req) : i # cur => req'[i] = req[i]
        BY <2>7, ReaderReplyAt DEF OrderInv
      <3>4. ASSUME NEW i \in 1..Len(req), Waiting(i)' PROVE Waiting(i) /\ i # cur
        <4>1. Len(req) - Len(queue) < i \/ (~WriterDone /\ Published < i) \/ i \in Range(chan)
          BY <2>2, <3>1, <3>3, <3>4 DEF Waiting
        <4>2. i # cur
          BY <2>Behind, <3>2, <4>1
        <4> QED BY <4>1, <4>2 DEF Waiting
      <3>5. \A i \in 1..Len(req) : ~InHand(i)'
        BY <3>1 DEF InHand
      <3> QED BY <3>3, <3>4, <3>5 DEF Unserved, Fresh
    <2>8. ASSUME NEW error \in Error, ReaderFails(error)
          PROVE  Unserved'
      <3>1. /\ chan' = chan /\ cur' = cur /\ rpc \in {"first", "second"} /\ rpc' = "failEnd"
            /\ req' = Resolve({cur}, error)
        BY <2>8 DEF ReaderFails
      <3>2. Serves /\ BeforeAbort /\ Taken = cur
        BY <2>1, <3>1 DEF Serves, BeforeAbort, Reading, Taken
      <3>3. Len(req') = Len(req)
        BY <3>1, ResolveAt DEF OrderInv
      <3>4. ASSUME NEW i \in 1..Len(req), Waiting(i)' PROVE Waiting(i) /\ i \notin {cur}
        <4>1. Len(req) - Len(queue) < i \/ (~WriterDone /\ Published < i) \/ i \in Range(chan)
          BY <2>2, <3>1, <3>3, <3>4 DEF Waiting
        <4>2. i # cur
          BY <2>Behind, <3>2, <4>1
        <4> QED BY <4>1, <4>2 DEF Waiting
      <3>5. \A i \in 1..Len(req) : ~InHand(i)'
        BY <3>1 DEF InHand
      <3> QED BY <3>1, <3>4, <3>5, <1>UnservedResolves DEF OrderInv
    <2>9. CASE ReaderFailPoison \/ ReaderFailReturn
      <3>1. /\ chan' = <<>> /\ rpc' \in {"failReturn", "dead"}
            /\ \E answer \in Error : req' = Resolve(Range(chan), answer)
        BY <2>9 DEF ReaderFailPoison, ReaderFailReturn, OrderInv, IInv, ReaderShape, Error
      <3>2. Len(req') = Len(req)
        BY <3>1, ResolveAt DEF OrderInv
      <3>3. ASSUME NEW i \in 1..Len(req), Waiting(i)' PROVE Waiting(i) /\ i \notin Range(chan)
        BY SMT, <2>1, <2>2, <3>1, <3>2, <3>3, RangeEmpty DEF Waiting
      <3>4. \A i \in 1..Len(req) : ~InHand(i)'
        BY <3>1 DEF InHand
      <3> QED BY <3>1, <3>3, <3>4, <1>UnservedResolves DEF OrderInv
    <2> QED BY <2>4, <2>5, <2>6, <2>7, <2>8, <2>9 DEF ReaderNext
  <1>1. Init => Unserved
    BY SMT, LenEmpty DEF Init, Unserved
  <1>2. OrderInv /\ Unserved /\ [Next]_vars => Unserved'
    <2> SUFFICES ASSUME OrderInv, Unserved, [Next]_vars PROVE Unserved' OBVIOUS
    <2>1. CASE UNCHANGED <<req, queue, written, sendq, wpc, chan, rpc, cur>>
      BY <2>1, <1>UnservedMoves DEF Waiting, InHand, Published, WriterDone
    <2>2. ASSUME NEW c \in Caller, SendRequest(c) PROVE Unserved'
      <3>1. /\ Len(req) \in Nat /\ Len(req') = Len(req) + 1
            /\ \A i \in 1..Len(req) : req'[i] = req[i]
            /\ req'[Len(req) + 1] = QueuedRequest(c)
        BY <2>2, SendRequestAt DEF OrderInv
      <3>2. queue \in Seq(Nat) /\ queue' = Append(queue, Len(req) + 1) /\ Len(queue) \in Nat
        BY <2>2, OrderTypes DEF OrderInv, SendRequest
      <3>3. Len(queue') = Len(queue) + 1
        BY SMT, <3>1, <3>2, AppendAt
      <3>4. UNCHANGED <<written, sendq, wpc, chan, rpc, cur>> /\ Published' = Published
        BY <2>2 DEF SendRequest, writerVars, readerVars, histVars, Published
      <3>5. ASSUME NEW i \in 1..Len(req)
            PROVE  /\ Waiting(i)' => Waiting(i)
                   /\ InHand(i)' => InHand(i)
        <4>1. Len(req') - Len(queue') = Len(req) - Len(queue) /\ i \in 1..Len(req')
          BY SMT, <3>1, <3>2, <3>3
        <4> QED BY <3>4, <4>1 DEF Waiting, InHand, WriterDone
      <3>6. Serves => cur \in 1..Len(req)
        <4>1. /\ Serves => cur = done + 1 /\ done < Published
              /\ Published <= written /\ written <= Len(req) - Len(queue)
              /\ done \in Nat /\ Published \in Nat /\ written \in Nat
              /\ Len(req) \in Nat /\ Len(queue) \in Nat
          BY Bounds DEF OrderInv
        <4> QED BY SMT, <4>1
      <3>7. ASSUME NEW i, i = Len(req) + 1
            PROVE  Fresh(i)' /\ ~InHand(i)'
        <4>1. req'[i].reply = "none" /\ req'[i].proceed = "none"
          <5>1. QueuedRequest(c).reply = "none" /\ QueuedRequest(c).proceed = "none"
            BY DEF QueuedRequest
          <5> QED BY <3>1, <3>7, <5>1
        <4>2. rpc' \in {"second", "apply", "reply"} => cur' # i
          BY SMT, <3>1, <3>4, <3>6, <3>7 DEF Serves
        <4> QED BY <4>1, <4>2 DEF Fresh, InHand
      <3>8. ASSUME NEW i \in 1..Len(req')
            PROVE  (Waiting(i)' => Fresh(i)') /\ (InHand(i)' => req'[i].reply = "none")
        <4>1. CASE i \in 1..Len(req)
          BY <3>1, <3>5, <4>1 DEF Unserved, Fresh
        <4>2. CASE i = Len(req) + 1
          BY <3>7, <4>2
        <4> QED BY SMT, <3>1, <4>1, <4>2
      <3> QED BY <3>8 DEF Unserved
    <2>3. ASSUME NEW c \in Caller, CallerNext(c), ~SendRequest(c) PROVE Unserved'
      BY <2>1, <2>3 DEF CallerNext, Start, StartExchange, ProbeLock, EnqueueRejected,
                 EnqueueNeedsProbe, EnqueueLocked, SendFails, Receive, ProbeReceive,
                 Cancel, linkVars, writerVars, readerVars, histVars
    <2>4. CASE PeerNext \/ PeerClose \/ Finished
      BY <2>1, <2>4, PeerFrame DEF linkVars, writerVars, readerVars, histVars
    <2>5. CASE DropConnection
      <3>1. Len(req) \in Nat /\ Len(req') = Len(req)
        BY <2>5, DropAt, ReqDomain DEF OrderInv
      <3>2. queue' = <<>> /\ chan' = <<>> /\ wpc' = "dead" /\ rpc' = "dead"
        BY <2>5 DEF DropConnection
      <3>3. \A i \in 1..Len(req) : ~Waiting(i)' /\ ~InHand(i)'
        BY SMT, <3>1, <3>2, LenEmpty, RangeEmpty DEF Waiting, InHand, WriterDone
      <3> QED BY <3>1, <3>3 DEF Unserved
    <2>6. CASE UNCHANGED vars
      BY <2>1, <2>6 DEF vars, linkVars, writerVars, readerVars, histVars
    <2> QED BY <2>2, <2>3, <2>4, <2>5, <2>6, <1>WriterUnserved, <1>ReaderUnserved DEF Next
  <1> QED BY <1>1, <1>2, OrderHolds, PTL DEF Spec

-----------------------------------------------------------------------------
(* The writer's batches: an exclusive command has one of its own.          *)

ArticleKinds ==
  \A i \in 1..Len(req) : req[i].article => req[i].kind \in ContinuationKind

BatchShape ==
  /\ wpc \in {"recv", "idle", "collect", "proceed", "article"} => sendq = <<>>
  /\ wpc = "idle" => Len(batch) = 1
  /\ wpc = "collect" => \A i \in Range(batch) : ~IsExclusive(i)
  /\ wpc = "write" => /\ \A i \in Range(sendq) : ~IsExclusive(i)
                      /\ (\E i \in Range(batch) : IsExclusive(i))
                           => /\ Len(batch) = 1 /\ sendq = <<>>
                              /\ ~abort /\ rpc # "failAbort" => done = written
  /\ (\E i \in Range(sendq) : IsExclusive(i)) => Len(sendq) = 1

(* The requests of the writer's buffers exist.                             *)
LEMMA WriterOwnedExist ==
  ASSUME OrderInv
  PROVE  \A i \in Range(batch) \cup Range(sendq) : i \in 1..Len(req)
  <1>1. /\ \A i \in WriterOwned : i \in Nat /\ Published < i /\ i <= Len(req) - Len(queue)
        /\ Published \in Nat /\ Len(req) \in Nat /\ Len(queue) \in Nat
    BY Bounds DEF OrderInv
  <1> QED BY SMT, <1>1 DEF WriterOwned

(* writer_loop writes an exclusive command in a batch of its own.          *)
LEMMA BatchHolds == Spec => [](ArticleKinds /\ BatchShape)
  (* Once the gate counts nothing, every response has been accepted.         *)
  <1>IdleMeansAnswered.
      ASSUME OrderInv, wpc = "idle", inflight = 0, sendq = <<>>, ~abort, rpc # "failAbort"
      PROVE  done = written
    <2> USE <1>IdleMeansAnswered
    <2>1. Len(chan) \in Nat /\ done \in Nat /\ written \in Nat /\ rpc \in ReaderStep
      BY OrderTypes DEF OrderInv
    <2>2. Publishing = 0 /\ Serving \in Nat /\ 0 = Len(chan) + Publishing + Serving
      BY DEF OrderInv, IInv, GateExact, Counted, Publishing, Serving
    <2>3. Len(chan) = 0 /\ Serving = 0
      BY SMT, <2>1, <2>2
    <2>4. rpc \notin ReaderCounts
      BY SMT, <2>3 DEF Serving
    <2>5. rpc = "recv"
      BY <2>1, <2>4 DEF OrderInv, IInv, GateShape, ReaderStep, ReaderCounts
    <2>6. BeforeAbort /\ Taken = done /\ ~WriterDone
      BY <2>5 DEF BeforeAbort, Reading, Taken, Serves, WriterDone
    <2>7. done + Len(chan) = Published
      BY <2>6 DEF OrderInv, ReaderOrder
    <2>8. Published = written
      BY SMT, <2>1, LenEmpty DEF Published
    <2> QED BY SMT, <2>1, <2>3, <2>7, <2>8
  (* Steps that leave the writer alone leave the batches in shape.           *)
  <1>BatchShapeFrame.
      ASSUME OrderInv, BatchShape, Next, UNCHANGED <<wpc, batch, sendq, written>>,
             ~abort' /\ rpc' # "failAbort" => ~abort /\ rpc # "failAbort",
             done' # done => Serves
      PROVE  BatchShape'
    <2> USE <1>BatchShapeFrame
    <2>1. \A i \in Range(batch) \cup Range(sendq) : IsExclusive(i)' <=> IsExclusive(i)
      BY WriterOwnedExist, KeptStep DEF IsExclusive, Kept, OrderInv
    <2>2. done = written => ~Serves
      BY SMT, Bounds DEF OrderInv
    <2> QED BY <2>1, <2>2 DEF BatchShape
  <1>BatchShapeStep.
      ASSUME OrderInv, OrderInv', ArticleKinds, BatchShape, Next
      PROVE  BatchShape'
    <2> USE <1>BatchShapeStep
    <2>1. /\ queue \in Seq(Nat) /\ batch \in Seq(Nat) /\ sendq \in Seq(Nat)
          /\ Len(batch) \in Nat /\ Len(sendq) \in Nat
      BY OrderTypes DEF OrderInv
    <2>2. CASE WriterTakeHeld \/ WriterRecv
      <3>1. PICK id : /\ wpc = "recv" /\ wpc' = FirstStep(id) /\ batch' = <<id>>
                      /\ UNCHANGED <<req, sendq>>
        BY <2>2 DEF WriterTakeHeld, WriterRecv, linkVars
      <3>2. Range(batch') = {id} /\ Len(batch') = 1 /\ sendq' = <<>>
        BY SMT, <3>1 DEF BatchShape, Range
      <3>3. IsExclusive(id)' <=> IsExclusive(id)
        BY <3>1 DEF IsExclusive
      <3>4. /\ IsExclusive(id) => wpc' = "idle"
            /\ ~IsExclusive(id) => wpc' \in {"write", "collect"}
        BY <3>1 DEF FirstStep
      <3> QED BY <3>2, <3>3, <3>4, RangeEmpty DEF BatchShape
    <2>3. CASE WriterIdle
      <3>1. /\ wpc = "idle" /\ inflight = 0 /\ wpc' = "write"
            /\ UNCHANGED <<req, batch, sendq, abort, rpc, done, written>>
        BY <2>3 DEF WriterIdle, linkVars, readerVars, histVars
      <3>2. sendq = <<>> /\ Len(batch) = 1
        BY <3>1 DEF BatchShape
      <3>3. ~abort /\ rpc # "failAbort" => done = written
        BY <3>1, <3>2, <1>IdleMeansAnswered
      <3> QED BY <3>1, <3>2, <3>3, RangeEmpty DEF BatchShape
    <2>4. CASE WriterCollect
      <3>1. /\ wpc = "collect" /\ wpc' = "collect" /\ queue # <<>> /\ ~IsExclusive(Head(queue))
            /\ batch' = Append(batch, Head(queue)) /\ UNCHANGED <<req, sendq>>
        BY <2>4 DEF WriterCollect, Alone
      <3>2. Range(batch') = Range(batch) \cup {Head(queue)}
        BY <2>1, <3>1, TailAt, RangeAppend
      <3>3. \A i : IsExclusive(i)' <=> IsExclusive(i)
        BY <3>1 DEF IsExclusive
      <3> QED BY <3>1, <3>2, <3>3, RangeEmpty DEF BatchShape
    <2>5. CASE WriterHold \/ WriterCollected
      <3>1. wpc = "collect" /\ wpc' = "write" /\ UNCHANGED <<req, batch, sendq>>
        BY <2>5 DEF WriterHold, WriterCollected, linkVars
      <3>2. \A i : IsExclusive(i)' <=> IsExclusive(i)
        BY <3>1 DEF IsExclusive
      <3> QED BY <3>1, <3>2, RangeEmpty DEF BatchShape
    <2>6. CASE WriterWrite
      <3>1. /\ wpc = "write" /\ batch # <<>> /\ batch' = Tail(batch)
            /\ sendq' = Append(sendq, Head(batch)) /\ req' = req
            /\ wpc' = IF Len(batch) = 1 THEN "begin" ELSE "write"
        BY <2>6 DEF WriterWrite, linkVars, OrderInv, IInv, WriterShape
      <3>2. /\ Range(batch) = {Head(batch)} \cup Range(batch') /\ Head(batch) \in Nat
            /\ Range(sendq') = Range(sendq) \cup {Head(batch)}
        BY <2>1, <3>1, RangeHeadTail, RangeAppend
      <3>3. Len(sendq') = Len(sendq) + 1
        BY <2>1, <3>1, <3>2, AppendAt
      <3>4. \A i : IsExclusive(i)' <=> IsExclusive(i)
        BY <3>1 DEF IsExclusive
      <3>5. CASE Len(batch) = 1
        <4>1. wpc' = "begin"
          BY <3>1, <3>5
        <4>2. IsExclusive(Head(batch)) => Len(sendq') = 1
          BY SMT, <3>1, <3>2, <3>3, LenEmpty DEF BatchShape
        <4>3. \A i \in Range(sendq) : ~IsExclusive(i)
          BY <3>1 DEF BatchShape
        <4> QED BY <3>2, <3>4, <4>1, <4>2, <4>3 DEF BatchShape
      <3>6. CASE Len(batch) # 1
        <4>1. wpc' = "write"
          BY <3>1, <3>6
        <4>2. \A i \in Range(batch) \cup Range(sendq) : ~IsExclusive(i)
          BY <3>1, <3>6 DEF BatchShape
        <4> QED BY <3>2, <3>4, <4>1, <4>2 DEF BatchShape
      <3> QED BY <3>5, <3>6
    <2>7. CASE WriterBegin
      <3>1. wpc' = "send" /\ UNCHANGED <<req, batch, sendq>>
        BY <2>7 DEF WriterBegin
      <3> QED BY <3>1 DEF BatchShape, IsExclusive
    <2>8. CASE WriterSend
      <3>1. /\ sendq # <<>> /\ sendq' = Tail(sendq) /\ UNCHANGED <<req, batch>>
            /\ wpc' = IF req[Head(sendq)].article THEN "proceed" ELSE AfterSend(sendq')
        BY <2>8 DEF WriterSend, OrderInv, IInv, WriterShape
      <3>2. /\ Range(sendq) = {Head(sendq)} \cup Range(sendq')
            /\ Len(sendq') = Len(sendq) - 1 /\ sendq' \in Seq(Nat)
        BY <2>1, <3>1, RangeHeadTail, TailAt
      <3>3. \A i : IsExclusive(i)' <=> IsExclusive(i)
        BY <3>1 DEF IsExclusive
      <3>4. (\E i \in Range(sendq) : IsExclusive(i)) => sendq' = <<>>
        <4>1. Len(sendq') = 0 => sendq' = <<>>
          BY <3>2, EmptySeq
        <4>2. (\E i \in Range(sendq) : IsExclusive(i)) => Len(sendq) = 1
          BY DEF BatchShape
        <4> QED BY SMT, <3>2, <4>1, <4>2
      <3>5. req[Head(sendq)].article => sendq' = <<>>
        <4>1. Head(sendq) \in 1..Len(req)
          BY <3>2, WriterOwnedExist
        <4>2. req[Head(sendq)].article => IsExclusive(Head(sendq))
          BY <4>1 DEF ArticleKinds, IsExclusive, Exclusive
        <4> QED BY <3>2, <3>4, <4>2
      <3>6. wpc' \in {"recv", "idle", "collect", "proceed", "article"} => sendq' = <<>>
        BY <3>1, <3>5 DEF AfterSend
      <3>7. wpc' \notin {"idle", "collect", "write"}
        BY <3>1, AfterSendType
      <3> QED BY <3>2, <3>3, <3>4, <3>6, <3>7, RangeEmpty DEF BatchShape
    <2>9. CASE WriterProceed \/ WriterArticle
      <3>1. /\ wpc \in {"proceed", "article"} /\ UNCHANGED <<req, batch, sendq>>
            /\ wpc' \in {"article", AfterSend(sendq)}
        BY <2>9 DEF WriterProceed, WriterArticle, linkVars
      <3>2. sendq = <<>>
        BY <3>1 DEF BatchShape
      <3> QED BY <3>1, <3>2, RangeEmpty, AfterSendType DEF BatchShape
    <2>10. CASE \/ WriterWriteFails \/ WriterSendFails \/ WriterArticleFails \/ WriterPoison
                \/ WriterReturn \/ WriterAborted \/ DropConnection
      <3>1. wpc' \in {"poison", "return", "dead"}
        BY <2>10 DEF WriterWriteFails, WriterSendFails, WriterArticleFails, WriterPoison,
                     WriterReturn, WriterAborted, DropConnection, WriterFail
      <3>2. sendq' = <<>>
        BY <3>1 DEF OrderInv, WriterOrder, WriterDone
      <3> QED BY <3>1, <3>2, RangeEmpty DEF BatchShape
    <2>11. CASE ReaderNext
      <3>1. UNCHANGED <<wpc, batch, sendq, written>>
        BY <2>11 DEF ReaderNext, ReaderRecv, ReaderExit, ReaderInterim, ReaderReceive,
             ReaderApply, ReaderReply, ReaderRelease, ReaderEnd, ReaderFails,
             ReaderFailEnd, ReaderFailAbort, ReaderFailPoison, ReaderFailReturn,
             writerVars, histVars
      <3>2. /\ ~abort' /\ rpc' # "failAbort" => ~abort /\ rpc # "failAbort"
            /\ done' # done => Serves
        BY SMT, <2>11 DEF ReaderNext, ReaderRecv, ReaderExit, ReaderInterim, ReaderReceive,
             ReaderApply, ReaderReply, ReaderRelease, ReaderEnd, ReaderFails,
             ReaderFailEnd, ReaderFailAbort, ReaderFailPoison, ReaderFailReturn,
             linkVars, histVars, Serves
      <3> QED BY <3>1, <3>2, <1>BatchShapeFrame
    <2>12. CASE (\E c \in Caller : CallerNext(c)) \/ PeerNext \/ PeerClose \/ Finished
      <3>1. UNCHANGED <<wpc, batch, sendq, written, abort, rpc, done>>
        BY <2>12, CallerFrame, PeerFrame DEF linkVars, writerVars, readerVars, histVars
      <3> QED BY <3>1, <1>BatchShapeFrame
    <2> QED BY <2>2, <2>3, <2>4, <2>5, <2>6, <2>7, <2>8, <2>9, <2>10, <2>11, <2>12
            DEF Next, WriterNext
  (* Only POST and IHAVE carry an article.                                   *)
  <1>ArticleKindsStep.
      ASSUME IInv, ArticleKinds, Next
      PROVE  ArticleKinds'
    <2> USE <1>ArticleKindsStep
    <2>1. /\ Len(req) \in Nat
          /\ \A i \in 1..Len(req) : req'[i].kind = req[i].kind /\ req'[i].article = req[i].article
      BY KeptStep DEF Kept
    <2>2. CASE Len(req') = Len(req)
      BY <2>1, <2>2 DEF ArticleKinds
    <2>3. ASSUME NEW c \in Caller, SendRequest(c)
          PROVE  ArticleKinds'
      <3>1. Len(req') = Len(req) + 1 /\ req'[Len(req) + 1] = QueuedRequest(c)
        BY <2>3, SendRequestAt
      <3>2. want[c] \in Call
        BY DEF IInv, TypeOK, CallerType
      <3>3. QueuedRequest(c).article => QueuedRequest(c).kind \in ContinuationKind
        BY <3>2 DEF QueuedRequest, SentKind, Call
      <3>4. ASSUME NEW i \in 1..Len(req'), req'[i].article
            PROVE  req'[i].kind \in ContinuationKind
        <4>1. CASE i \in 1..Len(req)
          BY <2>1, <3>4, <4>1 DEF ArticleKinds
        <4>2. CASE i = Len(req) + 1
          BY <3>1, <3>3, <3>4, <4>2
        <4> QED BY SMT, <2>1, <3>1, <3>4, <4>1, <4>2
      <3> QED BY <3>4 DEF ArticleKinds
    <2>4. Len(req') = Len(req) \/ \E c \in Caller : SendRequest(c)
      BY LenStep
    <2> QED BY <2>2, <2>3, <2>4
  <1>1. Init => ArticleKinds /\ BatchShape
    BY SMT, LenEmpty, RangeEmpty DEF Init, ArticleKinds, BatchShape
  <1>2. /\ OrderInv /\ OrderInv' /\ ArticleKinds /\ BatchShape /\ [Next]_vars
        => (ArticleKinds /\ BatchShape)'
    <2> SUFFICES ASSUME OrderInv, OrderInv', ArticleKinds, BatchShape, [Next]_vars
                 PROVE  (ArticleKinds /\ BatchShape)'
      OBVIOUS
    <2>1. CASE Next
      BY <2>1, <1>BatchShapeStep, <1>ArticleKindsStep DEF OrderInv
    <2>2. CASE UNCHANGED vars
      <3>1. UNCHANGED <<req, wpc, batch, sendq, abort, rpc, done, written>>
        BY <2>2 DEF vars, linkVars, writerVars, readerVars, histVars
      <3> QED BY <3>1 DEF ArticleKinds, BatchShape, IsExclusive
    <2> QED BY <2>1, <2>2
  <1> QED BY <1>1, <1>2, OrderHolds, PTL DEF Spec

-----------------------------------------------------------------------------
(* The send barrier.                                                       *)

(* Whoever sends a request holds the barrier.                              *)
Locked == \A c \in Caller : pc[c] = "sending" => barrier = c

(* A request that holds the barrier is the last one made.                  *)
HolderIsLast == barrier \in Nat => barrier = Len(req)

(* A command that nothing may follow holds the barrier from the request    *)
(* channel to the acceptance of its response.                              *)
BarrierKept ==
  ~abort => \A i \in 1..Len(req) :
    done < i /\ (i <= written \/ ~WriterDone) /\ RequiresBarrier(req[i].kind) => barrier = i

(* After an answered QUIT nothing is on its way to the connection.         *)
ClosedIsQuiet ==
  closed => /\ batch = <<>> /\ held = 0 /\ queue = <<>>
            /\ \A c \in Caller : pc[c] # "sending"

QuitIsLast ==
  \A i \in 1..Len(req) :
    req[i].kind = "Quit" /\ req[i].reply = "205" => closed /\ written = i

(* A writer that fails by itself has seen the connection closed.           *)
WriterSawClose == WriterDone /\ ~abort => ~open

BarrierInv ==
  Locked /\ HolderIsLast /\ BarrierKept /\ ClosedIsQuiet /\ QuitIsLast /\ WriterSawClose

ClientInv == OrderInv /\ Unserved /\ ArticleKinds /\ BatchShape

(* A caller that holds the send barrier is not a request that holds it.    *)
LEMMA CallersAreNotNumbers == \A c \in Caller : c \notin Nat /\ c # NoOne
  BY CallerAssumption

(* The numbers the barrier argument needs.                                 *)
LEMMA Places ==
  ASSUME ClientInv
  PROVE  /\ \A i \in WriterOwned : i \in Nat /\ Published < i
         /\ \A i \in Range(queue) : i \in Nat /\ written < i
         /\ \A i \in Range(chan) : i \in Nat
         /\ Serves => cur = done + 1 /\ done < Published
         /\ rpc \in {"release", "end"} => cur = done
         /\ done <= Published /\ Published <= written /\ written <= Len(req)
         /\ Len(batch) \in Nat /\ written + Len(batch) <= Len(req)
         /\ Len(queue) \in Nat /\ written + Len(queue) <= Len(req)
         /\ held # 0 => written < Len(req)
         /\ cur \in Nat /\ done \in Nat /\ Published \in Nat /\ written \in Nat /\ Len(req) \in Nat
  <1>1. /\ \A i \in WriterOwned : i \in Nat /\ Published < i /\ i <= Len(req) - Len(queue)
        /\ \A i \in Range(queue) : i \in Nat /\ Len(req) - Len(queue) < i /\ i <= Len(req)
        /\ \A i \in Range(chan) : i \in Nat /\ done < i /\ i <= Published
        /\ Serves => cur = done + 1 /\ done < Published
        /\ done <= Published /\ Published <= written /\ written <= Len(req) - Len(queue)
        /\ done \in Nat /\ Published \in Nat /\ written \in Nat /\ Len(req) \in Nat
        /\ Len(queue) \in Nat
    BY Bounds DEF ClientInv, OrderInv
  <1>2. /\ Len(batch) \in Nat /\ HeldCount \in Nat /\ cur \in Nat
        /\ written + Len(batch) + HeldCount + Len(queue) <= Len(req)
        /\ rpc \in {"release", "end"} => cur = done
    BY OrderTypes DEF ClientInv, OrderInv, WriterOrder, ReaderOrder
  <1>3. \A i \in Range(queue) : i \in Nat /\ written < i
    BY SMT, <1>1
  <1>4. written <= Len(req) /\ written + Len(batch) <= Len(req) /\ written + Len(queue) <= Len(req)
    BY SMT, <1>1, <1>2
  <1>5. held # 0 => HeldCount = 1
    BY DEF HeldCount
  <1>6. held # 0 => written < Len(req)
    BY SMT, <1>1, <1>2, <1>5
  <1> QED BY <1>1, <1>2, <1>3, <1>4, <1>6

(* The send barrier is held from enqueue to the accepted response.         *)
LEMMA BarrierHolds == Spec => []BarrierInv
  <1>CallerBarrier.
      ASSUME ClientInv, BarrierInv, NEW c \in Caller, CallerNext(c)
      PROVE  BarrierInv'
    <2> USE <1>CallerBarrier
    <2>1. UNCHANGED <<abort, wpc, batch, held, written, done, open>> /\ Next
      BY CallerFrame DEF writerVars, peerVars, histVars, Next
    <2>2. pc \in [Caller -> {"idle", "enqueue", "sending", "waiting", "probe"}] /\ Len(req) \in Nat
      BY OrderTypes DEF ClientInv, OrderInv, IInv, TypeOK, CallerType
    <2>3. CASE SendRequest(c)
      <3>1. /\ Len(req') = Len(req) + 1 /\ \A i \in 1..Len(req) : req'[i] = req[i]
            /\ req'[Len(req) + 1] = QueuedRequest(c)
        BY <2>3, SendRequestAt DEF ClientInv, OrderInv
      <3>2. /\ pc[c] = "sending" /\ pc' = [pc EXCEPT ![c] = "waiting"] /\ closed' = closed
            /\ barrier' = IF RequiresBarrier(SentKind(c)) THEN Len(req) + 1 ELSE NoOne
        BY <2>3 DEF SendRequest
      <3>3. barrier = c /\ barrier \notin Nat /\ \A d \in Caller : pc[d] = "sending" => d = c
        BY <3>2, CallersAreNotNumbers DEF BarrierInv, Locked
      <3>4. Locked'
        BY <2>2, <3>2, <3>3 DEF Locked
      <3>5. HolderIsLast'
        BY <2>2, <3>1, <3>2, CallerAssumption DEF HolderIsLast
      <3>6. BarrierKept'
        <4> SUFFICES ASSUME ~abort, NEW i \in 1..Len(req'), done < i,
                            i <= written \/ ~WriterDone, RequiresBarrier(req'[i].kind)
                     PROVE  barrier' = i
          BY <2>1 DEF BarrierKept, WriterDone
        <4>1. CASE i \in 1..Len(req)
          <5>1. req'[i] = req[i] /\ i \in Nat
            BY SMT, <2>2, <3>1, <4>1
          <5>2. barrier = i
            BY <4>1, <5>1 DEF BarrierInv, BarrierKept
          <5> QED BY <3>3, <5>1, <5>2
        <4>2. CASE i = Len(req) + 1
          <5>1. QueuedRequest(c).kind = SentKind(c)
            BY DEF QueuedRequest
          <5> QED BY <3>1, <3>2, <4>2, <5>1
        <4> QED BY SMT, <2>2, <3>1, <4>1, <4>2
      <3>7. ClosedIsQuiet'
        BY <3>2 DEF BarrierInv, ClosedIsQuiet
      <3>8. QuitIsLast'
        <4> SUFFICES ASSUME NEW i \in 1..Len(req'), req'[i].kind = "Quit", req'[i].reply = "205"
                     PROVE  closed /\ written = i
          BY <2>1, <3>2 DEF QuitIsLast
        <4>1. CASE i \in 1..Len(req)
          <5>1. req'[i] = req[i]
            BY <3>1, <4>1
          <5> QED BY <4>1, <5>1 DEF BarrierInv, QuitIsLast
        <4>2. CASE i = Len(req) + 1
          <5>1. QueuedRequest(c).reply = "none"
            BY DEF QueuedRequest
          <5> QED BY <3>1, <4>2, <5>1
        <4> QED BY SMT, <2>2, <3>1, <4>1, <4>2
      <3>9. WriterSawClose'
        BY <2>1 DEF BarrierInv, WriterSawClose, WriterDone
      <3> QED BY <3>4, <3>5, <3>6, <3>7, <3>8, <3>9 DEF BarrierInv
    <2>4. CASE ~SendRequest(c)
      <3>1. UNCHANGED <<req, queue, closed>>
        BY <2>4 DEF CallerNext, Start, StartExchange, ProbeLock, EnqueueRejected,
                   EnqueueNeedsProbe, EnqueueLocked, SendFails, Receive, ProbeReceive,
                   Cancel, linkVars, sharedVars
      <3>2. \/ EnqueueLocked(c)
            \/ /\ barrier' \in {barrier, NoOne} /\ (barrier' # barrier => barrier = c)
               /\ \A d \in Caller : pc'[d] = "sending" => pc[d] = "sending" /\ d # c
            \/ /\ barrier' = barrier /\ \A d \in Caller : pc'[d] = "sending" => pc[d] = "sending"
        <4>1. CASE SendFails(c)
          <5>1. barrier = c
            BY <4>1 DEF SendFails, BarrierInv, Locked
          <5> QED BY <2>2, <4>1, <5>1 DEF SendFails
        <4>2. CASE Cancel(c)
          BY <2>2, <4>2 DEF Cancel, Release
        <4>3. CASE \/ \E call \in Calls : Start(c, call) \/ StartExchange(c, call)
                   \/ ProbeLock(c) \/ EnqueueRejected(c) \/ EnqueueNeedsProbe(c) \/ Receive(c)
                   \/ ProbeReceive(c)
          BY <2>2, <4>3
             DEF Start, StartExchange, ProbeLock, EnqueueRejected, EnqueueNeedsProbe,
                            Receive, ProbeReceive, sharedVars
        <4> QED BY <2>4, <4>1, <4>2, <4>3 DEF CallerNext
      <3>3. EnqueueLocked(c) => /\ barrier = NoOne /\ barrier' = c /\ ~closed
                                /\ pc' = [pc EXCEPT ![c] = "sending"]
        BY DEF EnqueueLocked
      <3>4. Locked'
        BY <2>2, <3>2, <3>3, CallersAreNotNumbers DEF BarrierInv, Locked
      <3>5. HolderIsLast'
        BY <3>1, <3>2, <3>3, CallerAssumption DEF BarrierInv, HolderIsLast
      <3>6. BarrierKept'
        <4> SUFFICES ASSUME ~abort, NEW i \in 1..Len(req), done < i,
                            i <= written \/ ~WriterDone, RequiresBarrier(req[i].kind)
                     PROVE  barrier' = i
          BY <2>1, <3>1 DEF BarrierKept, WriterDone
        <4>1. barrier = i /\ i \in Nat
          BY SMT, <2>2 DEF BarrierInv, BarrierKept
        <4> QED BY <3>2, <3>3, <4>1, CallerAssumption
      <3>7. ClosedIsQuiet'
        BY <2>1, <3>1, <3>2, <3>3 DEF BarrierInv, ClosedIsQuiet
      <3>8. QuitIsLast' /\ WriterSawClose'
        BY <2>1, <3>1 DEF BarrierInv, QuitIsLast, WriterSawClose, WriterDone
      <3> QED BY <3>4, <3>5, <3>6, <3>7, <3>8 DEF BarrierInv
    <2> QED BY <2>3, <2>4
  <1>WriterBarrier.
      ASSUME ClientInv, BarrierInv, WriterNext
      PROVE  BarrierInv'
    <2> USE <1>WriterBarrier
    <2>1. UNCHANGED <<pc, abort, closed, rpc>>
      BY WriterFrame DEF callerVars, readerVars
    <2>2. UNCHANGED <<done, open>>
      BY DEF WriterNext, WriterTakeHeld, WriterRecv, WriterIdle, WriterCollect, WriterHold,
             WriterCollected, WriterWrite, WriterWriteFails, WriterBegin, WriterSend,
             WriterSendFails, WriterProceed, WriterArticle, WriterArticleFails, WriterPoison,
             WriterReturn, WriterAborted, WriterFail, histVars, peerVars
    <2>3. Kept /\ Len(req') = Len(req)
      <3>1. Next /\ IInv
        BY DEF Next, ClientInv, OrderInv
      <3>2. \A c \in Caller : SendRequest(c) => pc' # pc
        BY DEF SendRequest, ClientInv, OrderInv, IInv, TypeOK, CallerType
      <3> QED BY <2>1, <3>1, <3>2, LenStep, KeptStep
    <2>4. /\ \A i \in WriterOwned : i \in Nat /\ Published < i
          /\ \A i \in Range(queue) : i \in Nat /\ written < i
          /\ done <= Published /\ Published <= written /\ written <= Len(req)
          /\ Len(batch) \in Nat /\ written + Len(batch) <= Len(req)
          /\ done \in Nat /\ Published \in Nat /\ written \in Nat /\ Len(req) \in Nat
      BY Places
    (* What every step of the writer does to the barrier.                    *)
    <2>5. ASSUME barrier' = barrier \/ (barrier' = NoOne /\ barrier \in Nat),
                 closed => batch' = <<>> /\ held' = 0 /\ queue' = <<>> /\ written' = written,
                 \A i \in 1..Len(req) : req'[i].reply = "205" => req[i].reply = "205",
                 ~abort => /\ WriterDone' => ~open
                           /\ barrier' # barrier => barrier > written' /\ WriterDone'
                           /\ WriterDone => WriterDone'
                           /\ \/ written' = written
                              \/ ~WriterDone
          PROVE  BarrierInv'
      <3>1. Locked'
        BY <2>1, <2>5, CallersAreNotNumbers DEF BarrierInv, Locked
      <3>2. HolderIsLast'
        BY <2>3, <2>5, CallerAssumption DEF BarrierInv, HolderIsLast
      <3>3. BarrierKept'
        <4> SUFFICES ASSUME ~abort, NEW i \in 1..Len(req), done < i,
                            i <= written' \/ ~WriterDone', RequiresBarrier(req'[i].kind)
                     PROVE  barrier' = i
          BY <2>1, <2>2, <2>3 DEF BarrierKept
        <4>1. req'[i].kind = req[i].kind /\ i \in Nat
          BY SMT, <2>3 DEF Kept
        <4>2. i <= written \/ ~WriterDone
          BY <2>5
        <4>3. barrier = i
          BY <4>1, <4>2 DEF BarrierInv, BarrierKept
        <4>4. CASE barrier' # barrier
          <5>1. i > written' /\ WriterDone'
            BY <2>5, <4>3, <4>4
          <5>2. written' \in Nat
            BY PeerTypeStep DEF ClientInv, OrderInv, Next, PeerType
          <5> QED BY SMT, <4>1, <5>1, <5>2
        <4> QED BY <4>3, <4>4
      <3>4. ClosedIsQuiet'
        BY <2>1, <2>5 DEF BarrierInv, ClosedIsQuiet
      <3>5. QuitIsLast'
        BY <2>1, <2>3, <2>5 DEF BarrierInv, QuitIsLast, Kept
      <3>6. WriterSawClose'
        BY <2>1, <2>2, <2>5 DEF WriterSawClose
      <3> QED BY <3>1, <3>2, <3>3, <3>4, <3>5, <3>6 DEF BarrierInv
    <2>6. CASE /\ UNCHANGED <<req, barrier>> /\ ~WriterDone /\ ~WriterDone'
               /\ closed => batch' = <<>> /\ held' = 0 /\ queue' = <<>> /\ written' = written
      BY <2>5, <2>6
    <2>7. CASE \/ WriterTakeHeld \/ WriterRecv \/ WriterIdle \/ WriterCollect \/ WriterHold
               \/ WriterCollected \/ WriterWrite \/ WriterBegin \/ WriterSend
               \/ WriterProceed \/ WriterArticle
      <3>1. UNCHANGED <<req, barrier>> /\ ~WriterDone /\ ~WriterDone'
        BY <2>7, FirstStepType, AfterSendType
           DEF WriterTakeHeld, WriterRecv, WriterIdle, WriterCollect, WriterHold,
               WriterCollected, WriterWrite, WriterBegin, WriterSend, WriterProceed,
               WriterArticle, linkVars, sharedVars, WriterDone
      <3>2. ASSUME closed
            PROVE  batch' = <<>> /\ held' = 0 /\ queue' = <<>> /\ written' = written
        <4>1. batch = <<>> /\ held = 0 /\ queue = <<>>
          BY <3>2 DEF BarrierInv, ClosedIsQuiet
        <4>2. wpc \notin {"idle", "collect", "write"}
          BY <4>1 DEF ClientInv, OrderInv, IInv, WriterShape
        <4> QED BY <2>7, <4>1, <4>2
           DEF WriterTakeHeld, WriterRecv, WriterIdle, WriterCollect, WriterHold,
               WriterCollected, WriterWrite, WriterBegin, WriterSend, WriterProceed,
               WriterArticle, linkVars, histVars
      <3> QED BY <2>6, <3>1, <3>2
    <2>8. ASSUME NEW ids, NEW answer \in Error, req' = Resolve(ids, answer), barrier' = Release(ids),
                 \A i \in ids : i \in Nat,
                 WriterDone', written' = written, batch' = <<>>, held' = 0,
                 queue' = <<>> \/ queue' = queue,
                 ~abort => ~open /\ (barrier \in ids => barrier > written)
          PROVE  BarrierInv'
      <3>1. barrier' = barrier \/ (barrier' = NoOne /\ barrier \in ids)
        BY <2>8 DEF Release
      <3>2. \A i \in 1..Len(req) : req'[i].reply = "205" => req[i].reply = "205"
        <4>1. \A i \in 1..Len(req) : /\ i \notin ids => req'[i] = req[i]
                                     /\ i \in ids => req'[i].reply = answer
          BY <2>8, ResolveAt DEF ClientInv, OrderInv
        <4>2. answer # "205"
          BY <2>8 DEF Error
        <4> QED BY <4>1, <4>2
      <3>3. closed => queue' = <<>>
        BY <2>8 DEF BarrierInv, ClosedIsQuiet
      <3>4. /\ barrier' = barrier \/ (barrier' = NoOne /\ barrier \in Nat)
            /\ ~abort /\ barrier' # barrier => barrier > written'
        BY <2>8, <3>1
      <3> QED BY <2>5, <2>8, <3>2, <3>3, <3>4
    <2>9. ASSUME NEW error \in Error, WriterFail(error),
                 ~abort => ~open /\ (written < Len(req) \/ Published = written)
          PROVE  BarrierInv'
      <3>1. ~abort /\ barrier \in WriterOwned => barrier > written
        BY <2>4, <2>9 DEF BarrierInv, HolderIsLast
      <3> QED BY <2>4, <2>8, <2>9, <3>1 DEF WriterFail, WriterDone, histVars
    <2>10. CASE WriterWriteFails
      <3>1. batch # <<>> /\ batch \in Seq(Nat)
        BY <2>10, OrderTypes DEF WriterWriteFails, ClientInv, OrderInv, IInv, WriterShape
      <3>2. Len(batch) # 0
        BY <3>1, EmptySeq
      <3>3. written < Len(req)
        BY SMT, <2>4, <3>2
      <3> QED BY <2>9, <2>10, <3>3 DEF WriterWriteFails, Error
    <2>11. CASE WriterArticleFails
      <3>1. sendq = <<>>
        BY <2>11 DEF WriterArticleFails, ClientInv, BatchShape
      <3>2. Published = written
        BY SMT, <2>4, <3>1, LenEmpty DEF Published
      <3> QED BY <2>9, <2>11, <3>2 DEF WriterArticleFails, Error
    <2>12. CASE WriterSendFails
      <3>1. abort
        BY <2>12 DEF WriterSendFails, ClientInv, OrderInv, IInv, GateShape
      <3> QED BY <2>9, <2>12, <3>1 DEF WriterSendFails, Error
    <2>13. CASE WriterPoison \/ WriterReturn
      <3>1. /\ WriterDone /\ WriterDone' /\ batch' = batch /\ held' = held
            /\ queue' = <<>> /\ written' = written /\ barrier' = Release(Range(queue))
            /\ \E answer \in Error : req' = Resolve(Range(queue), answer)
        BY <2>13 DEF WriterPoison, WriterReturn, WriterDone, Error, histVars, ClientInv,
                     OrderInv, IInv, WriterShape
      <3>2. batch = <<>> /\ held = 0
        BY <3>1 DEF ClientInv, OrderInv, WriterOrder
      <3>3. ~abort => ~open
        BY <3>1 DEF BarrierInv, WriterSawClose
      <3> QED BY <2>4, <2>8, <3>1, <3>2, <3>3
    <2>14. CASE WriterAborted
      <3>1. \A i \in WriterOwned \cup Range(queue) : i \in Nat
        BY <2>4
      <3> QED BY <2>8, <2>14, <3>1 DEF WriterAborted, WriterDone, Error, histVars
    <2> QED BY <2>7, <2>10, <2>11, <2>12, <2>13, <2>14 DEF WriterNext
  (* An accepted QUIT finds the connection quiet.                            *)
  <1>QuitFindsQuiet.
      ASSUME ClientInv, BarrierInv, rpc = "reply", req[cur].kind = "Quit"
      PROVE  /\ cur = Len(req) /\ written = cur
             /\ batch = <<>> /\ held = 0 /\ queue = <<>>
             /\ \A c \in Caller : pc[c] # "sending"
    <2> USE <1>QuitFindsQuiet
    <2>1. /\ cur = done + 1 /\ done < Published
          /\ done <= Published /\ Published <= written /\ written <= Len(req)
          /\ Len(batch) \in Nat /\ written + Len(batch) <= Len(req)
          /\ Len(queue) \in Nat /\ written + Len(queue) <= Len(req)
          /\ held # 0 => written < Len(req)
          /\ done \in Nat /\ Published \in Nat /\ written \in Nat /\ Len(req) \in Nat
      BY Places DEF Serves
    <2>2. ~abort
      BY DEF ClientInv, OrderInv, IInv, GateShape
    <2>3. cur \in 1..Len(req) /\ done < cur /\ cur <= written /\ cur \in Nat
      BY SMT, <2>1
    <2>4. RequiresBarrier("Quit")
      BY DEF RequiresBarrier, AllowsFollowing, PipelinedKind, SessionPointerKind
    <2>5. barrier = cur
      BY <2>2, <2>3, <2>4 DEF BarrierInv, BarrierKept
    <2>6. cur = Len(req)
      BY <2>3, <2>5 DEF BarrierInv, HolderIsLast
    <2>7. written = cur /\ Len(batch) = 0 /\ Len(queue) = 0 /\ held = 0
      BY SMT, <2>1, <2>3, <2>6
    <2>8. batch = <<>> /\ queue = <<>>
      BY <2>7, OrderTypes, EmptySeq DEF ClientInv, OrderInv
    <2>9. \A c \in Caller : pc[c] # "sending"
      BY <2>3, <2>5, CallersAreNotNumbers DEF BarrierInv, Locked
    <2> QED BY <2>6, <2>7, <2>8, <2>9
  <1>ReaderBarrier.
      ASSUME ClientInv, BarrierInv, ReaderNext
      PROVE  BarrierInv'
    <2> USE <1>ReaderBarrier
    <2>1. UNCHANGED <<pc, queue, batch, held, wpc>> /\ WriterDone' = WriterDone
      BY ReaderFrame DEF callerVars, writerVars, WriterDone
    <2>2. UNCHANGED <<written, open>> /\ abort' \in {abort, TRUE}
      BY DEF ReaderNext, ReaderRecv, ReaderExit, ReaderInterim, ReaderReceive, ReaderApply,
             ReaderReply, ReaderRelease, ReaderEnd, ReaderFails, ReaderFailEnd,
             ReaderFailAbort, ReaderFailPoison, ReaderFailReturn, histVars, peerVars, linkVars
    <2>3. Kept /\ Len(req') = Len(req)
      <3>1. Next /\ IInv
        BY DEF Next, ClientInv, OrderInv
      <3>2. \A c \in Caller : SendRequest(c) => pc' # pc
        BY DEF SendRequest, ClientInv, OrderInv, IInv, TypeOK, CallerType
      <3> QED BY <2>1, <3>1, <3>2, LenStep, KeptStep
    <2>4. WriterSawClose'
      BY <2>1, <2>2 DEF BarrierInv, WriterSawClose
    <2>5. /\ Serves => cur = done + 1
          /\ rpc \in {"release", "end"} => cur = done
          /\ \A i \in Range(chan) : i \in Nat
          /\ cur \in Nat /\ done \in Nat
      BY Places
    (* A step that accepts no response.                                      *)
    <2>6. ASSUME UNCHANGED <<closed, done>>,
                 barrier' = barrier \/ (barrier' = NoOne /\ barrier \in Nat),
                 ~abort' => barrier' = barrier \/ barrier = done,
                 \A i \in 1..Len(req) : req'[i].reply = "205" => req[i].reply = "205"
          PROVE  BarrierInv'
      <3>1. Locked'
        BY <2>1, <2>6, CallersAreNotNumbers DEF BarrierInv, Locked
      <3>2. HolderIsLast'
        BY <2>3, <2>6, CallerAssumption DEF BarrierInv, HolderIsLast
      <3>3. BarrierKept'
        <4> SUFFICES ASSUME ~abort', NEW i \in 1..Len(req), done < i,
                            i <= written \/ ~WriterDone, RequiresBarrier(req'[i].kind)
                     PROVE  barrier' = i
          BY <2>1, <2>2, <2>3, <2>6 DEF BarrierKept
        <4>1. req'[i].kind = req[i].kind /\ i \in Nat
          BY SMT, <2>3 DEF Kept
        <4>2. barrier = i
          <5>1. ~abort
            BY <2>2
          <5>2. RequiresBarrier(req[i].kind)
            BY <4>1
          <5> QED BY <5>1, <5>2 DEF BarrierInv, BarrierKept
        <4>3. barrier # done
          BY SMT, <2>5, <4>1, <4>2
        <4> QED BY <2>6, <4>2, <4>3
      <3>4. ClosedIsQuiet'
        BY <2>1, <2>6 DEF BarrierInv, ClosedIsQuiet
      <3>5. QuitIsLast'
        BY <2>2, <2>3, <2>6 DEF BarrierInv, QuitIsLast, Kept
      <3> QED BY <2>4, <3>1, <3>2, <3>3, <3>4, <3>5 DEF BarrierInv
    <2>7. ASSUME NEW ids, NEW answer \in Error, req' = Resolve(ids, answer)
          PROVE  \A i \in 1..Len(req) : req'[i].reply = "205" => req[i].reply = "205"
      <3>1. \A i \in 1..Len(req) : /\ i \notin ids => req'[i] = req[i]
                                   /\ i \in ids => req'[i].reply = answer
        BY <2>7, ResolveAt DEF ClientInv, OrderInv
      <3>2. answer # "205"
        BY <2>7 DEF Error
      <3> QED BY <3>1, <3>2
    <2>8. CASE ReaderRecv \/ ReaderExit \/ ReaderReceive \/ ReaderApply \/ ReaderEnd
               \/ ReaderFailEnd \/ ReaderFailAbort
      <3>1. UNCHANGED <<req, barrier, closed, done>>
        BY <2>8 DEF ReaderRecv, ReaderExit, ReaderReceive, ReaderApply, ReaderEnd,
                    ReaderFailEnd, ReaderFailAbort, linkVars, sharedVars, histVars
      <3> QED BY <2>6, <3>1
    <2>9. CASE ReaderInterim
      <3>1. UNCHANGED <<barrier, closed, done>>
        BY <2>9 DEF ReaderInterim, sharedVars, histVars
      <3>2. \A i \in 1..Len(req) : req'[i].reply = req[i].reply
        BY <2>9, ReaderInterimAt DEF ClientInv, OrderInv
      <3> QED BY <2>6, <3>1, <3>2
    <2>10. ASSUME NEW error \in Error, ReaderFails(error) PROVE BarrierInv'
      <3>1. UNCHANGED <<barrier, closed, done>> /\ req' = Resolve({cur}, error)
        BY <2>10 DEF ReaderFails, sharedVars, histVars
      <3> QED BY <2>6, <2>7, <3>1
    <2>11. CASE ReaderRelease
      <3>1. UNCHANGED <<req, closed, done>> /\ cur = done
        BY <2>5, <2>11 DEF ReaderRelease, linkVars, histVars
      <3>2. barrier' = barrier \/ (barrier' = NoOne /\ barrier = cur)
        BY <2>11 DEF ReaderRelease, Release
      <3> QED BY <2>5, <2>6, <3>1, <3>2
    <2>12. CASE ReaderFailPoison \/ ReaderFailReturn
      <3>1. abort /\ abort' /\ UNCHANGED <<closed, done>>
        BY <2>12 DEF ReaderFailPoison, ReaderFailReturn, histVars, ClientInv, OrderInv, IInv,
                     GateShape
      <3>2. barrier' = barrier \/ (barrier' = NoOne /\ barrier \in {cur} \cup Range(chan))
        BY <2>12 DEF ReaderFailPoison, ReaderFailReturn, Release
      <3>3. \E answer \in Error : req' = Resolve(Range(chan), answer)
        BY <2>12 DEF ReaderFailPoison, ReaderFailReturn, Error, ClientInv, OrderInv, IInv,
                     ReaderShape
      <3> QED BY <2>5, <2>6, <2>7, <3>1, <3>2, <3>3
    <2>13. CASE ReaderReply
      <3>1. UNCHANGED <<barrier, abort>> /\ done' = done + 1 /\ rpc = "reply"
            /\ closed' = (closed \/ (req[cur].kind = "Quit" /\ resp.status = "205"))
        BY <2>13 DEF ReaderReply
      <3>2. \A i \in 1..Len(req) :
              /\ i # cur => req'[i] = req[i]
              /\ i = cur /\ req[i].kind = "Quit" => req'[i].reply = resp.status
        BY <2>13, ReaderReplyAt DEF ClientInv, OrderInv
      <3>3. req[cur].kind = "Quit" =>
              /\ cur = Len(req) /\ written = cur
              /\ batch = <<>> /\ held = 0 /\ queue = <<>>
              /\ \A c \in Caller : pc[c] # "sending"
        BY <3>1, <1>QuitFindsQuiet
      <3>4. Locked' /\ HolderIsLast'
        BY <2>1, <2>3, <3>1 DEF BarrierInv, Locked, HolderIsLast
      <3>5. BarrierKept'
        <4> SUFFICES ASSUME ~abort, NEW i \in 1..Len(req), done' < i,
                            i <= written \/ ~WriterDone, RequiresBarrier(req'[i].kind)
                     PROVE  barrier = i
          BY <2>1, <2>2, <2>3, <3>1 DEF BarrierKept
        <4>1. req'[i].kind = req[i].kind /\ done < i
          BY SMT, <2>3, <2>5, <3>1 DEF Kept
        <4> QED BY <4>1 DEF BarrierInv, BarrierKept
      <3>6. ClosedIsQuiet'
        BY <2>1, <3>1, <3>3 DEF BarrierInv, ClosedIsQuiet
      <3>7. QuitIsLast'
        <4> SUFFICES ASSUME NEW i \in 1..Len(req), req'[i].kind = "Quit", req'[i].reply = "205"
                     PROVE  closed' /\ written = i
          BY <2>2, <2>3 DEF QuitIsLast
        <4>1. req[i].kind = "Quit"
          BY <2>3 DEF Kept
        <4>2. CASE i = cur
          BY <3>1, <3>2, <3>3, <4>1, <4>2
        <4>3. CASE i # cur
          BY <3>1, <3>2, <4>3 DEF BarrierInv, QuitIsLast
        <4> QED BY <4>2, <4>3
      <3> QED BY <2>4, <3>4, <3>5, <3>6, <3>7 DEF BarrierInv
    <2> QED BY <2>8, <2>9, <2>10, <2>11, <2>12, <2>13 DEF ReaderNext
  <1>1. Init => BarrierInv
    <2> SUFFICES ASSUME Init PROVE BarrierInv OBVIOUS
    <2>1. Len(req) = 0
      BY LenEmpty DEF Init
    <2>2. /\ Locked /\ HolderIsLast /\ ClosedIsQuiet /\ WriterSawClose
      BY CallerAssumption DEF Init, Locked, HolderIsLast, ClosedIsQuiet, WriterSawClose,
                              WriterDone
    <2>3. BarrierKept /\ QuitIsLast
      BY SMT, <2>1 DEF BarrierKept, QuitIsLast
    <2> QED BY <2>2, <2>3 DEF BarrierInv
  <1>2. ClientInv /\ BarrierInv /\ [Next]_vars => BarrierInv'
    <2> SUFFICES ASSUME ClientInv, BarrierInv, [Next]_vars PROVE BarrierInv' OBVIOUS
    <2>1. ASSUME UNCHANGED <<pc, barrier, req, abort, written, done, closed, batch, held,
                             queue, wpc>>,
                 open' \in {open, FALSE}
          PROVE  BarrierInv'
      <3>1. WriterDone' = WriterDone
        BY <2>1 DEF WriterDone
      <3>2. Locked' /\ HolderIsLast' /\ ClosedIsQuiet' /\ QuitIsLast'
        BY <2>1 DEF BarrierInv, Locked, HolderIsLast, ClosedIsQuiet, QuitIsLast
      <3>3. BarrierKept'
        BY <2>1, <3>1 DEF BarrierInv, BarrierKept
      <3>4. WriterSawClose'
        BY <2>1, <3>1 DEF BarrierInv, WriterSawClose
      <3> QED BY <3>2, <3>3, <3>4 DEF BarrierInv
    <2>2. CASE PeerNext \/ PeerClose \/ Finished
      <3>1. open' \in {open, FALSE}
        BY <2>2
           DEF PeerNext, PeerAnswer, PeerArticle, PeerClose, Finished, vars, peerVars
      <3> QED BY <2>1, <2>2, <3>1, PeerFrame
              DEF callerVars, sharedVars, linkVars, writerVars, histVars
    <2>3. CASE UNCHANGED vars
      BY <2>1, <2>3 DEF vars, callerVars, sharedVars, linkVars, writerVars, histVars, peerVars
    <2>4. CASE DropConnection
      <3>1. /\ Len(req') = Len(req)
            /\ \A i \in 1..Len(req) :
                 /\ req'[i].kind = req[i].kind
                 /\ req[i].reply = "none" => req'[i].reply = "dropped"
                 /\ req[i].reply # "none" => req'[i] = req[i]
        BY <2>4, DropAt DEF ClientInv, OrderInv
      <3>2. /\ barrier' = NoOne /\ abort' /\ queue' = <<>> /\ batch' = <<>> /\ held' = 0
            /\ UNCHANGED <<pc, closed, written, done>> /\ \A c \in Caller : pc[c] = "idle"
        BY <2>4 DEF DropConnection, histVars
      <3>3. Locked' /\ HolderIsLast' /\ BarrierKept' /\ ClosedIsQuiet' /\ WriterSawClose'
        BY <3>2, CallerAssumption
           DEF Locked, HolderIsLast, BarrierKept, ClosedIsQuiet, WriterSawClose
      <3>4. QuitIsLast'
        BY <3>1, <3>2 DEF BarrierInv, QuitIsLast
      <3> QED BY <3>3, <3>4 DEF BarrierInv
    <2> QED BY <2>2, <2>3, <2>4, <1>CallerBarrier, <1>WriterBarrier, <1>ReaderBarrier DEF Next
  <1> QED BY <1>1, <1>2, OrderHolds, UnservedHolds, BatchHolds, PTL DEF Spec, ClientInv

(* All that is proved of the requests, together.                           *)
LEMMA ClientHolds == Spec => [](ClientInv /\ BarrierInv)
  BY OrderHolds, UnservedHolds, BatchHolds, BarrierHolds, PTL DEF ClientInv

(* The invariants give the property: nothing follows a barrier command.    *)
LEMMA NothingFollows == ClientInv /\ BarrierInv => NoFollow
  <1> SUFFICES ASSUME ClientInv, BarrierInv PROVE NoFollow OBVIOUS
  <1>1. /\ written <= Len(req) /\ written \in Nat /\ done \in Nat /\ Len(req) \in Nat
        /\ DOMAIN req = 1..Len(req)
    BY Places, ReqDomain DEF ClientInv, OrderInv
  <1>2. ASSUME ~abort, NEW i \in Outstanding, ~AllowsFollowing(req[i].kind)
        PROVE  written = i
    <2>1. i \in 1..Len(req) /\ done < i /\ i <= written /\ i \in Nat
      BY SMT, <1>1 DEF Outstanding
    <2>2. barrier = i
      BY <1>2, <2>1 DEF BarrierInv, BarrierKept, RequiresBarrier
    <2>3. i = Len(req)
      BY <2>1, <2>2 DEF BarrierInv, HolderIsLast
    <2>4. written <= Len(req) /\ written \in Nat /\ Len(req) \in Nat
      BY <1>1
    <2>5. Len(req) <= written
      BY <2>1, <2>3
    <2> QED BY SMT, <2>3, <2>4, <2>5
  <1>3. \A i \in DOMAIN req : req[i].kind = "Quit" /\ req[i].reply = "205" => written = i
    BY <1>1 DEF BarrierInv, QuitIsLast
  <1> QED BY <1>2, <1>3 DEF NoFollow

(* Nothing is written behind a command that no command may follow until    *)
(* its response is accepted, nor ever behind a QUIT answered 205.          *)
THEOREM NothingBehindTheBarrier == Spec => []NoFollow
  BY ClientHolds, NothingFollows, PTL

(* Commands that run alone are among those nothing may follow.             *)
LEMMA ExclusiveIsFollowedByNothing == \A k : Exclusive(k) => ~AllowsFollowing(k)
  BY
     DEF Exclusive, AllowsFollowing, PipelinedKind, SessionPointerKind, ContinuationKind, AuthKind

(* An exclusive command has the connection for itself until its response   *)
(* is accepted, as long as no response has failed.                         *)
THEOREM ExclusiveRunsAlone == Spec => []ExclusiveAlone
  <1>Interval. \A a \in Nat, b \in Nat : \A i \in (a + 1)..b : i \in Nat /\ a < i /\ i <= b
    BY SMT
  <1>SmallerInterval. \A a \in Nat, b \in Nat, c \in Nat : a <= c => (c + 1)..b \subseteq (a + 1)..b
    BY SMT
  <1>1. Init => ExclusiveAlone
    BY SMT DEF Init, ExclusiveAlone, Outstanding
  <1>2. /\ ClientInv /\ BarrierInv /\ ClientInv' /\ BarrierInv' /\ ExclusiveAlone /\ [Next]_vars
        => ExclusiveAlone'
    <2> SUFFICES ASSUME ClientInv, BarrierInv, ClientInv', BarrierInv', ExclusiveAlone,
                        [Next]_vars, ~abort', rpc' # "failAbort",
                        NEW i \in Outstanding', Exclusive(req'[i].kind)
                 PROVE  Outstanding' = {i}
      BY DEF ExclusiveAlone
    <2>1. written \in Nat /\ done \in Nat /\ Len(req) \in Nat /\ written <= Len(req)
      BY Places
    <2>2. written' \in Nat /\ done' \in Nat
      <3>1. (ClientInv => written \in Nat /\ done \in Nat)'
        BY Places, PTL
      <3> QED BY <3>1
    <2>3. i \in Nat /\ done' < i /\ i <= written'
      <3>1. i \in (done' + 1)..written'
        BY DEF Outstanding
      <3> QED BY <2>2, <3>1, <1>Interval
    <2>4. i = written'
      <3>1. NoFollow'
        BY NothingFollows, PTL
      <3> QED BY <3>1, ExclusiveIsFollowedByNothing DEF NoFollow
    <2>5. \/ UNCHANGED written /\ done' >= done
          \/ WriterWrite /\ written' = written + 1 /\ done' = done
      <3>1. CASE WriterWrite
        BY <3>1 DEF WriterWrite
      <3>2. CASE ReaderReply
        BY SMT, <2>1, <3>2 DEF ReaderReply
      <3>3. CASE ~WriterWrite /\ ~ReaderReply
        <4>1. UNCHANGED histVars
          BY <3>3
             DEF Next, vars, CallerNext, Start, StartExchange, ProbeLock, EnqueueRejected,
             EnqueueNeedsProbe, EnqueueLocked, SendRequest, SendFails, Receive, ProbeReceive,
             Cancel, WriterNext, WriterTakeHeld, WriterRecv, WriterIdle, WriterCollect,
             WriterHold, WriterCollected, WriterWriteFails, WriterBegin, WriterSend,
             WriterSendFails, WriterProceed, WriterArticle, WriterArticleFails, WriterPoison,
             WriterReturn, WriterAborted, WriterFail, ReaderNext, ReaderRecv, ReaderExit,
             ReaderInterim, ReaderReceive, ReaderApply, ReaderRelease, ReaderEnd, ReaderFails,
             ReaderFailEnd, ReaderFailAbort, ReaderFailPoison, ReaderFailReturn, PeerNext,
             PeerAnswer, PeerArticle, PeerClose, DropConnection, Finished
        <4> QED BY SMT, <2>1, <4>1 DEF histVars
      <3> QED BY <3>1, <3>2, <3>3
    <2>6. CASE WriterWrite /\ written' = written + 1 /\ done' = done
      <3>1. req' = req /\ ~abort /\ rpc # "failAbort"
        BY <2>6 DEF WriterWrite, linkVars, readerVars
      <3>2. Len(batch) \in Nat /\ Len(batch) # 0 /\ batch \in Seq(Nat) /\ batch # <<>> /\ wpc = "write"
        BY <2>6, OrderTypes, EmptySeq DEF WriterWrite, ClientInv, OrderInv, IInv, WriterShape
      <3>3. batch[1] = written + 1 /\ batch[1] \in Range(batch)
        <4>1. DOMAIN batch = 1..Len(batch) /\ 1 \in DOMAIN batch
          BY SMT, <3>2, LenProperties
        <4> QED BY <2>1, <4>1 DEF ClientInv, OrderInv, WriterOrder, Run, Range
      <3>4. \E j \in Range(batch) : IsExclusive(j)
        BY <2>4, <2>6, <3>1, <3>3 DEF IsExclusive
      <3>5. done = written
        BY <3>1, <3>2, <3>4 DEF ClientInv, BatchShape
      <3> QED BY SMT, <2>1, <2>4, <2>6, <3>5 DEF Outstanding
    <2>7. CASE UNCHANGED written /\ done' >= done
      <3>1. i \in Outstanding /\ i \in 1..Len(req)
        BY SMT, <2>1, <2>2, <2>3, <2>7 DEF Outstanding
      <3>2. req'[i].kind = req[i].kind
        <4>1. CASE Next
          BY <3>1, <4>1, KeptStep DEF Kept, ClientInv, OrderInv
        <4>2. CASE UNCHANGED vars
          BY <4>2 DEF vars, linkVars
        <4> QED BY <4>1, <4>2
      <3>3. ~abort /\ rpc # "failAbort"
        <4>1. abort => rpc \in {"failPoison", "failReturn", "dead"}
          BY DEF ClientInv, OrderInv, IInv, GateShape
        <4>2. abort => abort'
          BY DEF Next, vars, CallerNext, Start, StartExchange, ProbeLock, EnqueueRejected,
             EnqueueNeedsProbe, EnqueueLocked, SendRequest, SendFails, Receive, ProbeReceive,
             Cancel, WriterNext, WriterTakeHeld, WriterRecv, WriterIdle, WriterCollect,
             WriterHold, WriterCollected, WriterWrite, WriterWriteFails, WriterBegin, WriterSend,
             WriterSendFails, WriterProceed, WriterArticle, WriterArticleFails, WriterPoison,
             WriterReturn, WriterAborted, WriterFail, ReaderNext, ReaderRecv, ReaderExit,
             ReaderInterim, ReaderReceive, ReaderApply, ReaderReply, ReaderRelease, ReaderEnd,
             ReaderFails, ReaderFailEnd, ReaderFailAbort, ReaderFailPoison, ReaderFailReturn,
             PeerNext, PeerAnswer, PeerArticle, PeerClose, DropConnection, Finished, linkVars
        <4>3. rpc = "failAbort" => abort' \/ rpc' = rpc
          <5>1. CASE \E c \in Caller : CallerNext(c)
            BY <5>1, CallerFrame DEF readerVars
          <5>2. CASE WriterNext
            BY <5>2, WriterFrame DEF readerVars
          <5>3. CASE ReaderNext
            BY <5>3 DEF ReaderNext, ReaderRecv, ReaderExit, ReaderInterim, ReaderReceive,
               ReaderApply, ReaderReply, ReaderRelease, ReaderEnd, ReaderFails, ReaderFailEnd,
               ReaderFailAbort, ReaderFailPoison, ReaderFailReturn
          <5>4. CASE PeerNext \/ PeerClose \/ Finished
            BY <5>4, PeerFrame DEF readerVars
          <5>5. CASE DropConnection
            BY <5>5 DEF DropConnection
          <5>6. CASE UNCHANGED vars
            BY <5>6 DEF vars, readerVars
          <5> QED BY <5>1, <5>2, <5>3, <5>4, <5>5, <5>6 DEF Next
        <4> QED BY <4>2, <4>3
      <3>4. Outstanding = {i}
        BY <3>1, <3>2, <3>3 DEF ExclusiveAlone
      <3>5. Outstanding' \subseteq Outstanding
        <4>1. Outstanding' = (done' + 1)..written' /\ Outstanding = (done + 1)..written
          BY DEF Outstanding
        <4>2. done <= done' /\ written' = written
          BY <2>1, <2>2, <2>7
        <4> QED BY <2>1, <2>2, <4>1, <4>2, <1>SmallerInterval
      <3> QED BY <3>4, <3>5
    <2> QED BY <2>5, <2>6, <2>7
  <1> QED BY <1>1, <1>2, ClientHolds, PTL DEF Spec

=============================================================================
