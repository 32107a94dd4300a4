-------------------------- MODULE ClientViewProofs --------------------------
(***************************************************************************)
(* Proofs that what the client believes of its peer is so, for any number  *)
(* of callers, calls and capacities: an article goes out only to a peer    *)
(* that waits for it, with no command in between, and a list of            *)
(* capabilities the client keeps is the one the peer would give now.  Both *)
(* rest on the order of commands and responses in ClientPeerProofs.        *)
(***************************************************************************)
EXTENDS ClientPeerProofs

-----------------------------------------------------------------------------
(* Articles.  While the peer waits for the article of a call, the reader   *)
(* is on its way to the response that asks for it, or waits for the one    *)
(* that follows it; the command is outstanding, and nothing but its        *)
(* article is on the wire.                                                 *)
Pause ==
  /\ wants <= Len(req)
  /\ Reading /\ ArticleAwaited => Len(frames) # 0 \/ rpc = "second"
  /\ rpc = "second" /\ Len(frames) # 0 => wants = 0
  /\ ArticleAwaited /\ ~abort => /\ done < wants /\ wants <= written
                                 /\ req[wants].kind \in ContinuationKind
                                 /\ \A k \in 1..Len(wire) : wire[k].art

(* The steps are left to Zenon, those that say so to SMT.                   *)
USE ZenonT(30)

(* As long as nothing has failed, a connected reader reads.                *)
LEMMA OpenIsBeforeAbort ==
  ASSUME ClientInv, BarrierInv
  PROVE  ~abort /\ (open \/ wpc # "dead") => BeforeAbort
  <1> SUFFICES ASSUME ~abort, open \/ wpc # "dead" PROVE BeforeAbort OBVIOUS
  <1>1. rpc \in ReaderStep /\ rpc \notin {"failPoison", "failReturn"}
    BY DEF ClientInv, OrderInv, IInv, TypeOK, ReaderType, GateShape
  <1>2. rpc # "dead"
    BY DEF ClientInv, OrderInv, IInv, GateShape, BarrierInv, WriterSawClose, WriterDone
  <1> QED BY <1>1, <1>2 DEF ReaderStep, BeforeAbort, Reading

(* The last response on its way belongs to an outstanding command.         *)
LEMMA LastInLine ==
  ASSUME NEW d \in Nat, NEW w \in Nat, NEW n \in Nat, NEW next \in Nat, NEW of,
         n >= 1, next >= d + 1, of = next + n - 1, next - 1 + n <= w
  PROVE  d < of /\ of <= w
  BY SMT

(* An article reaches the connection only while the peer waits for that    *)
(* article, and no command reaches it during the pause: for all calls, the *)
(* bare post and ihave among them.                                         *)
THEOREM ArticleIsAwaited == Spec => []ArticlePause
  (* The command whose article the peer waits for.                           *)
  <1>WantedIsLast.
      ASSUME ClientInv, BarrierInv, Pause, ArticleAwaited, ~abort
      PROVE  wants \in Nat /\ wants \in 1..Len(req) /\ wants = written /\ done < wants
    <2> USE <1>WantedIsLast
    <2>1. /\ done \in Nat /\ written \in Nat /\ written <= Len(req) /\ Len(req) \in Nat
          /\ wants \in Nat
      BY Places, PeerTypes DEF ClientInv, OrderInv
    <2>2. done < wants /\ wants <= written /\ req[wants].kind \in ContinuationKind
      BY DEF Pause
    <2>3. wants = written
      BY <2>1, <2>2, ContinuationIsLast
    <2>4. wants # 0
      BY DEF ArticleAwaited
    <2> QED BY SMT, <2>1, <2>2, <2>3, <2>4
  (* Requests keep their articles.                                           *)
  <1>AwaitedStays.
      ASSUME ClientInv, Pause, Kept, wants' = wants
      PROVE  wants' <= Len(req') /\ (ArticleAwaited' => ArticleAwaited /\ wants \in 1..Len(req))
    <2> USE <1>AwaitedStays
    <2>1. wants \in Nat /\ wants <= Len(req)
      BY PeerTypes DEF Pause, ClientInv, OrderInv
    <2>2. Len(req) \in Nat /\ Len(req') \in Nat /\ Len(req') >= Len(req)
      BY DEF Kept
    <2>3. wants' <= Len(req') /\ (wants # 0 => wants \in 1..Len(req))
      BY SMT, <2>1, <2>2
    <2> QED BY <2>3 DEF Kept, ArticleAwaited
  (* Steps that leave the sockets alone.                                     *)
  <1>PauseMoves.
      ASSUME ClientInv, BarrierInv, Pause, Kept,
             UNCHANGED <<frames, wants, wire, written>>,
             ArticleAwaited /\ ~abort' => done' < wants,
             Reading' => Reading /\ (rpc' = "second" <=> rpc = "second"),
             abort => abort'
      PROVE  Pause'
    <2> USE <1>PauseMoves
    <2>0. wants' <= Len(req') /\ (ArticleAwaited' => ArticleAwaited /\ wants \in 1..Len(req))
      BY <1>AwaitedStays
    <2>1. Reading' /\ ArticleAwaited' => Len(frames') # 0 \/ rpc' = "second"
      BY <2>0 DEF Pause
    <2>2. rpc' = "second" /\ Len(frames') # 0 => wants' = 0
      BY DEF Pause, Reading
    <2>3. ASSUME ArticleAwaited', ~abort'
          PROVE  /\ done' < wants' /\ wants' <= written'
                 /\ req'[wants'].kind \in ContinuationKind
                 /\ \A k \in 1..Len(wire') : wire'[k].art
      <3>1. ArticleAwaited /\ ~abort /\ wants \in 1..Len(req)
        BY <2>0, <2>3
      <3> QED BY <2>3, <3>1 DEF Pause, Kept
    <2> QED BY <2>0, <2>1, <2>2, <2>3 DEF Pause
  <1>WriterPause.
      ASSUME ClientInv, BarrierInv, ClientInv', BarrierInv', PeerInv, Pause, WriterNext
      PROVE  Pause'
    <2> USE <1>WriterPause
    <2>1. Kept
      BY KeptStep DEF ClientInv, OrderInv, Next
    <2>2. UNCHANGED <<rpc, cur, abort>>
      BY WriterFrame
         DEF readerVars, WriterNext, WriterTakeHeld, WriterRecv, WriterIdle, WriterCollect,
         WriterHold, WriterCollected, WriterWrite, WriterWriteFails, WriterBegin, WriterSend,
         WriterSendFails, WriterProceed, WriterArticle, WriterArticleFails, WriterPoison,
         WriterReturn, WriterAborted, WriterFail, linkVars
    <2>3. done \in Nat /\ written \in Nat /\ wants \in Nat /\ wire \in Seq(Item) /\ Len(wire) \in Nat
      BY Places, PeerTypes DEF ClientInv, OrderInv
    <2>4. CASE WriterWrite
      <3>1. /\ UNCHANGED <<frames, wants, done, req>> /\ written' = written + 1
        BY <2>4 DEF WriterWrite, linkVars
      <3>2. ArticleAwaited => abort
        <4> SUFFICES ASSUME ArticleAwaited, ~abort PROVE FALSE OBVIOUS
        <4>1. wants = written /\ done < wants /\ req[wants].kind \in ContinuationKind
          BY <1>WantedIsLast DEF Pause
        <4>2. wants \in (done + 1)..(written + 1)
          BY SMT, <2>3, <4>1
        <4>3. NoFollow'
          <5>1. (ClientInv /\ BarrierInv => NoFollow)'
            BY NothingFollows, PTL
          <5> QED BY <5>1
        <4>4. AllowsFollowing(req[wants].kind) \/ written + 1 = wants
          BY <2>2, <3>1, <4>2, <4>3 DEF NoFollow, Outstanding
        <4>5. ~AllowsFollowing(req[wants].kind)
          BY <4>1, ExclusiveIsFollowedByNothing DEF Exclusive
        <4> QED BY SMT, <2>3, <4>1, <4>4, <4>5
      <3>3. ArticleAwaited' = ArticleAwaited
        BY <3>1 DEF ArticleAwaited
      <3> QED BY <2>2, <3>1, <3>2, <3>3 DEF Pause, Reading
    <2>5. CASE WriterArticle
      <3>1. /\ UNCHANGED <<frames, wants, done, written, req>>
            /\ wire' = Append(wire, [id |-> cont, art |-> TRUE])
        BY <2>5 DEF WriterArticle, linkVars, histVars
      <3>2. [id |-> cont, art |-> TRUE] \in Item
        BY DEF Item, ClientInv, OrderInv, IInv, TypeOK, WriterType
      <3>3. /\ Len(wire') = Len(wire) + 1
            /\ \A k \in 1..Len(wire) : wire'[k] = wire[k]
            /\ wire'[Len(wire) + 1] = [id |-> cont, art |-> TRUE]
        BY SMT, <2>3, <3>1, <3>2, AppendAt
      <3>4. (\A k \in 1..Len(wire) : wire[k].art) => \A k \in 1..Len(wire') : wire'[k].art
        BY SMT, <2>3, <3>3
      <3>5. ArticleAwaited' = ArticleAwaited
        BY <3>1 DEF ArticleAwaited
      <3> QED BY <2>2, <3>1, <3>4, <3>5 DEF Pause, Reading
    <2>6. CASE ~WriterWrite /\ ~WriterArticle
      <3>1. UNCHANGED <<wire, frames, wants, written, done>>
        BY <2>6
           DEF WriterNext, WriterTakeHeld, WriterRecv, WriterIdle, WriterCollect, WriterHold,
           WriterCollected, WriterWriteFails, WriterBegin, WriterSend, WriterSendFails,
           WriterProceed, WriterArticleFails, WriterPoison, WriterReturn, WriterAborted,
           WriterFail, peerVars, histVars
      <3>2. Reading' = Reading /\ (ArticleAwaited /\ ~abort' => done' < wants)
        BY <2>2, <3>1 DEF Reading, Pause
      <3> QED BY <2>1, <2>2, <3>1, <3>2, <1>PauseMoves
    <2> QED BY <2>4, <2>5, <2>6
  <1>PeerPause.
      ASSUME ClientInv, BarrierInv, ClientInv', BarrierInv', PeerInv, PeerInv', Pause,
             PeerAnswer \/ PeerArticle
      PROVE  Pause'
    <2> USE <1>PeerPause
    <2>1. UNCHANGED <<req, abort, open, written, done, rpc, cur>> /\ open /\ wire # <<>>
          /\ wire' = Tail(wire)
      BY DEF PeerAnswer, PeerArticle, linkVars, readerVars, histVars
    <2>2. /\ frames \in Seq(Frame) /\ Len(frames) \in Nat /\ wire \in Seq(Item)
          /\ frames' \in Seq(Frame) /\ Len(frames') \in Nat /\ wants' \in Nat
      <3>1. frames' \in Seq(Frame) /\ wants' \in Nat
        BY DEF ClientInv, OrderInv, IInv, TypeOK, PeerType
      <3> QED BY <3>1, PeerTypes, LenProperties DEF ClientInv, OrderInv
    <2>3. Reading' = Reading /\ BeforeAbort' = BeforeAbort
      BY <2>1 DEF Reading, BeforeAbort
    <2>4. /\ DOMAIN Tail(wire) = 1..Len(Tail(wire)) /\ DOMAIN wire = 1..Len(wire)
          /\ \A k \in DOMAIN Tail(wire) : Tail(wire)[k] = wire[k + 1] /\ k + 1 \in DOMAIN wire
      BY <2>1, <2>2, TailAt
    <2>5. CASE PeerAnswer
      <3>1. wants = 0
        BY <2>5 DEF PeerAnswer
      <3>2. \E frame : frames' = Append(frames, frame)
        BY <2>5 DEF PeerAnswer
      <3>3. Len(frames') # 0
        <4>1. frames' # <<>>
          BY SMT, <2>2, <3>2
        <4> QED BY <2>2, <4>1, EmptySeq
      <3>4. rpc = "second" => wants' = 0
        <4> SUFFICES ASSUME rpc = "second" PROVE FALSE OBVIOUS
        <4>1. cur = written /\ cur = done + 1 /\ cur # 0 /\ cur \in Nat
          BY SecondIsLast DEF PeerInv
        <4>2. /\ BeforeAbort /\ NextOf = done + 1 /\ ~Deaf
          BY DEF BeforeAbort, Reading, NextOf, Deaf
        <4>3. ~AwaitsArticle
          BY <3>1, <4>1 DEF PeerInv, ArticleSent
        <4>4. Len(frames) # 0 /\ ~HasArticle
          BY <4>3 DEF AwaitsArticle, PeerInv, ArticleSent, Reading
        <4>5. Heard = NextOf - 1 + Len(frames) + 0
          BY <2>1, <4>2, <4>3 DEF PeerInv, CaughtUp
        <4>6. Len(wire) \in Nat \ {0} /\ Len(wire) <= written
          BY <2>1, <4>4, PeerReads
        <4>7. Heard = written - Len(wire)
          BY <4>4 DEF Heard
        <4>8. done \in Nat /\ written \in Nat /\ written = done + 1
          BY <4>1, Places
        <4>9. written - Len(wire) = NextOf - 1 + Len(frames) + 0
          BY <4>5, <4>7
        <4> QED BY SMT, <2>2, <4>2, <4>4, <4>6, <4>8, <4>9
      <3>5. ASSUME wants' # 0, ~abort
            PROVE  /\ done < wants' /\ wants' <= written
                   /\ req[wants'].kind \in ContinuationKind
                   /\ Len(wire') = 0
        <4>1. BeforeAbort'
          BY <2>1, <2>3, <3>5, OpenIsBeforeAbort
        <4> DEFINE n == Len(frames')
        <4>2. n \in 1..Len(frames')
          BY SMT, <2>2, <3>3
        <4>3. /\ Proceeds(req'[frames'[n].of].kind, frames'[n].status)
              /\ wants' = frames'[n].of
          BY <3>3, <3>5, <4>1 DEF PeerInv, InterimIsLast, Interim
        <4>4. Len(wire') = 0
          BY <4>1, <4>2, <4>3 DEF PeerInv, InterimIsLast, Interim
        <4>5. done' < frames'[n].of /\ frames'[n].of <= written'
          <5>1. frames'[n].of = NextOf' + n - 1 /\ NextOf' - 1 + n <= written'
            BY <4>1, <4>2 DEF PeerInv, FrameOrder
          <5>2. done \in Nat /\ written \in Nat
            BY Places
          <5>3. NextOf' \in Nat /\ NextOf' >= done' + 1
            BY SMT, <2>1, <5>2 DEF NextOf
          <5>4. done' \in Nat /\ written' \in Nat /\ n \in Nat /\ n >= 1
            BY SMT, <2>1, <2>2, <4>2, <5>2
          <5> QED BY <5>1, <5>3, <5>4, LastInLine
        <4> QED BY <2>1, <4>3, <4>4, <4>5, ProceedsKind
      <3>6. Len(wire') = 0 => \A k \in 1..Len(wire') : wire'[k].art
        BY SMT
      <3>7. wants' <= Len(req')
        <4>1. CASE HasArticle
          <5>1. Head(wire).id = 0 /\ Head(wire).art
            BY SMT, <2>1, <2>2, <3>1, <4>1 DEF HasArticle, PeerInv, ArticleSent
          <5>2. wants' = 0
            BY <2>5, <5>1 DEF PeerAnswer, Proceeds
          <5> QED BY SMT, <2>1, <5>2, Places
        <4>2. CASE ~HasArticle
          <5>1. /\ Len(wire) \in Nat \ {0} /\ Len(wire) <= written
                /\ Head(wire).id = written - Len(wire) + 1
            BY <2>1, <4>2, PeerReads
          <5>2. wants' = 0 \/ wants' = Head(wire).id
            BY <2>5 DEF PeerAnswer
          <5>3. written \in Nat /\ written <= Len(req) /\ Len(req) \in Nat
            BY Places
          <5> QED BY SMT, <2>1, <5>1, <5>2, <5>3
        <4> QED BY <4>1, <4>2
      <3>8. ArticleAwaited' => wants' # 0
        BY DEF ArticleAwaited
      <3> QED BY <2>1, <2>3, <3>3, <3>4, <3>5, <3>6, <3>7, <3>8 DEF Pause
    <2>6. CASE PeerArticle
      <3>1. wants' = 0 \/ UNCHANGED <<frames, wants>>
        BY <2>6 DEF PeerArticle
      <3>2. CASE wants' = 0
        <4>1. ~ArticleAwaited'
          BY <3>2 DEF ArticleAwaited
        <4>2. wants' <= Len(req')
          BY SMT, <2>1, <3>2, Places
        <4> QED BY <3>2, <4>1, <4>2 DEF Pause
      <3>3. CASE UNCHANGED <<frames, wants>>
        <4>1. (\A k \in 1..Len(wire) : wire[k].art) => \A k \in 1..Len(wire') : wire'[k].art
          BY <2>1, <2>4
        <4>2. ArticleAwaited' = ArticleAwaited
          BY <2>1, <3>3 DEF ArticleAwaited
        <4> QED BY <2>1, <2>3, <3>3, <4>1, <4>2 DEF Pause
      <3> QED BY <3>1, <3>2, <3>3
    <2> QED BY <2>5, <2>6
  (* The reader takes a response: if the peer waits, the response asks for   *)
  (* the article and the reader goes on to wait with it, or more follow.     *)
  <1>TakePause.
      ASSUME ClientInv, BarrierInv, PeerInv, Pause, ReaderInterim \/ ReaderReceive
      PROVE  Pause'
    <2> USE <1>TakePause
    <2>1. /\ UNCHANGED <<wire, wants, written, done, abort, cur>> /\ frames # <<>>
          /\ frames' = Tail(frames) /\ rpc \in {"first", "second"}
          /\ rpc' \in {"second", "apply"}
          /\ rpc' = "second" <=> /\ rpc = "first" /\ req[cur].article /\ ReaderInterim
                                 /\ Proceeds(req[cur].kind, Head(frames).status)
      BY DEF ReaderInterim, ReaderReceive, FrameReady, histVars, linkVars
    <2>2. /\ frames \in Seq(Frame) /\ Len(frames) \in Nat /\ done \in Nat /\ written \in Nat
          /\ written <= Len(req) /\ Len(req) \in Nat /\ cur = done + 1
          /\ done < Published /\ Published \in Nat /\ Published <= written
      BY <2>1, PeerTypes, Places DEF ClientInv, OrderInv, Serves
    <2>3. cur \in 1..Len(req)
      BY SMT, <2>2
    <2>4. Kept
      BY KeptStep DEF ClientInv, OrderInv, Next, ReaderNext
    <2>5. /\ Len(frames) # 0 /\ 1 \in 1..Len(frames) /\ Head(frames) = frames[1]
          /\ Len(frames') = Len(frames) - 1
      BY SMT, <2>1, <2>2, EmptySeq, TailAt
    <2>6. BeforeAbort /\ Reading /\ NextOf = done + 1
      BY <2>1 DEF BeforeAbort, Reading, NextOf
    <2>7. frames[1].of = cur
      <3>1. frames[1].of = NextOf + 1 - 1
        BY <2>5, <2>6 DEF PeerInv, FrameOrder
      <3> QED BY SMT, <2>2, <2>6, <3>1
    <2>8. ArticleAwaited /\ Len(frames) = 1 => rpc' = "second"
      <3> SUFFICES ASSUME ArticleAwaited, Len(frames) = 1 PROVE rpc' = "second" OBVIOUS
      <3>0. wants # 0 /\ req[wants].article
        BY DEF ArticleAwaited
      <3>1. rpc = "first"
        BY <2>1, <2>5, <3>0 DEF Pause
      <3>2. Proceeds(req[cur].kind, Head(frames).status) /\ wants = cur
        BY <2>5, <2>6, <2>7, <3>0 DEF PeerInv, InterimIsLast, Interim
      <3>3. req[cur].article
        BY <3>0, <3>2
      <3>4. ReaderInterim
        BY <3>1, <3>3 DEF ReaderReceive
      <3> QED BY <2>1, <3>1, <3>2, <3>3, <3>4
    <2>9. ArticleAwaited => Len(frames') # 0 \/ rpc' = "second"
      BY SMT, <2>1, <2>2, <2>5, <2>8
    <2>10. rpc' = "second" => Len(frames') = 0
      <3> SUFFICES ASSUME rpc' = "second" PROVE Len(frames') = 0 OBVIOUS
      <3>1. Interim(1)
        BY <2>1, <2>5, <2>7 DEF Interim
      <3>2. 1 = Len(frames)
        BY <2>5, <2>6, <3>1 DEF PeerInv, InterimIsLast
      <3>3. Len(frames) - 1 = 0
        BY SMT, <3>2
      <3> QED BY <2>5, <3>3
    <2>11. wants' <= Len(req') /\ (ArticleAwaited' => ArticleAwaited /\ wants \in 1..Len(req))
      BY <2>1, <2>4, <1>AwaitedStays
    <2> QED BY <2>1, <2>4, <2>9, <2>10, <2>11 DEF Pause, Kept
  <1>ReaderPause.
      ASSUME ClientInv, BarrierInv, PeerInv, Pause, ReaderNext
      PROVE  Pause'
    <2> USE <1>ReaderPause
    <2>1. Kept
      BY KeptStep DEF ClientInv, OrderInv, Next
    <2>2. CASE ReaderRecv \/ ReaderExit \/ ReaderApply \/ ReaderRelease \/ ReaderEnd
               \/ ReaderFailEnd \/ ReaderFailAbort \/ ReaderFailPoison \/ ReaderFailReturn
               \/ \E error \in Error : ReaderFails(error)
      <3>1. UNCHANGED <<wire, frames, wants, written, done>>
        BY <2>2 DEF ReaderRecv, ReaderExit, ReaderApply, ReaderRelease, ReaderEnd,
                    ReaderFailEnd, ReaderFailAbort, ReaderFailPoison, ReaderFailReturn,
                    ReaderFails, linkVars, peerVars, histVars
      <3>2. abort => abort'
        BY <2>2 DEF ReaderRecv, ReaderExit, ReaderApply, ReaderRelease, ReaderEnd,
                    ReaderFailEnd, ReaderFailAbort, ReaderFailPoison, ReaderFailReturn,
                    ReaderFails, linkVars
      <3>3. Reading' => Reading /\ rpc' # "second" /\ rpc # "second"
        BY <2>2 DEF ReaderRecv, ReaderExit, ReaderApply, ReaderRelease, ReaderEnd,
                    ReaderFailEnd, ReaderFailAbort, ReaderFailPoison, ReaderFailReturn,
                    ReaderFails, Reading
      <3>4. ArticleAwaited /\ ~abort' => done' < wants
        BY <3>1, <3>2 DEF Pause
      <3> QED BY <2>1, <3>1, <3>2, <3>3, <3>4, <1>PauseMoves
    <2>3. CASE ReaderReply
      <3>1. /\ UNCHANGED <<wire, frames, wants, written, abort>> /\ done' = done + 1
            /\ rpc = "reply" /\ rpc' = "release"
        BY <2>3 DEF ReaderReply, peerVars
      <3>2. Reading /\ BeforeAbort /\ NextOf = done + 2
        BY <3>1 DEF Reading, BeforeAbort, NextOf
      <3>3. ArticleAwaited => done' < wants
        <4> SUFFICES ASSUME ArticleAwaited PROVE done' < wants OBVIOUS
        <4>1. Len(frames) # 0 /\ Len(frames) \in Nat /\ done \in Nat
          BY <3>1, <3>2, Places, PeerTypes DEF Pause, ClientInv, OrderInv
        <4>2. wants = frames[Len(frames)].of
          <5>1. wants # 0
            BY DEF ArticleAwaited
          <5> QED BY <3>2, <4>1, <5>1 DEF PeerInv, InterimIsLast
        <4>3. frames[Len(frames)].of = NextOf + Len(frames) - 1
          BY SMT, <3>2, <4>1 DEF PeerInv, FrameOrder
        <4> QED BY SMT, <3>1, <3>2, <4>1, <4>2, <4>3
      <3> QED BY <2>1, <3>1, <3>2, <3>3, <1>PauseMoves
    <2> QED BY <2>2, <2>3, <1>TakePause DEF ReaderNext
  <1>1. Init => Pause
    <2> SUFFICES ASSUME Init PROVE Pause OBVIOUS
    <2>1. Len(req) = 0 /\ wants = 0
      BY LenEmpty DEF Init
    <2>2. ~ArticleAwaited
      BY <2>1 DEF ArticleAwaited
    <2> QED BY SMT, <2>1, <2>2 DEF Pause
  <1>2. /\ ClientInv /\ BarrierInv /\ PeerInv /\ ClientInv' /\ BarrierInv' /\ PeerInv'
        /\ Pause /\ [Next]_vars
        => Pause'
    <2> SUFFICES ASSUME ClientInv, BarrierInv, PeerInv, ClientInv', BarrierInv', PeerInv',
                        Pause, [Next]_vars
                 PROVE  Pause'
      OBVIOUS
    <2>2. ASSUME NEW c \in Caller, CallerNext(c) PROVE Pause'
      <3>1. Kept
        BY <2>2, KeptStep DEF Next, ClientInv, OrderInv
      <3>2. UNCHANGED <<wire, frames, wants, written, done, rpc, abort>>
        BY <2>2, CallerFrame
           DEF readerVars, peerVars, histVars, CallerNext, Start, StartExchange,
           ProbeLock, EnqueueRejected, EnqueueNeedsProbe, EnqueueLocked, SendRequest, SendFails,
           Receive, ProbeReceive, Cancel, linkVars
      <3>3. Reading' = Reading /\ (ArticleAwaited /\ ~abort' => done' < wants)
        BY <3>2 DEF Reading, Pause
      <3> QED BY <3>1, <3>2, <3>3, <1>PauseMoves
    <2>3. CASE PeerClose \/ Finished \/ UNCHANGED vars
      <3>1. UNCHANGED <<req, wire, frames, wants, written, done, rpc, abort>>
        BY <2>3 DEF PeerClose, Finished, vars, linkVars, readerVars, peerVars, histVars
      <3>2. Kept
        BY SMT, <3>1, ReqDomain DEF Kept, ClientInv, OrderInv
      <3>3. Reading' = Reading /\ (ArticleAwaited /\ ~abort' => done' < wants)
        BY <3>1 DEF Reading, Pause
      <3> QED BY <3>1, <3>2, <3>3, <1>PauseMoves
    <2>4. CASE DropConnection
      <3>1. abort' = TRUE /\ rpc' = "dead" /\ wants' = wants
        BY <2>4 DEF DropConnection
      <3>2. ~Reading' /\ rpc' # "second"
        BY <3>1 DEF Reading
      <3>3. Kept
        BY <2>4, KeptStep DEF Next, ClientInv, OrderInv
      <3>4. wants' <= Len(req')
        BY <3>1, <3>3, <1>AwaitedStays
      <3> QED BY <3>1, <3>2, <3>4 DEF Pause
    <2> QED BY <2>2, <2>3, <2>4, <1>WriterPause, <1>ReaderPause, <1>PeerPause
               DEF Next, PeerNext
  <1>3. ClientInv /\ PeerInv /\ Pause => ArticlePause
    <2> SUFFICES ASSUME ClientInv, PeerInv, Pause PROVE ArticlePause OBVIOUS
    <2>1. DOMAIN wire = 1..Len(wire) /\ Len(wire) \in Nat
      BY PeerTypes DEF ClientInv, OrderInv
    <2>2. ASSUME NEW n \in 1..Len(wire), wire[n].art PROVE wire[n].id = wants
      <3>1. n = 1 /\ Len(wire) # 0
        BY SMT, <2>1, <2>2 DEF PeerInv, WireOrder
      <3>2. HasArticle
        BY <2>2, <3>1 DEF HasArticle
      <3> QED BY <3>1, <3>2 DEF PeerInv, ArticleSent
    <2> QED BY <2>1, <2>2 DEF ArticlePause, Pause
  <1> QED BY <1>1, <1>2, <1>3, ClientHolds, PeerHolds, PTL DEF Spec

-----------------------------------------------------------------------------
(* Capabilities.  A command that changes what the peer can do holds the    *)
(* send barrier until its response is accepted, and the reader clears the  *)
(* stored list before that.  So the list is only behind the peer while     *)
(* such a response is on its way, and then nobody checks it.               *)

Changes(i, status) == ChangesPeerCapabilities(req[i].kind, status)

(* A response that changes the peer's list has not been applied.           *)
Changing ==
  \/ \E k \in 1..Len(frames) : Changes(frames[k].of, frames[k].status)
  \/ rpc = "apply" /\ Changes(cur, resp.status)

(* Lists are numbered from 1: no response carries the missing list.        *)
Listed ==
  /\ epoch # 0
  /\ \A k \in 1..Len(frames) : frames[k].list # 0
  /\ rpc = "apply" => resp.list # 0

OnWire == \A k \in 1..Len(wire) : wire[k].id \in 1..Len(req)

FreshOnWire ==
  ~abort => \A k \in 1..Len(wire) :
    RequiresCapabilities(req[wire[k].id].kind) /\ ~wire[k].art
      => req[wire[k].id].seen = epoch

(* The stored list, and every list on its way, is the peer's.              *)
ListCurrent ==
  BeforeAbort /\ ~Changing =>
    /\ caps \in {0, epoch}
    /\ \A k \in 1..Len(frames) : frames[k].list = epoch
    /\ rpc = "apply" => resp.list = epoch

FreshQueued ==
  BeforeAbort /\ ~WriterDone => \A i \in 1..Len(req) :
    written < i /\ RequiresCapabilities(req[i].kind) => req[i].seen = epoch

(* Who holds the barrier for such a command has seen a list.               *)
SenderHasList ==
  BeforeAbort => \A c \in Caller :
    pc[c] = "sending" /\ RequiresCapabilities(SentKind(c)) => caps # 0

CapsInv == Listed /\ OnWire /\ FreshOnWire /\ ListCurrent /\ FreshQueued /\ SenderHasList

(* No change of mode, identity or layer slips between the check of the     *)
(* capability list and the command it was checked for: a command on the    *)
(* wire that needs the list was sent with the list the peer would return.  *)
THEOREM CapabilitiesAreFresh == Spec => []CapsFresh
  <1>ChangersHoldBarrier.
      \A k, s : /\ ChangesPeerCapabilities(k, s) => ResponseInvalidates(k, s)
                /\ ResponseInvalidates(k, s) => RequiresBarrier(k)
    BY DEF ChangesPeerCapabilities, ResponseInvalidates, InvalidatesCapabilities, AuthKind,
           RequiresBarrier, AllowsFollowing, PipelinedKind, SessionPointerKind
  (* A written command that needs the barrier is the last request, and       *)
  (* nobody is sending another one.                                          *)
  <1>BarrierIsQuiet.
      ASSUME ClientInv, BarrierInv, ~abort, NEW i \in Nat, done < i, i <= written,
             RequiresBarrier(req[i].kind)
      PROVE  i = written /\ i = Len(req) /\ \A c \in Caller : pc[c] # "sending"
    <2> USE <1>BarrierIsQuiet
    <2>1. done \in Nat /\ written \in Nat /\ Len(req) \in Nat /\ written <= Len(req)
      BY Places
    <2>2. i \in 1..Len(req)
      BY SMT, <2>1
    <2>3. barrier = i
      BY <2>2 DEF BarrierInv, BarrierKept
    <2>4. i = Len(req)
      BY <2>3 DEF BarrierInv, HolderIsLast
    <2>5. \A c \in Caller : pc[c] # "sending"
      BY <2>3, CallersAreNotNumbers DEF BarrierInv, Locked
    <2> QED BY SMT, <2>1, <2>4, <2>5
  <1>ChangingIsQuiet.
      ASSUME ClientInv, BarrierInv, PeerInv, BeforeAbort, Changing
      PROVE  /\ written = Len(req) /\ \A c \in Caller : pc[c] # "sending"
             /\ rpc = "apply" /\ Changes(cur, resp.status) => Len(frames) = 0
    <2> USE <1>ChangingIsQuiet
    <2>1. ~abort
      BY BeforeAbortIsNotAborted
    <2>2. done \in Nat /\ written \in Nat /\ Len(req) \in Nat /\ Len(frames) \in Nat
      BY Places, PeerTypes DEF ClientInv, OrderInv
    <2>3. CASE \E k \in 1..Len(frames) : Changes(frames[k].of, frames[k].status)
      <3>1. PICK k \in 1..Len(frames) : Changes(frames[k].of, frames[k].status)
        BY <2>3
      <3>2. frames[k].of \in Nat /\ done < frames[k].of /\ frames[k].of <= written
        BY FramesExist DEF PeerInv
      <3>3. RequiresBarrier(req[frames[k].of].kind)
        BY <3>1, <1>ChangersHoldBarrier DEF Changes
      <3>4. frames[k].of = written /\ written = Len(req) /\ \A c \in Caller : pc[c] # "sending"
        BY <2>1, <3>2, <3>3, <1>BarrierIsQuiet
      <3>5. rpc = "apply" => ~Changes(cur, resp.status)
        <4> SUFFICES ASSUME rpc = "apply", Changes(cur, resp.status) PROVE FALSE OBVIOUS
        <4>1. cur = done + 1 /\ NextOf = done + 2
          BY Places DEF Serves, NextOf
        <4>2. NextOf - 1 + Len(frames) <= written
          BY DEF PeerInv, FrameOrder
        <4>3. cur \in Nat /\ done < cur /\ cur <= written
          BY SMT, <2>2, <4>1, <4>2
        <4>4. cur = written
          BY <2>1, <4>3, <1>BarrierIsQuiet, <1>ChangersHoldBarrier DEF Changes
        <4>5. Len(frames) >= 1
          BY SMT, <2>2
        <4> QED BY SMT, <2>2, <4>1, <4>2, <4>4, <4>5
      <3> QED BY <3>4, <3>5
    <2>4. CASE rpc = "apply" /\ Changes(cur, resp.status)
      <3>1. cur = done + 1 /\ NextOf = done + 2 /\ NextOf - 1 + Len(frames) <= written
        BY <2>4, Places DEF Serves, NextOf, PeerInv, FrameOrder
      <3>2. cur \in Nat /\ done < cur /\ cur <= written
        BY SMT, <2>2, <3>1
      <3>3. cur = written /\ written = Len(req) /\ \A c \in Caller : pc[c] # "sending"
        BY <2>1, <2>4, <3>2, <1>BarrierIsQuiet, <1>ChangersHoldBarrier DEF Changes
      <3>4. Len(frames) = 0
        BY SMT, <2>2, <3>1, <3>3
      <3> QED BY <3>3, <3>4
    <2> QED BY <2>3, <2>4 DEF Changing
  (* Steps that leave the sockets and the stored list alone.                 *)
  <1>CapsMoves.
      ASSUME ClientInv, PeerInv, CapsInv, Kept,
             UNCHANGED <<wire, frames, epoch, caps>>,
             \/ rpc # "apply" /\ rpc' # "apply"
             \/ UNCHANGED <<rpc, cur, resp>>,
             abort => abort',
             BeforeAbort' => BeforeAbort
      PROVE  Listed' /\ OnWire' /\ FreshOnWire' /\ ListCurrent'
    <2> USE <1>CapsMoves
    <2>1. Listed'
      BY DEF CapsInv, Listed
    <2>2. OnWire'
      <3>1. \A i \in 1..Len(req) : i \in 1..Len(req')
        BY SMT DEF Kept
      <3> QED BY <3>1 DEF CapsInv, OnWire
    <2>3. FreshOnWire'
      <3>1. \A k \in 1..Len(wire) : wire[k].id \in 1..Len(req)
        BY DEF CapsInv, OnWire
      <3> QED BY <3>1 DEF CapsInv, FreshOnWire, Kept
    <2>4. BeforeAbort /\ rpc = "apply" => cur \in 1..Len(req)
      <3>1. /\ Serves => cur = done + 1 /\ done < Published
            /\ Published <= written /\ written <= Len(req)
            /\ done \in Nat /\ Published \in Nat /\ written \in Nat /\ Len(req) \in Nat
        BY Places
      <3> QED BY SMT, <3>1 DEF Serves
    <2>5. BeforeAbort => \A k \in 1..Len(frames) : frames[k].of \in 1..Len(req)
      BY FramesExist DEF PeerInv
    <2>6. BeforeAbort /\ Changing => Changing'
      BY <2>4, <2>5 DEF Changing, Changes, Kept
    <2>7. ListCurrent'
      BY <2>6 DEF CapsInv, ListCurrent
    <2> QED BY <2>1, <2>2, <2>3, <2>7
  <1>QueuedMoves.
      ASSUME CapsInv, Kept, Len(req') = Len(req), UNCHANGED <<epoch, written>>,
             WriterDone => WriterDone', BeforeAbort' => BeforeAbort
      PROVE  FreshQueued'
    BY <1>QueuedMoves DEF CapsInv, FreshQueued, Kept
  <1>SendersMove.
      ASSUME CapsInv, UNCHANGED <<pc, want, probe, caps>>, BeforeAbort' => BeforeAbort
      PROVE  SenderHasList'
    BY <1>SendersMove DEF CapsInv, SenderHasList, SentKind, Probing
  (* What a caller's step does to the callers.                               *)
  <1>CallerSends.
      ASSUME IInv, NEW c \in Caller, CallerNext(c), ~EnqueueLocked(c)
      PROVE  \A d \in Caller : pc'[d] = "sending" => pc[d] = "sending" /\ SentKind(d)' = SentKind(d)
    <2> USE <1>CallerSends
    <2>1. /\ pc \in [Caller -> {"idle", "enqueue", "sending", "waiting", "probe"}]
          /\ want \in [Caller -> Call] /\ probe \in {NoOne} \cup Caller
      BY DEF IInv, TypeOK, CallerType, SharedType
    <2>2. pc' = [pc EXCEPT ![c] = pc'[c]] /\ pc'[c] # "sending"
      BY <2>1
         DEF CallerNext, Start, StartExchange, ProbeLock, EnqueueRejected, EnqueueNeedsProbe,
                  SendRequest, SendFails, Receive, ProbeReceive, Cancel
    <2>3. \A d \in Caller \ {c} : want'[d] = want[d]
      <3>1. want' = want \/ \E call \in Calls : want' = [want EXCEPT ![c] = call]
        BY DEF CallerNext, Start, StartExchange, ProbeLock, EnqueueRejected, EnqueueNeedsProbe,
               SendRequest, SendFails, Receive, ProbeReceive, Cancel
      <3> QED BY <2>1, <3>1
    <2>4. probe' = probe \/ (probe \in {NoOne, c} /\ probe' \in {NoOne, c})
      BY DEF CallerNext, Start, StartExchange, ProbeLock, EnqueueRejected, EnqueueNeedsProbe,
             SendRequest, SendFails, Receive, ProbeReceive, Cancel, FreeProbe, Probing, sharedVars
    <2>5. \A d \in Caller \ {c} : (probe' = d) = (probe = d)
      BY <2>4, CallersAreNotNumbers
    <2> TAKE d \in Caller
    <2> HAVE pc'[d] = "sending"
    <2>6. d # c /\ pc'[d] = pc[d]
      BY <2>1, <2>2
    <2> QED BY <2>3, <2>5, <2>6 DEF SentKind, Probing
  <1>CallerCaps.
      ASSUME ClientInv, BarrierInv, PeerInv, CapsInv, NEW c \in Caller, CallerNext(c)
      PROVE  CapsInv'
    <2> USE <1>CallerCaps
    <2>1. /\ UNCHANGED <<wire, frames, epoch, written, done, rpc, cur, resp, abort, wpc>>
          /\ Next /\ IInv /\ Kept
      BY CallerFrame, KeptStep
         DEF Next, ClientInv, OrderInv, writerVars, readerVars, peerVars, histVars
    <2>2. caps' = caps
      BY DEF CallerNext, Start, StartExchange, ProbeLock, EnqueueRejected, EnqueueNeedsProbe,
             EnqueueLocked, SendRequest, SendFails, Receive, ProbeReceive, Cancel, sharedVars
    <2>3. BeforeAbort' = BeforeAbort /\ WriterDone' = WriterDone
      BY <2>1 DEF BeforeAbort, Reading, WriterDone
    <2>4. Listed' /\ OnWire' /\ FreshOnWire' /\ ListCurrent'
      BY <2>1, <2>2, <2>3, <1>CapsMoves
    <2>5. SenderHasList'
      <3>1. CASE EnqueueLocked(c)
        <4>1. /\ pc' = [pc EXCEPT ![c] = "sending"] /\ UNCHANGED <<want, probe>>
              /\ ~MustNegotiate(c)
          BY <3>1 DEF EnqueueLocked
        <4>2. pc \in [Caller -> {"idle", "enqueue", "sending", "waiting", "probe"}]
          BY <2>1 DEF IInv, TypeOK, CallerType
        <4>3. RequiresCapabilities(SentKind(c)) => caps # 0
          BY <4>1 DEF MustNegotiate, SentKind, RequiresCapabilities
        <4>4. \A d \in Caller : SentKind(d)' = SentKind(d) /\ (d # c => pc'[d] = pc[d])
          BY <4>1, <4>2 DEF SentKind, Probing
        <4> QED BY <2>2, <2>3, <4>3, <4>4 DEF CapsInv, SenderHasList
      <3>2. CASE ~EnqueueLocked(c)
        BY <2>1, <2>2, <2>3, <3>2, <1>CallerSends DEF CapsInv, SenderHasList
      <3> QED BY <3>1, <3>2
    <2>6. FreshQueued'
      <3>1. CASE Len(req') = Len(req)
        BY <2>1, <2>3, <3>1, <1>QueuedMoves
      <3>2. ASSUME NEW d \in Caller, SendRequest(d) PROVE FreshQueued'
        <4>1. /\ Len(req') = Len(req) + 1 /\ req'[Len(req) + 1] = QueuedRequest(d)
              /\ \A i \in 1..Len(req) : req'[i] = req[i]
              /\ Len(req) \in Nat /\ pc[d] = "sending"
          BY <2>1, <3>2, SendRequestAt, Places DEF SendRequest
        <4>2. BeforeAbort /\ RequiresCapabilities(SentKind(d)) => caps = epoch
          <5> SUFFICES ASSUME BeforeAbort, RequiresCapabilities(SentKind(d)) PROVE caps = epoch
            OBVIOUS
          <5>1. ~Changing
            BY <4>1, <1>ChangingIsQuiet
          <5>2. caps # 0
            BY <4>1 DEF CapsInv, SenderHasList
          <5> QED BY <5>1, <5>2 DEF CapsInv, ListCurrent
        <4>3. /\ req'[Len(req) + 1].kind = SentKind(d) /\ req'[Len(req) + 1].seen = caps
          <5>1. QueuedRequest(d).kind = SentKind(d) /\ QueuedRequest(d).seen = caps
            BY DEF QueuedRequest
          <5> QED BY <4>1, <5>1
        <4>4. BeforeAbort /\ RequiresCapabilities(req'[Len(req) + 1].kind)
                => req'[Len(req) + 1].seen = epoch
          BY <4>2, <4>3
        <4>5. \A i \in 1..Len(req') : i \in 1..Len(req) \/ i = Len(req) + 1
          BY SMT, <4>1
        <4>6. BeforeAbort /\ ~WriterDone => \A i \in 1..Len(req) :
                 written < i /\ RequiresCapabilities(req'[i].kind) => req'[i].seen = epoch
          BY <4>1 DEF CapsInv, FreshQueued
        <4> QED BY <2>1, <2>3, <4>4, <4>5, <4>6 DEF FreshQueued
      <3> QED BY <2>1, <3>1, <3>2, LenStep
    <2> QED BY <2>4, <2>5, <2>6 DEF CapsInv
  <1>WriterCaps.
      ASSUME ClientInv, BarrierInv, PeerInv, CapsInv, WriterNext
      PROVE  CapsInv'
    <2> USE <1>WriterCaps
    <2>1. /\ UNCHANGED <<pc, want, probe, caps, abort, rpc, cur, resp>>
          /\ Next /\ IInv /\ Kept
      BY WriterFrame, KeptStep DEF Next, ClientInv, OrderInv, callerVars, readerVars
    <2>2. UNCHANGED <<frames, epoch>>
      BY DEF WriterNext, WriterTakeHeld, WriterRecv, WriterIdle, WriterCollect, WriterHold,
             WriterCollected, WriterWrite, WriterWriteFails, WriterBegin, WriterSend,
             WriterSendFails, WriterProceed, WriterArticle, WriterArticleFails, WriterPoison,
             WriterReturn, WriterAborted, WriterFail, peerVars
    <2>3. BeforeAbort' = BeforeAbort
      BY <2>1 DEF BeforeAbort, Reading
    <2>4. Len(req') = Len(req)
      <3>1. \A c \in Caller : SendRequest(c) => pc' # pc
        BY DEF SendRequest, ClientInv, OrderInv, IInv, TypeOK, CallerType
      <3> QED BY <2>1, <3>1, LenStep
    <2>5. WriterDone => WriterDone'
      BY
         DEF WriterDone, WriterNext, WriterTakeHeld, WriterRecv, WriterIdle, WriterCollect, WriterHold,
             WriterCollected, WriterWrite, WriterWriteFails, WriterBegin, WriterSend,
             WriterSendFails, WriterProceed, WriterArticle, WriterArticleFails, WriterPoison,
             WriterReturn, WriterAborted, WriterFail
    <2>6. SenderHasList'
      BY <2>1, <2>3, <1>SendersMove
    <2>7. written \in Nat /\ Len(req) \in Nat /\ written + Len(batch) <= Len(req) /\ Len(batch) \in Nat
          /\ written <= Len(req) /\ wire \in Seq(Item) /\ Len(wire) \in Nat
      BY Places, PeerTypes DEF ClientInv, OrderInv
    <2>8. CASE ~WriterWrite /\ ~WriterArticle
      <3>1. UNCHANGED <<wire, written>>
        BY <2>8
           DEF WriterNext, WriterTakeHeld, WriterRecv, WriterIdle, WriterCollect, WriterHold,
           WriterCollected, WriterWriteFails, WriterBegin, WriterSend, WriterSendFails,
           WriterProceed, WriterArticleFails, WriterPoison, WriterReturn, WriterAborted,
           WriterFail, peerVars, histVars
      <3>2. Listed' /\ OnWire' /\ FreshOnWire' /\ ListCurrent'
        BY <2>1, <2>2, <2>3, <3>1, <1>CapsMoves
      <3>3. FreshQueued'
        BY <2>1, <2>2, <2>3, <2>4, <2>5, <3>1, <1>QueuedMoves
      <3> QED BY <2>6, <3>2, <3>3 DEF CapsInv
    <2>9. ASSUME NEW item \in Item, wire' = Append(wire, item), UNCHANGED req,
                 item.id \in 1..Len(req),
                 ~abort /\ RequiresCapabilities(req[item.id].kind) /\ ~item.art
                   => req[item.id].seen = epoch
          PROVE  Listed' /\ OnWire' /\ FreshOnWire' /\ ListCurrent'
      <3>1. /\ Len(wire') = Len(wire) + 1
            /\ \A k \in 1..Len(wire) : wire'[k] = wire[k]
            /\ wire'[Len(wire) + 1] = item
        BY SMT, <2>7, <2>9, AppendAt
      <3>2. \A k \in 1..Len(wire') : k \in 1..Len(wire) \/ k = Len(wire) + 1
        BY SMT, <2>7, <3>1
      <3>3. OnWire'
        BY <2>9, <3>1, <3>2 DEF CapsInv, OnWire
      <3>4. FreshOnWire'
        BY <2>1, <2>2, <2>9, <3>1, <3>2 DEF CapsInv, FreshOnWire
      <3>5. Changing' = Changing
        BY <2>1, <2>2, <2>9 DEF Changing, Changes
      <3>6. Listed' /\ ListCurrent'
        BY <2>1, <2>2, <2>3, <3>5 DEF CapsInv, Listed, ListCurrent
      <3> QED BY <3>3, <3>4, <3>6
    <2>10. CASE WriterWrite
      <3> DEFINE item == [id |-> Head(batch), art |-> FALSE]
      <3>1. /\ wire' = Append(wire, item) /\ written' = written + 1 /\ UNCHANGED req
            /\ wpc = "write"
        BY <2>10 DEF WriterWrite, linkVars
      <3>2. batch \in Seq(Nat) /\ batch # <<>>
        BY <3>1, OrderTypes DEF ClientInv, OrderInv, IInv, WriterShape
      <3>3. Head(batch) = written + 1 /\ Len(batch) # 0
        BY SMT, <2>7, <3>2, RunTail, EmptySeq DEF ClientInv, OrderInv, WriterOrder
      <3>4. item \in Item /\ item.id = written + 1 /\ item.id \in 1..Len(req)
        BY SMT, <2>7, <3>3 DEF Item
      <3>5. ~abort /\ RequiresCapabilities(req[item.id].kind) => req[item.id].seen = epoch
        <4>1. ~abort => BeforeAbort /\ ~WriterDone
          BY <3>1, OpenIsBeforeAbort DEF WriterDone
        <4>2. written < item.id
          BY SMT, <2>7, <3>4
        <4> QED BY <3>4, <4>1, <4>2 DEF CapsInv, FreshQueued
      <3> HIDE DEF item
      <3>6. Listed' /\ OnWire' /\ FreshOnWire' /\ ListCurrent'
        BY <2>9, <3>1, <3>4, <3>5
      <3>7. \A i \in 1..Len(req) : written' < i => written < i
        BY SMT, <2>7, <3>1
      <3>8. FreshQueued'
        BY <2>2, <2>3, <2>5, <3>1, <3>7 DEF CapsInv, FreshQueued
      <3> QED BY <2>6, <3>6, <3>8 DEF CapsInv
    <2>11. CASE WriterArticle
      <3> DEFINE item == [id |-> cont, art |-> TRUE]
      <3>1. /\ wire' = Append(wire, item) /\ UNCHANGED <<written, req>> /\ wpc = "article"
        BY <2>11 DEF WriterArticle, linkVars, histVars
      <3>2. written # 0 /\ cont = written
        BY <3>1 DEF PeerInv, Decision
      <3>3. item \in Item /\ item.art /\ item.id \in 1..Len(req)
        BY SMT, <2>7, <3>2 DEF Item
      <3> HIDE DEF item
      <3>4. Listed' /\ OnWire' /\ FreshOnWire' /\ ListCurrent'
        BY <2>9, <3>1, <3>3
      <3>5. FreshQueued'
        BY <2>1, <2>2, <2>3, <2>4, <2>5, <3>1, <1>QueuedMoves
      <3> QED BY <2>6, <3>4, <3>5 DEF CapsInv
    <2> QED BY <2>8, <2>10, <2>11
  (* The peer answers a command.  If the answer changes its list, nothing is *)
  (* behind the command that could have been checked against the old one.    *)
  <1>AnswerCaps.
      ASSUME ClientInv, BarrierInv, PeerInv, PeerInv', CapsInv, PeerAnswer
      PROVE  CapsInv'
    <2> USE <1>AnswerCaps
    <2>1. /\ open /\ wire # <<>> /\ wire' = Tail(wire)
          /\ UNCHANGED <<pc, want, probe, caps, req, abort, written, done, rpc, cur, resp, wpc>>
      BY DEF PeerAnswer, callerVars, sharedVars, linkVars, readerVars, histVars, writerVars
    <2>2. /\ frames \in Seq(Frame) /\ Len(frames) \in Nat /\ done \in Nat /\ written \in Nat
          /\ written <= Len(req) /\ Len(req) \in Nat /\ wire \in Seq(Item)
          /\ epoch \in Nat
      BY PeerTypes, Places DEF ClientInv, OrderInv, IInv, TypeOK, PeerType
    <2>3. /\ Len(wire) \in Nat \ {0} /\ Len(wire) <= written
          /\ Head(wire) \in Item /\ ~Head(wire).art
          /\ Head(wire).id = written - Len(wire) + 1
          /\ Len(wire') = Len(wire) - 1
      BY <2>1, AnswersCommand, PeerReads
    <2> DEFINE id == Head(wire).id
               kind == req[id].kind
    <2>4. PICK status \in PeerStatus(kind) :
             /\ epoch' = IF ChangesPeerCapabilities(kind, status) THEN epoch + 1 ELSE epoch
             /\ frames' = Append(frames, [of |-> id, status |-> status, list |-> epoch'])
      BY <2>3 DEF PeerAnswer
    <2> DEFINE frame == [of |-> id, status |-> status, list |-> epoch']
    <2>5. frame \in Frame /\ frame.of = id /\ frame.status = status /\ frame.list = epoch'
      <3>1. epoch' \in Nat
        BY SMT, <2>2, <2>4
      <3>2. status \in Status
        BY <2>4, PeerStatusType
      <3>3. id \in Nat
        BY <2>3 DEF Item
      <3> QED BY <3>1, <3>2, <3>3 DEF Frame
    <2>6. id = written - Len(wire) + 1 /\ id \in Nat /\ id <= written
      BY SMT, <2>2, <2>3
    <2> HIDE DEF id, kind, frame
    <2>7. /\ Len(frames') = Len(frames) + 1
          /\ \A k \in 1..Len(frames) : frames'[k] = frames[k]
          /\ frames'[Len(frames) + 1] = frame
      BY SMT, <2>2, <2>4, <2>5, AppendAt DEF frame
    <2>8. \A k \in 1..Len(frames') : k \in 1..Len(frames) \/ k = Len(frames) + 1
      BY SMT, <2>2, <2>7
    <2>9. /\ Len(frames) + 1 \in 1..Len(frames')
          /\ \A k \in 1..Len(frames) : k \in 1..Len(frames')
      BY SMT, <2>2, <2>7
    <2>10. BeforeAbort' = BeforeAbort /\ WriterDone' = WriterDone
      BY <2>1 DEF BeforeAbort, Reading, WriterDone
    <2>11. SenderHasList'
      BY <2>1, <2>10, <1>SendersMove
    <2>12. /\ DOMAIN Tail(wire) = 1..Len(wire')
           /\ \A k \in 1..Len(wire') : wire'[k] = wire[k + 1] /\ k + 1 \in 1..Len(wire)
      BY <2>1, <2>2, <2>3, TailAt
    <2>13. OnWire'
      BY <2>1, <2>12 DEF CapsInv, OnWire
    <2>14. epoch' # 0
      BY SMT, <2>2, <2>4 DEF CapsInv, Listed
    <2>15. Listed'
      BY <2>1, <2>5, <2>7, <2>8, <2>14 DEF CapsInv, Listed
    <2>16. CASE ~ChangesPeerCapabilities(kind, status)
      <3>1. epoch' = epoch
        BY <2>4, <2>16
      <3>2. Changing => Changing'
        BY <2>1, <2>7, <2>9 DEF Changing, Changes
      <3>3. ListCurrent'
        BY <2>1, <2>5, <2>7, <2>8, <2>10, <3>1, <3>2 DEF CapsInv, ListCurrent
      <3>4. FreshOnWire'
        BY <2>1, <2>12, <3>1 DEF CapsInv, FreshOnWire
      <3>5. FreshQueued'
        BY <2>1, <2>10, <3>1 DEF CapsInv, FreshQueued
      <3> QED BY <2>11, <2>13, <2>15, <3>3, <3>4, <3>5 DEF CapsInv
    <2>17. CASE ChangesPeerCapabilities(kind, status)
      <3>1. Changing'
        BY <2>1, <2>5, <2>7, <2>9, <2>17 DEF Changing, Changes, kind
      <3>2. ~abort => BeforeAbort /\ id = written /\ written = Len(req)
        <4> SUFFICES ASSUME ~abort PROVE BeforeAbort /\ id = written /\ written = Len(req)
          OBVIOUS
        <4>1. BeforeAbort
          BY <2>1, OpenIsBeforeAbort
        <4> DEFINE n == Len(frames) + 1
        <4>2. frames'[n].of = NextOf' + n - 1 /\ NextOf' - 1 + n <= written'
          BY <2>7, <2>9, <2>10, <4>1 DEF PeerInv, FrameOrder
        <4>3. NextOf' \in Nat /\ NextOf' >= done' + 1
          BY SMT, <2>1, <2>2 DEF NextOf
        <4>4. done' \in Nat /\ written' \in Nat /\ n \in Nat /\ n >= 1
          BY SMT, <2>1, <2>2
        <4>5. done' < frames'[n].of
          BY <4>2, <4>3, <4>4, LastInLine
        <4>6. done < id
          BY <2>1, <2>5, <2>7, <4>5
        <4>7. RequiresBarrier(req[id].kind)
          BY <2>17, <1>ChangersHoldBarrier DEF kind
        <4> QED BY <2>6, <4>1, <4>6, <4>7, <1>BarrierIsQuiet
      <3>3. FreshOnWire'
        <4>1. ~abort => Len(wire') = 0
          BY SMT, <2>2, <2>3, <2>6, <3>2
        <4>2. ~abort => \A k \in 1..Len(wire') : FALSE
          BY SMT, <4>1
        <4> QED BY <2>1, <4>2 DEF FreshOnWire
      <3>4. FreshQueued'
        <4>1. BeforeAbort => written = Len(req)
          BY <3>2, BeforeAbortIsNotAborted
        <4>2. BeforeAbort => \A i \in 1..Len(req) : ~(written < i)
          BY SMT, <2>2, <4>1
        <4> QED BY <2>1, <2>10, <4>2 DEF FreshQueued
      <3> QED BY <2>11, <2>13, <2>15, <3>1, <3>3, <3>4 DEF CapsInv, ListCurrent
    <2> QED BY <2>16, <2>17
  <1>ArticleCaps.
      ASSUME ClientInv, BarrierInv, PeerInv, CapsInv, PeerArticle
      PROVE  CapsInv'
    <2> USE <1>ArticleCaps
    <2>1. /\ wire # <<>> /\ wire' = Tail(wire)
          /\ UNCHANGED <<pc, want, probe, caps, req, abort, written, done, rpc, cur, resp, wpc, epoch>>
      BY DEF PeerArticle, callerVars, sharedVars, linkVars, readerVars, histVars, writerVars
    <2>2. /\ frames \in Seq(Frame) /\ Len(frames) \in Nat /\ wire \in Seq(Item) /\ Len(wire) \in Nat
          /\ epoch \in Nat /\ wants \in Nat
      BY PeerTypes DEF ClientInv, OrderInv, IInv, TypeOK, PeerType
    <2>3. BeforeAbort' = BeforeAbort /\ WriterDone' = WriterDone
      BY <2>1 DEF BeforeAbort, Reading, WriterDone
    <2>4. \A k \in 1..Len(wire') : wire'[k] = wire[k + 1] /\ k + 1 \in 1..Len(wire)
      <3>1. /\ DOMAIN wire = 1..Len(wire) /\ DOMAIN wire' = 1..(Len(wire) - 1)
            /\ Len(wire') = Len(wire) - 1
            /\ \A k \in DOMAIN wire' : wire'[k] = wire[k + 1] /\ k + 1 \in DOMAIN wire
        BY <2>1, <2>2, TailAt
      <3> QED BY <3>1
    <2>5. OnWire' /\ FreshOnWire'
      BY <2>1, <2>4 DEF CapsInv, OnWire, FreshOnWire
    <2>6. SenderHasList'
      BY <2>1, <2>3, <1>SendersMove
    <2>7. FreshQueued'
      BY <2>1, <2>3 DEF CapsInv, FreshQueued
    <2>8. CASE UNCHANGED frames
      <3>1. Changing' = Changing
        BY <2>1, <2>8 DEF Changing, Changes
      <3>2. Listed' /\ ListCurrent'
        BY <2>1, <2>3, <2>8, <3>1 DEF CapsInv, Listed, ListCurrent
      <3> QED BY <2>5, <2>6, <2>7, <3>2 DEF CapsInv
    <2>9. ASSUME NEW status \in FinalStatus,
                 frames' = Append(frames, [of |-> wants, status |-> status, list |-> epoch])
          PROVE  Listed' /\ ListCurrent'
      <3> DEFINE frame == [of |-> wants, status |-> status, list |-> epoch]
      <3>1. frame \in Frame /\ frame.list = epoch
        BY <2>2 DEF Frame, Status, FinalStatus
      <3> HIDE DEF frame
      <3>2. /\ Len(frames') = Len(frames) + 1
            /\ \A k \in 1..Len(frames) : frames'[k] = frames[k]
            /\ frames'[Len(frames) + 1] = frame
        BY SMT, <2>2, <2>9, <3>1, AppendAt DEF frame
      <3>3. /\ \A k \in 1..Len(frames') : k \in 1..Len(frames) \/ k = Len(frames) + 1
            /\ \A k \in 1..Len(frames) : k \in 1..Len(frames')
        BY SMT, <2>2, <3>2
      <3>4. Changing => Changing'
        BY <2>1, <3>2, <3>3 DEF Changing, Changes
      <3>5. Listed'
        BY <2>1, <3>1, <3>2, <3>3 DEF CapsInv, Listed
      <3>6. ListCurrent'
        BY <2>1, <2>3, <3>1, <3>2, <3>3, <3>4 DEF CapsInv, ListCurrent
      <3> QED BY <3>5, <3>6
    <2>10. \/ UNCHANGED frames
           \/ \E status \in FinalStatus :
                frames' = Append(frames, [of |-> wants, status |-> status, list |-> epoch])
      BY DEF PeerArticle
    <2> QED BY <2>5, <2>6, <2>7, <2>8, <2>9, <2>10 DEF CapsInv
  (* The reader takes a response from the sockets to apply it.               *)
  <1>TakeCaps.
      ASSUME ClientInv, BarrierInv, PeerInv, CapsInv, ReaderInterim \/ ReaderReceive
      PROVE  CapsInv'
    <2> USE <1>TakeCaps
    <2>1. /\ UNCHANGED <<pc, want, probe, caps, wire, epoch, written, done, abort, cur, wpc>>
          /\ frames # <<>> /\ frames' = Tail(frames) /\ resp' = Head(frames)
          /\ rpc \in {"first", "second"} /\ rpc' \in {"second", "apply"}
          /\ rpc' = "second" => Proceeds(req[cur].kind, Head(frames).status)
      BY
         DEF ReaderInterim, ReaderReceive, FrameReady, histVars, linkVars, callerVars, sharedVars,
             writerVars
    <2>2. /\ frames \in Seq(Frame) /\ Len(frames) \in Nat /\ done \in Nat /\ written \in Nat
          /\ written <= Len(req) /\ Len(req) \in Nat /\ cur = done + 1
          /\ done < Published /\ Published \in Nat /\ Published <= written
      BY <2>1, PeerTypes, Places DEF ClientInv, OrderInv, Serves
    <2>3. cur \in 1..Len(req)
      BY SMT, <2>2
    <2>4. Kept /\ Len(req') = Len(req)
      <3>1. Next /\ IInv
        BY DEF Next, ClientInv, OrderInv, ReaderNext
      <3>2. \A c \in Caller : SendRequest(c) => pc' # pc
        BY DEF SendRequest, ClientInv, OrderInv, IInv, TypeOK, CallerType
      <3> QED BY <2>1, <3>1, <3>2, LenStep, KeptStep
    <2>5. /\ 1 \in 1..Len(frames) /\ Head(frames) = frames[1]
          /\ \A k \in 1..Len(frames') : frames'[k] = frames[k + 1] /\ k + 1 \in 1..Len(frames)
          /\ \A k \in 1..Len(frames) : k = 1 \/ (k - 1 \in 1..Len(frames') /\ frames[k] = frames'[k - 1])
      <3>1. /\ Len(frames) \in Nat \ {0} /\ Len(frames') = Len(frames) - 1
            /\ DOMAIN frames' = 1..(Len(frames) - 1) /\ DOMAIN frames = 1..Len(frames)
            /\ Head(frames) = frames[1]
            /\ \A k \in DOMAIN frames' : frames'[k] = frames[k + 1] /\ k + 1 \in DOMAIN frames
        BY <2>1, <2>2, TailAt
      <3>2. ASSUME NEW k \in 1..Len(frames), k # 1
            PROVE  k - 1 \in 1..Len(frames') /\ frames[k] = frames'[k - 1]
        <4>1. k - 1 \in 1..(Len(frames) - 1) /\ (k - 1) + 1 = k
          BY SMT, <3>1, <3>2
        <4>2. frames'[k - 1] = frames[(k - 1) + 1]
          BY <3>1, <4>1
        <4> QED BY <3>1, <4>1, <4>2
      <3> QED BY SMT, <3>1, <3>2
    <2>6. BeforeAbort /\ BeforeAbort' /\ WriterDone' = WriterDone /\ NextOf = done + 1
      BY <2>1 DEF BeforeAbort, Reading, WriterDone, NextOf
    <2>7. frames[1].of = cur
      <3>1. frames[1].of = NextOf + 1 - 1
        BY <2>5, <2>6 DEF PeerInv, FrameOrder
      <3> QED BY SMT, <2>2, <2>6, <3>1
    <2>8. \A k \in 1..Len(frames) : frames[k].of \in 1..Len(req)
      BY <2>6, FramesExist DEF PeerInv
    <2>9. Changing => Changing'
      <3> SUFFICES ASSUME Changing PROVE Changing' OBVIOUS
      <3>1. PICK k \in 1..Len(frames) : Changes(frames[k].of, frames[k].status)
        BY <2>1 DEF Changing
      <3>2. CASE k = 1
        <4>1. Changes(cur, Head(frames).status)
          BY <2>5, <2>7, <3>1, <3>2
        <4>2. ~Proceeds(req[cur].kind, Head(frames).status)
          BY <4>1 DEF Changes, ChangesPeerCapabilities, Proceeds, AuthKind
        <4>3. rpc' = "apply" /\ Changes(cur, resp.status)'
          BY <2>1, <2>3, <2>4, <4>1, <4>2 DEF Changes, Kept
        <4> QED BY <4>3 DEF Changing
      <3>3. CASE k # 1
        <4>1. k - 1 \in 1..Len(frames') /\ frames[k] = frames'[k - 1]
          BY <2>5, <3>3
        <4>2. ChangesPeerCapabilities(req'[frames'[k - 1].of].kind, frames'[k - 1].status)
          BY <2>4, <2>8, <3>1, <4>1 DEF Changes, Kept
        <4> QED BY <4>1, <4>2 DEF Changing, Changes
      <3> QED BY <3>2, <3>3
    <2>10. Listed'
      BY <2>1, <2>5 DEF CapsInv, Listed
    <2>11. ListCurrent'
      BY SMT, <2>1, <2>5, <2>6, <2>9 DEF CapsInv, ListCurrent
    <2>12. OnWire' /\ FreshOnWire'
      BY <2>1, <2>4 DEF CapsInv, OnWire, FreshOnWire, Kept
    <2>13. FreshQueued'
      BY <2>1, <2>4, <2>6, <1>QueuedMoves
    <2>14. SenderHasList'
      BY <2>1, <2>6, <1>SendersMove
    <2> QED BY <2>10, <2>11, <2>12, <2>13, <2>14 DEF CapsInv
  (* The reader updates the stored list before it answers.                   *)
  <1>ApplyCaps.
      ASSUME ClientInv, BarrierInv, PeerInv, CapsInv, ReaderApply
      PROVE  CapsInv'
    <2> USE <1>ApplyCaps
    <2>1. /\ UNCHANGED <<pc, want, probe, req, wire, frames, epoch, written, abort, cur, resp, wpc>>
          /\ rpc = "apply" /\ rpc' = "reply"
          /\ caps' = IF req[cur].kind = "Capabilities" /\ resp.status = "101" THEN resp.list
                     ELSE IF ResponseInvalidates(req[cur].kind, resp.status) THEN 0
                     ELSE caps
      BY DEF ReaderApply, callerVars, linkVars, peerVars, histVars, writerVars
    <2>2. BeforeAbort /\ BeforeAbort' /\ WriterDone' = WriterDone /\ ~abort
      BY <2>1, BeforeAbortIsNotAborted DEF BeforeAbort, Reading, WriterDone
    <2>3. cur \in Nat /\ done < cur /\ cur <= written
      <3>1. /\ cur = done + 1 /\ done < Published /\ Published <= written
            /\ done \in Nat /\ Published \in Nat /\ written \in Nat
        BY <2>1, Places DEF Serves
      <3> QED BY SMT, <3>1
    <2>4. ResponseInvalidates(req[cur].kind, resp.status) => \A c \in Caller : pc[c] # "sending"
      BY <2>2, <2>3, <1>ChangersHoldBarrier, <1>BarrierIsQuiet
    <2>5. SenderHasList'
      <3>1. ASSUME NEW c \in Caller, pc[c] = "sending", RequiresCapabilities(SentKind(c))
            PROVE  caps' # 0
        <4>1. caps # 0 /\ resp.list # 0
          BY <2>1, <2>2, <3>1 DEF CapsInv, SenderHasList, Listed
        <4> QED BY <2>1, <2>4, <3>1, <4>1
      <3> QED BY <2>1, <3>1 DEF SenderHasList, SentKind, Probing
    <2>6. Listed' /\ OnWire' /\ FreshOnWire' /\ FreshQueued'
      BY <2>1, <2>2 DEF CapsInv, Listed, OnWire, FreshOnWire, FreshQueued
    <2>7. ListCurrent'
      <3>1. CASE Changes(cur, resp.status)
        <4>1. Len(frames) = 0
          BY <2>1, <2>2, <3>1, <1>ChangingIsQuiet DEF Changing
        <4>2. caps' = 0
          BY <2>1, <3>1, <1>ChangersHoldBarrier
             DEF Changes, ChangesPeerCapabilities, AuthKind
        <4>3. \A k \in 1..Len(frames') : FALSE
          BY SMT, <2>1, <4>1
        <4> QED BY <2>1, <4>2, <4>3 DEF ListCurrent
      <3>2. CASE ~Changes(cur, resp.status)
        <4>1. Changing' <=> Changing
          BY <2>1, <3>2 DEF Changing, Changes
        <4>2. ~Changing => /\ caps \in {0, epoch} /\ resp.list = epoch
                           /\ \A k \in 1..Len(frames) : frames[k].list = epoch
          BY <2>1, <2>2 DEF CapsInv, ListCurrent
        <4>3. ~Changing => caps' \in {0, epoch}
          BY <2>1, <4>2
        <4> QED BY <2>1, <4>1, <4>2, <4>3 DEF ListCurrent
      <3> QED BY <3>1, <3>2
    <2> QED BY <2>5, <2>6, <2>7 DEF CapsInv
  <1>ReaderCaps.
      ASSUME ClientInv, BarrierInv, PeerInv, CapsInv, ReaderNext
      PROVE  CapsInv'
    <2> USE <1>ReaderCaps
    <2>1. CASE ReaderRecv \/ ReaderExit \/ ReaderReply \/ ReaderRelease \/ ReaderEnd
               \/ ReaderFailEnd \/ ReaderFailAbort \/ ReaderFailPoison \/ ReaderFailReturn
               \/ \E error \in Error : ReaderFails(error)
      <3>1. UNCHANGED <<pc, want, probe, wpc>>
        BY ReaderFrame DEF callerVars, writerVars
      <3>2. /\ UNCHANGED <<wire, frames, epoch, caps, written>>
            /\ rpc # "apply" /\ rpc' # "apply"
            /\ abort => abort'
        BY SMT, <2>1 DEF ReaderRecv, ReaderExit, ReaderReply, ReaderRelease, ReaderEnd,
                    ReaderFailEnd, ReaderFailAbort, ReaderFailPoison, ReaderFailReturn,
                    ReaderFails, linkVars, peerVars, histVars, sharedVars
      <3>3. BeforeAbort' => BeforeAbort
        BY <2>1 DEF ReaderRecv, ReaderExit, ReaderReply, ReaderRelease, ReaderEnd,
                    ReaderFailEnd, ReaderFailAbort, ReaderFailPoison, ReaderFailReturn,
                    ReaderFails, BeforeAbort, Reading
      <3>4. WriterDone' = WriterDone
        BY <3>1 DEF WriterDone
      <3>5. Kept /\ Len(req') = Len(req)
        <4>1. Next /\ IInv
          BY DEF Next, ClientInv, OrderInv
        <4>2. \A c \in Caller : SendRequest(c) => pc' # pc
          BY DEF SendRequest, ClientInv, OrderInv, IInv, TypeOK, CallerType
        <4> QED BY <3>1, <4>1, <4>2, LenStep, KeptStep
      <3>6. Listed' /\ OnWire' /\ FreshOnWire' /\ ListCurrent'
        BY <3>2, <3>3, <3>5, <1>CapsMoves
      <3>7. FreshQueued'
        BY <3>2, <3>3, <3>4, <3>5, <1>QueuedMoves
      <3>8. SenderHasList'
        BY <3>1, <3>2, <3>3, <1>SendersMove
      <3> QED BY <3>6, <3>7, <3>8 DEF CapsInv
    <2> QED BY <2>1, <1>TakeCaps, <1>ApplyCaps DEF ReaderNext
  <1>1. Init => CapsInv
    <2> SUFFICES ASSUME Init PROVE CapsInv OBVIOUS
    <2>1. /\ Len(wire) = 0 /\ Len(frames) = 0 /\ Len(req) = 0 /\ epoch = 1 /\ rpc = "recv"
          /\ caps = 0 /\ \A c \in Caller : pc[c] = "idle"
      BY LenEmpty DEF Init
    <2>2. \A k \in 1..0 : FALSE
      BY SMT
    <2> QED BY SMT, <2>1, <2>2
            DEF CapsInv, Listed, OnWire, FreshOnWire, ListCurrent, FreshQueued, SenderHasList
  <1>2. ClientInv /\ BarrierInv /\ PeerInv /\ PeerInv' /\ CapsInv /\ [Next]_vars => CapsInv'
    <2> SUFFICES ASSUME ClientInv, BarrierInv, PeerInv, PeerInv', CapsInv, [Next]_vars
                 PROVE  CapsInv'
      OBVIOUS
    <2>1. CASE PeerClose \/ Finished \/ UNCHANGED vars
      <3>1. UNCHANGED <<pc, want, probe, caps, req, abort, wpc, rpc, cur, resp, wire, frames,
                        epoch, written>>
        BY <2>1
           DEF PeerClose, Finished, vars, callerVars, sharedVars, linkVars, writerVars,
                    readerVars, peerVars, histVars
      <3>2. BeforeAbort' = BeforeAbort /\ WriterDone' = WriterDone
        BY <3>1 DEF BeforeAbort, Reading, WriterDone
      <3>3. Kept
        BY SMT, <3>1, ReqDomain DEF Kept, ClientInv, OrderInv
      <3>4. Listed' /\ OnWire' /\ FreshOnWire' /\ ListCurrent'
        BY <3>1, <3>2, <3>3, <1>CapsMoves
      <3>5. FreshQueued' /\ SenderHasList'
        BY <3>1, <3>2, <3>3, <1>QueuedMoves, <1>SendersMove
      <3> QED BY <3>4, <3>5 DEF CapsInv
    <2>2. CASE DropConnection
      <3>1. /\ UNCHANGED <<wire, frames, epoch>> /\ rpc' = "dead" /\ abort' = TRUE
        BY <2>2 DEF DropConnection
      <3>2. ~BeforeAbort'
        BY <3>1 DEF BeforeAbort, Reading
      <3>3. Len(req') = Len(req)
        BY <2>2, DropAt DEF ClientInv, OrderInv
      <3>4. Listed' /\ OnWire'
        BY <3>1, <3>3 DEF CapsInv, Listed, OnWire
      <3>5. FreshOnWire'
        BY <3>1 DEF FreshOnWire
      <3> QED BY <3>2, <3>4, <3>5 DEF CapsInv, ListCurrent, FreshQueued, SenderHasList
    <2> QED BY <2>1, <2>2, <1>CallerCaps, <1>WriterCaps, <1>ReaderCaps, <1>AnswerCaps,
               <1>ArticleCaps
            DEF Next, PeerNext
  <1>3. ClientInv /\ CapsInv => CapsFresh
    <2> SUFFICES ASSUME ClientInv, CapsInv PROVE CapsFresh OBVIOUS
    <2>1. DOMAIN wire = 1..Len(wire)
      BY PeerTypes DEF ClientInv, OrderInv
    <2> QED BY <2>1 DEF CapsInv, FreshOnWire, CapsFresh
  <1> QED BY <1>1, <1>2, <1>3, ClientHolds, PeerHolds, PTL DEF Spec

=============================================================================
