-------------------------- MODULE ClientPeerProofs --------------------------
(***************************************************************************)
(* Proofs that the client pairs every response with the command it         *)
(* answers, for any number of callers, calls and capacities.  Responses    *)
(* carry no name, so the argument follows them: the sockets hold the       *)
(* commands the peer has not read and the responses the reader has not     *)
(* taken, both in the order of the requests, and an article is on the wire *)
(* only while peer and reader wait for it.  The order of the requests and  *)
(* the barrier come from ClientConnectionProofs.                           *)
(***************************************************************************)
EXTENDS ClientConnectionProofs

-----------------------------------------------------------------------------
(* Between the writer, the peer and the reader.                            *)

(* The command whose response comes next from the sockets.                 *)
NextOf == IF rpc \in {"apply", "reply"} THEN done + 2 ELSE done + 1

(* Response k asks for the article of its command.                         *)
Interim(k) == Proceeds(req[frames[k].of].kind, frames[k].status)

(* The reader waits for the response to an article.                        *)
AwaitsArticle == rpc = "second" /\ Len(frames) = 0

HasArticle == Len(wire) # 0 /\ wire[1].art

(* The writer may send the article it holds.                               *)
Allowed == wpc = "article" \/ (wpc = "proceed" /\ req[cont].proceed = "yes")

(* The peer waits for an article that nobody is going to send.             *)
Deaf == wants # 0 /\ Len(frames) = 0 /\ rpc # "second"

(* Commands the peer has read.                                             *)
Heard == IF HasArticle THEN written ELSE written - Len(wire)

(* A writer that waits for a decision has written nothing after the        *)
(* command, and the reader waits twice only for a command with an article. *)
Decision ==
  /\ wpc \in {"proceed", "article"} => written # 0 /\ cont = written /\ req[written].article
  /\ rpc = "second" => req[cur].article

(* The last commands written, or an article ahead of them.                 *)
WireOrder ==
  /\ \A k \in 1..Len(wire) : wire[k].art => k = 1
  /\ ~HasArticle => /\ Len(wire) <= written
                    /\ \A k \in 1..Len(wire) : wire[k].id = written - Len(wire) + k

(* An article is sent when peer and reader are waiting for it.             *)
ArticleSent ==
  /\ HasArticle => /\ wire[1].id = wants
                   /\ open => Reading
                   /\ Reading => AwaitsArticle /\ Len(wire) = 1 /\ cur = wants
  /\ Allowed => /\ wants = cont /\ Len(wire) = 0 /\ Len(frames) = 0
                /\ open => Reading
                /\ Reading => rpc = "second" /\ cur = cont
  /\ AwaitsArticle => wants = cur

(* Responses wait for the reader in the order of the commands.             *)
FrameOrder ==
  /\ BeforeAbort => /\ \A k \in 1..Len(frames) : frames[k].of = NextOf + k - 1
                    /\ NextOf - 1 + Len(frames) <= written
  /\ rpc \in {"apply", "reply"} => resp.of = cur

(* Nothing the peer has read is without a response, but for the article.   *)
CaughtUp ==
  open /\ BeforeAbort /\ ~Deaf
    => Heard = NextOf - 1 + Len(frames) + (IF AwaitsArticle THEN 1 ELSE 0)

(* A response that asks for an article is the last one, and the peer waits.*)
InterimIsLast ==
  BeforeAbort =>
    /\ \A k \in 1..Len(frames) :
         Interim(k) => k = Len(frames) /\ wants = frames[k].of /\ Len(wire) = 0
    /\ wants # 0 /\ Len(frames) # 0 => Interim(Len(frames)) /\ wants = frames[Len(frames)].of

PeerInv == Decision /\ WireOrder /\ ArticleSent /\ FrameOrder /\ CaughtUp /\ InterimIsLast

(* The steps are left to Zenon, those that say so to SMT.                   *)
USE ZenonT(30)

(* Types of what is on the sockets.                                        *)
LEMMA PeerTypes ==
  ASSUME IInv
  PROVE  /\ wire \in Seq(Item) /\ frames \in Seq(Frame)
         /\ Len(wire) \in Nat /\ DOMAIN wire = 1..Len(wire)
         /\ Len(frames) \in Nat /\ DOMAIN frames = 1..Len(frames)
         /\ \A k \in 1..Len(wire) : wire[k] \in Item /\ wire[k].id \in Nat
         /\ \A k \in 1..Len(frames) : frames[k] \in Frame /\ frames[k].of \in Nat
         /\ wants \in Nat /\ open \in BOOLEAN
  <1>1. wire \in Seq(Item) /\ frames \in Seq(Frame) /\ wants \in Nat /\ open \in BOOLEAN
    BY DEF IInv, TypeOK, PeerType
  <1>2. /\ Len(wire) \in Nat /\ DOMAIN wire = 1..Len(wire)
        /\ Len(frames) \in Nat /\ DOMAIN frames = 1..Len(frames)
    BY <1>1, LenProperties
  <1>3. /\ \A k \in 1..Len(wire) : wire[k] \in Item
        /\ \A k \in 1..Len(frames) : frames[k] \in Frame
    BY SMT, <1>1, <1>2
  <1> QED BY <1>1, <1>2, <1>3 DEF Item, Frame

(* Only POST and IHAVE are asked for their article.                        *)
LEMMA ProceedsKind == \A k, s : Proceeds(k, s) => k \in ContinuationKind
  BY DEF Proceeds, ContinuationKind

(* A continuation whose response is outstanding is the last command.       *)
LEMMA ContinuationIsLast ==
  ASSUME ClientInv, BarrierInv, ~abort, NEW i \in Nat, done < i, i <= written,
         req[i].kind \in ContinuationKind
  PROVE  i = written
  <1>1. NoFollow
    BY NothingFollows
  <1>2. i \in Outstanding
    <2>1. done \in Nat /\ written \in Nat
      BY Places
    <2> QED BY SMT, <2>1 DEF Outstanding
  <1>3. ~AllowsFollowing(req[i].kind)
    BY ExclusiveIsFollowedByNothing DEF Exclusive
  <1> QED BY <1>1, <1>2, <1>3 DEF NoFollow

(* The command the reader waits twice for is the last one written.         *)
LEMMA SecondIsLast ==
  ASSUME ClientInv, BarrierInv, Decision, rpc = "second"
  PROVE  cur = written /\ cur = done + 1 /\ cur \in Nat /\ cur # 0
  <1>1. /\ cur = done + 1 /\ done < Published /\ Published <= written /\ written <= Len(req)
        /\ done \in Nat /\ Published \in Nat /\ written \in Nat /\ Len(req) \in Nat
    BY Places DEF Serves
  <1>2. cur \in 1..Len(req) /\ cur \in Nat /\ done < cur /\ cur <= written
    BY SMT, <1>1
  <1>3. req[cur].kind \in ContinuationKind
    BY <1>2 DEF Decision, ClientInv, ArticleKinds
  <1>4. ~abort
    BY DEF ClientInv, OrderInv, IInv, GateShape
  <1>5. cur = written
    BY <1>2, <1>3, <1>4, ContinuationIsLast
  <1> QED BY SMT, <1>1, <1>2, <1>5

(* abort is raised only once the reader is past its failure.               *)
LEMMA BeforeAbortIsNotAborted ==
  ASSUME ClientInv
  PROVE  /\ BeforeAbort => ~abort
         /\ Reading => BeforeAbort /\ ~abort
  BY DEF ClientInv, OrderInv, IInv, GateShape, BeforeAbort, Reading

(* The responses that wait are responses to requests made.                 *)
LEMMA FramesExist ==
  ASSUME ClientInv, FrameOrder, BeforeAbort
  PROVE  \A k \in 1..Len(frames) :
           /\ frames[k].of \in 1..Len(req) /\ frames[k].of \in Nat
           /\ done < frames[k].of /\ frames[k].of <= written
  <1>1. Len(frames) \in Nat
    BY PeerTypes DEF ClientInv, OrderInv
  <1>2. done \in Nat /\ written \in Nat /\ Len(req) \in Nat /\ written <= Len(req)
    BY Places
  <1>3. NextOf \in Nat /\ NextOf >= done + 1
    BY SMT, <1>2 DEF NextOf
  <1>4. ASSUME NEW k \in 1..Len(frames)
        PROVE  /\ frames[k].of \in 1..Len(req) /\ frames[k].of \in Nat
               /\ done < frames[k].of /\ frames[k].of <= written
    <2>1. frames[k].of = NextOf + k - 1 /\ NextOf - 1 + Len(frames) <= written
      BY DEF FrameOrder
    <2> QED BY SMT, <1>1, <1>2, <1>3, <2>1
  <1> QED BY <1>4

-----------------------------------------------------------------------------
-----------------------------------------------------------------------------
(* The peer's steps.                                                       *)

(* The peer reads a command from the wire: the oldest one it has not read. *)
LEMMA PeerReads ==
  ASSUME ClientInv, PeerInv, wire # <<>>, ~HasArticle
  PROVE  /\ Len(wire) \in Nat \ {0} /\ Len(wire) <= written
         /\ Head(wire) = wire[1] /\ Head(wire) \in Item /\ ~Head(wire).art
         /\ Head(wire).id = written - Len(wire) + 1
         /\ Len(Tail(wire)) = Len(wire) - 1
         /\ \A k \in 1..Len(Tail(wire)) : /\ ~Tail(wire)[k].art
                                         /\ Tail(wire)[k].id = written - Len(Tail(wire)) + k
  <1>1. wire \in Seq(Item) /\ written \in Nat
    BY PeerTypes, Places DEF ClientInv, OrderInv
  <1>2. /\ Len(wire) \in Nat \ {0} /\ Len(Tail(wire)) = Len(wire) - 1
        /\ DOMAIN Tail(wire) = 1..(Len(wire) - 1) /\ DOMAIN wire = 1..Len(wire)
        /\ Head(wire) = wire[1] /\ Head(wire) \in Item
        /\ \A k \in DOMAIN Tail(wire) : Tail(wire)[k] = wire[k + 1] /\ k + 1 \in DOMAIN wire
    BY <1>1, TailAt
  <1>3. /\ Len(wire) <= written
        /\ \A k \in 1..Len(wire) : wire[k].id = written - Len(wire) + k
        /\ \A k \in 1..Len(wire) : wire[k].art => k = 1
    BY DEF PeerInv, WireOrder
  <1>4. ~wire[1].art /\ wire[1].id = written - Len(wire) + 1
    <2>1. 1 \in 1..Len(wire) /\ Len(wire) # 0
      BY SMT, <1>2
    <2> QED BY <1>3, <2>1 DEF HasArticle
  <1>5. ASSUME NEW k \in 1..Len(Tail(wire))
        PROVE  /\ ~Tail(wire)[k].art
               /\ Tail(wire)[k].id = written - Len(Tail(wire)) + k
    <2>1. k \in DOMAIN Tail(wire) /\ k + 1 # 1 /\ k \in Nat
      BY SMT, <1>2
    <2>2. Tail(wire)[k] = wire[k + 1] /\ k + 1 \in 1..Len(wire)
      BY <1>2, <2>1
    <2>3. ~wire[k + 1].art
      BY <1>3, <2>1, <2>2
    <2>4. wire[k + 1].id = written - Len(wire) + (k + 1)
      BY <1>3, <2>2
    <2> QED BY SMT, <1>1, <1>2, <2>1, <2>2, <2>3, <2>4
  <1> QED BY <1>2, <1>3, <1>4, <1>5

(* The peer answers a command, not an article, and nobody is pausing.      *)
LEMMA AnswersCommand ==
  ASSUME ClientInv, BarrierInv, PeerInv, PeerAnswer
  PROVE  ~AwaitsArticle /\ ~HasArticle /\ ~Allowed
  <1>1. open /\ wants = 0
    BY DEF PeerAnswer
  <1>2. rpc = "second" => cur # 0
    BY SecondIsLast DEF PeerInv
  <1>3. ~AwaitsArticle
    BY <1>1, <1>2 DEF PeerInv, ArticleSent, AwaitsArticle
  <1>4. ~HasArticle
    BY <1>1, <1>3 DEF PeerInv, ArticleSent
  <1>5. ~Allowed
    BY <1>1 DEF PeerInv, ArticleSent, Allowed, Decision
  <1> QED BY <1>3, <1>4, <1>5

-----------------------------------------------------------------------------
(* The reader's steps.                                                     *)

(* The sockets hold commands and responses in the order of the requests.   *)
LEMMA PeerHolds == Spec => []PeerInv
  (* The steps that leave sockets and reader alone.                          *)
  <1>PeerMoves.
      ASSUME ClientInv, PeerInv, Kept,
             UNCHANGED <<wire, frames, wants, written, done, rpc, cur, resp>>,
             open' => open,
             wpc' \in {"proceed", "article"} => written # 0 /\ cont' = written /\ req'[written].article,
             Allowed' => Allowed /\ cont' = cont
      PROVE  PeerInv'
    <2> USE <1>PeerMoves
    <2>1. /\ NextOf' = NextOf /\ AwaitsArticle' = AwaitsArticle /\ HasArticle' = HasArticle
          /\ Deaf' = Deaf /\ Heard' = Heard /\ Reading' = Reading /\ BeforeAbort' = BeforeAbort
      BY DEF NextOf, AwaitsArticle, HasArticle, Deaf, Heard, Reading, BeforeAbort
    <2>2. Decision'
      <3>1. rpc = "second" => cur \in 1..Len(req)
        <4>1. /\ Serves => cur = done + 1 /\ done < Published
              /\ Published <= written /\ written <= Len(req)
              /\ done \in Nat /\ Published \in Nat /\ written \in Nat /\ Len(req) \in Nat
          BY Places
        <4> QED BY SMT, <4>1 DEF Serves
      <3> QED BY <3>1 DEF Decision, PeerInv, Kept
    <2>3. WireOrder'
      BY <2>1 DEF WireOrder, PeerInv
    <2>4. ArticleSent'
      BY <2>1 DEF ArticleSent, PeerInv
    <2>5. FrameOrder'
      BY <2>1 DEF FrameOrder, PeerInv
    <2>6. CaughtUp'
      BY <2>1 DEF CaughtUp, PeerInv
    <2>7. InterimIsLast'
      <3>1. BeforeAbort => \A k \in 1..Len(frames) : Interim(k)' = Interim(k)
        BY FramesExist DEF Interim, Kept, PeerInv
      <3>2. Len(frames) \in Nat
        BY PeerTypes DEF ClientInv, OrderInv
      <3>3. Len(frames) # 0 => Len(frames) \in 1..Len(frames)
        BY SMT, <3>2
      <3>4. InterimIsLast
        BY DEF PeerInv
      <3> QED BY <2>1, <3>1, <3>3, <3>4 DEF InterimIsLast
    <2> QED BY <2>2, <2>3, <2>4, <2>5, <2>6, <2>7 DEF PeerInv
  (* Steps of the reader that take no response and wait for no article.      *)
  <1>ReaderMoves.
      ASSUME ClientInv, PeerInv, Kept,
             UNCHANGED <<wire, frames, wants, written, open, wpc, cont>>,
             rpc # "second", rpc' # "second",
             Reading' => Reading,
             BeforeAbort' => BeforeAbort /\ NextOf' = NextOf,
             rpc' \in {"apply", "reply"} => resp'.of = cur',
             Allowed' => Allowed
      PROVE  PeerInv'
    <2> USE <1>ReaderMoves
    <2>1. /\ ~AwaitsArticle' /\ ~AwaitsArticle /\ HasArticle' = HasArticle
          /\ Deaf' = Deaf /\ Heard' = Heard
      BY DEF AwaitsArticle, HasArticle, Deaf, Heard
    <2>2. Decision'
      <3>1. written \in 0..Len(req)
        <4>1. written \in Nat /\ written <= Len(req) /\ Len(req) \in Nat
          BY Places
        <4> QED BY SMT, <4>1
      <3>2. written # 0 => written \in 1..Len(req)
        BY SMT, <3>1, Places
      <3> QED BY <3>2 DEF Decision, PeerInv, Kept
    <2>3. WireOrder'
      BY <2>1 DEF WireOrder, PeerInv
    <2>4. ArticleSent'
      BY <2>1 DEF ArticleSent, PeerInv
    <2>5. FrameOrder'
      BY <2>1 DEF FrameOrder, PeerInv
    <2>6. CaughtUp'
      BY <2>1 DEF CaughtUp, PeerInv
    <2>7. InterimIsLast'
      <3>1. BeforeAbort => \A k \in 1..Len(frames) : Interim(k)' = Interim(k)
        BY FramesExist DEF Interim, Kept, PeerInv
      <3>2. Len(frames) \in Nat
        BY PeerTypes DEF ClientInv, OrderInv
      <3>3. Len(frames) # 0 => Len(frames) \in 1..Len(frames)
        BY SMT, <3>2
      <3>4. InterimIsLast
        BY DEF PeerInv
      <3> QED BY <2>1, <3>1, <3>3, <3>4 DEF InterimIsLast
    <2> QED BY <2>2, <2>3, <2>4, <2>5, <2>6, <2>7 DEF PeerInv
  <1>WriteKeepsPeer.
      ASSUME ClientInv, BarrierInv, ClientInv', BarrierInv', PeerInv, WriterWrite
      PROVE  PeerInv'
    <2> USE <1>WriteKeepsPeer
    <2> DEFINE item == [id |-> Head(batch), art |-> FALSE]
    <2>1. /\ wire' = Append(wire, item) /\ written' = written + 1
          /\ UNCHANGED <<req, frames, wants, open, done, rpc, cur, resp, abort>>
          /\ wpc' \in {"begin", "write"}
      BY DEF WriterWrite, linkVars, readerVars
    <2>2. /\ Len(frames) \in Nat /\ wire \in Seq(Item) /\ Len(wire) \in Nat
          /\ done \in Nat /\ written \in Nat
      BY PeerTypes, Places DEF ClientInv, OrderInv
    <2>3. Head(batch) = written + 1
      <3>1. batch \in Seq(Nat) /\ batch # <<>>
        BY OrderTypes DEF WriterWrite, ClientInv, OrderInv, IInv, WriterShape
      <3>2. Run(batch, written)
        BY DEF ClientInv, OrderInv, WriterOrder
      <3>3. written \in Int
        BY SMT, <2>2
      <3> QED BY <3>1, <3>2, <3>3, RunTail
    <2>4. item \in Item /\ item.id = written + 1 /\ ~item.art
      BY SMT, <2>2, <2>3 DEF Item
    <2> HIDE DEF item
    <2>5. /\ Len(wire') = Len(wire) + 1
          /\ \A k \in 1..Len(wire) : wire'[k] = wire[k]
          /\ wire'[Len(wire) + 1] = item
      BY SMT, <2>1, <2>2, <2>4, AppendAt
    (* Nothing is written while a continuation is outstanding.               *)
    <2>6. ASSUME ~abort, NEW i \in Nat, done < i, i <= written
          PROVE  req[i].kind \notin ContinuationKind
      <3>1. SUFFICES ASSUME req[i].kind \in ContinuationKind PROVE FALSE OBVIOUS
      <3>2. (ClientInv /\ BarrierInv => NoFollow)'
        BY NothingFollows, PTL
      <3>3. i \in Outstanding'
        <4>1. i \in (done + 1)..(written + 1)
          BY SMT, <2>2, <2>6
        <4> QED BY <2>1, <4>1 DEF Outstanding
      <3>4. ~AllowsFollowing(req[i].kind)
        BY <3>1, ExclusiveIsFollowedByNothing DEF Exclusive
      <3>5. written' = i
        BY <2>1, <2>6, <3>2, <3>3, <3>4 DEF NoFollow
      <3> QED BY SMT, <2>1, <2>2, <2>6, <3>5
    <2>7. rpc # "second"
      <3>1. SUFFICES ASSUME rpc = "second" PROVE FALSE OBVIOUS
      <3>2. cur = written /\ cur = done + 1 /\ cur \in Nat
        BY <3>1, SecondIsLast DEF PeerInv
      <3>3. ~abort
        BY <3>1 DEF ClientInv, OrderInv, IInv, GateShape
      <3>4. cur \in 1..Len(req)
        <4>1. written <= Len(req) /\ Len(req) \in Nat
          BY Places
        <4> QED BY SMT, <2>2, <3>2, <4>1
      <3>5. req[cur].kind \in ContinuationKind
        BY <3>1, <3>4 DEF PeerInv, Decision, ClientInv, ArticleKinds
      <3>6. done < cur /\ cur <= written
        BY SMT, <2>2, <3>2
      <3> QED BY <2>6, <3>2, <3>3, <3>5, <3>6
    <2>8. BeforeAbort => \A k \in 1..Len(frames) : ~Interim(k)
      BY <2>6, FramesExist, BeforeAbortIsNotAborted, ProceedsKind DEF PeerInv, Interim
    <2>9. /\ NextOf' = NextOf /\ ~AwaitsArticle' /\ ~AwaitsArticle /\ Deaf' = Deaf
          /\ Reading' = Reading /\ BeforeAbort' = BeforeAbort
          /\ \A k \in 1..Len(frames) : Interim(k)' = Interim(k)
      BY <2>1, <2>7 DEF NextOf, AwaitsArticle, Deaf, Reading, BeforeAbort, Interim
    <2>10. HasArticle' = HasArticle /\ (HasArticle => wire'[1] = wire[1])
      <3>1. CASE Len(wire) = 0
        BY SMT, <2>4, <2>5, <3>1 DEF HasArticle
      <3>2. CASE Len(wire) # 0
        <4>1. 1 \in 1..Len(wire) /\ Len(wire') # 0
          BY SMT, <2>2, <2>5, <3>2
        <4>2. wire'[1] = wire[1]
          BY <2>5, <4>1
        <4> QED BY <3>2, <4>1, <4>2 DEF HasArticle
      <3> QED BY <3>1, <3>2
    <2>11. Decision'
      BY <2>1, <2>7 DEF Decision
    <2>12. WireOrder'
      <3>1. ASSUME NEW k \in 1..Len(wire') PROVE wire'[k].art => k = 1
        <4>1. k \in 1..Len(wire) \/ k = Len(wire) + 1
          BY SMT, <2>2, <2>5
        <4> QED BY <2>4, <2>5, <4>1 DEF PeerInv, WireOrder
      <3>2. ASSUME ~HasArticle
            PROVE  /\ Len(wire') <= written'
                   /\ \A k \in 1..Len(wire') : wire'[k].id = written' - Len(wire') + k
        <4>1. Len(wire) <= written /\ \A k \in 1..Len(wire) : wire[k].id = written - Len(wire) + k
          BY <3>2 DEF PeerInv, WireOrder
        <4>2. ASSUME NEW k \in 1..Len(wire') PROVE wire'[k].id = written' - Len(wire') + k
          <5>1. k \in 1..Len(wire) \/ k = Len(wire) + 1
            BY SMT, <2>2, <2>5
          <5>2. written' - Len(wire') + k = written - Len(wire) + k /\ k \in Nat
            BY SMT, <2>1, <2>2, <2>5
          <5>3. CASE k \in 1..Len(wire)
            BY <2>5, <4>1, <5>2, <5>3
          <5>4. CASE k = Len(wire) + 1
            <6>1. wire'[k].id = written + 1
              BY <2>4, <2>5, <5>4
            <6> QED BY SMT, <2>2, <5>2, <5>4, <6>1
          <5> QED BY <5>1, <5>3, <5>4
        <4> QED BY SMT, <2>1, <2>2, <2>5, <4>1, <4>2
      <3> QED BY <2>10, <3>1, <3>2 DEF WireOrder
    <2>13. ArticleSent'
      <3>1. ~Allowed'
        BY <2>1 DEF Allowed
      <3>2. HasArticle => wire[1].id = wants /\ ~open /\ ~Reading
        BY <2>9 DEF PeerInv, ArticleSent
      <3> QED BY <2>1, <2>9, <2>10, <3>1, <3>2 DEF ArticleSent
    <2>14. FrameOrder'
      <3>1. NextOf \in Nat
        BY SMT, <2>2 DEF NextOf
      <3>2. BeforeAbort => NextOf - 1 + Len(frames) <= written'
        BY SMT, <2>1, <2>2, <3>1 DEF PeerInv, FrameOrder
      <3> QED BY <2>1, <2>9, <3>2 DEF PeerInv, FrameOrder
    <2>15. CaughtUp'
      <3>1. open => ~HasArticle
        BY <2>9 DEF PeerInv, ArticleSent
      <3>2. open => Heard' = Heard
        BY SMT, <2>1, <2>2, <2>5, <2>10, <3>1 DEF Heard
      <3> QED BY <2>1, <2>9, <3>2 DEF PeerInv, CaughtUp
    <2>16. InterimIsLast'
      <3>1. Len(frames) # 0 => Len(frames) \in 1..Len(frames)
        BY SMT, <2>2
      <3> QED BY <2>1, <2>8, <2>9, <3>1 DEF PeerInv, InterimIsLast
    <2> QED BY <2>11, <2>12, <2>13, <2>14, <2>15, <2>16 DEF PeerInv
  <1>ArticleKeepsPeer.
      ASSUME ClientInv, BarrierInv, PeerInv, WriterArticle
      PROVE  PeerInv'
    <2> USE <1>ArticleKeepsPeer
    <2> DEFINE item == [id |-> cont, art |-> TRUE]
    <2>1. /\ wire' = Append(wire, item) /\ wpc = "article" /\ wpc' \notin {"proceed", "article"}
          /\ UNCHANGED <<req, frames, wants, open, done, written, rpc, cur, resp>>
      BY AfterSendType DEF WriterArticle, linkVars, readerVars, histVars
    <2>2. /\ Len(frames) \in Nat /\ wire \in Seq(Item) /\ done \in Nat /\ written \in Nat
          /\ cont \in Nat
      BY PeerTypes, Places, OrderTypes DEF ClientInv, OrderInv
    <2>3. item \in Item /\ item.id = cont /\ item.art
      BY <2>2 DEF Item
    <2> HIDE DEF item
    <2>4. /\ Allowed /\ wants = cont /\ Len(wire) = 0 /\ Len(frames) = 0
          /\ open => Reading
          /\ Reading => AwaitsArticle /\ cur = cont
      BY <2>1 DEF PeerInv, ArticleSent, Allowed, AwaitsArticle
    <2>5. Len(wire') = 1 /\ wire'[1] = item
      BY SMT, <2>1, <2>2, <2>3, <2>4, AppendAt
    <2>6. /\ NextOf' = NextOf /\ AwaitsArticle' = AwaitsArticle /\ Deaf' = Deaf
          /\ Reading' = Reading /\ BeforeAbort' = BeforeAbort
          /\ \A k \in 1..Len(frames) : Interim(k)' = Interim(k)
      BY <2>1 DEF NextOf, AwaitsArticle, Deaf, Reading, BeforeAbort, Interim
    <2>7. HasArticle' /\ ~HasArticle
      BY SMT, <2>3, <2>4, <2>5 DEF HasArticle
    <2>8. Decision'
      BY <2>1 DEF PeerInv, Decision
    <2>9. WireOrder'
      BY SMT, <2>5, <2>7 DEF WireOrder
    <2>10. ArticleSent'
      <3>1. ~Allowed'
        BY <2>1 DEF Allowed
      <3> QED BY <2>1, <2>3, <2>4, <2>5, <2>6, <3>1 DEF PeerInv, ArticleSent
    <2>11. FrameOrder'
      BY <2>1, <2>6 DEF PeerInv, FrameOrder
    <2>12. CaughtUp'
      <3>1. Heard' = written /\ Heard = written
        BY SMT, <2>1, <2>2, <2>4, <2>7 DEF Heard
      <3> QED BY <2>1, <2>6, <3>1 DEF PeerInv, CaughtUp
    <2>13. InterimIsLast'
      BY SMT, <2>1, <2>4, <2>6 DEF PeerInv, InterimIsLast
    <2> QED BY <2>8, <2>9, <2>10, <2>11, <2>12, <2>13 DEF PeerInv
  <1>WriterPeer.
      ASSUME ClientInv, BarrierInv, ClientInv', BarrierInv', PeerInv, WriterNext
      PROVE  PeerInv'
    <2> USE <1>WriterPeer
    <2>1. Kept /\ Next
      BY KeptStep DEF ClientInv, OrderInv, Next
    <2>2. UNCHANGED <<rpc, cur, resp>>
      BY WriterFrame DEF readerVars
    <2>3. written \in Nat /\ written <= Len(req) /\ Len(req) \in Nat /\ Published <= written
      BY Places
    <2>4. CASE WriterSend
      <3>1. /\ UNCHANGED <<wire, frames, wants, written, done, open, req>>
            /\ wpc = "send" /\ sendq # <<>>
            /\ cont' = IF req[Head(sendq)].article THEN Head(sendq) ELSE 0
            /\ wpc' = IF req[Head(sendq)].article THEN "proceed" ELSE AfterSend(Tail(sendq))
        BY <2>4 DEF WriterSend, peerVars, histVars, ClientInv, OrderInv, IInv, WriterShape
      <3>2. CASE ~req[Head(sendq)].article
        <4>1. wpc' \notin {"proceed", "article"}
          BY <3>1, <3>2, AfterSendType
        <4>2. ~Allowed'
          BY <4>1 DEF Allowed
        <4> QED BY <2>1, <2>2, <3>1, <4>1, <4>2, <1>PeerMoves
      <3>3. CASE req[Head(sendq)].article
        <4>1. sendq \in Seq(Nat) /\ Len(sendq) \in Nat
          BY OrderTypes DEF ClientInv, OrderInv
        <4>2. Head(sendq) \in Range(sendq) /\ Head(sendq) \in WriterOwned
          BY <3>1, <4>1, RangeHeadTail DEF WriterOwned
        <4>3. Head(sendq) \in 1..Len(req) /\ Published < Head(sendq) /\ Head(sendq) \in Nat
          BY <4>2, WriterOwnedExist, Places DEF ClientInv
        <4>4. IsExclusive(Head(sendq))
          BY <3>3, <4>3 DEF IsExclusive, Exclusive, ClientInv, ArticleKinds
        <4>5. Len(sendq) = 1
          BY <4>2, <4>4 DEF ClientInv, BatchShape
        <4>6. Head(sendq) = written
          <5>1. Run(sendq, written - 1) /\ written - 1 \in Int
            BY SMT, <2>3, <4>5 DEF ClientInv, OrderInv, WriterOrder
          <5>2. Head(sendq) = (written - 1) + 1
            BY <3>1, <4>1, <5>1, RunTail
          <5> QED BY SMT, <2>3, <5>2
        <4>7. Waiting(Head(sendq))
          BY <3>1, <4>3 DEF Waiting, WriterDone
        <4>8. req[Head(sendq)].proceed = "none"
          BY <4>3, <4>7 DEF ClientInv, Unserved, Fresh
        <4>9. wpc' = "proceed" /\ cont' = written /\ written # 0
          BY SMT, <3>1, <3>3, <4>3, <4>6
        <4>10. ~Allowed'
          BY <3>1, <4>6, <4>8, <4>9 DEF Allowed
        <4>11. req'[written].article
          BY <3>1, <3>3, <4>6
        <4> QED BY <2>1, <2>2, <3>1, <4>9, <4>10, <4>11, <1>PeerMoves
      <3> QED BY <3>2, <3>3
    <2>5. CASE WriterProceed
      <3>1. /\ UNCHANGED <<wire, frames, wants, written, done, open, req>> /\ wpc = "proceed"
            /\ wpc' = IF req[cont].proceed = "yes" THEN "article" ELSE AfterSend(sendq)
            /\ cont' = IF req[cont].proceed = "yes" THEN cont ELSE 0
        BY <2>5 DEF WriterProceed, peerVars, histVars, linkVars
      <3>2. written # 0 /\ cont = written /\ req[written].article
        BY <3>1 DEF PeerInv, Decision
      <3>3. CASE req[cont].proceed = "yes"
        <4>1. Allowed /\ cont' = cont
          BY <3>1, <3>3 DEF Allowed
        <4> QED BY <2>1, <2>2, <3>1, <3>2, <4>1, <1>PeerMoves
      <3>4. CASE req[cont].proceed # "yes"
        <4>1. wpc' \notin {"proceed", "article"}
          BY <3>1, <3>4, AfterSendType
        <4>2. ~Allowed'
          BY <4>1 DEF Allowed
        <4> QED BY <2>1, <2>2, <3>1, <4>1, <4>2, <1>PeerMoves
      <3> QED BY <3>3, <3>4
    <2>6. CASE ~WriterWrite /\ ~WriterArticle /\ ~WriterSend /\ ~WriterProceed
      <3>1. UNCHANGED <<wire, frames, wants, written, done, open>>
        BY <2>6
           DEF WriterNext, WriterTakeHeld, WriterRecv, WriterIdle, WriterCollect, WriterHold,
           WriterCollected, WriterWriteFails, WriterBegin, WriterSendFails, WriterArticleFails,
           WriterPoison, WriterReturn, WriterAborted, WriterFail, peerVars, histVars
      <3>2. wpc' \notin {"proceed", "article"}
        BY <2>6, FirstStepType
           DEF WriterNext, WriterTakeHeld, WriterRecv, WriterIdle, WriterCollect, WriterHold,
           WriterCollected, WriterWriteFails, WriterBegin, WriterSendFails, WriterArticleFails,
           WriterPoison, WriterReturn, WriterAborted, WriterFail
      <3>3. ~Allowed'
        BY <3>2 DEF Allowed
      <3> QED BY <2>1, <2>2, <3>1, <3>2, <3>3, <1>PeerMoves
    <2> QED BY <2>4, <2>5, <2>6, <1>WriteKeepsPeer, <1>ArticleKeepsPeer
  <1>AnswerKeepsPeer.
      ASSUME ClientInv, BarrierInv, PeerInv, PeerAnswer
      PROVE  PeerInv'
    <2> USE <1>AnswerKeepsPeer
    <2>1. /\ open /\ wants = 0 /\ wire # <<>> /\ wire' = Tail(wire)
          /\ UNCHANGED <<req, open, written, done, rpc, cur, resp, wpc, cont>>
      BY DEF PeerAnswer, linkVars, readerVars, histVars, writerVars
    <2>2. /\ frames \in Seq(Frame) /\ Len(frames) \in Nat /\ done \in Nat /\ written \in Nat
          /\ written <= Len(req) /\ Len(req) \in Nat
          /\ DOMAIN frames = 1..Len(frames)
      BY PeerTypes, Places DEF ClientInv, OrderInv
    <2>3. ~AwaitsArticle /\ ~HasArticle /\ ~Allowed
      BY AnswersCommand
    <2>4. /\ Len(wire) \in Nat \ {0} /\ Len(wire) <= written
          /\ Head(wire) \in Item /\ ~Head(wire).art
          /\ Head(wire).id = written - Len(wire) + 1
          /\ Len(wire') = Len(wire) - 1
          /\ \A k \in 1..Len(wire') : ~wire'[k].art /\ wire'[k].id = written - Len(wire') + k
      BY <2>1, <2>3, PeerReads
    <2> DEFINE id == Head(wire).id
               kind == req[id].kind
    <2>5. PICK status \in PeerStatus(kind) :
             /\ wants' = IF Proceeds(kind, status) THEN id ELSE 0
             /\ frames' = Append(frames, [of |-> id, status |-> status, list |-> epoch'])
      BY <2>4 DEF PeerAnswer
    <2> DEFINE frame == [of |-> id, status |-> status, list |-> epoch']
    <2>6. frame \in Frame /\ frame.of = id /\ frame.status = status
      <3>1. epoch' \in Nat
        BY PeerTypeStep DEF ClientInv, OrderInv, Next, PeerNext, PeerType
      <3>2. status \in Status
        BY <2>5 DEF PeerStatus, Status
      <3>3. id \in Nat
        BY <2>4 DEF Item
      <3> QED BY <3>1, <3>2, <3>3 DEF Frame
    <2>7. id = written - Len(wire) + 1 /\ id \in 1..Len(req) /\ id \in Nat /\ id # 0
      BY SMT, <2>2, <2>4
    <2> HIDE DEF id, kind, frame
    <2>8. /\ Len(frames') = Len(frames) + 1
          /\ \A k \in 1..Len(frames) : frames'[k] = frames[k]
          /\ frames'[Len(frames) + 1] = frame
      BY SMT, <2>2, <2>5, <2>6, AppendAt DEF frame
    <2>9. /\ ~HasArticle' /\ ~Deaf /\ ~Deaf' /\ ~AwaitsArticle'
          /\ NextOf' = NextOf /\ Reading' = Reading /\ BeforeAbort' = BeforeAbort
      <3>1. ~HasArticle'
        <4>1. Len(wire') # 0 => 1 \in 1..Len(wire')
          BY SMT, <2>4
        <4> QED BY <2>4, <4>1 DEF HasArticle
      <3>2. Len(frames') # 0
        BY SMT, <2>2, <2>8
      <3> QED BY <2>1, <3>1, <3>2 DEF Deaf, AwaitsArticle, NextOf, Reading, BeforeAbort
    (* The response is for the command after those that have one.            *)
    <2>10. BeforeAbort => id = NextOf + Len(frames) /\ NextOf \in Nat /\ NextOf >= done + 1
      <3> SUFFICES ASSUME BeforeAbort
                   PROVE  id = NextOf + Len(frames) /\ NextOf \in Nat /\ NextOf >= done + 1
        OBVIOUS
      <3>1. Heard = NextOf - 1 + Len(frames) /\ Heard = written - Len(wire)
        <4>1. NextOf \in Nat
          BY SMT, <2>2 DEF NextOf
        <4>2. Heard = NextOf - 1 + Len(frames) + 0
          BY <2>1, <2>3, <2>9 DEF PeerInv, CaughtUp
        <4>3. Heard = written - Len(wire)
          BY <2>3 DEF Heard
        <4>4. Heard = NextOf - 1 + Len(frames)
          BY SMT, <2>2, <4>1, <4>2
        <4> QED BY <4>3, <4>4
      <3>2. NextOf \in Nat /\ NextOf >= done + 1
        BY SMT, <2>2 DEF NextOf
      <3>3. written - Len(wire) = NextOf - 1 + Len(frames)
        BY <3>1
      <3>4. Len(wire) \in Nat /\ written \in Nat /\ Len(frames) \in Nat
        BY <2>2, <2>4
      <3>5. id = written - Len(wire) + 1
        BY <2>7
      <3> QED BY SMT, <3>2, <3>3, <3>4, <3>5
    <2>11. BeforeAbort => /\ \A k \in 1..Len(frames) : ~Interim(k)
                          /\ \A k \in 1..Len(frames) : ~Interim(k)'
      <3> SUFFICES ASSUME BeforeAbort, NEW k \in 1..Len(frames) PROVE ~Interim(k) /\ ~Interim(k)'
        OBVIOUS
      <3>1. ~Interim(k)
        <4>1. done < frames[k].of /\ frames[k].of \in Nat
          BY FramesExist DEF PeerInv
        <4>2. frames[k].of # 0
          BY SMT, <2>2, <4>1
        <4> QED BY <2>1, <4>2 DEF PeerInv, InterimIsLast
      <3>2. Interim(k)' = Interim(k)
        BY <2>1, <2>8 DEF Interim
      <3> QED BY <3>1, <3>2
    <2>12. BeforeAbort /\ Proceeds(kind, status) => Len(wire') = 0
      <3> SUFFICES ASSUME BeforeAbort, Proceeds(kind, status) PROVE Len(wire') = 0 OBVIOUS
      <3>1. ~abort
        BY BeforeAbortIsNotAborted
      <3>2. done < id /\ id <= written
        BY SMT, <2>2, <2>4, <2>7, <2>10
      <3>3. req[id].kind \in ContinuationKind
        BY ProceedsKind DEF kind
      <3>4. id = written
        BY <2>7, <3>1, <3>2, <3>3, ContinuationIsLast
      <3> QED BY SMT, <2>2, <2>4, <2>7, <3>4
    <2>13. Decision'
      BY <2>1 DEF PeerInv, Decision
    <2>14. WireOrder'
      <3>1. Len(wire') <= written'
        BY SMT, <2>1, <2>2, <2>4
      <3>2. \A k \in 1..Len(wire') : ~wire'[k].art /\ wire'[k].id = written' - Len(wire') + k
        BY <2>1, <2>4
      <3> QED BY <3>1, <3>2 DEF WireOrder
    <2>15. ArticleSent'
      <3>1. Allowed' = Allowed
        BY <2>1 DEF Allowed
      <3> QED BY <2>3, <2>9, <3>1 DEF ArticleSent
    <2>16. FrameOrder'
      <3>1. ASSUME BeforeAbort, NEW k \in 1..Len(frames')
            PROVE  frames'[k].of = NextOf + k - 1
        <4>1. k \in 1..Len(frames) \/ k = Len(frames) + 1
          BY SMT, <2>2, <2>8
        <4>2. CASE k \in 1..Len(frames)
          BY <2>8, <3>1, <4>2 DEF PeerInv, FrameOrder
        <4>3. CASE k = Len(frames) + 1
          <5>1. frames'[k].of = id
            BY <2>6, <2>8, <4>3
          <5> QED BY SMT, <2>2, <2>10, <3>1, <4>3, <5>1
        <4> QED BY <4>1, <4>2, <4>3
      <3>2. BeforeAbort => NextOf - 1 + Len(frames') <= written
        <4>1. id <= written
          BY SMT, <2>2, <2>4, <2>7
        <4> QED BY SMT, <2>2, <2>8, <2>10, <4>1
      <3>3. rpc \in {"apply", "reply"} => resp.of = cur
        BY DEF PeerInv, FrameOrder
      <3> QED BY <2>1, <2>9, <3>1, <3>2, <3>3 DEF FrameOrder
    <2>17. CaughtUp'
      <3>1. Heard' = written - (Len(wire) - 1)
        BY <2>1, <2>4, <2>9 DEF Heard
      <3>2. BeforeAbort => Heard' = NextOf - 1 + Len(frames')
        BY SMT, <2>2, <2>4, <2>7, <2>8, <2>10, <3>1
      <3>3. BeforeAbort => NextOf - 1 + Len(frames') = NextOf - 1 + Len(frames') + 0
        BY SMT, <2>2, <2>8, <2>10
      <3> QED BY <2>9, <3>2, <3>3 DEF CaughtUp
    <2>18. InterimIsLast'
      <3>1. frames'[Len(frames')] = frame
        BY <2>8
      <3>2. \A k \in 1..Len(frames') : k \in 1..Len(frames) \/ k = Len(frames')
        BY SMT, <2>2, <2>8
      <3>3. frames'[Len(frames')].of = id
        BY <2>6, <3>1
      <3>4. ASSUME NEW k, k = Len(frames') PROVE Interim(k)' = Proceeds(kind, status)
        BY <2>1, <2>6, <3>1, <3>4 DEF Interim, kind
      <3>5. Interim(Len(frames))' = Proceeds(kind, status)
        BY <2>1, <2>6, <3>1 DEF Interim, kind
      <3>6. BeforeAbort => \A k \in 1..Len(frames') :
              Interim(k)' => k = Len(frames') /\ Proceeds(kind, status)
        BY <2>11, <3>2, <3>4
      <3> QED BY <2>5, <2>7, <2>9, <2>12, <3>3, <3>5, <3>6 DEF InterimIsLast
    <2> QED BY <2>13, <2>14, <2>15, <2>16, <2>17, <2>18 DEF PeerInv
  <1>PeerArticleKeepsPeer.
      ASSUME ClientInv, BarrierInv, PeerInv, PeerArticle
      PROVE  PeerInv'
    <2> USE <1>PeerArticleKeepsPeer
    <2>1. /\ open /\ wants # 0 /\ wire # <<>> /\ wire' = Tail(wire)
          /\ UNCHANGED <<req, open, written, done, rpc, cur, resp, wpc, cont>>
      BY DEF PeerArticle, linkVars, readerVars, histVars, writerVars
    <2>2. /\ frames \in Seq(Frame) /\ Len(frames) \in Nat /\ done \in Nat /\ written \in Nat
          /\ wire \in Seq(Item) /\ Len(wire) \in Nat /\ wants \in Nat
      BY PeerTypes, Places DEF ClientInv, OrderInv
    <2>3. Len(wire) # 0 /\ Head(wire) = wire[1]
      BY SMT, <2>1, <2>2, EmptySeq
    <2>4. ~Allowed /\ ~Allowed'
      BY <2>1, <2>3 DEF PeerInv, ArticleSent, Allowed
    <2>5. /\ NextOf' = NextOf /\ Reading' = Reading /\ BeforeAbort' = BeforeAbort
      BY <2>1 DEF NextOf, Reading, BeforeAbort
    <2>6. Decision'
      BY <2>1 DEF PeerInv, Decision
    <2>7. CASE HasArticle
      <3>1. /\ Reading /\ AwaitsArticle /\ Len(wire) = 1 /\ cur = wants
            /\ rpc = "second" /\ Len(frames) = 0
        BY <2>1, <2>7 DEF PeerInv, ArticleSent, AwaitsArticle
      <3>2. cur = written /\ cur = done + 1
        BY <3>1, SecondIsLast DEF PeerInv
      <3>3. PICK status \in FinalStatus :
               /\ frames' = Append(frames, [of |-> wants, status |-> status, list |-> epoch])
               /\ wants' = 0
        BY <2>3, <2>7 DEF PeerArticle, HasArticle
      <3> DEFINE frame == [of |-> wants, status |-> status, list |-> epoch]
      <3>4. frame \in Frame /\ frame.of = cur /\ frame.status \in FinalStatus
        BY <2>2, <3>1, <3>3
           DEF Frame, Status, FinalStatus, ClientInv, OrderInv, IInv, TypeOK, PeerType
      <3> HIDE DEF frame
      <3>5. Len(frames') = 1 /\ frames'[1] = frame
        BY SMT, <2>2, <3>1, <3>3, <3>4, AppendAt DEF frame
      <3>6. Len(wire') = 0
        BY SMT, <2>1, <2>2, <3>1, TailAt
      <3>7. ~HasArticle' /\ ~AwaitsArticle' /\ ~Deaf' /\ NextOf = done + 1 /\ BeforeAbort
        BY SMT, <2>1, <3>1, <3>3, <3>5, <3>6
           DEF HasArticle, AwaitsArticle, Deaf, NextOf, BeforeAbort
      <3>8. WireOrder'
        BY SMT, <2>1, <2>2, <3>6 DEF WireOrder
      <3>9. ArticleSent'
        BY <2>4, <3>7 DEF ArticleSent
      <3>10. FrameOrder'
        <4>1. \A k \in 1..Len(frames') : k = 1
          BY SMT, <3>5
        <4>2. frames'[1].of = NextOf + 1 - 1
          BY SMT, <2>2, <3>2, <3>4, <3>5, <3>7
        <4>3. NextOf - 1 + Len(frames') <= written
          BY SMT, <2>2, <3>2, <3>5, <3>7
        <4> QED BY <2>1, <2>5, <3>1, <4>1, <4>2, <4>3 DEF FrameOrder
      <3>11. CaughtUp'
        <4>1. Heard' = written - 0
          BY <2>1, <3>6, <3>7 DEF Heard
        <4>2. NextOf - 1 + Len(frames') + 0 = written
          BY SMT, <2>2, <3>2, <3>5, <3>7
        <4>3. Heard' = NextOf - 1 + Len(frames') + 0
          BY SMT, <2>2, <4>1, <4>2
        <4> QED BY <2>5, <3>7, <4>3 DEF CaughtUp
      <3>12. InterimIsLast'
        <4>1. \A k \in 1..Len(frames') : k = 1
          BY SMT, <3>5
        <4>2. ~Interim(1)'
          BY <3>4, <3>5 DEF Interim, Proceeds, FinalStatus
        <4> QED BY <3>3, <4>1, <4>2 DEF InterimIsLast
      <3> QED BY <2>6, <3>8, <3>9, <3>10, <3>11, <3>12 DEF PeerInv
    (* A command taken for article text: nobody sends the article.           *)
    <2>8. CASE ~HasArticle
      <3>1. /\ Len(wire') = Len(wire) - 1 /\ Len(wire) <= written
            /\ \A k \in 1..Len(wire') : ~wire'[k].art /\ wire'[k].id = written - Len(wire') + k
            /\ ~Head(wire).art
        BY <2>1, <2>8, PeerReads
      <3>2. UNCHANGED <<frames, wants>>
        BY <3>1 DEF PeerArticle
      <3>3. AwaitsArticle' = AwaitsArticle /\ Deaf' = Deaf
        BY <2>1, <3>2 DEF AwaitsArticle, Deaf
      <3>4. ~HasArticle'
        <4>1. Len(wire') # 0 => 1 \in 1..Len(wire')
          BY SMT, <2>2, <3>1
        <4> QED BY <3>1, <4>1 DEF HasArticle
      <3>5. BeforeAbort => Len(frames) = 0
        BY SMT, <2>1, <2>2, <2>3 DEF PeerInv, InterimIsLast
      <3>6. BeforeAbort => Deaf
        <4> SUFFICES ASSUME BeforeAbort, rpc = "second" PROVE FALSE
          BY <2>1, <3>5 DEF Deaf
        <4>1. cur = written /\ cur = done + 1
          BY SecondIsLast DEF PeerInv
        <4>2. AwaitsArticle /\ ~Deaf /\ NextOf = done + 1
          BY <3>5 DEF AwaitsArticle, Deaf, NextOf
        <4>3. Heard = NextOf - 1 + Len(frames) + 1
          BY <2>1, <4>2 DEF PeerInv, CaughtUp
        <4>4. Heard = written - Len(wire)
          BY <2>8 DEF Heard
        <4>5. written - Len(wire) = done + 1
          BY SMT, <2>2, <3>5, <4>2, <4>3, <4>4
        <4> QED BY SMT, <2>2, <2>3, <4>1, <4>5
      <3>7. WireOrder'
        <4>1. Len(wire') <= written'
          BY SMT, <2>1, <2>2, <3>1
        <4>2. \A k \in 1..Len(wire') : ~wire'[k].art /\ wire'[k].id = written' - Len(wire') + k
          BY <2>1, <3>1
        <4> QED BY <4>1, <4>2 DEF WireOrder
      <3>8. ArticleSent'
        BY <2>1, <2>4, <3>2, <3>3, <3>4 DEF PeerInv, ArticleSent
      <3>9. FrameOrder'
        BY <2>1, <2>5, <3>2 DEF PeerInv, FrameOrder
      <3>10. CaughtUp'
        BY <2>5, <3>3, <3>6 DEF CaughtUp
      <3>11. InterimIsLast'
        BY SMT, <2>5, <3>2, <3>5 DEF InterimIsLast
      <3> QED BY <2>6, <3>7, <3>8, <3>9, <3>10, <3>11 DEF PeerInv
    <2> QED BY <2>7, <2>8
  (* The reader takes the response that completes its command.               *)
  <1>TakeKeepsPeer.
      ASSUME ClientInv, BarrierInv, PeerInv, Kept, frames # <<>>,
             rpc \in {"first", "second"}, rpc' = "apply", Allowed' => Allowed,
             resp' = Head(frames), frames' = Tail(frames),
             UNCHANGED <<cur, wire, wants, open, written, done, wpc, cont>>
      PROVE  PeerInv'
    <2> USE <1>TakeKeepsPeer
    <2>1. /\ frames \in Seq(Frame) /\ Len(frames) \in Nat /\ done \in Nat /\ written \in Nat
          /\ written <= Len(req) /\ Len(req) \in Nat /\ cur = done + 1
      BY PeerTypes, Places DEF ClientInv, OrderInv, Serves
    <2>2. /\ Len(frames) # 0 /\ Len(frames') = Len(frames) - 1 /\ Head(frames) = frames[1]
          /\ \A k \in 1..Len(frames') : frames'[k] = frames[k + 1] /\ k + 1 \in 1..Len(frames)
                                        /\ k \in Nat
      <3>1. /\ Len(frames) \in Nat \ {0} /\ Len(frames') = Len(frames) - 1
            /\ DOMAIN frames' = 1..(Len(frames) - 1) /\ DOMAIN frames = 1..Len(frames)
            /\ Head(frames) = frames[1]
            /\ \A k \in DOMAIN frames' : frames'[k] = frames[k + 1] /\ k + 1 \in DOMAIN frames
        BY <2>1, TailAt
      <3> QED BY SMT, <3>1
    <2>3. /\ BeforeAbort /\ BeforeAbort' /\ Reading /\ NextOf = done + 1 /\ NextOf' = done + 2
          /\ ~AwaitsArticle /\ ~AwaitsArticle' /\ ~Deaf
          /\ HasArticle' = HasArticle /\ Heard' = Heard
      BY <2>2 DEF BeforeAbort, Reading, NextOf, AwaitsArticle, Deaf, HasArticle, Heard
    <2>4. ~HasArticle /\ ~Allowed /\ ~Allowed'
      BY <2>2, <2>3 DEF PeerInv, ArticleSent
    <2>5. Decision'
      <3>1. written # 0 => written \in 1..Len(req)
        BY SMT, <2>1
      <3> QED BY <3>1 DEF PeerInv, Decision, Kept
    <2>6. WireOrder'
      BY <2>3 DEF PeerInv, WireOrder
    <2>7. ArticleSent'
      BY <2>3, <2>4 DEF ArticleSent
    <2>8. FrameOrder'
      <3>1. /\ \A k \in 1..Len(frames) : frames[k].of = NextOf + k - 1
            /\ NextOf - 1 + Len(frames) <= written
        BY <2>3 DEF PeerInv, FrameOrder
      <3>2. resp'.of = cur
        <4>1. 1 \in 1..Len(frames)
          BY SMT, <2>1, <2>2
        <4>2. frames[1].of = NextOf + 1 - 1
          BY <3>1, <4>1
        <4> QED BY SMT, <2>1, <2>2, <2>3, <4>2
      <3>3. ASSUME NEW k \in 1..Len(frames') PROVE frames'[k].of = NextOf' + k - 1
        <4>1. frames'[k].of = NextOf + (k + 1) - 1 /\ k \in Nat
          BY <2>2, <3>1
        <4> QED BY SMT, <2>1, <2>3, <4>1
      <3>4. NextOf' - 1 + Len(frames') <= written
        BY SMT, <2>1, <2>2, <2>3, <3>1
      <3> QED BY <2>3, <3>2, <3>3, <3>4 DEF FrameOrder
    <2>9. CaughtUp'
      <3>1. open => Heard = NextOf - 1 + Len(frames) + 0
        BY <2>3 DEF PeerInv, CaughtUp
      <3>2. NextOf' - 1 + Len(frames') + 0 = NextOf - 1 + Len(frames) + 0
        BY SMT, <2>1, <2>2, <2>3
      <3> QED BY <2>3, <3>1, <3>2 DEF CaughtUp
    <2>10. InterimIsLast'
      <3>1. ASSUME NEW k \in 1..Len(frames') PROVE Interim(k)' = Interim(k + 1)
        <4>1. frames'[k] = frames[k + 1] /\ frames[k + 1].of \in 1..Len(req)
          BY <2>2, <2>3, FramesExist DEF PeerInv
        <4> QED BY <4>1 DEF Interim, Kept
      <3>2. /\ \A k \in 1..Len(frames) :
                 Interim(k) => k = Len(frames) /\ wants = frames[k].of /\ Len(wire) = 0
            /\ wants # 0 => Interim(Len(frames)) /\ wants = frames[Len(frames)].of
        BY <2>2, <2>3 DEF PeerInv, InterimIsLast
      <3>3. ASSUME NEW k \in 1..Len(frames'), Interim(k)'
            PROVE  k = Len(frames') /\ wants = frames'[k].of /\ Len(wire) = 0
        <4>1. k + 1 = Len(frames) /\ wants = frames[k + 1].of /\ Len(wire) = 0
          BY <2>2, <3>1, <3>2, <3>3
        <4>2. Len(frames') = Len(frames) - 1 /\ k \in Nat /\ frames'[k] = frames[k + 1]
          BY <2>2
        <4>3. k = Len(frames')
          BY SMT, <2>1, <4>1, <4>2
        <4> QED BY <4>1, <4>2, <4>3
      <3>4. ASSUME wants # 0, Len(frames') # 0
            PROVE  Interim(Len(frames))' /\ wants = frames'[Len(frames')].of
        <4> DEFINE n == Len(frames')
        <4>1. n \in 1..Len(frames') /\ n + 1 = Len(frames)
          BY SMT, <2>1, <2>2, <3>4
        <4>2. frames'[n] = frames[Len(frames)]
          BY <2>2, <4>1
        <4>3. frames[Len(frames)].of \in 1..Len(req)
          BY SMT, <2>1, <2>2, <2>3, FramesExist DEF PeerInv
        <4>4. Interim(Len(frames))' = Interim(Len(frames))
          BY <4>2, <4>3 DEF Interim, Kept
        <4> QED BY <3>2, <3>4, <4>2, <4>4
      <3> QED BY <2>3, <3>3, <3>4 DEF InterimIsLast
    <2> QED BY <2>5, <2>6, <2>7, <2>8, <2>9, <2>10 DEF PeerInv
  (* The reader takes the response that asks for the article.                *)
  <1>InterimKeepsPeer.
      ASSUME ClientInv, BarrierInv, PeerInv, Kept, ReaderInterim,
             Proceeds(req[cur].kind, Head(frames).status)
      PROVE  PeerInv'
    <2> USE <1>InterimKeepsPeer
    <2>1. /\ rpc = "first" /\ rpc' = "second" /\ req[cur].article /\ frames # <<>>
          /\ frames' = Tail(frames)
          /\ UNCHANGED <<cur, wire, wants, open, written, done, wpc, cont>>
      BY DEF ReaderInterim, FrameReady, writerVars, histVars
    <2>2. /\ frames \in Seq(Frame) /\ Len(frames) \in Nat /\ done \in Nat /\ written \in Nat
          /\ written <= Len(req) /\ Len(req) \in Nat /\ cur = done + 1
          /\ done < Published /\ Published \in Nat /\ Published <= written
      BY <2>1, PeerTypes, Places DEF ClientInv, OrderInv, Serves
    <2>3. /\ BeforeAbort /\ BeforeAbort' /\ Reading /\ Reading'
          /\ NextOf = done + 1 /\ NextOf' = done + 1 /\ ~AwaitsArticle /\ ~Deaf'
          /\ HasArticle' = HasArticle /\ Heard' = Heard
      BY <2>1 DEF BeforeAbort, Reading, NextOf, AwaitsArticle, Deaf, HasArticle, Heard
    <2>4. Len(frames) # 0 /\ 1 \in 1..Len(frames) /\ Head(frames) = frames[1]
      BY SMT, <2>1, <2>2, EmptySeq
    <2>5. frames[1].of = cur
      <3>1. frames[1].of = NextOf + 1 - 1
        BY <2>3, <2>4 DEF PeerInv, FrameOrder
      <3> QED BY SMT, <2>2, <2>3, <3>1
    <2>6. Len(frames) = 1 /\ wants = cur /\ Len(wire) = 0
      <3>1. Interim(1)
        BY <2>4, <2>5 DEF Interim
      <3> QED BY <2>3, <2>4, <2>5, <3>1 DEF PeerInv, InterimIsLast
    <2>7. Len(frames') = 0
      BY SMT, <2>1, <2>2, <2>6, TailAt
    <2>8. cur \in 1..Len(req) /\ cur \in Nat /\ done < cur /\ cur <= written /\ written # 0
      BY SMT, <2>2
    <2>9. cur = written
      <3>1. req[cur].kind \in ContinuationKind
        BY <2>1, <2>8 DEF ClientInv, ArticleKinds
      <3>2. ~abort
        BY <2>3, BeforeAbortIsNotAborted
      <3> QED BY <2>8, <3>1, <3>2, ContinuationIsLast
    <2>10. AwaitsArticle' /\ ~HasArticle /\ ~Deaf
      BY <2>1, <2>4, <2>6, <2>7 DEF AwaitsArticle, HasArticle, Deaf
    <2>11. Decision'
      <3>1. req'[cur].article /\ (written # 0 => req'[written].article = req[written].article)
        BY <2>1, <2>8, <2>9 DEF Kept
      <3> QED BY <2>1, <3>1 DEF PeerInv, Decision
    <2>12. WireOrder'
      BY <2>1, <2>3 DEF PeerInv, WireOrder
    <2>13. ArticleSent'
      <3>1. Allowed' => cont = written
        BY <2>1 DEF Allowed, PeerInv, Decision
      <3>2. ~HasArticle' /\ wants' = cur'
        BY <2>1, <2>3, <2>6, <2>10
      <3>3. Allowed' => /\ wants' = cont' /\ Len(wire') = 0 /\ Len(frames') = 0
                        /\ Reading' /\ rpc' = "second" /\ cur' = cont'
        BY <2>1, <2>3, <2>6, <2>7, <2>9, <3>1
      <3> QED BY <3>2, <3>3 DEF ArticleSent
    <2>14. FrameOrder'
      <3>1. NextOf' - 1 + Len(frames') <= written
        BY SMT, <2>2, <2>3, <2>7, <2>8
      <3>2. \A k \in 1..Len(frames') : FALSE
        BY SMT, <2>7
      <3> QED BY <2>1, <3>1, <3>2 DEF FrameOrder
    <2>15. CaughtUp'
      <3>1. open => Heard = NextOf - 1 + Len(frames) + 0
        BY <2>3, <2>10 DEF PeerInv, CaughtUp
      <3>2. NextOf' - 1 + Len(frames') + 1 = NextOf - 1 + Len(frames) + 0
        BY SMT, <2>2, <2>3, <2>6, <2>7
      <3> QED BY <2>1, <2>3, <2>10, <3>1, <3>2 DEF CaughtUp
    <2>16. InterimIsLast'
      BY SMT, <2>7 DEF InterimIsLast
    <2> QED BY <2>11, <2>12, <2>13, <2>14, <2>15, <2>16 DEF PeerInv
  (* The reader gives up on its command.                                     *)
  <1>FailKeepsPeer.
      ASSUME ClientInv, BarrierInv, PeerInv, Kept, NEW error \in Error, ReaderFails(error)
      PROVE  PeerInv'
    <2> USE <1>FailKeepsPeer
    <2>1. /\ rpc \in {"first", "second"} /\ rpc' = "failEnd" /\ req' = Resolve({cur}, error)
          /\ UNCHANGED <<cur, frames, wire, wants, open, written, done, wpc, cont>>
      BY DEF ReaderFails, writerVars, histVars, peerVars
    <2>2. /\ frames \in Seq(Frame) /\ Len(frames) \in Nat /\ done \in Nat /\ written \in Nat
          /\ written <= Len(req) /\ Len(req) \in Nat
      BY PeerTypes, Places DEF ClientInv, OrderInv
    <2>3. open => Len(frames) # 0
      <3>1. open => frames # <<>>
        BY DEF ReaderFails, ReceiveError
      <3> QED BY <2>2, <3>1, EmptySeq
    <2>4. /\ BeforeAbort /\ BeforeAbort' /\ Reading /\ ~Reading'
          /\ NextOf' = NextOf /\ ~AwaitsArticle'
          /\ HasArticle' = HasArticle /\ Heard' = Heard
      BY <2>1 DEF BeforeAbort, Reading, NextOf, AwaitsArticle, HasArticle, Heard
    <2>5. written # 0 => written \in 1..Len(req)
      BY SMT, <2>2
    <2>6. Allowed' => Allowed
      <3>1. \A i \in 1..Len(req) : req'[i].proceed = "yes" => req[i].proceed = "yes"
        BY <2>1, ResolveAt DEF ClientInv, OrderInv
      <3> QED BY <2>1, <2>5, <3>1 DEF Allowed, PeerInv, Decision
    <2>7. Decision'
      BY <2>1, <2>5 DEF PeerInv, Decision, Kept
    <2>8. WireOrder'
      BY <2>1, <2>4 DEF PeerInv, WireOrder
    <2>9. ArticleSent'
      <3>1. open => ~HasArticle /\ ~Allowed
        BY <2>3, <2>4 DEF PeerInv, ArticleSent, AwaitsArticle
      <3> QED BY <2>1, <2>4, <2>6, <3>1 DEF PeerInv, ArticleSent
    <2>10. FrameOrder'
      BY <2>1, <2>4 DEF PeerInv, FrameOrder
    <2>11. CaughtUp'
      <3>1. open => ~Deaf /\ ~AwaitsArticle
        BY <2>3 DEF Deaf, AwaitsArticle
      <3> QED BY <2>1, <2>4, <3>1 DEF PeerInv, CaughtUp
    <2>12. InterimIsLast'
      <3>1. \A k \in 1..Len(frames) : Interim(k)' = Interim(k)
        BY <2>1, <2>4, FramesExist DEF Interim, Kept, PeerInv
      <3>2. Len(frames) # 0 => Len(frames) \in 1..Len(frames)
        BY SMT, <2>2
      <3>3. InterimIsLast
        BY DEF PeerInv
      <3> QED BY <2>1, <2>4, <3>1, <3>2, <3>3 DEF InterimIsLast
    <2> QED BY <2>7, <2>8, <2>9, <2>10, <2>11, <2>12 DEF PeerInv
  <1>ReaderPeer.
      ASSUME ClientInv, BarrierInv, PeerInv, ReaderNext
      PROVE  PeerInv'
    <2> USE <1>ReaderPeer
    <2>1. Kept /\ Next
      BY KeptStep DEF ClientInv, OrderInv, Next
    <2>2. UNCHANGED <<wpc, cont>>
      BY ReaderFrame DEF writerVars
    <2>3. written # 0 => written \in 1..Len(req)
      <3>1. written \in Nat /\ written <= Len(req) /\ Len(req) \in Nat
        BY Places
      <3> QED BY SMT, <3>1
    <2>4. ASSUME \A i \in 1..Len(req) : req'[i].proceed = "yes" => req[i].proceed = "yes"
          PROVE  Allowed' => Allowed
      BY <2>2, <2>3, <2>4 DEF Allowed, PeerInv, Decision
    <2>5. CASE ReaderRecv \/ ReaderExit \/ ReaderApply \/ ReaderRelease \/ ReaderEnd
               \/ ReaderFailEnd \/ ReaderFailAbort
      <3>1. /\ UNCHANGED <<req, wire, frames, wants, written, open, done>>
            /\ rpc # "second" /\ rpc' # "second"
        BY <2>5 DEF ReaderRecv, ReaderExit, ReaderApply, ReaderRelease, ReaderEnd,
                    ReaderFailEnd, ReaderFailAbort, linkVars, peerVars, histVars
      <3>2. /\ Reading' => Reading
            /\ BeforeAbort' => BeforeAbort
        BY <2>5 DEF ReaderRecv, ReaderExit, ReaderApply, ReaderRelease, ReaderEnd,
                    ReaderFailEnd, ReaderFailAbort, Reading, BeforeAbort
      <3>3. /\ rpc' \in {"apply", "reply"} <=> rpc \in {"apply", "reply"}
            /\ rpc' \in {"apply", "reply"} => UNCHANGED <<resp, cur>>
        BY <2>5 DEF ReaderRecv, ReaderExit, ReaderApply, ReaderRelease, ReaderEnd,
                    ReaderFailEnd, ReaderFailAbort
      <3>4. NextOf' = NextOf /\ (rpc' \in {"apply", "reply"} => resp'.of = cur')
        BY <3>1, <3>3 DEF NextOf, PeerInv, FrameOrder
      <3> QED BY <2>1, <2>2, <2>4, <3>1, <3>2, <3>4, <1>ReaderMoves
    <2>6. CASE ReaderReply
      <3>1. /\ UNCHANGED <<wire, frames, wants, written, open>>
            /\ rpc = "reply" /\ rpc' = "release" /\ done' = done + 1
        BY <2>6 DEF ReaderReply, peerVars
      <3>2. NextOf' = NextOf
        <4>1. done \in Nat
          BY Places
        <4> QED BY SMT, <3>1, <4>1 DEF NextOf
      <3>3. Reading /\ BeforeAbort
        BY <3>1 DEF Reading, BeforeAbort
      <3>4. Allowed' => Allowed
        BY <2>4, <2>6, ReaderReplyAt DEF ClientInv, OrderInv
      <3> QED BY <2>1, <2>2, <3>1, <3>2, <3>3, <3>4, <1>ReaderMoves
    <2>7. CASE ReaderFailPoison \/ ReaderFailReturn
      <3>1. /\ UNCHANGED <<wire, frames, wants, written, open>>
            /\ rpc \in {"failPoison", "failReturn"} /\ rpc' \in {"failReturn", "dead"}
            /\ \E answer \in Error : req' = Resolve(Range(chan), answer)
        BY <2>7 DEF ReaderFailPoison, ReaderFailReturn, peerVars, histVars, Error, ClientInv,
                    OrderInv, IInv, ReaderShape
      <3>2. ~Reading' /\ ~BeforeAbort'
        BY <3>1 DEF Reading, BeforeAbort
      <3>3. Allowed' => Allowed
        BY <2>4, <3>1, ResolveAt DEF ClientInv, OrderInv
      <3> QED BY <2>1, <2>2, <3>1, <3>2, <3>3, <1>ReaderMoves
    <2>8. CASE ReaderReceive
      <3>1. /\ UNCHANGED <<req, cur, wire, wants, open, written, done>>
            /\ rpc \in {"first", "second"} /\ rpc' = "apply" /\ frames # <<>>
            /\ resp' = Head(frames) /\ frames' = Tail(frames)
        BY <2>8 DEF ReaderReceive, FrameReady, linkVars, histVars
      <3> QED BY <2>1, <2>2, <2>4, <3>1, <1>TakeKeepsPeer
    <2>9. CASE ReaderInterim /\ ~Proceeds(req[cur].kind, Head(frames).status)
      <3>1. /\ UNCHANGED <<cur, wire, wants, open, written, done>>
            /\ rpc = "first" /\ rpc' = "apply" /\ frames # <<>>
            /\ resp' = Head(frames) /\ frames' = Tail(frames)
        BY <2>9 DEF ReaderInterim, FrameReady, histVars
      <3>2. \A i \in 1..Len(req) : req'[i].proceed = "yes" => req[i].proceed = "yes"
        BY <2>9, ReaderInterimAt DEF ClientInv, OrderInv
      <3> QED BY <2>1, <2>2, <2>4, <3>1, <3>2, <1>TakeKeepsPeer
    <2>10. CASE ReaderInterim /\ Proceeds(req[cur].kind, Head(frames).status)
      BY <2>1, <2>10, <1>InterimKeepsPeer
    <2>11. ASSUME NEW error \in Error, ReaderFails(error) PROVE PeerInv'
      BY <2>1, <2>11, <1>FailKeepsPeer
    <2> QED BY <2>5, <2>6, <2>7, <2>8, <2>9, <2>10, <2>11 DEF ReaderNext
  <1>1. Init => PeerInv
    <2> SUFFICES ASSUME Init PROVE PeerInv OBVIOUS
    <2>1. Len(wire) = 0 /\ Len(frames) = 0 /\ written = 0 /\ done = 0 /\ wants = 0
          /\ rpc = "recv" /\ wpc = "recv" /\ open
      BY LenEmpty DEF Init
    <2>2. /\ ~HasArticle /\ ~AwaitsArticle /\ ~Allowed /\ NextOf = 1 /\ Heard = 0
      BY SMT, <2>1 DEF HasArticle, AwaitsArticle, Allowed, NextOf, Heard
    <2>3. \A k \in 1..0 : FALSE
      BY SMT
    <2> QED BY SMT, <2>1, <2>2, <2>3
            DEF PeerInv, Decision, WireOrder, ArticleSent, FrameOrder, CaughtUp, InterimIsLast
  <1>2. ClientInv /\ BarrierInv /\ ClientInv' /\ BarrierInv' /\ PeerInv /\ [Next]_vars => PeerInv'
    <2> SUFFICES ASSUME ClientInv, BarrierInv, ClientInv', BarrierInv', PeerInv, [Next]_vars
                 PROVE  PeerInv'
      OBVIOUS
    <2>1. written # 0 => written \in 1..Len(req)
      <3>1. written \in Nat /\ written <= Len(req) /\ Len(req) \in Nat
        BY Places
      <3> QED BY SMT, <3>1
    <2>2. ASSUME NEW c \in Caller, CallerNext(c) PROVE PeerInv'
      <3>1. Kept
        BY <2>2, KeptStep DEF Next, ClientInv, OrderInv
      <3>2. UNCHANGED <<wire, frames, wants, written, done, rpc, cur, resp, open, wpc, cont>>
        BY <2>2, CallerFrame DEF writerVars, readerVars, peerVars, histVars
      <3>3. \A i \in 1..Len(req) : req'[i].proceed = req[i].proceed
        <4>1. CASE SendRequest(c)
          BY <4>1, SendRequestAt DEF ClientInv, OrderInv
        <4>2. CASE ~SendRequest(c)
          BY <2>2, <4>2
             DEF CallerNext, Start, StartExchange, ProbeLock, EnqueueRejected, EnqueueNeedsProbe,
                 EnqueueLocked, SendFails, Receive, ProbeReceive, Cancel, linkVars
        <4> QED BY <4>1, <4>2
      <3>4. Allowed' => Allowed
        BY <2>1, <3>2, <3>3 DEF Allowed, PeerInv, Decision
      <3>5. wpc \in {"proceed", "article"} => written # 0 /\ cont = written /\ req'[written].article
        BY <2>1, <3>1 DEF PeerInv, Decision, Kept
      <3> QED BY <3>1, <3>2, <3>4, <3>5, <1>PeerMoves
    <2>3. CASE PeerClose \/ Finished \/ UNCHANGED vars
      <3>1. UNCHANGED <<req, wire, frames, wants, written, done, rpc, cur, resp, wpc, cont>>
        BY <2>3
           DEF PeerClose, Finished, vars, linkVars, writerVars, readerVars, peerVars, histVars
      <3>2. open' => open
        BY <2>3 DEF PeerClose, Finished, vars, peerVars
      <3>3. Kept
        BY SMT, <3>1, ReqDomain DEF Kept, ClientInv, OrderInv
      <3>4. Allowed' => Allowed
        BY <3>1 DEF Allowed
      <3>5. wpc \in {"proceed", "article"} => written # 0 /\ cont = written /\ req'[written].article
        BY <3>1 DEF PeerInv, Decision
      <3> QED BY <3>1, <3>2, <3>3, <3>4, <3>5, <1>PeerMoves
    <2>4. CASE DropConnection
      <3>1. /\ UNCHANGED <<wire, frames, wants, written>> /\ wpc' = "dead" /\ rpc' = "dead" /\ ~open'
        BY <2>4 DEF DropConnection, histVars
      <3>2. /\ ~Allowed' /\ ~AwaitsArticle' /\ ~Reading' /\ ~BeforeAbort' /\ HasArticle' = HasArticle
        BY <3>1 DEF Allowed, AwaitsArticle, Reading, BeforeAbort, HasArticle
      <3> QED BY <3>1, <3>2
              DEF PeerInv, Decision, WireOrder, ArticleSent, FrameOrder, CaughtUp, InterimIsLast
    <2> QED BY <2>2, <2>3, <2>4, <1>WriterPeer, <1>ReaderPeer, <1>AnswerKeepsPeer,
               <1>PeerArticleKeepsPeer
            DEF Next, PeerNext
  <1> QED BY <1>1, <1>2, ClientHolds, PTL DEF Spec

-----------------------------------------------------------------------------
(* Who is answered.                                                        *)

(* The requests up to done have their own response, the others have no     *)
(* response at all: they wait, or they have failed.                        *)
Replies ==
  \A i \in 1..Len(req) :
    /\ i <= done => req[i].reply # "none" /\ req[i].got = i
    /\ done < i => req[i].reply \in {"none"} \cup Error /\ req[i].got = 0

(* Requests fail, or nothing happens to them.                              *)
Failing ==
  /\ Len(req') = Len(req) /\ DOMAIN req' = DOMAIN req
  /\ \A i \in 1..Len(req) :
       /\ req'[i].got = req[i].got
       /\ req'[i].reply = req[i].reply \/ req'[i].reply \in Error

(* Only send_request_with_barrier and the reader's answer do more.         *)
LEMMA FailingStep ==
  ASSUME IInv, [Next]_vars
  PROVE  (\E c \in Caller : SendRequest(c)) \/ ReaderReply \/ Failing
  <1>1. Len(req) \in Nat /\ DOMAIN req = 1..Len(req)
    BY ReqDomain
  <1>2. CASE req' = req
    BY <1>1, <1>2 DEF Failing
  <1>3. CASE \E ids : \E answer \in Error : req' = Resolve(ids, answer)
    <2>0. PICK ids : \E answer \in Error : req' = Resolve(ids, answer)
      BY <1>3
    <2>1. PICK answer \in Error : req' = Resolve(ids, answer)
      BY <2>0
    <2>2. /\ Len(req') = Len(req) /\ DOMAIN req' = DOMAIN req
          /\ \A i \in 1..Len(req) : /\ req'[i].got = req[i].got
                                    /\ i \notin ids => req'[i] = req[i]
                                    /\ i \in ids => req'[i].reply = answer
      BY <2>1, ResolveAt
    <2> QED BY <2>2 DEF Failing
  <1>4. CASE ReaderInterim
    BY <1>4, ReaderInterimAt DEF Failing
  <1>5. CASE DropConnection
    BY <1>5, DropAt DEF Failing, Error
  <1>6. CASE WriterNext
    <2>1. CASE WriterWriteFails \/ WriterSendFails \/ WriterArticleFails
      BY <1>3, <2>1 DEF WriterWriteFails, WriterSendFails, WriterArticleFails, WriterFail, Error
    <2>2. CASE WriterPoison \/ WriterReturn \/ WriterAborted
      BY <1>3, <2>2
         DEF WriterPoison, WriterReturn, WriterAborted, IInv, WriterShape, Error
    <2>3. CASE \/ WriterTakeHeld \/ WriterRecv \/ WriterIdle \/ WriterCollect
               \/ WriterHold \/ WriterCollected \/ WriterWrite \/ WriterBegin
               \/ WriterSend \/ WriterProceed \/ WriterArticle
      <3>1. req' = req
        BY <2>3 DEF WriterTakeHeld, WriterRecv, WriterIdle, WriterCollect, WriterHold,
             WriterCollected, WriterWrite, WriterBegin, WriterSend, WriterProceed,
             WriterArticle, linkVars
      <3> QED BY <1>2, <3>1
    <2> QED BY <1>6, <2>1, <2>2, <2>3 DEF WriterNext
  <1>7. CASE ReaderNext /\ ~ReaderReply
    <2>1. CASE \E error \in Error : ReaderFails(error)
      BY <1>3, <2>1 DEF ReaderFails
    <2>2. CASE ReaderFailPoison \/ ReaderFailReturn
      BY <1>3, <2>2 DEF ReaderFailPoison, ReaderFailReturn, IInv, ReaderShape, Error
    <2>3. CASE \/ ReaderRecv \/ ReaderExit \/ ReaderReceive \/ ReaderApply \/ ReaderRelease
               \/ ReaderEnd \/ ReaderFailEnd \/ ReaderFailAbort
      <3>1. req' = req
        BY <2>3 DEF ReaderRecv, ReaderExit, ReaderReceive, ReaderApply, ReaderRelease,
             ReaderEnd, ReaderFailEnd, ReaderFailAbort, linkVars
      <3> QED BY <1>2, <3>1
    <2> QED BY <1>4, <1>7, <2>1, <2>2, <2>3 DEF ReaderNext
  <1>8. CASE PeerNext \/ PeerClose \/ Finished \/ UNCHANGED vars
    <2>1. req' = req
      BY <1>8, PeerFrame DEF linkVars, vars
    <2> QED BY <1>2, <2>1
  <1>9. ASSUME NEW c \in Caller, CallerNext(c), ~SendRequest(c)
        PROVE  req' = req
    BY <1>9 DEF CallerNext, Start, StartExchange, ProbeLock, EnqueueRejected,
                EnqueueNeedsProbe, EnqueueLocked, SendFails, Receive, ProbeReceive,
                Cancel, linkVars
  <1> QED BY <1>2, <1>5, <1>6, <1>7, <1>8, <1>9 DEF Next

(* The reader answers its request with the response to it.                 *)
LEMMA OwnResponse ==
  ASSUME ClientInv, PeerInv, ReaderReply
  PROVE  /\ done' = done + 1 /\ cur = done + 1 /\ cur \in 1..Len(req) /\ done \in Nat
         /\ Len(req) \in Nat /\ Len(req') = Len(req) /\ DOMAIN req' = DOMAIN req
         /\ req[cur].reply = "none"
         /\ req'[cur].got = cur /\ req'[cur].reply # "none"
         /\ \A i \in 1..Len(req) : i # cur => req'[i] = req[i]
  <1>1. rpc = "reply" /\ done' = done + 1
    BY DEF ReaderReply
  <1>2. /\ cur = done + 1 /\ done < Published /\ Published <= written /\ written <= Len(req)
        /\ done \in Nat /\ Published \in Nat /\ written \in Nat /\ Len(req) \in Nat
    BY <1>1, Places DEF Serves
  <1>3. cur \in 1..Len(req)
    BY SMT, <1>2
  <1>4. req[cur].reply = "none"
    BY <1>1, <1>3 DEF ClientInv, Unserved, InHand
  <1>5. /\ Len(req') = Len(req) /\ DOMAIN req' = DOMAIN req
        /\ req'[cur].got = resp.of /\ req'[cur].reply \in {"CapabilitiesUnavailable", resp.status}
        /\ \A i \in 1..Len(req) : i # cur => req'[i] = req[i]
    BY <1>3, ReaderReplyAt DEF ClientInv, OrderInv
  <1>6. resp.of = cur
    BY <1>1 DEF PeerInv, FrameOrder
  <1>7. resp.status # "none"
    BY DEF ClientInv, OrderInv, IInv, TypeOK, ReaderType, Frame, Status
  <1> QED BY <1>1, <1>2, <1>3, <1>4, <1>5, <1>6, <1>7

(* A caller is answered by its own response, or by an error.               *)
LEMMA RepliesHold == Spec => []Replies
  (* Only the reader's answer counts.                                        *)
  <1>DoneStep.
      ASSUME [Next]_vars
      PROVE  done' = done \/ ReaderReply
    <2> USE <1>DoneStep
    <2>1. CASE \E c \in Caller : CallerNext(c)
      BY <2>1, CallerFrame DEF histVars
    <2>2. CASE WriterNext
      BY <2>2
         DEF WriterNext, WriterTakeHeld, WriterRecv, WriterIdle, WriterCollect, WriterHold,
           WriterCollected, WriterWrite, WriterWriteFails, WriterBegin, WriterSend,
           WriterSendFails, WriterProceed, WriterArticle, WriterArticleFails, WriterPoison,
           WriterReturn, WriterAborted, WriterFail, histVars
    <2>3. CASE ReaderNext /\ ~ReaderReply
      BY <2>3 DEF ReaderNext, ReaderRecv, ReaderExit, ReaderInterim, ReaderReceive, ReaderApply,
           ReaderRelease, ReaderEnd, ReaderFails, ReaderFailEnd, ReaderFailAbort,
           ReaderFailPoison, ReaderFailReturn, histVars
    <2>4. CASE PeerNext \/ PeerClose \/ Finished \/ UNCHANGED vars
      BY <2>4, PeerFrame DEF histVars, vars
    <2>5. CASE DropConnection
      BY <2>5 DEF DropConnection, histVars
    <2> QED BY <2>1, <2>2, <2>3, <2>4, <2>5 DEF Next
  <1>1. Init => Replies
    BY SMT, LenEmpty DEF Init, Replies
  <1>2. ClientInv /\ PeerInv /\ Replies /\ [Next]_vars => Replies'
    <2> SUFFICES ASSUME ClientInv, PeerInv, Replies, [Next]_vars PROVE Replies' OBVIOUS
    <2>1. done \in Nat /\ Len(req) \in Nat /\ done <= Len(req)
      BY SMT, Places
    <2>2. ASSUME NEW c \in Caller, SendRequest(c) PROVE Replies'
      <3>1. /\ Len(req') = Len(req) + 1 /\ req'[Len(req) + 1] = QueuedRequest(c)
            /\ \A i \in 1..Len(req) : req'[i] = req[i]
        BY <2>2, SendRequestAt DEF ClientInv, OrderInv
      <3>2. done' = done
        BY <2>2 DEF SendRequest, histVars
      <3>3. ASSUME NEW i \in 1..Len(req')
            PROVE  /\ i <= done => req'[i].reply # "none" /\ req'[i].got = i
                   /\ done < i => req'[i].reply \in {"none"} \cup Error /\ req'[i].got = 0
        <4>1. CASE i \in 1..Len(req)
          BY <3>1, <4>1 DEF Replies
        <4>2. CASE i = Len(req) + 1
          <5>1. ~(i <= done)
            BY SMT, <2>1, <4>2
          <5>2. QueuedRequest(c).reply = "none" /\ QueuedRequest(c).got = 0
            BY DEF QueuedRequest
          <5> QED BY <3>1, <4>2, <5>1, <5>2
        <4> QED BY SMT, <2>1, <3>1, <4>1, <4>2
      <3> QED BY <3>2, <3>3 DEF Replies
    <2>3. CASE ReaderReply
      <3>1. /\ done' = done + 1 /\ cur = done + 1 /\ Len(req') = Len(req)
            /\ req'[cur].got = cur /\ req'[cur].reply # "none"
            /\ \A i \in 1..Len(req) : i # cur => req'[i] = req[i]
        BY <2>3, OwnResponse
      <3>2. ASSUME NEW i \in 1..Len(req)
            PROVE  /\ i <= done' => req'[i].reply # "none" /\ req'[i].got = i
                   /\ done' < i => req'[i].reply \in {"none"} \cup Error /\ req'[i].got = 0
        <4>1. CASE i = cur
          BY SMT, <2>1, <3>1, <4>1
        <4>2. CASE i # cur
          <5>1. /\ i <= done' => i <= done
                /\ done' < i => done < i
            BY SMT, <2>1, <3>1, <4>2
          <5> QED BY <3>1, <4>2, <5>1 DEF Replies
        <4> QED BY <4>1, <4>2
      <3> QED BY <3>1, <3>2 DEF Replies
    <2>4. CASE Failing /\ ~ReaderReply
      <3>1. done' = done
        BY <2>4, <1>DoneStep
      <3>2. "none" \notin Error
        BY DEF Error
      <3> QED BY <2>4, <3>1, <3>2 DEF Replies, Failing
    <2> QED BY <2>2, <2>3, <2>4, FailingStep DEF ClientInv, OrderInv
  <1> QED BY <1>1, <1>2, ClientHolds, PeerHolds, PTL DEF Spec

(* Every caller that gets a status gets the one the peer sent for its own  *)
(* command, although responses are paired with commands by position.       *)
THEOREM ResponsesMatch == Spec => []ResponseMatch
  <1>1. ClientInv /\ Replies => ResponseMatch
    <2> SUFFICES ASSUME ClientInv, Replies, NEW i \in DOMAIN req, req[i].reply \in Status
                 PROVE  req[i].got = i
      BY DEF ResponseMatch
    <2>1. i \in 1..Len(req) /\ done \in Nat
      BY ReqDomain, Places DEF ClientInv, OrderInv
    <2>2. req[i].reply \notin {"none"} \cup Error
      BY DEF Status, Error
    <2>3. ~(done < i)
      BY <2>1, <2>2 DEF Replies
    <2>4. i <= done
      BY SMT, <2>1, <2>3
    <2> QED BY <2>1, <2>4 DEF Replies
  <1> QED BY <1>1, ClientHolds, RepliesHold, PTL

(* The connection is an ordered exchange: requests are answered in the     *)
(* order they entered the request channel, each with its own response, and *)
(* once one has failed none after it is answered.  A caller's send is the  *)
(* exchange's Submit, the reader's reply its Answer, and every other step  *)
(* of callers, writer, reader, peer and shutdown its Fail.                 *)
THEOREM ConnectionIsOrderedExchange == Spec => AnswersInOrder
  (* What has become of the requests, in terms of the reader's count.        *)
  <1>Outcomes.
      ASSUME ClientInv, Replies
      PROVE  \A i \in 1..Len(req) :
               Outcome(i) = IF i <= done THEN "answered"
                            ELSE IF req[i].reply = "none" THEN "pending" ELSE "failed"
    <2> USE <1>Outcomes
    <2>1. done \in Nat /\ Len(req) \in Nat
      BY Places
    <2> TAKE i \in 1..Len(req)
    <2>2. CASE i <= done
      BY <2>2 DEF Replies, Outcome
    <2>3. CASE ~(i <= done)
      <3>1. done < i /\ i # 0
        BY SMT, <2>1, <2>3
      <3>2. req[i].got = 0
        BY <3>1 DEF Replies
      <3> QED BY <2>3, <3>1, <3>2 DEF Outcome
    <2> QED BY <2>2, <2>3
  (* Submitting a request appends one that is pending.                       *)
  <1>SendIsSubmit.
      ASSUME ClientInv, NEW c \in Caller, SendRequest(c)
      PROVE  Exchange!Submit
    <2> USE <1>SendIsSubmit
    <2> DEFINE Kinds == {"pending", "answered", "failed", "another's"}
               before == [i \in DOMAIN req |-> Outcome(i)]
               after == [i \in DOMAIN req' |-> Outcome(i)']
    <2>1. Len(req) \in Nat /\ DOMAIN req = 1..Len(req)
      BY ReqDomain DEF ClientInv, OrderInv
    <2>2. /\ Len(req') = Len(req) + 1 /\ DOMAIN req' = 1..Len(req')
          /\ req'[Len(req) + 1] = QueuedRequest(c)
          /\ \A i \in 1..Len(req) : req'[i] = req[i]
      BY SendRequestAt DEF ClientInv, OrderInv
    <2>3. before \in Seq(Kinds) /\ Len(before) = Len(req)
      <3>1. before \in [1..Len(req) -> Kinds]
        BY <2>1 DEF Outcome
      <3> QED BY SMT, <2>1, <3>1, FunctionIsSeq
    <2>4. after \in Seq(Kinds) /\ Len(after) = Len(req) + 1
      <3>1. after \in [1..(Len(req) + 1) -> Kinds]
        BY <2>2 DEF Outcome
      <3>2. Len(req) + 1 \in Nat
        BY SMT, <2>1
      <3> QED BY SMT, <3>1, <3>2, FunctionIsSeq
    <2>5. ASSUME NEW i \in 1..Len(req)
          PROVE  after[i] = before[i]
      <3>1. i \in DOMAIN req /\ i \in DOMAIN req' /\ req'[i] = req[i]
        BY SMT, <2>1, <2>2
      <3>2. Outcome(i)' = Outcome(i)
        BY <3>1 DEF Outcome
      <3> QED BY <3>1, <3>2
    <2>6. after[Len(req) + 1] = "pending"
      <3>1. Len(req) + 1 \in DOMAIN req'
        BY SMT, <2>1, <2>2
      <3>2. QueuedRequest(c).reply = "none"
        BY DEF QueuedRequest
      <3>3. ASSUME NEW k, k = Len(req) + 1
            PROVE  after[k] = "pending"
        <4>1. k \in DOMAIN req' /\ req'[k] = QueuedRequest(c)
          BY <2>2, <3>1, <3>3
        <4>2. Outcome(k)' = "pending"
          BY <3>2, <4>1 DEF Outcome
        <4> QED BY <4>1, <4>2
      <3> QED BY <3>3
    <2> HIDE DEF before, after, Kinds
    <2>7. "pending" \in Kinds
      BY DEF Kinds
    <2>8. /\ Append(before, "pending") \in Seq(Kinds)
          /\ Len(Append(before, "pending")) = Len(req) + 1
          /\ \A i \in 1..Len(req) : Append(before, "pending")[i] = before[i]
          /\ Append(before, "pending")[Len(req) + 1] = "pending"
      BY SMT, <2>3, <2>7, AppendProperties
    <2>9. \A i \in 1..(Len(req) + 1) : after[i] = Append(before, "pending")[i]
      BY SMT, <2>1, <2>5, <2>6, <2>8
    <2>10. after = Append(before, "pending")
      BY <2>4, <2>8, <2>9, SeqEqual
    <2> QED BY <2>10 DEF Exchange!Submit, before, after
  (* The reader's answer goes to the oldest request not answered.            *)
  <1>ReplyIsAnswer.
      ASSUME ClientInv, PeerInv, Replies, Replies', ClientInv', ReaderReply
      PROVE  \E i \in DOMAIN req : Exchange!Answer(i)
    <2> USE <1>ReplyIsAnswer
    <2>1. /\ done' = done + 1 /\ cur = done + 1 /\ cur \in 1..Len(req) /\ done \in Nat
          /\ Len(req) \in Nat /\ Len(req') = Len(req) /\ DOMAIN req' = DOMAIN req
          /\ req[cur].reply = "none" /\ req'[cur].got = cur /\ req'[cur].reply # "none"
          /\ \A i \in 1..Len(req) : i # cur => req'[i] = req[i]
      BY OwnResponse
    <2>2. DOMAIN req = 1..Len(req)
      BY ReqDomain DEF ClientInv, OrderInv
    <2>3. Outcome(cur) = "pending" /\ Outcome(cur)' = "answered"
      <3>1. cur' = cur
        BY DEF ReaderReply
      <3> QED BY <2>1, <3>1 DEF Outcome
    <2>4. \A j \in 1..(cur - 1) : j \in DOMAIN req /\ Outcome(j) = "answered"
      <3>1. \A j \in 1..(cur - 1) : j \in 1..Len(req) /\ j <= done
        BY SMT, <2>1
      <3> QED BY <2>2, <3>1, <1>Outcomes
    <2>5. [i \in DOMAIN req' |-> Outcome(i)'] =
            [[i \in DOMAIN req |-> Outcome(i)] EXCEPT ![cur] = "answered"]
      <3>1. \A i \in DOMAIN req : i # cur => Outcome(i)' = Outcome(i)
        BY <2>1, <2>2 DEF Outcome
      <3>2. \A i \in DOMAIN req : i = cur => Outcome(i)' = "answered"
        BY <2>1 DEF Outcome
      <3> QED BY <2>1, <3>1, <3>2
    <2>6. Exchange!Answer(cur)
      BY <2>1, <2>2, <2>3, <2>4, <2>5 DEF Exchange!Answer, Exchange!Pending
    <2> QED BY <2>1, <2>2, <2>6
  (* Every other step fails some pending requests, or none.                  *)
  <1>FailingIsFail.
      ASSUME ClientInv, Replies, Failing
      PROVE  Exchange!Fail
    <2> USE <1>FailingIsFail
    <2>1. DOMAIN req = 1..Len(req) /\ DOMAIN req' = DOMAIN req
      BY ReqDomain DEF ClientInv, OrderInv, Failing
    <2>2. done \in Nat /\ "none" \notin Error
      BY Places DEF Error
    <2>3. ASSUME NEW i \in 1..Len(req)
          PROVE  Outcome(i)' = Outcome(i) \/ (Outcome(i) = "pending" /\ Outcome(i)' = "failed")
      <3>1. /\ req'[i].got = req[i].got
            /\ req'[i].reply = req[i].reply \/ req'[i].reply \in Error
        BY <2>3 DEF Failing
      <3>2. CASE i <= done
        BY <2>2, <3>1, <3>2 DEF Replies, Outcome
      <3>3. CASE ~(i <= done)
        <4>1. done < i /\ i # 0
          BY SMT, <2>2, <3>3
        <4>2. req[i].got = 0
          BY <4>1 DEF Replies
        <4> QED BY <2>2, <3>1, <4>1, <4>2 DEF Outcome
      <3> QED BY <3>2, <3>3
    <2> QED BY <2>1, <2>3 DEF Exchange!Fail, Exchange!Pending
  <1>1. Init => Exchange!Init
    <2> SUFFICES ASSUME Init PROVE [i \in DOMAIN req |-> Outcome(i)] = <<>>
      BY DEF Exchange!Init
    <2>1. DOMAIN req = {}
      BY SMT DEF Init
    <2> QED BY SMT, <2>1
  <1>2. /\ ClientInv /\ PeerInv /\ Replies /\ ClientInv' /\ Replies' /\ [Next]_vars
        => [Exchange!Next]_([i \in DOMAIN req |-> Outcome(i)])
    <2> SUFFICES ASSUME ClientInv, PeerInv, Replies, ClientInv', Replies', [Next]_vars
                 PROVE  Exchange!Next
      OBVIOUS
    <2>1. CASE \E c \in Caller : SendRequest(c)
      BY <2>1, <1>SendIsSubmit DEF Exchange!Next
    <2>2. CASE ReaderReply
      <3>1. PICK i \in DOMAIN req : Exchange!Answer(i)
        BY <2>2, <1>ReplyIsAnswer
      <3>2. i \in DOMAIN [k \in DOMAIN req |-> Outcome(k)]
        BY <3>1
      <3> QED BY <3>1, <3>2 DEF Exchange!Next
    <2>3. CASE Failing
      BY <2>3, <1>FailingIsFail DEF Exchange!Next
    <2> QED BY <2>1, <2>2, <2>3, FailingStep DEF ClientInv, OrderInv
  <1> QED BY <1>1, <1>2, ClientHolds, PeerHolds, RepliesHold, PTL
         DEF Spec, AnswersInOrder, Exchange!Spec

=============================================================================
