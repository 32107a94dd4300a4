------------------------ MODULE ResponseWriterProofs ------------------------
(***************************************************************************)
(* Proofs that the mock server's sessions write their responses exactly,   *)
(* for any number of sessions, any buffer and chunk sizes and any mix of   *)
(* responses.  Every sequence the model moves bytes through holds a run of *)
(* consecutive bytes of its own session; the argument follows where each   *)
(* run begins and how long it is.                                          *)
(***************************************************************************)
EXTENDS ResponseWriter, SequenceTheorems, TLAPS

(* The sizes are numbers.  Nothing is asked of Large, MaxBatch or MaxMade, *)
(* and nothing says that a chunk or a pool is not empty.                   *)
SizesAreNumbers ==
  /\ Capacity \in Nat /\ Chunk \in Nat /\ MaxBuffers \in Nat /\ GreetingSize \in Nat
  /\ \A k \in Sizes : k \in Nat

Byte == Sessions \X Nat

(* The bytes of session s that follow its first a.                         *)
IsRun(q, s, a) == \A i \in 1..Len(q) : q[i] = <<s, a + i>>

Typed ==
  /\ pool \in Seq({<<>>}) /\ Len(pool) <= MaxBuffers
  /\ spares \in Seq({<<>>}) /\ Len(spares) <= MaxBuffers
  /\ at \in [Sessions -> {"off", "read", "batch", "write", "gone"}]
  /\ buf \in [Sessions -> Seq(Byte)] /\ out \in [Sessions -> Seq(Byte)]
  /\ hold \in [Sessions -> Seq(Byte)] /\ wire \in [Sessions -> Seq(Byte)]
  /\ then \in [Sessions -> [what : {"none", "greeted", "clear", "append", "vectored", "stored", "chunk",
                                    "flushed", "closed"}, count : Nat]]
  /\ made \in [Sessions -> Nat] /\ sent \in [Sessions -> Nat]

(* A write behind which nothing is held back ends with the last byte made, *)
(* and one behind which something is held back ends where that begins.     *)
Plain(s) == then[s].what \in {"greeted", "clear", "flushed", "closed"}

Behind(s) == then[s].what \in {"append", "vectored", "stored", "chunk"}

Position(s) == Len(wire[s]) + Len(out[s])

(* The bytes a session has made and not put on the wire.                   *)
Placed(s) ==
  /\ IsRun(wire[s], s, 0)
  /\ at[s] = "off" => Len(wire[s]) = 0
  /\ at[s] = "read" => Len(wire[s]) = made[s] /\ Len(buf[s]) = 0
  /\ at[s] = "batch" => IsRun(buf[s], s, Len(wire[s])) /\ Len(wire[s]) + Len(buf[s]) = made[s]
  /\ at[s] = "write" =>
       /\ IsRun(out[s], s, Len(wire[s])) /\ (Plain(s) \/ Behind(s))
       /\ Plain(s) => Position(s) = made[s]
       /\ Behind(s) => IsRun(hold[s], s, Position(s)) /\ Position(s) + Len(hold[s]) = made[s]

(* What bytes_sent does not count yet.                                     *)
Uncounted(s) ==
  IF at[s] # "write" THEN 0
  ELSE (IF then[s].what \in {"greeted", "chunk"} THEN then[s].count ELSE 0)
     + (IF then[s].what \in {"stored", "chunk"} THEN Len(hold[s]) ELSE 0)

Counted(s) ==
  /\ at[s] = "off" => made[s] = 0 /\ sent[s] = 0
  /\ at[s] \in {"read", "batch", "write"} => sent[s] + Uncounted(s) = made[s]
  /\ at[s] = "write" /\ then[s].what \in {"clear", "append"} => then[s].count = 0

(* PendingWrite stays within its capacity.                                 *)
Bounded(s) ==
  /\ Len(buf[s]) <= Capacity
  /\ at[s] = "off" => Len(buf[s]) = 0
  /\ at[s] = "write" /\ then[s].what = "greeted" => Len(buf[s]) = 0
  /\ at[s] = "write" /\ then[s].what = "append" => Len(hold[s]) <= Capacity

IInv == Typed /\ \A s \in Sessions : Placed(s) /\ Counted(s) /\ Bounded(s)

-----------------------------------------------------------------------------
(* Runs.                                                                   *)

(* The steps are left to Zenon, those that say so to SMT.                   *)
USE ZenonT(30)

(* What follows a run of the session's bytes joins it.                     *)
LEMMA RunJoins ==
  ASSUME NEW s \in Sessions, NEW a \in Nat, NEW p \in Seq(Byte), NEW q \in Seq(Byte),
         IsRun(p, s, a), NEW b \in Nat, b = a + Len(p), IsRun(q, s, b)
  PROVE  p \o q \in Seq(Byte) /\ Len(p \o q) = Len(p) + Len(q) /\ IsRun(p \o q, s, a)
<1>1. p \o q \in Seq(Byte) /\ Len(p \o q) = Len(p) + Len(q)
  BY SMT
<1>2. ASSUME NEW i \in 1..Len(p \o q) PROVE (p \o q)[i] = <<s, a + i>>
  <2>1. CASE i <= Len(p)
    <3>1. (p \o q)[i] = p[i] /\ i \in 1..Len(p)
      BY SMT, <2>1, <1>1
    <3>. QED BY <3>1 DEF IsRun
  <2>2. CASE i > Len(p)
    <3>1. (p \o q)[i] = q[i - Len(p)] /\ i - Len(p) \in 1..Len(q)
      BY SMT, <2>2, <1>1
    <3>2. q[i - Len(p)] = <<s, b + (i - Len(p))>>
      BY <3>1 DEF IsRun
    <3>3. b + (i - Len(p)) = a + i
      BY SMT, <1>1
    <3>. QED BY <3>1, <3>2, <3>3
  <2>. QED BY SMT, <2>1, <2>2
<1>. QED BY <1>1, <1>2 DEF IsRun

(* A run that is cut gives two.                                            *)
LEMMA RunSplits ==
  ASSUME NEW s \in Sessions, NEW a \in Nat, NEW q \in Seq(Byte), IsRun(q, s, a), NEW k \in 0..Len(q)
  PROVE  /\ SubSeq(q, 1, k) \in Seq(Byte) /\ Len(SubSeq(q, 1, k)) = k /\ IsRun(SubSeq(q, 1, k), s, a)
         /\ SubSeq(q, k + 1, Len(q)) \in Seq(Byte) /\ Len(SubSeq(q, k + 1, Len(q))) = Len(q) - k
         /\ IsRun(SubSeq(q, k + 1, Len(q)), s, a + k)
<1>1. SubSeq(q, 1, k) \in Seq(Byte) /\ Len(SubSeq(q, 1, k)) = k
  BY SMT, SubSeqProperties
<1>2. SubSeq(q, k + 1, Len(q)) \in Seq(Byte) /\ Len(SubSeq(q, k + 1, Len(q))) = Len(q) - k
  BY SMT, SubSeqProperties
<1>3. ASSUME NEW i \in 1..k PROVE SubSeq(q, 1, k)[i] = <<s, a + i>>
  <2>1. SubSeq(q, 1, k)[i] = q[i] /\ i \in 1..Len(q)
    BY SMT, <1>1
  <2>. QED BY <2>1 DEF IsRun
<1>4. ASSUME NEW i \in 1..(Len(q) - k) PROVE SubSeq(q, k + 1, Len(q))[i] = <<s, (a + k) + i>>
  <2>1. SubSeq(q, k + 1, Len(q))[i] = q[k + i] /\ k + i \in 1..Len(q)
    BY SMT, <1>2
  <2>2. q[k + i] = <<s, a + (k + i)>>
    BY <2>1 DEF IsRun
  <2>. QED BY SMT, <2>1, <2>2
<1>. QED BY <1>1, <1>2, <1>3, <1>4 DEF IsRun

(* A response is a run behind the bytes made before it.                    *)
LEMMA NewRun ==
  ASSUME NEW s \in Sessions, NEW k \in Nat, made[s] \in Nat
  PROVE  NewBytes(s, k) \in Seq(Byte) /\ Len(NewBytes(s, k)) = k /\ IsRun(NewBytes(s, k), s, made[s])
<1>1. \A i \in 1..k : <<s, made[s] + i>> \in Byte
  BY SMT DEF Byte
<1>2. NewBytes(s, k) \in [1..k -> Byte]
  BY <1>1 DEF NewBytes
<1>3. NewBytes(s, k) \in Seq(Byte) /\ Len(NewBytes(s, k)) = k
  BY SMT, <1>2
<1>. QED BY <1>3 DEF IsRun, NewBytes

(* No bytes are a run that begins anywhere.                                *)
LEMMA EmptyRun ==
  ASSUME NEW s \in Sessions
  PROVE  <<>> \in Seq(Byte) /\ Len(<<>>) = 0 /\ \A a \in Nat : IsRun(<<>>, s, a)
<1>1. <<>> \in Seq(Byte) /\ Len(<<>>) = 0
  BY SMT
<1>. QED BY SMT, <1>1 DEF IsRun

(* Vec::is_empty and Vec::len agree.                                       *)
LEMMA EmptyBuffer ==
  ASSUME NEW q \in Seq(Byte)
  PROVE  q = <<>> <=> Len(q) = 0
BY EmptySeq

-----------------------------------------------------------------------------
(* Steps.  A step of one session leaves the others where they were.        *)
Unmoved(t) ==
  /\ at'[t] = at[t] /\ buf'[t] = buf[t] /\ out'[t] = out[t] /\ then'[t] = then[t] /\ hold'[t] = hold[t]
  /\ made'[t] = made[t] /\ wire'[t] = wire[t] /\ sent'[t] = sent[t]

SessionInv(s) == Placed(s) /\ Counted(s) /\ Bounded(s)

(* A step that keeps one session's invariant and no other session.         *)
LEMMA StepOfOne ==
  ASSUME IInv, NEW s \in Sessions, Typed', SessionInv(s)', \A t \in Sessions : t # s => Unmoved(t)
  PROVE  IInv'
<1>1. ASSUME NEW t \in Sessions, t # s PROVE SessionInv(t)'
  <2>1. Unmoved(t) /\ SessionInv(t)
    BY <1>1 DEF IInv, SessionInv
  <2>2. Placed(t)'
    BY <2>1 DEF Unmoved, SessionInv, Placed, Plain, Behind, Position
  <2>3. Counted(t)'
    BY <2>1 DEF Unmoved, SessionInv, Counted, Uncounted
  <2>4. Bounded(t)'
    BY <2>1 DEF Unmoved, SessionInv, Bounded
  <2>. QED BY <2>2, <2>3, <2>4 DEF SessionInv
<1>2. \A t \in Sessions : SessionInv(t)'
  BY <1>1
<1>. QED BY <1>2 DEF IInv, SessionInv

(* The pool without the buffer it hands out.                               *)
LEMMA BeforeLast ==
  ASSUME NEW S, NEW q \in Seq(S), Len(q) >= 1
  PROVE  SubSeq(q, 1, Len(q) - 1) \in Seq(S) /\ Len(SubSeq(q, 1, Len(q) - 1)) = Len(q) - 1
<1> DEFINE n == Len(q) - 1
<1>1. 1 \in Int /\ n \in Nat /\ \A i \in 1..n : q[i] \in S
  BY SMT, ElementOfSeq
<1> HIDE DEF n
<1>2. SubSeq(q, 1, n) \in Seq(S) /\ Len(SubSeq(q, 1, n)) = IF 1 <= n THEN n - 1 + 1 ELSE 0
  BY SMT, <1>1, SubSeqProperties
<1>3. (IF 1 <= n THEN n - 1 + 1 ELSE 0) = n
  BY SMT, <1>1
<1>. QED BY SMT, <1>2, <1>3 DEF n

(* acquire gives an empty buffer, and neither it nor release spoils a pool. *)
LEMMA PoolsStayClean ==
  ASSUME SizesAreNumbers, NEW buffers \in Seq({<<>>}), Len(buffers) <= MaxBuffers, NEW bytes
  PROVE  /\ Acquired(buffers) = <<>>
         /\ Remaining(buffers) \in Seq({<<>>}) /\ Len(Remaining(buffers)) <= MaxBuffers
         /\ Released(buffers, bytes) \in Seq({<<>>}) /\ Len(Released(buffers, bytes)) <= MaxBuffers
<1>1. Acquired(buffers) = <<>>
  <2>1. CASE buffers = <<>>
    BY <2>1 DEF Acquired
  <2>2. CASE buffers # <<>>
    <3>1. Len(buffers) \in 1..Len(buffers)
      BY SMT, <2>2, EmptySeq
    <3>2. buffers[Len(buffers)] \in {<<>>}
      BY <3>1, ElementOfSeq
    <3>. QED BY <2>2, <3>2 DEF Acquired, Last
  <2>. QED BY <2>1, <2>2
<1>2. Remaining(buffers) \in Seq({<<>>}) /\ Len(Remaining(buffers)) <= MaxBuffers
  <2>1. CASE buffers = <<>>
    BY <2>1 DEF Remaining
  <2>2. CASE buffers # <<>>
    <3>1. Len(buffers) \in Nat /\ Len(buffers) >= 1 /\ Len(buffers) - 1 \in 0..Len(buffers)
      BY SMT, <2>2, EmptySeq
    <3>3. /\ SubSeq(buffers, 1, Len(buffers) - 1) \in Seq({<<>>})
          /\ Len(SubSeq(buffers, 1, Len(buffers) - 1)) = Len(buffers) - 1
      BY <3>1, BeforeLast
    <3>4. Remaining(buffers) = SubSeq(buffers, 1, Len(buffers) - 1)
      BY <2>2 DEF Remaining, Front
    <3>. QED BY SMT, <3>1, <3>3, <3>4 DEF SizesAreNumbers
  <2>. QED BY <2>1, <2>2
<1>3. Released(buffers, bytes) \in Seq({<<>>}) /\ Len(Released(buffers, bytes)) <= MaxBuffers
  BY SMT DEF Released, SizesAreNumbers
<1>. QED BY <1>1, <1>2, <1>3

(* A session that is accepted has written nothing.                         *)
LEMMA OpenStep ==
  ASSUME SizesAreNumbers, IInv, NEW s \in Sessions, Open(s)
  PROVE  IInv'
<1>1. Typed /\ SessionInv(s) /\ at[s] = "off"
  BY DEF IInv, SessionInv, Open
<1>2. made[s] = 0 /\ sent[s] = 0 /\ Len(wire[s]) = 0 /\ IsRun(wire[s], s, 0)
  BY <1>1 DEF SessionInv, Placed, Counted
<1> DEFINE g == NewBytes(s, GreetingSize)
<1>3. g \in Seq(Byte) /\ Len(g) = GreetingSize /\ IsRun(g, s, 0)
  BY SMT, <1>1, <1>2, NewRun DEF SizesAreNumbers
<1>4. Acquired(pool) = <<>> /\ Remaining(pool) \in Seq({<<>>}) /\ Len(Remaining(pool)) <= MaxBuffers
  BY <1>1, PoolsStayClean DEF Typed
<1>5. Remaining(spares) \in Seq({<<>>}) /\ Len(Remaining(spares)) <= MaxBuffers
  BY <1>1, PoolsStayClean DEF Typed
<1> HIDE DEF g
<1>6. /\ at' = [at EXCEPT ![s] = "write"] /\ out' = [out EXCEPT ![s] = g]
      /\ then' = [then EXCEPT ![s] = Then("greeted", GreetingSize)]
      /\ buf' = [buf EXCEPT ![s] = <<>>] /\ made' = [made EXCEPT ![s] = GreetingSize]
      /\ pool' = Remaining(pool) /\ spares' = Remaining(spares)
      /\ UNCHANGED <<hold, wire, sent>>
  BY <1>4 DEF Open, Send, g
<1>7. Typed'
  <2>1. GreetingSize \in Nat
    BY DEF SizesAreNumbers
  <2>2. /\ Then("greeted", GreetingSize).what = "greeted"
        /\ Then("greeted", GreetingSize) \in
             [what : {"none", "greeted", "clear", "append", "vectored", "stored", "chunk", "flushed", "closed"},
              count : Nat]
    BY <2>1 DEF Then
  <2>3. <<>> \in Seq(Byte)
    BY SMT
  <2>. QED BY <1>1, <1>3, <1>4, <1>5, <1>6, <2>1, <2>2, <2>3 DEF Typed
<1>8. \A t \in Sessions : t # s => Unmoved(t)
  BY <1>1, <1>6 DEF Typed, Unmoved
<1>9. SessionInv(s)'
  <2>1. /\ at'[s] = "write" /\ out'[s] = g /\ then'[s].what = "greeted" /\ then'[s].count = GreetingSize
        /\ buf'[s] = <<>> /\ made'[s] = GreetingSize /\ wire'[s] = wire[s] /\ sent'[s] = 0 /\ hold'[s] = hold[s]
    BY <1>1, <1>2, <1>6 DEF Typed, Then
  <2>2. Placed(s)'
    BY SMT, <2>1, <1>1, <1>2, <1>3 DEF Placed, Plain, Behind, Position, SizesAreNumbers
  <2>3. Counted(s)'
    BY SMT, <2>1 DEF Counted, Uncounted, SizesAreNumbers
  <2>4. Bounded(s)'
    BY SMT, <2>1, EmptyRun DEF Bounded, SizesAreNumbers
  <2>. QED BY <2>2, <2>3, <2>4 DEF SessionInv
<1>. QED BY <1>7, <1>8, <1>9, StepOfOne

(* Bytes that leave a buffer are on the wire.                              *)
LEMMA Moved ==
  ASSUME NEW a \in Nat, NEW b \in Nat, NEW k \in Nat
  PROVE  (a + k) + (b - k) = a + b
BY SMT

(* A write goes on where the peer stopped taking bytes.                    *)
LEMMA WriteSomeStep ==
  ASSUME IInv, NEW s \in Sessions, WriteSome(s)
  PROVE  IInv'
<1>1. Typed /\ SessionInv(s) /\ at[s] = "write"
  BY DEF IInv, SessionInv, WriteSome
<1>2. PICK k \in 1..Len(out[s]) : /\ wire' = [wire EXCEPT ![s] = @ \o SubSeq(out[s], 1, k)]
                                  /\ out' = [out EXCEPT ![s] = SubSeq(@, k + 1, Len(@))]
  BY DEF WriteSome
<1> DEFINE o == out[s]
           w == wire[s]
           p == SubSeq(o, 1, k)
           q == SubSeq(o, k + 1, Len(o))
<1>3. /\ o \in Seq(Byte) /\ w \in Seq(Byte) /\ Len(w) \in Nat /\ Len(o) \in Nat /\ k \in Nat /\ k \in 0..Len(o)
  BY SMT, <1>1 DEF Typed
<1>0. Len(w) \in Nat /\ Len(o) \in Nat /\ k \in Nat
  BY <1>3
<1>4. IsRun(w, s, 0) /\ IsRun(o, s, Len(w))
  BY <1>1 DEF SessionInv, Placed
<1>5. /\ p \in Seq(Byte) /\ Len(p) = k /\ IsRun(p, s, Len(w))
      /\ q \in Seq(Byte) /\ Len(q) = Len(o) - k /\ IsRun(q, s, Len(w) + k)
  BY <1>3, <1>4, RunSplits
<1>6. w \o p \in Seq(Byte) /\ Len(w \o p) = Len(w) + k /\ IsRun(w \o p, s, 0)
  <2>1. Len(w) = 0 + Len(w) /\ 0 \in Nat
    BY SMT, <1>3
  <2> HIDE DEF p, q, o, w
  <2>2. w \o p \in Seq(Byte) /\ Len(w \o p) = Len(w) + Len(p) /\ IsRun(w \o p, s, 0)
    BY <1>3, <1>4, <1>5, <2>1, RunJoins
  <2>. QED BY <1>5, <2>2
<1>7. /\ wire' = [wire EXCEPT ![s] = w \o p] /\ out' = [out EXCEPT ![s] = q]
      /\ UNCHANGED <<pool, spares, at, buf, then, hold, made, sent>>
  BY <1>2 DEF WriteSome
<1> HIDE DEF p, q
<1>8. Typed'
  BY <1>1, <1>5, <1>6, <1>7 DEF Typed
<1>9. \A t \in Sessions : t # s => Unmoved(t)
  BY <1>1, <1>7 DEF Typed, Unmoved
<1>10. SessionInv(s)'
  <2>1. wire'[s] = w \o p /\ out'[s] = q
    BY <1>1, <1>7 DEF Typed
  <2>2. Len(wire'[s]) = Len(w) + k /\ Len(out'[s]) = Len(o) - k
    BY <2>1, <1>5, <1>6
  <2>3. Position(s)' = Position(s)
    <3>1. (Len(w) + k) + (Len(o) - k) = Len(w) + Len(o)
      BY <1>0, Moved
    <3>2. Len(wire'[s]) + Len(out'[s]) = Len(wire[s]) + Len(out[s])
      BY <2>2, <3>1
    <3>. QED BY <3>2 DEF Position
  <2>4. Placed(s)'
    <3>1. IsRun(wire[s], s, 0)' /\ IsRun(out'[s], s, Len(wire'[s]))
      BY <2>1, <2>2, <1>5, <1>6
    <3>2. (Plain(s) <=> Plain(s)') /\ (Behind(s) <=> Behind(s)')
      BY <1>7 DEF Plain, Behind
    <3>. QED BY <1>1, <1>7, <2>3, <3>1, <3>2 DEF SessionInv, Placed
  <2>5. Counted(s)' /\ Bounded(s)'
    BY <1>1, <1>7 DEF SessionInv, Counted, Bounded, Uncounted
  <2>. QED BY <2>4, <2>5 DEF SessionInv
<1>. QED BY <1>8, <1>9, <1>10, StepOfOne

(* A session that ends leaves clean buffers behind, whatever they held.    *)
LEMMA LeaveStep ==
  ASSUME SizesAreNumbers, IInv, NEW s \in Sessions, Leave(s), UNCHANGED sent
  PROVE  IInv'
<1>1. Typed /\ SessionInv(s)
  BY DEF IInv, SessionInv
<1>2. /\ Released(pool, buf[s]) \in Seq({<<>>}) /\ Len(Released(pool, buf[s])) <= MaxBuffers
      /\ Released(spares, scratch[s].bytes) \in Seq({<<>>}) /\ Len(Released(spares, scratch[s].bytes)) <= MaxBuffers
  BY <1>1, PoolsStayClean DEF Typed
<1>3. /\ pool' \in Seq({<<>>}) /\ Len(pool') <= MaxBuffers
      /\ spares' \in Seq({<<>>}) /\ Len(spares') <= MaxBuffers
  BY <1>1, <1>2 DEF Leave, Typed
<1>4. /\ at' = [at EXCEPT ![s] = "gone"] /\ buf' = [buf EXCEPT ![s] = <<>>]
      /\ out' = [out EXCEPT ![s] = <<>>] /\ hold' = [hold EXCEPT ![s] = <<>>]
      /\ UNCHANGED <<then, made, wire, sent>>
  BY DEF Leave
<1>5. Typed'
  <2>1. <<>> \in Seq(Byte)
    BY SMT
  <2>. QED BY <1>1, <1>3, <1>4, <2>1 DEF Typed
<1>6. \A t \in Sessions : t # s => Unmoved(t)
  BY <1>1, <1>4 DEF Typed, Unmoved
<1>7. SessionInv(s)'
  <2>1. at'[s] = "gone" /\ buf'[s] = <<>> /\ wire'[s] = wire[s]
    BY <1>1, <1>4 DEF Typed
  <2>2. Placed(s)' /\ Counted(s)'
    BY <2>1, <1>1 DEF SessionInv, Placed, Counted
  <2>3. Bounded(s)'
    BY SMT, <2>1, EmptyRun DEF Bounded, SizesAreNumbers
  <2>. QED BY <2>2, <2>3 DEF SessionInv
<1>. QED BY <1>5, <1>6, <1>7, StepOfOne

-----------------------------------------------------------------------------
(* Steps that put nothing on the wire and leave the pools alone: session s *)
(* goes to a, with b in PendingWrite, h held back and o to be written,     *)
(* then t, with m bytes made and n counted.                                *)
Thens == [what : {"none", "greeted", "clear", "append", "vectored", "stored", "chunk", "flushed", "closed"},
          count : Nat]

Moves(s, a, b, o, t, h, m, n) ==
  /\ at' = [at EXCEPT ![s] = a] /\ buf' = [buf EXCEPT ![s] = b] /\ out' = [out EXCEPT ![s] = o]
  /\ then' = [then EXCEPT ![s] = t] /\ hold' = [hold EXCEPT ![s] = h]
  /\ made' = [made EXCEPT ![s] = m] /\ sent' = [sent EXCEPT ![s] = n]
  /\ UNCHANGED <<pool, spares, wire>>

(* A session's step that moves its bytes and takes no pooled buffer.       *)
LEMMA MovesStep ==
  ASSUME IInv, NEW s \in Sessions, NEW a \in {"read", "batch", "write"},
         NEW b \in Seq(Byte), NEW o \in Seq(Byte), NEW h \in Seq(Byte), NEW t \in Thens, NEW m \in Nat, NEW n \in Nat,
         Moves(s, a, b, o, t, h, m, n),
         Len(b) <= Capacity,
         a = "read" => Len(wire[s]) = m /\ Len(b) = 0 /\ n = m,
         a = "batch" => IsRun(b, s, Len(wire[s])) /\ Len(wire[s]) + Len(b) = m /\ n = m,
         a = "write" => IsRun(o, s, Len(wire[s])),
         a = "write" => \/ /\ t.what \in {"clear", "flushed", "closed"} /\ t.count = 0
                           /\ Len(wire[s]) + Len(o) = m /\ n = m
                        \/ /\ t.what \in {"append", "vectored", "stored", "chunk"}
                           /\ IsRun(h, s, Len(wire[s]) + Len(o)) /\ (Len(wire[s]) + Len(o)) + Len(h) = m
                           /\ t.what = "append" => n = m /\ Len(h) <= Capacity /\ t.count = 0
                           /\ t.what = "vectored" => n = m
                           /\ t.what = "stored" => n + Len(h) = m
                           /\ t.what = "chunk" => n + (t.count + Len(h)) = m
  PROVE  IInv'
<1>1. Typed /\ SessionInv(s)
  BY DEF IInv, SessionInv
<1>2. Typed'
  BY <1>1 DEF Typed, Moves, Thens
<1>3. \A u \in Sessions : u # s => Unmoved(u)
  BY <1>1 DEF Typed, Unmoved, Moves
<1>4. /\ at'[s] = a /\ buf'[s] = b /\ out'[s] = o /\ then'[s] = t /\ hold'[s] = h
      /\ made'[s] = m /\ sent'[s] = n /\ wire'[s] = wire[s]
  BY <1>1 DEF Typed, Moves
<1>5. Len(h) \in Nat /\ t.count \in Nat
  BY SMT DEF Thens
<1>6. Placed(s)'
  BY <1>1, <1>4 DEF SessionInv, Placed, Plain, Behind, Position
<1>7. Counted(s)'
  BY SMT, <1>4, <1>5 DEF Counted, Uncounted
<1>8. Bounded(s)'
  BY <1>4 DEF Bounded
<1>. QED BY <1>2, <1>3, <1>6, <1>7, <1>8, StepOfOne DEF SessionInv

(* What the session has where it is.                                       *)
LEMMA Values ==
  ASSUME IInv, NEW s \in Sessions
  PROVE  /\ at[s] \in {"off", "read", "batch", "write", "gone"}
         /\ buf[s] \in Seq(Byte) /\ out[s] \in Seq(Byte) /\ hold[s] \in Seq(Byte) /\ wire[s] \in Seq(Byte)
         /\ then[s] \in Thens /\ made[s] \in Nat /\ sent[s] \in Nat
         /\ Len(buf[s]) \in Nat /\ Len(out[s]) \in Nat /\ Len(hold[s]) \in Nat /\ Len(wire[s]) \in Nat
         /\ Len(buf[s]) <= Capacity
<1>1. Typed /\ Bounded(s)
  BY DEF IInv
<1>. QED BY SMT, <1>1 DEF Typed, Thens, Bounded

(* Types of the lengths of a session's buffers.                            *)
LEMMA Numbers ==
  ASSUME IInv, NEW s \in Sessions
  PROVE  /\ made[s] \in Nat /\ sent[s] \in Nat
         /\ Len(buf[s]) \in Nat /\ Len(out[s]) \in Nat /\ Len(hold[s]) \in Nat /\ Len(wire[s]) \in Nat
BY Values

(* A batch is answered behind what is in PendingWrite, and all is counted. *)
LEMMA InBatch ==
  ASSUME IInv, NEW s \in Sessions, at[s] = "batch"
  PROVE  /\ IsRun(buf[s], s, Len(wire[s])) /\ Len(wire[s]) + Len(buf[s]) = made[s]
         /\ sent[s] = made[s]
<1>1. Placed(s) /\ Counted(s)
  BY DEF IInv
<1>2. sent[s] + 0 = made[s]
  BY <1>1 DEF Counted, Uncounted
<1>3. sent[s] = made[s]
  BY SMT, <1>2, Numbers
<1>. QED BY <1>1, <1>3 DEF Placed

(* A variable that does not change keeps the session's value.              *)
LEMMA Still ==
  ASSUME IInv, NEW s \in Sessions
  PROVE  /\ UNCHANGED at => at' = [at EXCEPT ![s] = at[s]]
         /\ UNCHANGED buf => buf' = [buf EXCEPT ![s] = buf[s]]
         /\ UNCHANGED out => out' = [out EXCEPT ![s] = out[s]]
         /\ UNCHANGED then => then' = [then EXCEPT ![s] = then[s]]
         /\ UNCHANGED hold => hold' = [hold EXCEPT ![s] = hold[s]]
         /\ UNCHANGED made => made' = [made EXCEPT ![s] = made[s]]
         /\ UNCHANGED sent => sent' = [sent EXCEPT ![s] = sent[s]]
BY DEF IInv, Typed

(* What a session does once its bytes are out.                             *)
LEMMA WrittenThen ==
  ASSUME NEW what \in {"none", "greeted", "clear", "append", "vectored", "stored", "chunk", "flushed", "closed"},
         NEW count \in Nat
  PROVE  Then(what, count) \in Thens /\ Then(what, count).what = what /\ Then(what, count).count = count
BY DEF Then, Thens

(* A response behind what a batch has in PendingWrite.                     *)
LEMMA RespondingStep ==
  ASSUME SizesAreNumbers, IInv, NEW s \in Sessions, NEW k \in Sizes,
         Make(s, k), Count(s, k), WriteResponse(s, NewBytes(s, k))
  PROVE  IInv'
<1> DEFINE r == NewBytes(s, k)
           m == made[s] + k
<1>1. at[s] = "batch" /\ k \in Nat
  BY DEF Make, SizesAreNumbers
<1>2. /\ IsRun(buf[s], s, Len(wire[s])) /\ Len(wire[s]) + Len(buf[s]) = made[s] /\ sent[s] = made[s]
  BY <1>1, InBatch
<1>3. r \in Seq(Byte) /\ Len(r) = k /\ IsRun(r, s, made[s])
  BY <1>1, Values, NewRun
<1> HIDE DEF r
<1>4. buf[s] \o r \in Seq(Byte) /\ Len(buf[s] \o r) = Len(buf[s]) + k /\ IsRun(buf[s] \o r, s, Len(wire[s]))
  <2>1. /\ buf[s] \in Seq(Byte) /\ Len(wire[s]) \in Nat /\ made[s] \in Nat
        /\ made[s] = Len(wire[s]) + Len(buf[s])
    BY <1>2, Values
  <2>2. buf[s] \o r \in Seq(Byte) /\ Len(buf[s] \o r) = Len(buf[s]) + Len(r) /\ IsRun(buf[s] \o r, s, Len(wire[s]))
    BY <1>2, <1>3, <2>1, RunJoins
  <2>. QED BY <1>3, <2>2
<1>5. /\ made' = [made EXCEPT ![s] = m] /\ sent' = [sent EXCEPT ![s] = m] /\ UNCHANGED <<pool, spares, wire>>
  BY <1>2 DEF Make, Count
<1>6. m \in Nat /\ Len(wire[s]) + (Len(buf[s]) + k) = m
  <2> DEFINE w == Len(wire[s])
             b == Len(buf[s])
  <2>1. made[s] \in Nat /\ w \in Nat /\ b \in Nat /\ w + b = made[s] /\ k \in Nat
    BY <1>1, <1>2, Numbers
  <2> HIDE DEF w, b
  <2>2. made[s] + k \in Nat /\ w + (b + k) = made[s] + k
    BY SMT, <2>1
  <2>. QED BY <2>2 DEF w, b
<1> HIDE DEF m
<1>7. CASE WriteWithResponse(s, r)
  <2>1. Moves(s, "write", buf[s], buf[s] \o r, Then("clear", 0), hold[s], m, m)
    BY <1>5, <1>7, Still DEF Moves, WriteWithResponse, Send
  <2>2. Then("clear", 0) \in Thens /\ Then("clear", 0).what = "clear" /\ Then("clear", 0).count = 0
    BY WrittenThen
  <2>3. Len(wire[s]) + Len(buf[s] \o r) = m
    BY <1>4, <1>6
  <2>. QED BY <1>4, <1>6, <2>1, <2>2, <2>3, Values, MovesStep
<1>8. CASE Send(s, buf[s], "append", 0) /\ hold' = [hold EXCEPT ![s] = r] /\ UNCHANGED buf /\ Len(r) <= Capacity
  <2>1. Moves(s, "write", buf[s], buf[s], Then("append", 0), r, m, m)
    BY <1>5, <1>8, Still DEF Moves, Send
  <2>2. Then("append", 0) \in Thens /\ Then("append", 0).what = "append" /\ Then("append", 0).count = 0
    BY WrittenThen
  <2>3. IsRun(r, s, Len(wire[s]) + Len(buf[s])) /\ (Len(wire[s]) + Len(buf[s])) + Len(r) = m
    BY <1>2, <1>3 DEF m
  <2>. QED BY <1>2, <1>3, <1>6, <1>8, <2>1, <2>2, <2>3, Values, MovesStep
<1>9. CASE Keep(s, r) /\ Len(buf[s]) + Len(r) <= Capacity
  <2>1. Moves(s, "batch", buf[s] \o r, out[s], then[s], hold[s], m, m)
    BY <1>5, <1>9, Still DEF Moves, Keep
  <2>2. Len(wire[s]) + Len(buf[s] \o r) = m /\ Len(buf[s] \o r) <= Capacity
    BY <1>3, <1>4, <1>6, <1>9
  <2>. QED BY <1>4, <1>6, <2>1, <2>2, Values, MovesStep
<1>10. \/ WriteWithResponse(s, r)
       \/ Send(s, buf[s], "append", 0) /\ hold' = [hold EXCEPT ![s] = r] /\ UNCHANGED buf /\ Len(r) <= Capacity
       \/ Keep(s, r) /\ Len(buf[s]) + Len(r) <= Capacity
  <2>1. WriteResponse(s, r) /\ Len(r) \in Nat /\ Len(buf[s]) + Len(r) \in Nat /\ Capacity \in Nat
    BY SMT, <1>1, <1>3, Values DEF r, SizesAreNumbers
  <2>. QED BY SMT, <2>1 DEF WriteResponse, Push
<1>. QED BY <1>7, <1>8, <1>9, <1>10

(* A response that has to wait until what is in PendingWrite is written.   *)
LEMMA AfterFlushStep ==
  ASSUME SizesAreNumbers, IInv, NEW s \in Sessions, NEW k \in Sizes, NEW what \in {"vectored", "stored", "chunk"},
         AfterFlush(s, k, what),
         IF what = "vectored" THEN Count(s, k) ELSE UNCHANGED sent
  PROVE  IInv'
<1> DEFINE r == NewBytes(s, k)
           m == made[s] + k
           n == IF what = "vectored" THEN m ELSE made[s]
<1>1. at[s] = "batch" /\ k \in Nat
  BY DEF AfterFlush, Make, SizesAreNumbers
<1>2. /\ IsRun(buf[s], s, Len(wire[s])) /\ Len(wire[s]) + Len(buf[s]) = made[s] /\ sent[s] = made[s]
  BY <1>1, InBatch
<1>3. r \in Seq(Byte) /\ Len(r) = k /\ IsRun(r, s, made[s])
  BY <1>1, Values, NewRun
<1>4. sent' = [sent EXCEPT ![s] = n]
  BY <1>2, Still DEF Count
<1>5. Moves(s, "write", buf[s], buf[s], Then(what, 0), r, m, n)
  BY <1>4, Still DEF Moves, AfterFlush, Make, Send
<1>6. Then(what, 0) \in Thens /\ Then(what, 0).what = what /\ Then(what, 0).count = 0
  BY SMT, WrittenThen
<1>7. /\ m \in Nat /\ n \in Nat /\ (Len(wire[s]) + Len(buf[s])) + Len(r) = m
      /\ what = "vectored" => n = m
      /\ what = "stored" => n + Len(r) = m
      /\ what = "chunk" => n + (Then(what, 0).count + Len(r)) = m
  <2>1. Len(r) = k /\ made[s] \in Nat
    BY <1>3, Numbers
  <2>2. m \in Nat /\ n \in Nat
    BY SMT, <1>1, <2>1
  <2>3. (Len(wire[s]) + Len(buf[s])) + Len(r) = m
    BY <1>2, <2>1
  <2>4. what = "stored" => n + Len(r) = m
    BY <2>1
  <2>5. what = "chunk" => n + (0 + Len(r)) = m
    BY SMT, <1>1, <2>1
  <2>. QED BY <1>6, <2>2, <2>3, <2>4, <2>5
<1>8. IsRun(r, s, Len(wire[s]) + Len(buf[s]))
  BY <1>2, <1>3
<1> HIDE DEF r, m, n
<1>9. /\ Then(what, 0).what \in {"append", "vectored", "stored", "chunk"}
      /\ IsRun(r, s, Len(wire[s]) + Len(buf[s])) /\ (Len(wire[s]) + Len(buf[s])) + Len(r) = m
      /\ Then(what, 0).what = "append" => n = m /\ Len(r) <= Capacity /\ Then(what, 0).count = 0
      /\ Then(what, 0).what = "vectored" => n = m
      /\ Then(what, 0).what = "stored" => n + Len(r) = m
      /\ Then(what, 0).what = "chunk" => n + (Then(what, 0).count + Len(r)) = m
  BY <1>6, <1>7, <1>8
<1>10. buf[s] \in Seq(Byte) /\ Len(buf[s]) <= Capacity /\ r \in Seq(Byte) /\ m \in Nat /\ n \in Nat
  BY <1>3, <1>7, Values
<1>. QED BY <1>2, <1>5, <1>6, <1>9, <1>10, MovesStep

-----------------------------------------------------------------------------
(* What a completed write has behind it.                                   *)
LEMMA PlainWritten ==
  ASSUME IInv, NEW s \in Sessions, at[s] = "write", out[s] = <<>>, Plain(s)
  PROVE  Len(wire[s]) = made[s]
<1>1. Len(out[s]) = 0 /\ Len(wire[s]) \in Nat
  BY EmptyRun, Numbers
<1>2. Len(wire[s]) + Len(out[s]) = made[s]
  BY DEF IInv, Placed, Position
<1>. QED BY SMT, <1>1, <1>2

(* With PendingWrite on the wire, the held response comes next.            *)
LEMMA BehindWritten ==
  ASSUME IInv, NEW s \in Sessions, at[s] = "write", out[s] = <<>>, Behind(s)
  PROVE  IsRun(hold[s], s, Len(wire[s])) /\ Len(wire[s]) + Len(hold[s]) = made[s]
<1>1. Len(out[s]) = 0 /\ Len(wire[s]) \in Nat
  BY EmptyRun, Numbers
<1>2. IsRun(hold[s], s, Len(wire[s]) + Len(out[s])) /\ (Len(wire[s]) + Len(out[s])) + Len(hold[s]) = made[s]
  BY DEF IInv, Placed, Position
<1>3. Len(wire[s]) + Len(out[s]) = Len(wire[s])
  BY SMT, <1>1
<1>. QED BY <1>2, <1>3

(* What bytes_sent is when it completes.                                   *)
LEMMA WrittenSent ==
  ASSUME IInv, NEW s \in Sessions, at[s] = "write"
  PROVE  /\ then[s].what = "greeted" => sent[s] + then[s].count = made[s]
         /\ then[s].what \in {"clear", "append"} => sent[s] + then[s].count = made[s]
         /\ then[s].what \in {"vectored", "flushed", "closed"} => sent[s] = made[s]
         /\ then[s].what = "stored" => sent[s] + Len(hold[s]) = made[s]
         /\ then[s].what = "chunk" => (sent[s] + then[s].count) + Len(hold[s]) = made[s]
<1>1. Counted(s)
  BY DEF IInv
<1> DEFINE h == Len(hold[s])
           c == then[s].count
<1>2. sent[s] \in Nat /\ h \in Nat /\ c \in Nat
  BY Values DEF Thens
<1>3. sent[s] + Uncounted(s) = made[s] /\ (then[s].what \in {"clear", "append"} => c = 0)
  BY <1>1 DEF Counted
<1>4. Uncounted(s) = (IF then[s].what \in {"greeted", "chunk"} THEN c ELSE 0)
                   + (IF then[s].what \in {"stored", "chunk"} THEN h ELSE 0)
  BY DEF Uncounted
<1> HIDE DEF h, c
<1>5. /\ then[s].what = "greeted" => sent[s] + c = made[s]
      /\ then[s].what \in {"clear", "append"} => sent[s] + c = made[s]
      /\ then[s].what \in {"vectored", "flushed", "closed"} => sent[s] = made[s]
      /\ then[s].what = "stored" => sent[s] + h = made[s]
      /\ then[s].what = "chunk" => (sent[s] + c) + h = made[s]
  BY SMT, <1>2, <1>3, <1>4
<1>. QED BY <1>5 DEF h, c

(* Greeted and Flushed: the session waits for commands.                    *)
LEMMA ToRead ==
  ASSUME SizesAreNumbers, IInv, NEW s \in Sessions, Greeted(s) \/ Flushed(s)
  PROVE  IInv'
<1>1. <<>> \in Seq(Byte) /\ Len(<<>>) = 0 /\ Len(<<>>) <= Capacity
  BY SMT, EmptyRun DEF SizesAreNumbers
<1>2. CASE Greeted(s)
  <2>1. at[s] = "write" /\ out[s] = <<>> /\ then[s].what = "greeted"
    BY <1>2 DEF Greeted, Written
  <2>2. Len(wire[s]) = made[s] /\ sent[s] + then[s].count = made[s]
    BY <2>1, PlainWritten, WrittenSent DEF Plain
  <2>3. Len(buf[s]) = 0
    BY <2>1 DEF IInv, Bounded
  <2>4. Moves(s, "read", buf[s], out[s], then[s], hold[s], made[s], made[s])
    BY <1>2, <2>2, Still DEF Moves, Greeted, Written, Count
  <2>. QED BY <2>2, <2>3, <2>4, Values, MovesStep
<1>3. CASE Flushed(s)
  <2>1. at[s] = "write" /\ out[s] = <<>> /\ then[s].what = "flushed"
    BY <1>3 DEF Flushed, Written
  <2>2. Len(wire[s]) = made[s] /\ sent[s] = made[s]
    BY <2>1, PlainWritten, WrittenSent DEF Plain
  <2>3. Moves(s, "read", <<>>, out[s], then[s], hold[s], made[s], made[s])
    BY <1>3, <2>2, Still DEF Moves, Flushed, Written
  <2>. QED BY <1>1, <2>2, <2>3, Values, MovesStep
<1>. QED BY <1>2, <1>3

(* The batch goes on with the response that was held back in PendingWrite, *)
(* or with none.                                                           *)
LEMMA ToBatch ==
  ASSUME SizesAreNumbers, IInv, NEW s \in Sessions, Cleared(s) \/ Appended(s) \/ StoredShort(s) \/ Copied(s)
  PROVE  IInv'
<1>1. /\ <<>> \in Seq(Byte) /\ Len(<<>>) = 0 /\ Len(<<>>) <= Capacity
      /\ \A a \in Nat : IsRun(<<>>, s, a)
  BY SMT, EmptyRun DEF SizesAreNumbers
<1>2. Len(wire[s]) \in Nat
  BY Numbers
<1>3. CASE Cleared(s)
  <2>1. at[s] = "write" /\ out[s] = <<>> /\ then[s].what = "clear"
    BY <1>3 DEF Cleared, Written
  <2>2. Len(wire[s]) = made[s] /\ sent[s] + then[s].count = made[s]
    BY <2>1, PlainWritten, WrittenSent DEF Plain
  <2>3. Moves(s, "batch", <<>>, out[s], then[s], hold[s], made[s], made[s])
    BY <1>3, <2>2, Still DEF Moves, Cleared, Written, Resume, Count
  <2>4. IsRun(<<>>, s, Len(wire[s])) /\ Len(wire[s]) + Len(<<>>) = made[s]
    BY SMT, <1>1, <1>2, <2>2
  <2>. QED BY <1>1, <2>3, <2>4, Values, MovesStep
<1>4. CASE Appended(s)
  <2>1. at[s] = "write" /\ out[s] = <<>> /\ then[s].what = "append"
    BY <1>4 DEF Appended, Written
  <2>2. IsRun(hold[s], s, Len(wire[s])) /\ Len(wire[s]) + Len(hold[s]) = made[s]
    BY <2>1, BehindWritten DEF Behind
  <2>3. sent[s] + then[s].count = made[s]
    BY <2>1, WrittenSent
  <2>4. Len(hold[s]) <= Capacity
    BY <2>1 DEF IInv, Bounded
  <2>5. Moves(s, "batch", hold[s], out[s], then[s], <<>>, made[s], made[s])
    BY <1>4, <2>3, Still DEF Moves, Appended, Written, Resume, Count
  <2>. QED BY <1>1, <2>2, <2>4, <2>5, Values, MovesStep
<1>5. CASE StoredShort(s)
  <2>1. at[s] = "write" /\ out[s] = <<>> /\ then[s].what = "stored" /\ Len(hold[s]) <= Capacity
    BY <1>5 DEF StoredShort, Written
  <2>2. IsRun(hold[s], s, Len(wire[s])) /\ Len(wire[s]) + Len(hold[s]) = made[s]
    BY <2>1, BehindWritten DEF Behind
  <2>3. sent[s] + Len(hold[s]) = made[s]
    BY <2>1, WrittenSent
  <2>4. Moves(s, "batch", hold[s], out[s], then[s], <<>>, made[s], made[s])
    BY <1>5, <2>3, Still DEF Moves, StoredShort, Written, Count
  <2>. QED BY <1>1, <2>1, <2>2, <2>4, Values, MovesStep
<1>6. CASE Copied(s)
  <2>1. at[s] = "write" /\ out[s] = <<>> /\ then[s].what = "chunk" /\ hold[s] = <<>>
    BY <1>6 DEF Copied, Written
  <2>2. Len(wire[s]) + Len(hold[s]) = made[s] /\ (sent[s] + then[s].count) + Len(hold[s]) = made[s]
    BY <2>1, BehindWritten, WrittenSent DEF Behind
  <2>3. Len(hold[s]) = 0 /\ sent[s] + then[s].count \in Nat
    BY SMT, <1>1, <2>1, Values DEF Thens
  <2>4. Len(wire[s]) = made[s] /\ sent[s] + then[s].count = made[s]
    BY SMT, <1>2, <2>2, <2>3
  <2>5. Moves(s, "batch", <<>>, out[s], then[s], hold[s], made[s], made[s])
    BY <1>6, <2>4, Still DEF Moves, Copied, Written, Resume, Count
  <2>6. IsRun(<<>>, s, Len(wire[s])) /\ Len(wire[s]) + Len(<<>>) = made[s]
    BY SMT, <1>1, <1>2, <2>4
  <2>. QED BY <1>1, <2>5, <2>6, Values, MovesStep
<1>. QED BY <1>3, <1>4, <1>5, <1>6

(* The response that was held back is written next, whole or in chunks.    *)
LEMMA ToWrite ==
  ASSUME SizesAreNumbers, IInv, NEW s \in Sessions, Vectored(s) \/ StoredLong(s) \/ Copy(s)
  PROVE  IInv'
<1>1. <<>> \in Seq(Byte) /\ Len(<<>>) = 0 /\ Len(<<>>) <= Capacity
  BY SMT, EmptyRun DEF SizesAreNumbers
<1>2. at[s] = "write" /\ out[s] = <<>> /\ then[s].what \in {"vectored", "stored", "chunk"}
  BY DEF Vectored, StoredLong, Copy, Written
<1>3. IsRun(hold[s], s, Len(wire[s])) /\ Len(wire[s]) + Len(hold[s]) = made[s]
  BY <1>2, BehindWritten DEF Behind
<1>4. Then("clear", 0) \in Thens /\ Then("clear", 0).what = "clear" /\ Then("clear", 0).count = 0
  BY WrittenThen
<1>5. CASE Vectored(s)
  <2>1. sent[s] = made[s]
    BY <1>2, <1>5, WrittenSent DEF Vectored, Written
  <2>2. Moves(s, "write", <<>>, hold[s], Then("clear", 0), <<>>, made[s], made[s])
    BY <1>5, <2>1, Still DEF Moves, Vectored, Written, Send
  <2>. QED BY <1>1, <1>3, <1>4, <2>2, Values, MovesStep
<1>6. CASE StoredLong(s)
  <2>1. sent[s] + Len(hold[s]) = made[s]
    BY <1>2, <1>6, WrittenSent DEF StoredLong, Written
  <2>2. Moves(s, "write", <<>>, hold[s], Then("clear", 0), <<>>, made[s], made[s])
    BY <1>6, <2>1, Still DEF Moves, StoredLong, Written, Send, Count
  <2>. QED BY <1>1, <1>3, <1>4, <2>2, Values, MovesStep
<1>7. CASE Copy(s)
  <2> DEFINE k == IF Len(hold[s]) < Chunk THEN Len(hold[s]) ELSE Chunk
             p == SubSeq(hold[s], 1, k)
             q == SubSeq(hold[s], k + 1, Len(hold[s]))
             n == sent[s] + then[s].count
  <2>1. k \in Nat /\ k \in 0..Len(hold[s]) /\ n \in Nat
    BY SMT, Values DEF SizesAreNumbers, Thens
  <2>2. n + Len(hold[s]) = made[s]
    BY <1>2, <1>7, WrittenSent DEF Copy, Written
  <2>3. /\ p \in Seq(Byte) /\ Len(p) = k /\ IsRun(p, s, Len(wire[s]))
        /\ q \in Seq(Byte) /\ Len(q) = Len(hold[s]) - k /\ IsRun(q, s, Len(wire[s]) + k)
    <3>1. hold[s] \in Seq(Byte) /\ Len(wire[s]) \in Nat
      BY Values
    <3> HIDE DEF k
    <3>. QED BY <2>1, <3>1, <1>3, RunSplits
  <2>4. Moves(s, "write", <<>>, p, Then("chunk", k), q, made[s], n)
    BY <1>7, Still DEF Moves, Copy, CopyChunk, Written, Send, Count
  <2>5. Then("chunk", k) \in Thens /\ Then("chunk", k).what = "chunk" /\ Then("chunk", k).count = k
    BY SMT, <2>1, WrittenThen
  <2> HIDE DEF k, p, q, n
  <2>6. /\ IsRun(q, s, Len(wire[s]) + Len(p)) /\ (Len(wire[s]) + Len(p)) + Len(q) = made[s]
        /\ n + (Then("chunk", k).count + Len(q)) = made[s]
    <3> DEFINE w == Len(wire[s])
               h == Len(hold[s])
    <3>1. w \in Nat /\ h \in Nat /\ k \in Nat /\ n \in Nat /\ w + h = made[s] /\ n + h = made[s]
      BY <1>3, <2>1, <2>2, Numbers
    <3>2. Len(p) = k /\ Len(q) = h - k /\ IsRun(q, s, w + k)
      BY <2>3
    <3> HIDE DEF w, h
    <3>3. (w + k) + (h - k) = made[s] /\ n + (k + (h - k)) = made[s]
      BY SMT, <3>1
    <3>. QED BY <2>5, <3>2, <3>3 DEF w, h
  <2>. QED BY <1>1, <2>1, <2>3, <2>4, <2>5, <2>6, Values, MovesStep
<1>. QED BY <1>5, <1>6, <1>7

(* Between batches.                                                        *)
LEMMA BatchStep ==
  ASSUME SizesAreNumbers, IInv, NEW s \in Sessions, ReadBatch(s) \/ ReadEnd(s) \/ EndBatch(s)
  PROVE  IInv'
<1>1. CASE at[s] = "read"
  <2>1. Len(buf[s]) = 0 /\ Len(wire[s]) = made[s]
    BY <1>1 DEF IInv, Placed
  <2>2. sent[s] = made[s]
    <3>1. sent[s] + 0 = made[s]
      BY <1>1 DEF IInv, Counted, Uncounted
    <3>. QED BY SMT, <3>1, Numbers
  <2>3. IsRun(buf[s], s, Len(wire[s])) /\ Len(wire[s]) + Len(buf[s]) = made[s]
    <3>1. \A i \in 1..0 : buf[s][i] = <<s, Len(wire[s]) + i>>
      BY SMT
    <3>2. Len(wire[s]) \in Nat
      BY Numbers
    <3>. QED BY SMT, <2>1, <3>1, <3>2 DEF IsRun
  <2>4. CASE ReadBatch(s)
    <3>1. Moves(s, "batch", buf[s], out[s], then[s], hold[s], made[s], made[s])
      BY <2>2, <2>4, Still DEF Moves, ReadBatch
    <3>. QED BY <2>3, <3>1, Values, MovesStep
  <2>5. CASE ReadEnd(s)
    <3>1. Moves(s, "write", buf[s], buf[s], Then("closed", 0), hold[s], made[s], made[s])
      BY <2>2, <2>5, Still DEF Moves, ReadEnd, Send
    <3>2. Then("closed", 0) \in Thens /\ Then("closed", 0).what = "closed" /\ Then("closed", 0).count = 0
      BY WrittenThen
    <3>. QED BY <2>3, <3>1, <3>2, Values, MovesStep
  <2>. QED BY <1>1, <2>4, <2>5 DEF EndBatch
<1>2. CASE EndBatch(s)
  <2> DEFINE what == IF closing[s] THEN "closed" ELSE "flushed"
  <2>1. at[s] = "batch"
    BY <1>2 DEF EndBatch
  <2>2. IsRun(buf[s], s, Len(wire[s])) /\ Len(wire[s]) + Len(buf[s]) = made[s] /\ sent[s] = made[s]
    BY <2>1, InBatch
  <2>3. Moves(s, "write", buf[s], buf[s], Then(what, 0), hold[s], made[s], made[s])
    BY <1>2, <2>2, Still DEF Moves, EndBatch, Send
  <2>4. what \in {"closed", "flushed"}
    OBVIOUS
  <2> HIDE DEF what
  <2>5. Then(what, 0) \in Thens /\ Then(what, 0).what = what /\ Then(what, 0).count = 0
    BY SMT, <2>4, WrittenThen
  <2>. QED BY <2>2, <2>3, <2>4, <2>5, Values, MovesStep
<1>. QED BY <1>1, <1>2 DEF ReadBatch, ReadEnd

-----------------------------------------------------------------------------
(* Before the first session nothing is written.                            *)
LEMMA InitInv ==
  ASSUME SizesAreNumbers, Init
  PROVE  IInv
<1>1. <<>> \in Seq(Byte) /\ Len(<<>>) = 0 /\ <<>> \in Seq({<<>>})
  BY SMT
<1>2. Then("none", 0) \in Thens
  BY WrittenThen
<1>3. Typed
  BY SMT, <1>1, <1>2 DEF Init, Typed, Thens, SizesAreNumbers
<1>4. ASSUME NEW s \in Sessions PROVE Placed(s) /\ Counted(s) /\ Bounded(s)
  <2>1. at[s] = "off" /\ buf[s] = <<>> /\ wire[s] = <<>> /\ made[s] = 0 /\ sent[s] = 0
    BY DEF Init
  <2>. QED BY SMT, <1>1, <2>1, EmptyRun DEF Placed, Counted, Bounded, SizesAreNumbers
<1>. QED BY <1>3, <1>4 DEF IInv

(* Every step of a session keeps the invariant.                            *)
LEMMA NextInv ==
  ASSUME SizesAreNumbers, IInv, [Next]_vars
  PROVE  IInv'
<1>1. CASE UNCHANGED vars
  BY <1>1 DEF vars, IInv, Typed, Placed, Counted, Bounded, Plain, Behind, Position, Uncounted
<1>2. CASE Next
  <2>1. PICK s \in Sessions :
          \/ Open(s) \/ WriteSome(s) \/ WriteFails(s) \/ Answers(s) \/ HandlerFails(s) \/ Continues(s)
          \/ ReadBatch(s) \/ ReadEnd(s) \/ ReadFails(s) \/ EndBatch(s)
    BY <1>2 DEF Next
  <2>2. CASE Open(s)
    BY <2>2, OpenStep
  <2>3. CASE WriteSome(s)
    BY <2>3, WriteSomeStep
  <2>4. CASE WriteFails(s) \/ HandlerFails(s) \/ ReadFails(s) \/ Closed(s)
    BY <2>4, LeaveStep DEF WriteFails, HandlerFails, ReadFails, Closed
  <2>5. CASE Answers(s)
    <3>1. PICK k \in Sizes : Respond(s, k) \/ Quit(s, k) \/ RespondVectored(s, k) \/ RespondStored(s, k) \/ RespondFile(s, k)
      BY <2>5 DEF Answers
    <3>2. CASE Respond(s, k) \/ Quit(s, k)
      BY <3>2, RespondingStep DEF Respond, Quit
    <3>3. CASE RespondVectored(s, k)
      BY <3>3, AfterFlushStep DEF RespondVectored
    <3>4. CASE RespondStored(s, k)
      BY <3>4, AfterFlushStep DEF RespondStored
    <3>5. CASE RespondFile(s, k)
      BY <3>5, AfterFlushStep DEF RespondFile
    <3>. QED BY <3>1, <3>2, <3>3, <3>4, <3>5
  <2>6. CASE Continues(s)
    BY <2>4, <2>6, ToRead, ToBatch, ToWrite DEF Continues
  <2>7. CASE ReadBatch(s) \/ ReadEnd(s) \/ EndBatch(s)
    BY <2>7, BatchStep
  <2>. QED BY <2>1, <2>2, <2>3, <2>4, <2>5, <2>6, <2>7
<1>. QED BY <1>1, <1>2

(* The invariant gives what a session promises of its output.              *)
LEMMA InvGivesExact ==
  ASSUME SizesAreNumbers, IInv
  PROVE  WritesExact
<1>1. WireInOrder
  <2>1. ASSUME NEW s \in Sessions PROVE wire[s] = [i \in 1..Len(wire[s]) |-> <<s, i>>]
    <3> DEFINE w == wire[s]
               v == [i \in 1..Len(w) |-> <<s, i>>]
    <3>1. w \in Seq(Byte) /\ IsRun(w, s, 0)
      BY Values DEF IInv, Placed
    <3>2. \A i \in 1..Len(w) : w[i] = <<s, i>>
      BY SMT, <3>1 DEF IsRun
    <3>3. w = [i \in 1..Len(w) |-> w[i]]
      BY SMT, <3>1
    <3> HIDE DEF w
    <3>. QED BY <3>2, <3>3 DEF w
  <2>. QED BY <2>1 DEF WireInOrder
<1>2. NothingWithheld
  <2>1. ASSUME NEW s \in Sessions, at[s] = "read" PROVE buf[s] = <<>> /\ Len(wire[s]) = made[s]
    <3>1. Len(buf[s]) = 0 /\ Len(wire[s]) = made[s]
      BY <2>1 DEF IInv, Placed
    <3>. QED BY <3>1, Values, EmptyBuffer
  <2>. QED BY <2>1 DEF NothingWithheld
<1>3. SentIsWire
  <2>1. ASSUME NEW s \in Sessions, at[s] = "read" PROVE sent[s] = Len(wire[s])
    <3>1. sent[s] + 0 = made[s] /\ Len(wire[s]) = made[s]
      BY <2>1 DEF IInv, Placed, Counted, Uncounted
    <3>. QED BY SMT, <3>1, Numbers
  <2>. QED BY <2>1 DEF SentIsWire
<1>4. PoolsClean
  <2>1. ASSUME NEW q \in Seq({<<>>}) PROVE \A i \in DOMAIN q : q[i] = <<>>
    <3>1. \A i \in 1..Len(q) : q[i] \in {<<>>}
      BY ElementOfSeq
    <3>2. DOMAIN q = 1..Len(q)
      BY SMT
    <3>. QED BY <3>1, <3>2
  <2>2. /\ pool \in Seq({<<>>}) /\ Len(pool) <= MaxBuffers
        /\ spares \in Seq({<<>>}) /\ Len(spares) <= MaxBuffers
    BY DEF IInv, Typed
  <2>3. \A s \in Sessions : Len(buf[s]) <= Capacity
    BY Values
  <2>. QED BY <2>1, <2>2, <2>3 DEF PoolsClean
<1>. QED BY <1>1, <1>2, <1>3, <1>4 DEF WritesExact

(* Whatever mix of buffered, vectored, stored and file responses the       *)
(* sessions of serve_session_inner make, and however their peers take the  *)
(* bytes or fail: each wire carries that session's own bytes, once and in  *)
(* order, no answer is held back in PendingWrite while the session waits   *)
(* for commands, bytes_sent is what the peer has then, and the pools hold  *)
(* no bytes of anybody.                                                    *)
THEOREM ResponsesAreWrittenExactly ==
  ASSUME SizesAreNumbers
  PROVE  Spec => []WritesExact
<1>1. Init => IInv
  BY InitInv
<1>2. IInv /\ [Next]_vars => IInv'
  BY NextInv
<1>3. IInv => WritesExact
  BY InvGivesExact
<1>. QED BY <1>1, <1>2, <1>3, PTL DEF Spec
=============================================================================
