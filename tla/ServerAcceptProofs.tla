------------------------- MODULE ServerAcceptProofs -------------------------
(***************************************************************************)
(* Proofs about run_server for any number of sessions, connections and     *)
(* counters: the connection limit holds, and the counters of connections   *)
(* and errors are exact.  The argument counts the sessions in three sets,  *)
(* to which a step adds one session or from which it takes one.            *)
(***************************************************************************)
EXTENDS ServerAccept, FiniteSetTheorems, SequenceTheorems, TLAPS

(* The counters sessions publish are not those of run_server, and a batch  *)
(* adds to them.                                                           *)
ServerParameters ==
  /\ IsFiniteSet(Sessions) /\ MaxConnections \in Nat
  /\ Fields \in Seq(FieldSet)
  /\ \A i \in 1..Len(Fields) : Fields[i] \notin {"accepted", "refused", "active", "errors"}
  /\ \A b \in Batches : b \in [FieldSet -> Nat]

Typed ==
  /\ server \in {"select", "accepted", "active", "spawn", "returned"}
  /\ permits \in Nat /\ newcomer \in Sessions
  /\ at \in [Sessions -> {"none", "serving", "publish", "error", "inactive", "release"}]
  /\ closing \in [Sessions -> {"no", "ok", "error"}]
  /\ delta \in [Sessions -> [FieldSet -> Nat]]
  /\ next \in [Sessions -> Nat \ {0}]
  /\ stats \in [Counters -> Int] /\ snapshot \in [Counters -> Int] /\ previous \in [Counters -> Int]
  /\ loading \in Nat \ {0} /\ offered \in Int /\ failures \in Int

(* A newcomer has no task yet, and a session remembers how it ends only    *)
(* while it publishes.                                                     *)
Stages ==
  /\ server \in {"accepted", "active", "spawn"} => at[newcomer] = "none"
  /\ \A s \in Sessions : closing[s] # "no" => at[s] = "publish"

(* Sessions that active_connections counts.                                *)
Active == {s \in Sessions : at[s] \notin {"none", "release"}}

ActiveExact == stats["active"] = Cardinality(Active) + (IF server = "spawn" THEN 1 ELSE 0)

PermitsExact == permits + Cardinality(Alive) + SettingUp = MaxConnections

(* What the reporter has seen of a counter is not more than it shows.      *)
SeenBefore ==
  \A c \in Counters : c # "active" => snapshot[c] <= stats[c] /\ previous[c] <= stats[c]

IInv == Typed /\ Stages /\ ActiveExact /\ PermitsExact /\ CountsExact /\ SeenBefore /\ SnapshotsGrow

(* The steps are left to Zenon, those that say so to SMT.                   *)
USE ZenonT(30)

-----------------------------------------------------------------------------
(* Counters.                                                               *)
LEMMA Names ==
  ASSUME ServerParameters
  PROVE  /\ "accepted" \in Counters /\ "refused" \in Counters /\ "active" \in Counters /\ "errors" \in Counters
         /\ \A i \in 1..Len(Fields) : /\ Fields[i] \in Counters /\ Fields[i] \in FieldSet
                                      /\ Fields[i] \notin {"accepted", "refused", "active", "errors"}
         /\ Len(Loads) \in Nat /\ \A i \in 1..Len(Loads) : Loads[i] \in Counters
         /\ Len(Fields) \in Nat
<1> DEFINE own == <<"accepted", "refused", "active">>
           S == FieldSet \cup {"accepted", "refused", "active", "errors"}
<1>1. Fields \in Seq(S) /\ own \in Seq(S) /\ <<"errors">> \in Seq(S)
  <2>1. Fields \in Seq(FieldSet) /\ \A q \in Seq(FieldSet) : q \in Seq(S)
    BY SMT DEF ServerParameters
  <2>2. own \in Seq(S) /\ <<"errors">> \in Seq(S)
    BY SMT
  <2>. QED BY <2>1, <2>2
<1> HIDE DEF S
<1>2. own \o Fields \in Seq(S) /\ Len(own \o Fields) = 3 + Len(Fields)
  BY SMT, <1>1
<1>3. Loads \in Seq(S) /\ Len(Loads) = 3 + Len(Fields) + 1 /\ Len(Fields) \in Nat
  BY SMT, <1>1, <1>2 DEF Loads
<1>4. DOMAIN Loads = 1..Len(Loads)
  BY SMT, <1>3
<1>5. \A i \in 1..Len(Loads) : Loads[i] \in Counters
  BY <1>4 DEF Counters
<1>6. Loads[1] = "accepted" /\ Loads[2] = "refused" /\ Loads[3] = "active"
  <2>1. \A i \in 1..3 : Loads[i] = own[i]
    BY SMT, <1>1, <1>2 DEF Loads
  <2>. QED BY SMT, <2>1
<1>7. Loads[3 + Len(Fields) + 1] = "errors"
  BY SMT, <1>1, <1>2 DEF Loads
<1>8. ASSUME NEW i \in 1..Len(Fields) PROVE Fields[i] \in Counters /\ Fields[i] \in FieldSet
  <2>1. Loads[3 + i] = Fields[i]
    BY SMT, <1>1, <1>2 DEF Loads
  <2>2. 3 + i \in 1..Len(Loads) /\ DOMAIN Fields = 1..Len(Fields)
    BY SMT, <1>1, <1>3
  <2>. QED BY <1>5, <2>1, <2>2 DEF FieldSet
<1>9. 1 \in 1..Len(Loads) /\ 2 \in 1..Len(Loads) /\ 3 \in 1..Len(Loads) /\ 3 + Len(Fields) + 1 \in 1..Len(Loads)
  BY SMT, <1>3
<1>. QED BY SMT, <1>3, <1>5, <1>6, <1>7, <1>8, <1>9 DEF ServerParameters

(* fetch_add changes one counter.                                          *)
LEMMA Added ==
  ASSUME Typed, NEW c \in Counters, NEW n \in Int, Add(c, n)
  PROVE  /\ stats' \in [Counters -> Int] /\ stats'[c] = stats[c] + n
         /\ \A d \in Counters : d # c => stats'[d] = stats[d]
BY SMT DEF Typed, Add

(* Counters that only grow stay ahead of the reporter.                     *)
LEMMA GrowthIsSafe ==
  ASSUME Typed, Typed', SeenBefore, SnapshotsGrow, UNCHANGED <<snapshot, previous, loading>>,
         \A c \in Counters : c # "active" => stats'[c] >= stats[c]
  PROVE  SeenBefore' /\ SnapshotsGrow'
<1>1. ASSUME NEW c \in Counters, c # "active" PROVE snapshot'[c] <= stats'[c] /\ previous'[c] <= stats'[c]
  <2>1. stats'[c] >= stats[c] /\ snapshot[c] <= stats[c] /\ previous[c] <= stats[c]
    BY <1>1 DEF SeenBefore
  <2>2. stats[c] \in Int /\ stats'[c] \in Int /\ snapshot[c] \in Int /\ previous[c] \in Int
    BY DEF Typed
  <2>. QED BY SMT, <2>1, <2>2
<1>2. SeenBefore'
  BY <1>1 DEF SeenBefore
<1>. QED BY <1>2 DEF SnapshotsGrow

-----------------------------------------------------------------------------
(* Sets of sessions.                                                       *)
LEMMA OneMoves ==
  ASSUME IsFiniteSet(Sessions), NEW T \in SUBSET Sessions, NEW U \in SUBSET Sessions, NEW s \in Sessions,
         \A t \in Sessions : t # s => (t \in U <=> t \in T)
  PROVE  /\ Cardinality(T) \in Nat /\ Cardinality(U) \in Nat
         /\ (s \in T <=> s \in U) => Cardinality(U) = Cardinality(T)
         /\ s \notin T /\ s \in U => Cardinality(U) = Cardinality(T) + 1
         /\ s \in T /\ s \notin U => Cardinality(U) = Cardinality(T) - 1
<1>1. IsFiniteSet(T) /\ IsFiniteSet(U)
  BY FS_Subset
<1>2. Cardinality(T) \in Nat /\ Cardinality(U) \in Nat
  BY <1>1, FS_CardinalityType
<1>3. CASE s \in T <=> s \in U
  <2>1. T = U
    BY SMT, <1>3
  <2>. QED BY <1>2, <1>3, <2>1
<1>4. CASE s \notin T /\ s \in U
  <2>1. U = T \cup {s}
    BY <1>4
  <2>2. Cardinality(T \cup {s}) = Cardinality(T) + 1
    BY <1>1, <1>4, FS_AddElement
  <2>. QED BY <1>2, <1>4, <2>1, <2>2
<1>5. CASE s \in T /\ s \notin U
  <2>1. U = T \ {s}
    BY <1>5
  <2>2. Cardinality(T \ {s}) = Cardinality(T) - 1
    BY <1>1, <1>5, FS_RemoveElement
  <2>. QED BY <1>2, <1>5, <2>1, <2>2
<1>. QED BY <1>3, <1>4, <1>5

Alives == Cardinality(Alive)
Actives == Cardinality(Active)
Failings == Cardinality(Failing)

(* The numbers of sessions alive, active and failing.                      *)
LEMMA Sizes ==
  ASSUME ServerParameters
  PROVE  /\ Alives \in Nat /\ Actives \in Nat /\ Failings \in Nat
         /\ Actives <= Alives
<1>1. Alive \in SUBSET Sessions /\ Active \in SUBSET Alive /\ Failing \in SUBSET Sessions
  BY DEF Alive, Active, Failing
<1>2. IsFiniteSet(Alive) /\ IsFiniteSet(Failing)
  BY <1>1, FS_Subset DEF ServerParameters
<1>3. IsFiniteSet(Active) /\ Cardinality(Active) <= Cardinality(Alive)
  BY <1>1, <1>2, FS_Subset
<1>. QED BY <1>2, <1>3, FS_CardinalityType DEF Alives, Actives, Failings

(* A session goes to x, and closes as y says.                              *)
LEMMA SessionMoves ==
  ASSUME ServerParameters, Typed, NEW s \in Sessions,
         NEW x \in {"none", "serving", "publish", "error", "inactive", "release"}, NEW y \in {"no", "ok", "error"},
         at' = [at EXCEPT ![s] = x], closing' = [closing EXCEPT ![s] = y]
  PROVE  /\ (at[s] # "none" <=> x # "none") => Alives' = Alives
         /\ at[s] = "none" /\ x # "none" => Alives' = Alives + 1
         /\ at[s] # "none" /\ x = "none" => Alives' = Alives - 1
         /\ (at[s] \notin {"none", "release"} <=> x \notin {"none", "release"}) => Actives' = Actives
         /\ at[s] \in {"none", "release"} /\ x \notin {"none", "release"} => Actives' = Actives + 1
         /\ at[s] \notin {"none", "release"} /\ x \in {"none", "release"} => Actives' = Actives - 1
         /\ (closing[s] = "error" \/ at[s] = "error" <=> y = "error" \/ x = "error") => Failings' = Failings
         /\ ~(closing[s] = "error" \/ at[s] = "error") /\ (y = "error" \/ x = "error") => Failings' = Failings + 1
         /\ (closing[s] = "error" \/ at[s] = "error") /\ ~(y = "error" \/ x = "error") => Failings' = Failings - 1
         /\ Alives' \in Nat /\ Actives' \in Nat /\ Failings' \in Nat
<1>1. at'[s] = x /\ closing'[s] = y /\ \A t \in Sessions : t # s => at'[t] = at[t] /\ closing'[t] = closing[t]
  BY DEF Typed
<1>2. IsFiniteSet(Sessions)
  BY DEF ServerParameters
<1>3. /\ Alive \in SUBSET Sessions /\ Alive' \in SUBSET Sessions
      /\ \A t \in Sessions : t # s => (t \in Alive' <=> t \in Alive)
      /\ s \in Alive <=> at[s] # "none"
      /\ s \in Alive' <=> x # "none"
  BY <1>1 DEF Alive
<1>4. /\ Active \in SUBSET Sessions /\ Active' \in SUBSET Sessions
      /\ \A t \in Sessions : t # s => (t \in Active' <=> t \in Active)
      /\ s \in Active <=> at[s] \notin {"none", "release"}
      /\ s \in Active' <=> x \notin {"none", "release"}
  BY <1>1 DEF Active
<1>5. /\ Failing \in SUBSET Sessions /\ Failing' \in SUBSET Sessions
      /\ \A t \in Sessions : t # s => (t \in Failing' <=> t \in Failing)
      /\ s \in Failing <=> closing[s] = "error" \/ at[s] = "error"
      /\ s \in Failing' <=> y = "error" \/ x = "error"
  BY <1>1 DEF Failing
<1>6. /\ (s \in Alive <=> s \in Alive') => Cardinality(Alive') = Cardinality(Alive)
      /\ s \notin Alive /\ s \in Alive' => Cardinality(Alive') = Cardinality(Alive) + 1
      /\ s \in Alive /\ s \notin Alive' => Cardinality(Alive') = Cardinality(Alive) - 1
  BY <1>2, <1>3, OneMoves
<1>7. /\ (s \in Active <=> s \in Active') => Cardinality(Active') = Cardinality(Active)
      /\ s \notin Active /\ s \in Active' => Cardinality(Active') = Cardinality(Active) + 1
      /\ s \in Active /\ s \notin Active' => Cardinality(Active') = Cardinality(Active) - 1
  BY <1>2, <1>4, OneMoves
<1>8. /\ (s \in Failing <=> s \in Failing') => Cardinality(Failing') = Cardinality(Failing)
      /\ s \notin Failing /\ s \in Failing' => Cardinality(Failing') = Cardinality(Failing) + 1
      /\ s \in Failing /\ s \notin Failing' => Cardinality(Failing') = Cardinality(Failing) - 1
  BY <1>2, <1>5, OneMoves
<1>9. Alives' = Cardinality(Alive') /\ Actives' = Cardinality(Active') /\ Failings' = Cardinality(Failing')
  BY DEF Alives, Actives, Failings
<1>10. /\ (at[s] # "none" <=> x # "none") => Alives' = Alives
       /\ at[s] = "none" /\ x # "none" => Alives' = Alives + 1
       /\ at[s] # "none" /\ x = "none" => Alives' = Alives - 1
  BY <1>3, <1>6, <1>9 DEF Alives
<1>11. /\ (at[s] \notin {"none", "release"} <=> x \notin {"none", "release"}) => Actives' = Actives
       /\ at[s] \in {"none", "release"} /\ x \notin {"none", "release"} => Actives' = Actives + 1
       /\ at[s] \notin {"none", "release"} /\ x \in {"none", "release"} => Actives' = Actives - 1
  BY <1>4, <1>7, <1>9 DEF Actives
<1>12. /\ (closing[s] = "error" \/ at[s] = "error" <=> y = "error" \/ x = "error") => Failings' = Failings
       /\ ~(closing[s] = "error" \/ at[s] = "error") /\ (y = "error" \/ x = "error") => Failings' = Failings + 1
       /\ (closing[s] = "error" \/ at[s] = "error") /\ ~(y = "error" \/ x = "error") => Failings' = Failings - 1
  BY <1>5, <1>8, <1>9 DEF Failings
<1>13. Cardinality(Alive') \in Nat /\ Cardinality(Active') \in Nat /\ Cardinality(Failing') \in Nat
  BY <1>2, <1>3, <1>4, <1>5, OneMoves
<1>. QED BY <1>9, <1>10, <1>11, <1>12, <1>13

(* A step of the accept loop alone leaves those numbers.                   *)
LEMMA SessionsStay ==
  ASSUME UNCHANGED <<at, closing>>
  PROVE  Alives' = Alives /\ Actives' = Actives /\ Failings' = Failings
BY DEF Alives, Actives, Failings, Alive, Active, Failing

-----------------------------------------------------------------------------
(* The invariant in numbers.                                               *)
Spawning == IF server = "spawn" THEN 1 ELSE 0

Arriving == IF server = "accepted" THEN 1 ELSE 0

Balanced ==
  /\ stats["active"] = Actives + Spawning
  /\ permits + Alives + SettingUp = MaxConnections
  /\ failures = stats["errors"] + Failings
  /\ offered = stats["accepted"] + stats["refused"] + Arriving

(* The invariant restated in numbers.                                      *)
LEMMA InNumbers ==
  Balanced <=> ActiveExact /\ PermitsExact /\ CountsExact
BY
   DEF Balanced, ActiveExact, PermitsExact, CountsExact, Actives, Alives, Failings, Spawning, Arriving

(* Types of the numbers the invariant compares.                            *)
LEMMA NumbersTyped ==
  ASSUME ServerParameters, Typed
  PROVE  /\ Actives \in Nat /\ Alives \in Nat /\ Failings \in Nat /\ MaxConnections \in Nat /\ permits \in Nat
         /\ stats["active"] \in Int /\ stats["errors"] \in Int /\ stats["accepted"] \in Int /\ stats["refused"] \in Int
         /\ failures \in Int /\ offered \in Int
         /\ server \in {"select", "accepted", "active", "spawn", "returned"}
BY Sizes, Names DEF Typed, ServerParameters

(* The steps of run_server, which leave the sessions alone.                *)
LEMMA AcceptLoopStep ==
  ASSUME ServerParameters, IInv,
         (\E s \in Sessions : Accept(s)) \/ Refuse \/ CountAccepted \/ CountActive \/ Return
  PROVE  IInv'
<1>1. Typed /\ Stages /\ Balanced /\ SeenBefore /\ SnapshotsGrow
  BY InNumbers DEF IInv
<1>2. Alives' = Alives /\ Actives' = Actives /\ Failings' = Failings /\ UNCHANGED <<at, closing, delta, next, failures>>
  BY SessionsStay DEF Accept, Refuse, CountAccepted, CountActive, Return, session
<1>3. UNCHANGED <<snapshot, previous, loading>>
  BY DEF Accept, Refuse, CountAccepted, CountActive, Return, reporter
<1>4. \/ /\ server = "select" /\ server' = "accepted" /\ permits > 0 /\ permits' = permits - 1
         /\ offered' = offered + 1 /\ stats' = stats /\ newcomer' \in Sessions /\ at[newcomer'] = "none"
      \/ /\ server = "select" /\ server' = server /\ permits' = permits /\ offered' = offered + 1
         /\ Add("refused", 1) /\ newcomer' = newcomer
      \/ /\ server = "accepted" /\ server' = "active" /\ permits' = permits /\ offered' = offered
         /\ Add("accepted", 1) /\ newcomer' = newcomer
      \/ /\ server = "active" /\ server' = "spawn" /\ permits' = permits /\ offered' = offered
         /\ Add("active", 1) /\ newcomer' = newcomer
      \/ /\ server = "select" /\ server' = "returned" /\ permits' = permits /\ offered' = offered
         /\ stats' = stats /\ newcomer' = newcomer
  BY DEF Accept, Refuse, CountAccepted, CountActive, Return
<1>5. /\ stats' \in [Counters -> Int]
      /\ \A c \in Counters : c # "active" => stats'[c] >= stats[c]
      /\ stats'["errors"] = stats["errors"]
      /\ stats'["active"] = stats["active"] + (IF server = "active" THEN 1 ELSE 0)
      /\ stats'["accepted"] = stats["accepted"] + (IF server = "accepted" THEN 1 ELSE 0)
      /\ stats'["refused"] = stats["refused"] + (IF server = "select" /\ server' = "select" THEN 1 ELSE 0)
  <2>1. stats \in [Counters -> Int] /\ \A c \in Counters : stats[c] \in Int
    BY <1>1 DEF Typed
  <2>2. \A c \in Counters : stats[c] + 0 = stats[c] /\ stats[c] >= stats[c] /\ stats[c] + 1 >= stats[c]
    BY SMT, <2>1
  <2>3. CASE stats' = stats /\ server = "select" /\ server' # "select"
    BY <2>1, <2>2, <2>3, Names
  <2>4. CASE Add("refused", 1) /\ server = "select" /\ server' = "select"
    <3>1. /\ stats' \in [Counters -> Int] /\ stats'["refused"] = stats["refused"] + 1
          /\ \A d \in Counters : d # "refused" => stats'[d] = stats[d]
      BY SMT, <1>1, <2>4, Names, Added
    <3>. QED BY <2>2, <2>4, <3>1, Names
  <2>5. CASE Add("accepted", 1) /\ server = "accepted"
    <3>1. /\ stats' \in [Counters -> Int] /\ stats'["accepted"] = stats["accepted"] + 1
          /\ \A d \in Counters : d # "accepted" => stats'[d] = stats[d]
      BY SMT, <1>1, <2>5, Names, Added
    <3>. QED BY <2>2, <2>5, <3>1, Names
  <2>6. CASE Add("active", 1) /\ server = "active"
    <3>1. /\ stats' \in [Counters -> Int] /\ stats'["active"] = stats["active"] + 1
          /\ \A d \in Counters : d # "active" => stats'[d] = stats[d]
      BY SMT, <1>1, <2>6, Names, Added
    <3>. QED BY <2>2, <2>6, <3>1, Names
  <2>. QED BY <1>4, <2>3, <2>4, <2>5, <2>6
<1>6. Typed'
  <2>1. server' \in {"select", "accepted", "active", "spawn", "returned"} /\ newcomer' \in Sessions
    BY <1>1, <1>4 DEF Typed
  <2>2. permits' \in Nat /\ offered' \in Int
    BY SMT, <1>1, <1>4 DEF Typed
  <2>. QED BY <1>1, <1>2, <1>3, <1>5, <2>1, <2>2 DEF Typed
<1>7. Stages'
  BY <1>1, <1>2, <1>4 DEF Stages
<1>8. Balanced'
  <2>1. /\ stats'["active"] = Actives + (IF server' = "spawn" THEN 1 ELSE 0)
        /\ failures' = stats'["errors"] + Failings
    BY SMT, <1>1, <1>2, <1>4, <1>5, NumbersTyped DEF Balanced, Spawning
  <2>2. permits' + Alives + (IF server' \in {"accepted", "active", "spawn"} THEN 1 ELSE 0) = MaxConnections
    BY SMT, <1>1, <1>4, NumbersTyped DEF Balanced, SettingUp
  <2>3. offered' = stats'["accepted"] + stats'["refused"] + (IF server' = "accepted" THEN 1 ELSE 0)
    BY SMT, <1>1, <1>4, <1>5, NumbersTyped DEF Balanced, Arriving
  <2>. QED BY <1>2, <2>1, <2>2, <2>3 DEF Balanced, Spawning, Arriving, SettingUp
<1>9. SeenBefore' /\ SnapshotsGrow'
  BY <1>1, <1>3, <1>5, <1>6, GrowthIsSafe
<1>10. (ActiveExact /\ PermitsExact /\ CountsExact)'
  BY <1>8, InNumbers, PTL
<1>. QED BY <1>6, <1>7, <1>9, <1>10 DEF IInv

(* The reporter's.                                                         *)
LEMMA ReporterStep ==
  ASSUME ServerParameters, IInv, Load \/ Tick
  PROVE  IInv'
<1>1. Typed /\ Stages /\ Balanced /\ SeenBefore /\ SnapshotsGrow
  BY InNumbers DEF IInv
<1>2. UNCHANGED <<server, permits, newcomer, at, delta, next, closing, stats, offered, failures>>
  BY DEF Load, Tick, session
<1>3. Stages' /\ (ActiveExact /\ PermitsExact /\ CountsExact)'
  BY <1>2
     DEF IInv, Stages, ActiveExact, PermitsExact, CountsExact, Active, Alive, Failing, SettingUp
<1>4. CASE Load
  <2> DEFINE c == Loads[loading]
  <2>1. loading \in 1..Len(Loads) /\ loading \in Nat /\ Len(Loads) \in Nat
    BY SMT, <1>1, <1>4, Names DEF Load, Typed
  <2>2. c \in Counters
    BY <2>1, Names
  <2>3. snapshot' = [snapshot EXCEPT ![c] = stats[c]] /\ loading' = loading + 1 /\ previous' = previous
    BY <1>4 DEF Load
  <2>4. Typed'
    BY SMT, <1>1, <1>2, <2>1, <2>2, <2>3 DEF Typed
  <2>5. snapshot'[c] = stats[c] /\ \A d \in Counters : d # c => snapshot'[d] = snapshot[d]
    BY <1>1, <2>2, <2>3 DEF Typed
  <2>6. SeenBefore'
    <3>1. ASSUME NEW d \in Counters, d # "active" PROVE snapshot'[d] <= stats'[d] /\ previous'[d] <= stats'[d]
      <4>1. stats[d] \in Int /\ snapshot[d] <= stats[d] /\ previous[d] <= stats[d]
        BY <1>1, <3>1 DEF Typed, SeenBefore
      <4>. QED BY SMT, <1>2, <2>3, <2>5, <4>1
    <3>. QED BY <3>1 DEF SeenBefore
  <2>7. SnapshotsGrow'
    <3>1. ASSUME NEW i \in 1..(loading' - 1), Loads[i] # "active" PROVE snapshot'[Loads[i]] >= previous'[Loads[i]]
      <4>1. i \in 1..loading /\ i \in 1..Len(Loads)
        BY SMT, <2>1, <2>3
      <4>2. Loads[i] \in Counters
        BY <4>1, Names
      <4>3. CASE Loads[i] = c
        <5>1. previous[c] <= stats[c] /\ stats[c] \in Int /\ previous[c] \in Int
          BY <1>1, <2>2, <3>1, <4>3 DEF SeenBefore, Typed
        <5>. QED BY <2>3, <2>5, <4>3, <5>1
      <4>4. CASE Loads[i] # c
        <5>1. i \in 1..(loading - 1)
          BY SMT, <2>1, <4>1, <4>4
        <5>2. snapshot[Loads[i]] >= previous[Loads[i]]
          BY <1>1, <3>1, <5>1 DEF SnapshotsGrow
        <5>. QED BY <2>3, <2>5, <4>2, <4>4, <5>2
      <4>. QED BY <4>3, <4>4
    <3>. QED BY <3>1 DEF SnapshotsGrow
  <2>. QED BY <1>3, <2>4, <2>6, <2>7 DEF IInv
<1>5. CASE Tick
  <2>1. previous' = snapshot /\ loading' = 1 /\ snapshot' = snapshot
    BY <1>5 DEF Tick
  <2>2. Typed'
    BY SMT, <1>1, <1>2, <2>1 DEF Typed
  <2>3. SeenBefore'
    BY <1>1, <1>2, <2>1 DEF SeenBefore
  <2>4. SnapshotsGrow'
    BY SMT, <2>1 DEF SnapshotsGrow
  <2>. QED BY <1>3, <2>2, <2>3, <2>4 DEF IInv
<1>. QED BY <1>4, <1>5

-----------------------------------------------------------------------------
(* The steps of a task: session s goes to x and closes as y says, and the  *)
(* counter c grows by n.                                                   *)
LEMMA TaskStep ==
  ASSUME ServerParameters, IInv, NEW s \in Sessions,
         NEW x \in {"none", "serving", "publish", "error", "inactive", "release"}, NEW y \in {"no", "ok", "error"},
         at' = [at EXCEPT ![s] = x], closing' = [closing EXCEPT ![s] = y],
         at[s] # "none", y # "no" => x = "publish",
         UNCHANGED <<server, newcomer, snapshot, previous, loading, offered>>,
         delta' \in [Sessions -> [FieldSet -> Nat]], next' \in [Sessions -> Nat \ {0}],
         permits' = permits + (IF x = "none" THEN 1 ELSE 0),
         stats' \in [Counters -> Int], failures' \in Int,
         \A c \in Counters : c # "active" => stats'[c] >= stats[c],
         stats'["accepted"] = stats["accepted"], stats'["refused"] = stats["refused"],
         stats'["active"] + Actives = stats["active"] + Actives',
         (failures' - stats'["errors"]) + Failings = (failures - stats["errors"]) + Failings'
  PROVE  IInv'
<1>1. Typed /\ Stages /\ Balanced /\ SeenBefore /\ SnapshotsGrow
  BY InNumbers DEF IInv
<1>2. Typed'
  <2>1. permits' \in Nat
    BY SMT, <1>1 DEF Typed
  <2>2. /\ at' \in [Sessions -> {"none", "serving", "publish", "error", "inactive", "release"}]
        /\ closing' \in [Sessions -> {"no", "ok", "error"}]
    BY <1>1 DEF Typed
  <2>. QED BY <1>1, <2>1, <2>2 DEF Typed
<1>3. Stages'
  <2>1. at'[s] = x /\ closing'[s] = y /\ \A t \in Sessions : t # s => at'[t] = at[t] /\ closing'[t] = closing[t]
    BY <1>1 DEF Typed
  <2>2. server \in {"accepted", "active", "spawn"} => newcomer # s /\ newcomer \in Sessions /\ at[newcomer] = "none"
    BY <1>1 DEF Stages, Typed
  <2>. QED BY <1>1, <2>1, <2>2 DEF Stages
<1>4. Balanced'
  <2>1. /\ x # "none" => Alives' = Alives
        /\ x = "none" => Alives' = Alives - 1
    BY <1>1, SessionMoves
  <2>2. Alives \in Nat /\ Actives \in Nat /\ Failings \in Nat
    BY Sizes
  <2>3. Alives' \in Nat /\ Actives' \in Nat /\ Failings' \in Nat
    BY <1>1, SessionMoves
  <2>4. stats'["active"] \in Int /\ stats'["errors"] \in Int
    BY Names
  <2>5. permits' + Alives' + SettingUp = MaxConnections
    BY SMT, <1>1, <2>1, <2>2, NumbersTyped DEF Balanced, SettingUp
  <2>6. stats'["active"] = Actives' + Spawning
    <3>1. stats["active"] = Actives + Spawning /\ Spawning \in Int /\ stats["active"] \in Int
      BY SMT, <1>1, NumbersTyped DEF Balanced, Spawning
    <3> DEFINE a == stats["active"]
               b == stats'["active"]
               p == Actives
               q == Actives'
    <3>2. /\ a \in Int /\ b \in Int /\ p \in Nat /\ q \in Nat /\ Spawning \in Int
          /\ a = p + Spawning /\ b + p = a + q
      BY <2>2, <2>3, <2>4, <3>1
    <3> HIDE DEF a, b, p, q
    <3>3. b = q + Spawning
      BY SMT, <3>2
    <3>. QED BY <3>3 DEF b, q
  <2>7. failures' = stats'["errors"] + Failings'
    <3>1. failures = stats["errors"] + Failings /\ failures \in Int /\ stats["errors"] \in Int
      BY <1>1, NumbersTyped DEF Balanced
    <3> DEFINE f == failures
               g == failures'
               e == stats["errors"]
               d == stats'["errors"]
               p == Failings
               q == Failings'
    <3>2. /\ f \in Int /\ g \in Int /\ e \in Int /\ d \in Int /\ p \in Nat /\ q \in Nat
          /\ f = e + p /\ (g - d) + p = (f - e) + q
      BY <2>2, <2>3, <2>4, <3>1
    <3> HIDE DEF f, g, e, d, p, q
    <3>3. g = d + q
      BY SMT, <3>2
    <3>. QED BY <3>3 DEF g, d, q
  <2>8. offered' = stats'["accepted"] + stats'["refused"] + Arriving
    BY <1>1 DEF Balanced
  <2>9. SettingUp' = SettingUp /\ Spawning' = Spawning /\ Arriving' = Arriving
    BY DEF SettingUp, Spawning, Arriving
  <2>. QED BY <2>5, <2>6, <2>7, <2>8, <2>9 DEF Balanced
<1>5. SeenBefore' /\ SnapshotsGrow'
  BY <1>1, <1>2, GrowthIsSafe
<1>6. (ActiveExact /\ PermitsExact /\ CountsExact)'
  BY <1>4, InNumbers, PTL
<1>. QED BY <1>2, <1>3, <1>5, <1>6 DEF IInv

(* A task of a live session that changes no count of sessions or errors.   *)
LEMMA QuietStep ==
  ASSUME ServerParameters, IInv, NEW s \in Sessions,
         NEW x \in {"serving", "publish", "error", "inactive"}, NEW y \in {"no", "ok", "error"},
         at' = [at EXCEPT ![s] = x], closing' = [closing EXCEPT ![s] = y],
         at[s] \notin {"none", "release"}, y # "no" => x = "publish",
         UNCHANGED <<server, newcomer, snapshot, previous, loading, offered, permits, failures>>,
         delta' \in [Sessions -> [FieldSet -> Nat]], next' \in [Sessions -> Nat \ {0}],
         stats' \in [Counters -> Int],
         \A c \in Counters : c # "active" => stats'[c] >= stats[c],
         \A c \in {"accepted", "refused", "active", "errors"} : stats'[c] = stats[c],
         closing[s] = "error" \/ at[s] = "error" <=> y = "error" \/ x = "error"
  PROVE  IInv'
<1>1. Typed
  BY DEF IInv
<1>2. Actives' = Actives /\ Failings' = Failings
  BY <1>1, SessionMoves
<1>3. permits' = permits + (IF x = "none" THEN 1 ELSE 0) /\ failures' \in Int
  BY SMT, <1>1 DEF Typed
<1>4. /\ stats'["active"] + Actives = stats["active"] + Actives'
      /\ (failures' - stats'["errors"]) + Failings = (failures - stats["errors"]) + Failings'
  BY <1>2
<1>. QED BY <1>3, <1>4, TaskStep

(* A batch served, or a session that ends well, keeps the invariant.       *)
LEMMA ServeStep ==
  ASSUME ServerParameters, IInv, NEW s \in Sessions, ServeBatch(s) \/ EndSession(s)
  PROVE  IInv'
<1>1. Typed /\ Stages /\ at[s] = "serving" /\ closing[s] = "no"
  BY DEF IInv, ServeBatch, EndSession, Task, Stages, Typed
<1>2. at' = [at EXCEPT ![s] = "publish"] /\ next' = [next EXCEPT ![s] = 1]
  BY DEF ServeBatch, EndSession
<1>3. UNCHANGED <<server, newcomer, snapshot, previous, loading, offered, permits, failures, stats>>
  BY DEF ServeBatch, EndSession, reporter
<1>4. next' \in [Sessions -> Nat \ {0}] /\ stats' \in [Counters -> Int]
  BY SMT, <1>1, <1>2, <1>3 DEF Typed
<1>5. /\ \A c \in Counters : c # "active" => stats'[c] >= stats[c]
      /\ \A c \in {"accepted", "refused", "active", "errors"} : stats'[c] = stats[c]
  BY SMT, <1>1, <1>3 DEF Typed
<1>6. CASE ServeBatch(s)
  <2>1. PICK b \in Batches : delta' = [delta EXCEPT ![s] = [f \in FieldSet |-> @[f] + b[f]]]
    BY <1>6 DEF ServeBatch
  <2>2. \A f \in FieldSet : b[f] \in Nat /\ delta[s][f] \in Nat
    BY <1>1 DEF ServerParameters, Typed
  <2>3. delta' \in [Sessions -> [FieldSet -> Nat]]
    BY SMT, <1>1, <2>1, <2>2 DEF Typed
  <2>4. closing' = [closing EXCEPT ![s] = "no"]
    BY <1>1, <1>6 DEF ServeBatch, Typed
  <2>. QED BY <1>1, <1>2, <1>3, <1>4, <1>5, <2>3, <2>4, QuietStep
<1>7. CASE EndSession(s)
  <2>1. delta' \in [Sessions -> [FieldSet -> Nat]] /\ closing' = [closing EXCEPT ![s] = "ok"]
    BY <1>1, <1>7 DEF EndSession, Typed
  <2>. QED BY <1>1, <1>2, <1>3, <1>4, <1>5, <2>1, QuietStep
<1>. QED BY <1>6, <1>7

(* A session that ends with an error keeps the invariant.                  *)
LEMMA FailStep ==
  ASSUME ServerParameters, IInv, NEW s \in Sessions, FailSession(s)
  PROVE  IInv'
<1>1. Typed /\ at[s] = "serving" /\ closing[s] = "no"
  BY DEF IInv, FailSession, Task, Stages, Typed
<1>2. /\ at' = [at EXCEPT ![s] = "publish"] /\ closing' = [closing EXCEPT ![s] = "error"]
      /\ next' = [next EXCEPT ![s] = 1] /\ failures' = failures + 1
  BY DEF FailSession
<1>3. UNCHANGED <<server, newcomer, snapshot, previous, loading, offered, permits, stats>>
  BY DEF FailSession, reporter
<1>4. PICK b \in Batches \cup {Zero(FieldSet)} : delta' = [delta EXCEPT ![s] = [f \in FieldSet |-> @[f] + b[f]]]
  BY DEF FailSession
<1>5. \A f \in FieldSet : b[f] \in Nat /\ delta[s][f] \in Nat
  BY SMT, <1>1 DEF ServerParameters, Typed, Zero
<1>6. /\ delta' \in [Sessions -> [FieldSet -> Nat]] /\ next' \in [Sessions -> Nat \ {0}]
      /\ stats' \in [Counters -> Int] /\ failures' \in Int
  BY SMT, <1>1, <1>2, <1>3, <1>4, <1>5 DEF Typed
<1>7. /\ \A c \in Counters : c # "active" => stats'[c] >= stats[c]
      /\ stats'["accepted"] = stats["accepted"] /\ stats'["refused"] = stats["refused"]
      /\ permits' = permits + 0
  BY SMT, <1>1, <1>3 DEF Typed
<1>8. Actives' = Actives /\ Failings' = Failings + 1 /\ Failings \in Nat
  BY <1>1, <1>2, SessionMoves, Sizes
<1>9. /\ stats'["active"] + Actives = stats["active"] + Actives'
      /\ (failures' - stats'["errors"]) + Failings = (failures - stats["errors"]) + Failings'
  <2>1. failures \in Int /\ stats["errors"] \in Int
    BY <1>1, NumbersTyped
  <2>. QED BY SMT, <1>2, <1>3, <1>8, <2>1
<1>. QED BY <1>1, <1>2, <1>3, <1>6, <1>7, <1>9, TaskStep

(* Adding one counter of a session to ServerStats keeps the invariant.     *)
LEMMA PublishStep ==
  ASSUME ServerParameters, IInv, NEW s \in Sessions, PublishField(s)
  PROVE  IInv'
<1> DEFINE f == Fields[next[s]]
<1>1. Typed /\ Stages /\ at[s] = "publish" /\ next[s] \in Nat \ {0} /\ next[s] <= Len(Fields)
  BY DEF IInv, PublishField, Task, Typed
<1>2. next[s] \in 1..Len(Fields)
  BY SMT, <1>1, Names
<1>3. f \in Counters /\ f \in FieldSet /\ f \notin {"accepted", "refused", "active", "errors"}
  BY <1>2, Names
<1>4. delta[s][f] \in Nat
  BY <1>1, <1>3 DEF Typed
<1>5. Add(f, delta[s][f]) /\ next' = [next EXCEPT ![s] = @ + 1]
  BY DEF PublishField
<1>6. UNCHANGED <<server, newcomer, snapshot, previous, loading, offered, permits, failures, delta, at, closing>>
  BY DEF PublishField, reporter
<1> HIDE DEF f
<1>7. /\ stats' \in [Counters -> Int] /\ stats'[f] = stats[f] + delta[s][f]
      /\ \A d \in Counters : d # f => stats'[d] = stats[d]
  BY SMT, <1>1, <1>3, <1>4, <1>5, Added
<1>8. \A c \in Counters : c # "active" => stats'[c] >= stats[c]
  <2>1. \A c \in Counters : stats[c] \in Int
    BY <1>1 DEF Typed
  <2>. QED BY SMT, <1>3, <1>4, <1>7, <2>1
<1>9. \A c \in {"accepted", "refused", "active", "errors"} : stats'[c] = stats[c]
  BY <1>3, <1>7, Names
<1>10. /\ at' = [at EXCEPT ![s] = "publish"] /\ closing' = [closing EXCEPT ![s] = closing[s]]
       /\ closing[s] \in {"no", "ok", "error"}
       /\ delta' \in [Sessions -> [FieldSet -> Nat]] /\ next' \in [Sessions -> Nat \ {0}]
  BY SMT, <1>1, <1>5, <1>6 DEF Typed
<1>. QED BY <1>1, <1>6, <1>7, <1>8, <1>9, <1>10, QuietStep

(* The end of publish_stats keeps the invariant.                           *)
LEMMA PublishedStep ==
  ASSUME ServerParameters, IInv, NEW s \in Sessions, Published(s)
  PROVE  IInv'
<1> DEFINE x == IF closing[s] = "no" THEN "serving" ELSE IF closing[s] = "ok" THEN "inactive" ELSE "error"
<1>1. Typed /\ at[s] = "publish" /\ closing[s] \in {"no", "ok", "error"}
  BY DEF IInv, Published, Task, Typed
<1>2. UNCHANGED <<server, newcomer, snapshot, previous, loading, offered, permits, failures, stats>>
  BY DEF Published, reporter
<1>3. /\ at' = [at EXCEPT ![s] = x] /\ closing' = [closing EXCEPT ![s] = "no"]
      /\ delta' = [delta EXCEPT ![s] = Zero(FieldSet)] /\ next' = [next EXCEPT ![s] = 1]
  BY <1>1 DEF Published
<1>4. /\ x \in {"serving", "inactive", "error"} /\ (closing[s] = "error" <=> x = "error")
  BY <1>1
<1> HIDE DEF x
<1>5. /\ delta' \in [Sessions -> [FieldSet -> Nat]] /\ next' \in [Sessions -> Nat \ {0}]
      /\ stats' \in [Counters -> Int]
  BY SMT, <1>1, <1>2, <1>3 DEF Typed, Zero
<1>6. /\ \A c \in Counters : c # "active" => stats'[c] >= stats[c]
      /\ \A c \in {"accepted", "refused", "active", "errors"} : stats'[c] = stats[c]
  BY SMT, <1>1, <1>2 DEF Typed
<1>. QED BY <1>1, <1>2, <1>3, <1>4, <1>5, <1>6, QuietStep

(* A task counts its error, counts itself out and drops its permit.        *)
LEMMA EndStep ==
  ASSUME ServerParameters, IInv, NEW s \in Sessions, CountError(s) \/ CountInactive(s) \/ Release(s)
  PROVE  IInv'
<1>1. Typed /\ Stages /\ at[s] \in {"error", "inactive", "release"} /\ closing[s] = "no"
  BY DEF IInv, CountError, CountInactive, Release, Task, Stages, Typed
<1>2. UNCHANGED <<server, newcomer, snapshot, previous, loading, offered, failures, delta, next>>
  BY DEF CountError, CountInactive, Release, reporter
<1>3. /\ closing' = [closing EXCEPT ![s] = "no"] /\ failures' \in Int
      /\ delta' \in [Sessions -> [FieldSet -> Nat]] /\ next' \in [Sessions -> Nat \ {0}]
  BY <1>1, <1>2 DEF Typed, CountError, CountInactive, Release
<1>4. \A c \in Counters : stats[c] \in Int
  BY <1>1 DEF Typed
<1>5. Actives \in Nat /\ Failings \in Nat /\ failures \in Int /\ stats["errors"] \in Int /\ stats["active"] \in Int
  BY <1>1, NumbersTyped
<1>6. CASE CountError(s)
  <2>1. at[s] = "error" /\ at' = [at EXCEPT ![s] = "inactive"] /\ Add("errors", 1) /\ permits' = permits
    BY <1>6 DEF CountError, Task
  <2>2. /\ stats' \in [Counters -> Int] /\ stats'["errors"] = stats["errors"] + 1
        /\ \A d \in Counters : d # "errors" => stats'[d] = stats[d]
    BY SMT, <1>1, <2>1, Added, Names
  <2>3. /\ \A c \in Counters : c # "active" => stats'[c] >= stats[c]
        /\ stats'["accepted"] = stats["accepted"] /\ stats'["refused"] = stats["refused"]
        /\ stats'["active"] = stats["active"] /\ permits' = permits + 0
    <3>1. \A c \in Counters : c # "active" => stats'[c] >= stats[c]
      BY SMT, <1>4, <2>2
    <3>2. permits' = permits + 0
      BY SMT, <1>1, <2>1 DEF Typed
    <3>. QED BY <2>2, <3>1, <3>2, Names
  <2>4. Actives' = Actives /\ Failings' = Failings - 1
    BY <1>1, <1>3, <2>1, SessionMoves
  <2>5. /\ stats'["active"] + Actives = stats["active"] + Actives'
        /\ (failures' - stats'["errors"]) + Failings = (failures - stats["errors"]) + Failings'
    BY SMT, <1>2, <1>5, <2>2, <2>3, <2>4
  <2>. QED BY <1>1, <1>2, <1>3, <2>1, <2>2, <2>3, <2>5, TaskStep
<1>7. CASE CountInactive(s)
  <2>1. at[s] = "inactive" /\ at' = [at EXCEPT ![s] = "release"] /\ Add("active", -1) /\ permits' = permits
    BY <1>7 DEF CountInactive, Task
  <2>2. /\ stats' \in [Counters -> Int] /\ stats'["active"] = stats["active"] - 1
        /\ \A d \in Counters : d # "active" => stats'[d] = stats[d]
    BY SMT, <1>1, <1>5, <2>1, Added, Names
  <2>3. /\ \A c \in Counters : c # "active" => stats'[c] >= stats[c]
        /\ stats'["accepted"] = stats["accepted"] /\ stats'["refused"] = stats["refused"]
        /\ stats'["errors"] = stats["errors"] /\ permits' = permits + 0
    <3>1. \A c \in Counters : c # "active" => stats'[c] >= stats[c]
      BY SMT, <1>4, <2>2
    <3>2. permits' = permits + 0
      BY SMT, <1>1, <2>1 DEF Typed
    <3>. QED BY <2>2, <3>1, <3>2, Names
  <2>4. Actives' = Actives - 1 /\ Failings' = Failings
    BY <1>1, <1>3, <2>1, SessionMoves
  <2>5. /\ stats'["active"] + Actives = stats["active"] + Actives'
        /\ (failures' - stats'["errors"]) + Failings = (failures - stats["errors"]) + Failings'
    BY SMT, <1>2, <1>5, <2>2, <2>3, <2>4
  <2>. QED BY <1>1, <1>2, <1>3, <2>1, <2>2, <2>3, <2>5, TaskStep
<1>8. CASE Release(s)
  <2>1. at[s] = "release" /\ at' = [at EXCEPT ![s] = "none"] /\ stats' = stats /\ permits' = permits + 1
    BY <1>8 DEF Release, Task
  <2>2. stats' \in [Counters -> Int] /\ \A c \in Counters : c # "active" => stats'[c] >= stats[c]
    BY SMT, <1>1, <1>4, <2>1 DEF Typed
  <2>3. Actives' = Actives /\ Failings' = Failings
    BY <1>1, <1>3, <2>1, SessionMoves
  <2>4. /\ stats'["active"] + Actives = stats["active"] + Actives'
        /\ (failures' - stats'["errors"]) + Failings = (failures - stats["errors"]) + Failings'
    BY <1>2, <2>1, <2>3
  <2>. QED BY <1>1, <1>2, <1>3, <2>1, <2>2, <2>4, TaskStep
<1>. QED BY <1>6, <1>7, <1>8

(* The newcomer gets its task.                                             *)
LEMMA SpawnStep ==
  ASSUME ServerParameters, IInv, Spawn
  PROVE  IInv'
<1> DEFINE s == newcomer
<1>1. Typed /\ Stages /\ Balanced /\ SeenBefore /\ SnapshotsGrow
  BY InNumbers DEF IInv
<1>2. server = "spawn" /\ s \in Sessions /\ at[s] = "none" /\ closing[s] = "no"
  BY <1>1 DEF Spawn, Stages, Typed
<1>3. /\ server' = "select" /\ at' = [at EXCEPT ![s] = "serving"] /\ delta' = [delta EXCEPT ![s] = Zero(FieldSet)]
      /\ UNCHANGED <<permits, newcomer, next, closing, stats, snapshot, previous, loading, offered, failures>>
  BY DEF Spawn, reporter
<1>4. closing' = [closing EXCEPT ![s] = "no"]
  BY <1>1, <1>2, <1>3 DEF Typed
<1>5. Typed'
  <2>1. delta' \in [Sessions -> [FieldSet -> Nat]]
    BY <1>1, <1>3 DEF Typed, Zero
  <2>. QED BY <1>1, <1>3, <2>1 DEF Typed
<1>6. Stages'
  BY <1>1, <1>2, <1>3 DEF Stages, Typed
<1>7. Alives' = Alives + 1 /\ Actives' = Actives + 1 /\ Failings' = Failings
  BY <1>1, <1>2, <1>3, <1>4, SessionMoves
<1>8. Balanced'
  <2>1. Spawning = 1 /\ SettingUp = 1 /\ Arriving = 0
    BY <1>2 DEF Spawning, SettingUp, Arriving
  <2>2. Spawning' = 0 /\ SettingUp' = 0 /\ Arriving' = 0
    BY <1>3 DEF Spawning, SettingUp, Arriving
  <2>3. stats'["active"] = Actives' + Spawning' /\ permits' + Alives' + SettingUp' = MaxConnections
    BY SMT, <1>1, <1>3, <1>7, <2>1, <2>2, NumbersTyped DEF Balanced
  <2>4. failures' = stats'["errors"] + Failings' /\ offered' = stats'["accepted"] + stats'["refused"] + Arriving'
    BY <1>1, <1>3, <1>7, <2>1, <2>2 DEF Balanced
  <2>. QED BY <2>3, <2>4 DEF Balanced
<1>9. SeenBefore' /\ SnapshotsGrow'
  BY <1>1, <1>3 DEF SeenBefore, SnapshotsGrow
<1>10. (ActiveExact /\ PermitsExact /\ CountsExact)'
  BY <1>8, InNumbers, PTL
<1>. QED BY <1>5, <1>6, <1>9, <1>10 DEF IInv

-----------------------------------------------------------------------------
(* Before the first connection all counters are zero.                      *)
LEMMA InitInv ==
  ASSUME ServerParameters, Init
  PROVE  IInv
<1>1. Typed
  BY SMT DEF Init, Typed, Zero, ServerParameters
<1>2. Stages /\ SeenBefore
  BY SMT DEF Init, Stages, SeenBefore, Zero
<1>3. SnapshotsGrow
  BY SMT DEF Init, SnapshotsGrow
<1>4. Active = {} /\ Alive = {} /\ Failing = {}
  BY DEF Init, Active, Alive, Failing
<1>5. Cardinality(Active) = 0 /\ Cardinality(Alive) = 0 /\ Cardinality(Failing) = 0
  BY <1>4, FS_EmptySet
<1>6. \A c \in {"accepted", "refused", "active", "errors"} : stats[c] = 0
  BY Names DEF Init, Zero
<1>7. server = "select" /\ permits = MaxConnections /\ offered = 0 /\ failures = 0
  BY DEF Init
<1>8. ActiveExact /\ PermitsExact /\ CountsExact
  BY SMT, <1>5, <1>6, <1>7
     DEF ActiveExact, PermitsExact, CountsExact, SettingUp, ServerParameters
<1>. QED BY <1>1, <1>2, <1>3, <1>8 DEF IInv

(* Every step of the accept loop and of the sessions keeps the invariant.  *)
LEMMA NextInv ==
  ASSUME ServerParameters, IInv, [Next]_vars
  PROVE  IInv'
<1>1. CASE UNCHANGED vars
  BY <1>1
     DEF vars, IInv, Typed, Stages, ActiveExact, PermitsExact, CountsExact, SeenBefore, SnapshotsGrow,
              Active, Alive, Failing, SettingUp
<1>2. CASE \E s \in Sessions : ServeBatch(s) \/ TaskSteps(s)
  BY <1>2, ServeStep, FailStep, PublishStep, PublishedStep, EndStep DEF TaskSteps
<1>3. CASE (\E s \in Sessions : Accept(s)) \/ Refuse \/ CountAccepted \/ CountActive \/ Return
  BY <1>3, AcceptLoopStep
<1>4. CASE Spawn
  BY <1>4, SpawnStep
<1>5. CASE Load \/ Tick
  BY <1>5, ReporterStep
<1>. QED BY <1>1, <1>2, <1>3, <1>4, <1>5 DEF Next, AcceptSteps, Returned

(* The invariant bounds the active connections.                            *)
LEMMA InvGivesBound ==
  ASSUME ServerParameters, IInv
  PROVE  ActiveBound
<1>1. Typed /\ Balanced /\ PermitsExact
  BY InNumbers DEF IInv
<1>2. Actives + Spawning <= Alives + SettingUp
  BY SMT, Sizes DEF Spawning, SettingUp
<1>3. stats["active"] <= MaxConnections
  BY SMT, <1>1, <1>2, NumbersTyped DEF Balanced, Spawning, SettingUp
<1>. QED BY <1>1, <1>3 DEF ActiveBound, PermitsExact

(* The inductive invariant of the accept loop holds throughout.            *)
THEOREM IInvHolds ==
  ASSUME ServerParameters
  PROVE  Spec => []IInv
<1>1. Init => IInv
  BY InitInv
<1>2. IInv /\ [Next]_vars => IInv'
  BY NextInv
<1>. QED BY <1>1, <1>2, PTL DEF Spec

(* run_server never serves more than max_connections sessions: the permits *)
(* that are out are those of live tasks and of the connection being set    *)
(* up, and active_connections never shows more, because a task counts      *)
(* itself out before it drops its permit.                                  *)
THEOREM LimitHolds ==
  ASSUME ServerParameters
  PROVE  Spec => []ActiveBound
<1>1. IInv => ActiveBound
  BY InvGivesBound
<1>. QED BY <1>1, IInvHolds, PTL

(* Every session that failed and every connection offered is counted once, *)
(* and no difference Snapshot::print takes between two snapshots, loaded   *)
(* counter by counter while sessions publish, can go below zero.           *)
THEOREM CountsAreExact ==
  ASSUME ServerParameters
  PROVE  Spec => [](CountsExact /\ SnapshotsGrow)
<1>1. IInv => CountsExact /\ SnapshotsGrow
  BY DEF IInv
<1>. QED BY <1>1, IInvHolds, PTL
=============================================================================
