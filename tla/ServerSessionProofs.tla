------------------------ MODULE ServerSessionProofs -------------------------
(***************************************************************************)
(* Proofs about the mock server's sessions, for every article directory    *)
(* and every set of commands: a session is a cursor over the catalogue of  *)
(* groups, every command has its one answer, and answers name the article  *)
(* the pointer is at.                                                      *)
(***************************************************************************)
EXTENDS ServerSession, FiniteSetTheorems, WellFoundedInduction, TLAPS

(* The pointer is on an article of the group, at 0 when it has none.       *)
OnArticle(s) == IF GroupArticles(s) = {} THEN s.current = 0 ELSE s.current \in GroupArticles(s)

(* A session without a group is the first one, one with a group has a      *)
(* group of the fixtures or, when there is an index, of the index.         *)
SessionOK(s) ==
  /\ s = [chosen |-> s.chosen, kind |-> s.kind, group |-> s.group, current |-> s.current]
  /\ s.chosen \in BOOLEAN /\ s.kind \in {"none", "Fixture", "Indexed"} /\ s.current \in Nat
  /\ s.chosen <=> s.kind # "none"
  /\ s.kind = "none" => s.group = "" /\ s.current = 0
  /\ s.kind = "Fixture" => s.group \in FixtureGroups
  /\ s.kind = "Indexed" => indexed /\ s.group \in DOMAIN Index.groups
  /\ OnArticle(s)

(* The inductive invariant: the configuration and the session.             *)
SessionInv == dir \in BOOLEAN /\ indexed \in BOOLEAN /\ (indexed => dir) /\ SessionOK(session)

(* The steps are left to Zenon, those that say so to SMT.                  *)
USE ZenonT(30)

-----------------------------------------------------------------------------
(* Article numbers.                                                        *)

(* A set of article numbers has a least one: what FirstOf takes.           *)
LEMMA LeastNumber ==
  ASSUME NEW S \in SUBSET Nat, S # {}
  PROVE  Min(S) \in S /\ \A n \in S : Min(S) <= n
  <1> DEFINE R == OpToRel(<, Nat)
  <1>0. R = {ss \in Nat \X Nat : ss[1] < ss[2]}
    BY DEF OpToRel
  <1>1. IsWellFoundedOn(R, Nat)
    BY NatLessThanWellFounded
  <1> HIDE DEF R
  <1>2. PICK x \in S : \A y \in S : ~(<<y, x>> \in R)
    BY <1>1, WFMin
  <1>3. \A y \in S : x <= y
    <2>1. \A y \in Nat : y < x => <<y, x>> \in R
      BY <1>0
    <2>2. \A y \in S : ~(y < x)
      BY <1>2, <2>1
    <2> QED BY SMT, <2>2
  <1> QED BY <1>3 DEF Min

(* A set of numbers below a bound has a largest one: what LAST moves to.   *)
LEMMA LargestNumber ==
  ASSUME NEW S \in SUBSET Nat, S # {}, NEW b \in Nat, \A n \in S : n < b
  PROVE  Max(S) \in S /\ \A n \in S : n <= Max(S)
  <1> DEFINE D == {b - n : n \in S}
  <1>1. D \in SUBSET Nat /\ D # {}
    <2>1. \A n \in S : b - n \in Nat
      BY SMT
    <2> QED BY <2>1
  <1>2. Min(D) \in D /\ \A d \in D : Min(D) <= d
    BY <1>1, LeastNumber
  <1>3. PICK m \in S : Min(D) = b - m
    BY <1>2
  <1>4. \A n \in S : m >= n
    <2>1. SUFFICES ASSUME NEW n \in S PROVE m >= n
      OBVIOUS
    <2>2. b - m <= b - n
      BY <1>2, <1>3
    <2> QED BY SMT, <2>2
  <1> QED BY <1>4 DEF Max

(* The groups of the index and their articles.                             *)
LEMMA IndexGroups ==
  ASSUME NEW g \in DOMAIN Index.groups
  PROVE  /\ Index.groups[g].numbers \in SUBSET (Nat \ {0})
         /\ Index.groups[g].numbers # {}
  <1> DEFINE files == Numbered(Indexable(Disk))
             Of(h) == {f \in files : h \in f.groups}
  <1>1. Index.groups = [h \in UNION {f.groups : f \in files} |->
                          [numbers |-> {f.num : f \in Of(h)}, active |-> Max({f.date : f \in Of(h)})]]
    BY DEF Index, IndexOf
  <1>2. g \in UNION {f.groups : f \in files} /\ Index.groups[g].numbers = {f.num : f \in Of(g)}
    <2> HIDE DEF files
    <2> QED BY SMT, <1>1
  <1>3. PICK f \in files : g \in f.groups
    BY <1>2
  <1>4. files \subseteq Disk /\ \A h \in files : h.num # 0
    BY DEF Numbered, Indexable
  <1>6. f \in Of(g)
    BY <1>3
  <1>7. \A h \in Of(g) : h.num \in Nat \ {0}
    BY <1>4, DiskAssumption
  <1> HIDE DEF Of
  <1> QED BY <1>2, <1>6, <1>7

(* The articles of the selected group.                                     *)
LEMMA ArticlesAreNumbers ==
  ASSUME NEW s, SessionOK(s)
  PROVE  GroupArticles(s) \in SUBSET (Nat \ {0})
  <1>1. CASE s.kind = "none"
    BY <1>1 DEF GroupArticles
  <1>2. CASE s.kind = "Fixture"
    BY SMT, <1>2 DEF GroupArticles, SessionOK, FixtureArticles, FixtureGroups
  <1>3. CASE s.kind = "Indexed"
    BY <1>3, IndexGroups DEF GroupArticles, SessionOK
  <1> QED BY <1>1, <1>2, <1>3 DEF SessionOK

(* InOrder lists a set of numbers: each once, the smaller before the       *)
(* larger, as a BTreeSet iterates.                                         *)
LEMMA Listed ==
  ASSUME NEW S \in SUBSET Nat, IsFiniteSet(S)
  PROVE  /\ Cardinality(S) \in Nat
         /\ InOrder(S) \in [1..Cardinality(S) -> S]
         /\ \A i, j \in 1..Cardinality(S) : i < j => InOrder(S)[i] < InOrder(S)[j]
         /\ \A n \in S : \E i \in 1..Cardinality(S) : InOrder(S)[i] = n
  <1> DEFINE N        == Cardinality(S)
             Below(n) == {m \in S : m < n}
             rank     == [n \in S |-> Cardinality(Below(n)) + 1]
  <1>1. N \in Nat
    BY FS_CardinalityType
  <1>2. \A n \in S : IsFiniteSet(Below(n)) /\ Cardinality(Below(n)) \in Nat /\ Cardinality(Below(n)) < N
    <2>1. SUFFICES ASSUME NEW n \in S
                   PROVE  IsFiniteSet(Below(n)) /\ Cardinality(Below(n)) \in Nat /\ Cardinality(Below(n)) < N
      OBVIOUS
    <2>2. Below(n) \in SUBSET S
      OBVIOUS
    <2>3. n \notin Below(n)
      BY SMT
    <2> HIDE DEF Below
    <2>4. IsFiniteSet(Below(n)) /\ Cardinality(Below(n)) <= N /\ (N = Cardinality(Below(n)) => S = Below(n))
      BY <2>2, FS_Subset
    <2>5. Cardinality(Below(n)) \in Nat
      BY <2>4, FS_CardinalityType
    <2>6. N # Cardinality(Below(n))
      BY <2>1, <2>3, <2>4
    <2> QED BY SMT, <1>1, <2>4, <2>5, <2>6
  <1>3. \A n, m \in S : n < m => rank[n] < rank[m]
    <2>1. SUFFICES ASSUME NEW n \in S, NEW m \in S, n < m
                   PROVE  rank[n] < rank[m]
      OBVIOUS
    <2>2. Below(n) \in SUBSET Below(m)
      <3>1. \A k \in S : k < n => k < m
        BY SMT, <2>1
      <3> QED BY <3>1
    <2>3. n \in Below(m) /\ n \notin Below(n)
      BY SMT, <2>1
    <2>4. rank[n] = Cardinality(Below(n)) + 1 /\ rank[m] = Cardinality(Below(m)) + 1
      OBVIOUS
    <2> HIDE DEF Below, rank
    <2>5. Cardinality(Below(n)) <= Cardinality(Below(m)) /\ Cardinality(Below(n)) # Cardinality(Below(m))
      BY <1>2, <2>2, <2>3, FS_Subset
    <2> QED BY SMT, <1>2, <2>4, <2>5
  <1>4. rank \in Injection(S, 1..N)
    <2>1. rank \in [S -> 1..N]
      <3> HIDE DEF Below
      <3> QED BY SMT, <1>1, <1>2
    <2>2. \A n, m \in S : rank[n] \in Nat /\ (n < m => rank[n] < rank[m])
      <3> HIDE DEF rank
      <3> QED BY SMT, <1>1, <1>3, <2>1
    <2> HIDE DEF rank
    <2>3. \A n, m \in S : rank[n] = rank[m] => n = m
      BY SMT, <2>2
    <2>4. IsInjective(rank)
      BY <2>1, <2>3 DEF IsInjective
    <2> QED BY <2>1, <2>4 DEF Injection
  <1>5. rank \in Surjection(S, 1..N)
    <2>1. IsFiniteSet(1..N) /\ Cardinality(1..N) = N
      BY SMT, <1>1, FS_Interval
    <2> HIDE DEF rank
    <2> QED BY <1>4, <2>1, FS_Injection
  <1>6. \A i \in 1..N : \E n \in S : rank[n] = i
    <2> HIDE DEF rank
    <2> QED BY <1>5 DEF Surjection
  <1>7. \A i \in 1..N : InOrder(S)[i] \in S /\ rank[InOrder(S)[i]] = i
    <2>1. SUFFICES ASSUME NEW i \in 1..N PROVE InOrder(S)[i] \in S /\ rank[InOrder(S)[i]] = i
      OBVIOUS
    <2>2. InOrder(S)[i] = CHOOSE n \in S : Cardinality(Below(n)) = i - 1
      BY DEF InOrder
    <2>3. \A n \in S : rank[n] = i <=> Cardinality(Below(n)) = i - 1
      <3>1. \A n \in S : rank[n] = Cardinality(Below(n)) + 1
        OBVIOUS
      <3> HIDE DEF rank, Below
      <3> QED BY SMT, <1>2, <3>1
    <2>4. \E n \in S : Cardinality(Below(n)) = i - 1
      <3> HIDE DEF rank, Below
      <3> QED BY <1>6, <2>3
    <2> HIDE DEF rank, Below
    <2>5. InOrder(S)[i] \in S /\ Cardinality(Below(InOrder(S)[i])) = i - 1
      BY <2>2, <2>4
    <2> QED BY <2>3, <2>5
  <1>8. InOrder(S) \in [1..N -> S]
    <2> DEFINE Nth(i) == CHOOSE n \in S : Cardinality(Below(n)) = i - 1
    <2>1. InOrder(S) = [i \in 1..N |-> Nth(i)]
      BY DEF InOrder
    <2> HIDE DEF rank, Nth, N
    <2>2. \A i \in 1..N : Nth(i) \in S
      BY <1>7, <2>1
    <2> QED BY <2>1, <2>2
  <1>9. \A i, j \in 1..N : i < j => InOrder(S)[i] < InOrder(S)[j]
    <2>1. SUFFICES ASSUME NEW i \in 1..N, NEW j \in 1..N, i < j PROVE InOrder(S)[i] < InOrder(S)[j]
      OBVIOUS
    <2> DEFINE a == InOrder(S)[i]
               b == InOrder(S)[j]
    <2>2. a \in S /\ b \in S /\ rank[a] = i /\ rank[b] = j
      BY <1>7
    <2>3. b < a => rank[b] < rank[a]
      BY <1>3, <2>2
    <2> HIDE DEF a, b, rank
    <2>4. a < b
      BY SMT, <1>1, <2>1, <2>2, <2>3
    <2> QED BY <2>4 DEF a, b
  <1>10. \A n \in S : \E i \in 1..N : InOrder(S)[i] = n
    <2>1. SUFFICES ASSUME NEW n \in S PROVE \E i \in 1..N : InOrder(S)[i] = n
      OBVIOUS
    <2> HIDE DEF rank
    <2>2. rank[n] \in 1..N /\ rank \in [S -> 1..N] /\ IsInjective(rank)
      BY <1>4 DEF Injection
    <2>3. InOrder(S)[rank[n]] \in S /\ rank[InOrder(S)[rank[n]]] = rank[n]
      BY <1>7, <2>2
    <2>4. InOrder(S)[rank[n]] = n
      BY <2>2, <2>3 DEF IsInjective
    <2> QED BY <2>2, <2>4
  <1> HIDE DEF rank, Below
  <1> QED BY <1>1, <1>8, <1>9, <1>10

-----------------------------------------------------------------------------
(* What a command may do to the selection.                                 *)

(* The pointer moves among the articles of the selected group.             *)
Pointed(s) == session.chosen /\ \E n \in GroupArticles(session) : s = At(session, n)

(* A group is selected, the pointer on its first article.                  *)
Entered(s) ==
  \/ \E g \in FixtureGroups : s = SelectFixture(g)
  \/ indexed /\ \E g \in DOMAIN Index.groups : s = SelectIndexed(g)

(* What a handler's result does to the session: a refusal and a message-id *)
(* nothing, and only GROUP and LISTGROUP select a group.                   *)
Turn(c, r) ==
  /\ r.session = session \/ Pointed(r.session) \/ (c.kind \in {"Group", "ListGroup"} /\ Entered(r.session))
  /\ r.reply # <<>> /\ r.reply[1].status >= 400 => r.session = session
  /\ ByIdForm(c) => r.session = session

(* The fields of a result and of its first frame.                          *)
LEMMA ResultFields ==
  ASSUME NEW s, NEW buffer, NEW status, NEW num, NEW id, NEW rows, NEW source
  PROVE  LET r == Result(s, buffer, <<Frame(status, num, id, rows, source)>>)
         IN  /\ r.session = s /\ r.aux = buffer /\ ~r.failed /\ r.reply # <<>> /\ Len(r.reply) = 1
             /\ r.reply[1] = Frame(status, num, id, rows, source)
             /\ r.reply[1].status = status /\ r.reply[1].num = num /\ r.reply[1].id = id
             /\ r.reply[1].source = source /\ r.reply[1].rows = rows
  BY DEF Result, Frame

(* A response alone leaves the session as it is.                           *)
LEMMA SayTurn ==
  ASSUME NEW c, NEW frame
  PROVE  Turn(c, Say(frame))
  BY DEF Turn, Say, Result

(* The article that a number, or no selector, stands for.                  *)
LEMMA ChosenArticle ==
  ASSUME SessionInv, NEW c \in Commands, c.kind \in RetrievalKinds, ArticleSelectorError(c) = 0,
         c.sel.form # "id"
  PROVE  /\ c.sel.form \in {"none", "num"} /\ session.chosen /\ Chosen(c) \in GroupArticles(session)
         /\ c.sel.form = "none" => Chosen(c) = session.current
         /\ c.sel.form = "num" => Chosen(c) = c.sel.lo
  <1>1. CASE c.sel.form = "none"
    <2>1. session.chosen /\ session.current # 0
      BY SMT, <1>1 DEF ArticleSelectorError
    <2>2. session.current \in GroupArticles(session)
      BY <2>1 DEF SessionInv, SessionOK, OnArticle
    <2> QED BY <1>1, <2>1, <2>2 DEF Chosen
  <1>2. CASE c.sel.form = "num"
    BY SMT, <1>2 DEF ArticleSelectorError, GroupContains, Chosen
  <1> QED BY <1>1, <1>2, CommandsAssumption DEF RetrievalKinds, OverviewKinds

(* ARTICLE, HEAD, STAT and BODY: the pointer moves to an article of the    *)
(* group, also when the file is missing or does not parse.                 *)
LEMMA RetrievalTurn ==
  ASSUME SessionInv, NEW c \in Commands, c.kind \in RetrievalKinds
  PROVE  Turn(c, RetrievalResult(c))
  <1> DEFINE r == RetrievalResult(c)
  <1>0. c.sel.form \in {"none", "num", "id"}
    BY CommandsAssumption DEF RetrievalKinds, OverviewKinds
  <1>1. CASE ArticleSelectorError(c) # 0
    <2>1. r = Say(Status(ArticleSelectorError(c)))
      BY <1>1 DEF RetrievalResult
    <2> QED BY <2>1, SayTurn
  <1>2. CASE ArticleSelectorError(c) = 0 /\ c.sel.form = "id"
    <2>1. CASE c.kind = "Article"
      <3>1. r = ArticleResult(c)
        BY <1>2, <2>1 DEF RetrievalResult
      <3>2. r.session = session
        BY SMT, <1>2, <3>1 DEF ArticleResult, Say, Result
      <3> QED BY <3>2 DEF Turn
    <2>2. CASE c.kind # "Article"
      <3>1. r = ByIdResult(c)
        BY <1>2, <2>2 DEF RetrievalResult
      <3>2. r.session = session
        BY SMT, <3>1 DEF ByIdResult, Say, Result, Fail, SessionInv
      <3> QED BY <3>2 DEF Turn
    <2> QED BY <2>1, <2>2
  <1>3. CASE ArticleSelectorError(c) = 0 /\ c.sel.form \in {"none", "num"}
    <2> DEFINE n == Chosen(c)
    <2>1. session.chosen /\ n \in GroupArticles(session) /\ (c.sel.form = "none" => n = session.current)
          /\ (c.sel.form = "num" => n = c.sel.lo)
      BY <1>3, ChosenArticle
    <2>2. Pointed(At(session, n))
      BY <2>1 DEF Pointed
    <2>3. ~ByIdForm(c)
      BY <1>3 DEF ByIdForm
    <2> HIDE DEF n
    <2>4. CASE c.kind = "Article"
      <3>1. r = ArticleResult(c)
        BY <1>3, <2>4 DEF RetrievalResult
      <3>2. \A f : StoredFrame("Article", f) = Frame(220, f.num, f.id, <<>>, "stored")
        BY DEF StoredFrame, RetrievalStatus
      <3>3. Generated("Article", n, GeneratedId(n)) = Frame(220, n, GeneratedId(n), <<>>, "generated")
        BY DEF Generated, BuildArticle
      <3>4. ASSUME NEW m, NEW id, NEW source, NEW s \in {session, At(session, n)},
                   r = Result(s, aux, <<Frame(220, m, id, <<>>, source)>>)
            PROVE  Turn(c, r)
        <4>1. r.session = s /\ r.reply[1].status = 220
          BY SMT, <3>4, ResultFields
        <4> QED BY SMT, <2>2, <2>3, <4>1 DEF Turn
      <3>5. CASE ~dir
        <4>1. r = Result(At(session, n), aux, <<Generated("Article", n, GeneratedId(n))>>)
          BY <1>3, <3>1, <3>5 DEF ArticleResult, n
        <4> QED BY <3>3, <3>4, <4>1
      <3>6. CASE dir
        <4> DEFINE m    == IF c.sel.form = "num" THEN c.sel.lo ELSE session.current
                   file == OpenStored(Disk, m, c.sel.id)
                   at   == IF c.sel.form = "num" THEN At(session, m) ELSE session
        <4>1. r = IF file = {} THEN Say(Status(NotFound(c)))
                  ELSE Result(at, aux, <<StoredFrame("Article", CHOOSE f \in file : TRUE)>>)
          BY <1>3, <3>1, <3>6 DEF ArticleResult
        <4>2. at \in {session, At(session, n)}
          BY <2>1
        <4> HIDE DEF file, at
        <4>3. CASE file = {}
          BY <4>1, <4>3, SayTurn
        <4>4. CASE file # {}
          <5> DEFINE f == CHOOSE f \in file : TRUE
          <5>1. r = Result(at, aux, <<StoredFrame("Article", f)>>)
            BY <4>1, <4>4
          <5> HIDE DEF f
          <5> QED BY <3>2, <3>4, <4>2, <5>1
        <4> QED BY <4>3, <4>4
      <3> QED BY <3>5, <3>6
    <2>5. CASE c.kind # "Article"
      <3>1. r = ByNumberResult(c)
        BY <1>3, <2>5 DEF RetrievalResult
      <3>2. r.session = At(session, n) /\ (r.reply = <<>> \/ ~(r.reply[1].status >= 400))
        BY SMT, <2>5, <3>1 DEF ByNumberResult, Result, Fail, StoredFrame, RetrievalStatus, Generated, BuildBody,
          BuildHead, BuildStat, Frame, n, RetrievalKinds
      <3> QED BY <2>2, <2>3, <3>2 DEF Turn
    <2> QED BY <2>4, <2>5
  <1> QED BY <1>0, <1>1, <1>2, <1>3

(* fixture_group_from_name.                                                *)
LEMMA FixtureNames ==
  /\ \A name : FixtureGroupFromName(name) \in FixtureGroups \cup {""}
  /\ \A g \in FixtureGroups : FixtureGroupFromName(g) = g /\ g # ""
  <1>1. \A name : FixtureGroupFromName(name) \in FixtureGroups \cup {""}
    BY DEF FixtureGroupFromName
  <1>2. \A g \in FixtureGroups : g # "ALT.TEST" /\ g # ""
    BY DEF FixtureGroups
  <1>3. \A g \in FixtureGroups : FixtureGroupFromName(g) = g
    BY <1>2 DEF FixtureGroupFromName, LowerCase
  <1> QED BY <1>1, <1>2, <1>3

(* GROUP selects the group it names.                                       *)
LEMMA GroupTurn ==
  ASSUME SessionInv, NEW c \in Commands, c.kind = "Group"
  PROVE  Turn(c, GroupResult(c))
  <1> DEFINE r == GroupResult(c)
             fixture == FixtureGroupFromName(c.group)
             listed  == indexed /\ c.group \in DOMAIN Index.groups
  <1>0. ~ByIdForm(c)
    BY CommandsAssumption DEF ByIdForm, RetrievalKinds, OverviewKinds
  <1>1. CASE ~listed /\ fixture = ""
    <2>1. r = Say(Status(411))
      BY <1>1 DEF GroupResult
    <2> QED BY <2>1, SayTurn
  <1>2. CASE listed \/ fixture # ""
    <2> DEFINE s == IF listed THEN SelectIndexed(c.group) ELSE SelectFixture(fixture)
    <2>1. \E n, id, buffer : r = Result(s, buffer, <<Frame(211, n, id, <<>>, "table")>>)
      BY <1>2 DEF GroupResult, GroupFrame
    <2>2. r.session = s /\ r.reply[1].status = 211
      BY SMT, <2>1, ResultFields
    <2>3. Entered(s)
      BY <1>2, FixtureNames DEF Entered
    <2> HIDE DEF s
    <2> QED BY SMT, <1>0, <2>2, <2>3 DEF Turn
  <1> QED BY <1>1, <1>2

(* LISTGROUP selects the group it names, or the selected one again.        *)
LEMMA ListGroupTurn ==
  ASSUME SessionInv, NEW c \in Commands, c.kind = "ListGroup"
  PROVE  Turn(c, ListGroupResult(c))
  <1> DEFINE r == ListGroupResult(c)
  <1>0. ~ByIdForm(c)
    BY CommandsAssumption DEF ByIdForm, RetrievalKinds, OverviewKinds
  <1>1. CASE ListGroupError(c) # 0
    <2>1. r = Say(Status(ListGroupError(c)))
      BY <1>1 DEF ListGroupResult
    <2> QED BY <2>1, SayTurn
  <1>2. CASE ListGroupError(c) = 0
    <2>1. \/ c.group # "" /\ FixtureGroupFromName(c.group) \in FixtureGroups
          \/ c.group = "" /\ session.chosen
      <3>1. c.group # "" => FixtureGroupFromName(c.group) # ""
        <4>1. c.group # "" /\ FixtureGroupFromName(c.group) = "" => ListGroupError(c) = 411
          BY DEF ListGroupError
        <4>2. 411 # 0
          BY SMT
        <4> QED BY <1>2, <4>1, <4>2
      <3>2. c.group = "" => session.chosen
        <4>1. c.group = "" /\ ~session.chosen => ListGroupError(c) = 412
          BY DEF ListGroupError
        <4>2. 412 # 0
          BY SMT
        <4> QED BY <1>2, <4>1, <4>2
      <3> QED BY <3>1, <3>2, FixtureNames
    <2>2. ASSUME NEW s, NEW n, NEW id, NEW rows, NEW buffer, Entered(s),
                 r = Result(s, buffer, <<Frame(211, n, id, rows, "table")>>)
          PROVE  Turn(c, r)
      <3>1. r.session = s /\ r.reply[1].status = 211
        BY SMT, <2>2, ResultFields
      <3> QED BY SMT, <1>0, <2>2, <3>1 DEF Turn
    <2>3. CASE indexed
      <3> DEFINE name   == IF c.group # "" THEN c.group ELSE session.group
                 listed == name \in DOMAIN Index.groups
                 s == IF listed THEN SelectIndexed(name) ELSE SelectFixture(FixtureGroupFromName(name))
                 articles == IF listed THEN Index.groups[name].numbers
                             ELSE FixtureArticles(FixtureGroupFromName(name))
                 numbers == InOrder(IF listed /\ HasBounds(c.sel) THEN Selected(c.sel, articles) ELSE articles)
      <3>1. \E n, id, rows : r = Result(s, <<TRUE>>, <<Frame(211, n, id, rows, "table")>>)
        <4>1. r = ListGroupIndexed(c)
          BY <1>2, <2>3 DEF ListGroupResult
        <4>2. r = Result(s, <<TRUE>>, <<ListGroupFrame(name, articles, numbers)>>)
          BY <4>1 DEF ListGroupIndexed
        <4> HIDE DEF s, name, articles, numbers
        <4> QED BY <4>2 DEF ListGroupFrame
      <3>2. listed \/ FixtureGroupFromName(name) \in FixtureGroups
        BY <2>1, FixtureNames DEF SessionInv, SessionOK
      <3>3. Entered(s)
        BY <2>3, <3>2 DEF Entered
      <3> HIDE DEF s
      <3> QED BY <2>2, <3>1, <3>3
    <2>4. CASE ~indexed
      <3> DEFINE g == IF c.group # "" THEN FixtureGroupFromName(c.group) ELSE session.group
      <3>1. \E n, id, rows : r = Result(SelectFixture(g), aux, <<Frame(211, n, id, rows, "table")>>)
        <4>1. r = ListGroupFixture(c)
          BY <1>2, <2>4 DEF ListGroupResult
        <4> QED BY <4>1 DEF ListGroupFixture, ListGroupFrame
      <3>2. g \in FixtureGroups
        BY <2>1, <2>4, FixtureNames DEF SessionInv, SessionOK
      <3>3. Entered(SelectFixture(g))
        BY <3>2 DEF Entered
      <3> HIDE DEF g
      <3> QED BY <2>2, <3>1, <3>3
    <2> QED BY <2>3, <2>4 DEF SessionInv
  <1> QED BY <1>1, <1>2

(* previous_article and next_article of the selected group: 0, or the      *)
(* nearest article on that side.                                           *)
LEMMA NearestArticle ==
  ASSUME SessionInv, NEW kind \in {"Last", "Next"}, IndexedMove(kind) # 0
  PROVE  /\ IndexedMove(kind) \in GroupArticles(session)
         /\ kind = "Last" => IndexedMove(kind) < session.current
         /\ kind = "Next" => IndexedMove(kind) > session.current
         /\ \A n \in GroupArticles(session) :
              /\ ~(session.current < n /\ n < IndexedMove(kind))
              /\ ~(IndexedMove(kind) < n /\ n < session.current)
  <1> DEFINE lower  == {n \in GroupArticles(session) : n < session.current}
             higher == {n \in GroupArticles(session) : n > session.current}
  <1>1. GroupArticles(session) \in SUBSET (Nat \ {0}) /\ session.current \in Nat
    BY ArticlesAreNumbers DEF SessionInv, SessionOK
  <1>2. CASE kind = "Last"
    <2>1. lower # {} /\ IndexedMove(kind) = Max(lower)
      BY <1>2 DEF IndexedMove, PreviousArticle
    <2>2. lower \in SUBSET Nat /\ \A n \in lower : n < session.current
      BY <1>1
    <2>3. Max(lower) \in lower /\ \A n \in lower : n <= Max(lower)
      <3> HIDE DEF lower
      <3> QED BY <1>1, <2>1, <2>2, LargestNumber
    <2>4. IndexedMove(kind) \in lower /\ \A n \in lower : n <= IndexedMove(kind)
      BY <2>1, <2>3
    <2> QED BY SMT, <1>1, <1>2, <2>4
  <1>3. CASE kind = "Next"
    <2>1. higher # {} /\ IndexedMove(kind) = Min(higher)
      BY <1>3 DEF IndexedMove, NextArticle, FirstOf
    <2>2. higher \in SUBSET Nat
      BY <1>1
    <2>3. Min(higher) \in higher /\ \A n \in higher : Min(higher) <= n
      <3> HIDE DEF higher
      <3> QED BY <2>1, <2>2, LeastNumber
    <2>4. IndexedMove(kind) \in higher /\ \A n \in higher : IndexedMove(kind) <= n
      BY <2>1, <2>3
    <2> QED BY SMT, <1>1, <1>3, <2>4
  <1> QED BY <1>2, <1>3

(* The sizes of the fixture groups, which bound NEXT without an index.     *)
LEMMA FixtureSizes ==
  /\ Cardinality(FixtureArticles("alt.test")) = 3
  /\ Cardinality(FixtureArticles("comp.lang.rust")) = 1
  /\ Cardinality(FixtureArticles("empty.test")) = 0
  <1>1. 1..3 = {1, 2, 3}
    BY SMT
  <1>2. Cardinality(1..3) = 3
    <2>1. 1 \in Int /\ 3 \in Int /\ (IF 1 > 3 THEN 0 ELSE 3 - 1 + 1) = 3
      BY SMT
    <2> QED BY <2>1, FS_Interval
  <1>3. Cardinality({1}) = 1
    BY FS_Singleton
  <1>4. Cardinality({}) = 0
    BY FS_EmptySet
  <1> QED BY <1>1, <1>2, <1>3, <1>4 DEF FixtureArticles

(* Without an index LAST and NEXT compare the pointer with one and the     *)
(* number of articles; inside those bounds there is an article to move to. *)
LEMMA FixtureMoves ==
  ASSUME SessionInv, ~indexed, session.chosen, session.current # 0,
         NEW kind \in {"Last", "Next"}, FixtureMove(kind) # 0
  PROVE  /\ FixtureMove(kind) = IndexedMove(kind) /\ FixtureMove(kind) \in {1, 2, 3}
         /\ kind = "Last" => FixtureMove(kind) \in {1, 2}
         /\ kind = "Next" => FixtureMove(kind) \in {2, 3}
  <1>1. session.kind = "Fixture" /\ session.group \in FixtureGroups /\ session.current \in Nat
    BY DEF SessionInv, SessionOK
  <1>2. GroupArticles(session) = FixtureArticles(session.group)
    BY <1>1 DEF GroupArticles
  <1>3. session.current \in GroupArticles(session)
    BY DEF SessionInv, SessionOK, OnArticle
  <1>4. ~(kind = "Last" /\ session.current <= 1)
        /\ ~(kind = "Next" /\ session.current >= Cardinality(GroupArticles(session)))
    BY DEF FixtureMove
  <1>5. GroupArticles(session) = {1, 2, 3}
    <2>1. CASE session.group = "alt.test"
      BY <1>2, <2>1 DEF FixtureArticles
    <2>2. CASE session.group = "comp.lang.rust"
      <3>1. session.current = 1 /\ Cardinality(GroupArticles(session)) = 1
        BY <1>2, <1>3, <2>2, FixtureSizes DEF FixtureArticles
      <3> QED BY SMT, <1>4, <3>1
    <2>3. CASE session.group = "empty.test"
      BY <1>2, <1>3, <2>3 DEF FixtureArticles
    <2> QED BY <1>1, <2>1, <2>2, <2>3 DEF FixtureGroups
  <1>6. Cardinality(GroupArticles(session)) = 3
    BY <1>5, FixtureSizes DEF FixtureArticles
  <1>7. IndexedMove(kind) # 0
    <2> DEFINE lower  == {n \in GroupArticles(session) : n < session.current}
               higher == {n \in GroupArticles(session) : n > session.current}
    <2>1. CASE kind = "Last"
      <3>1. 1 \in lower /\ lower \in SUBSET Nat /\ \A n \in lower : n < session.current
        BY SMT, <1>1, <1>3, <1>4, <1>5, <2>1
      <3>2. Max(lower) \in lower
        <4> HIDE DEF lower
        <4> QED BY <1>1, <3>1, LargestNumber
      <3>3. IndexedMove(kind) = Max(lower)
        BY <1>3, <2>1, <3>1 DEF IndexedMove, PreviousArticle, GroupContains
      <3> QED BY SMT, <1>5, <3>2, <3>3
    <2>2. CASE kind = "Next"
      <3>1. 3 \in higher /\ higher \in SUBSET Nat
        BY SMT, <1>1, <1>3, <1>4, <1>5, <1>6, <2>2
      <3>2. Min(higher) \in higher
        <4> HIDE DEF higher
        <4> QED BY <3>1, LeastNumber
      <3>3. IndexedMove(kind) = Min(higher)
        BY <1>3, <2>2, <3>1 DEF IndexedMove, NextArticle, GroupContains, FirstOf
      <3> QED BY SMT, <1>5, <3>2, <3>3
    <2> QED BY <2>1, <2>2
  <1>8. FixtureMove(kind) = IndexedMove(kind)
    BY <1>4, <1>7 DEF FixtureMove, IndexedMove
  <1> QED BY SMT, <1>5, <1>7, <1>8, <1>3, NearestArticle

(* LAST and NEXT: to the nearest article on that side, with an answer      *)
(* whose number it is, or not at all.                                      *)
LEMMA NavigationTurn ==
  ASSUME SessionInv, NEW c \in Commands, c.kind \in {"Last", "Next"}
  PROVE  LET r == NavigationResult(c)
         IN  /\ Turn(c, r)
             /\ r.session # session =>
                  /\ c.kind = "Last" => r.session.current < session.current
                  /\ c.kind = "Next" => r.session.current > session.current
                  /\ \A n \in GroupArticles(session) :
                       /\ ~(session.current < n /\ n < r.session.current)
                       /\ ~(r.session.current < n /\ n < session.current)
  <1> DEFINE r  == NavigationResult(c)
             to == Move(c.kind)
  <1>0. ~ByIdForm(c)
    BY CommandsAssumption DEF ByIdForm, RetrievalKinds, OverviewKinds
  <1>1. CASE ~session.chosen \/ session.current = 0 \/ to = 0
    <2>1. \E frame : r = Say(frame)
      BY <1>1 DEF NavigationResult
    <2>2. r.session = session
      BY SMT, <2>1 DEF Say, Result
    <2> QED BY <2>1, <2>2, SayTurn
  <1>2. CASE session.chosen /\ session.current # 0 /\ to # 0
    <2>1. r = IF indexed /\ to \notin DOMAIN Index.byNumber THEN Fail(At(session, to), aux)
              ELSE Result(At(session, to), aux, <<NavigationFrame(c.kind, to)>>)
      BY <1>2 DEF NavigationResult
    <2>2. to = IndexedMove(c.kind) /\ (~indexed => NavigationFrame(c.kind, to).status = 223)
      <3>1. CASE indexed
        BY <3>1 DEF Move
      <3>2. CASE ~indexed
        <4>1. to = FixtureMove(c.kind)
          BY <3>2 DEF Move
        <4>2. /\ to = IndexedMove(c.kind)
              /\ c.kind = "Last" => to \in {1, 2}
              /\ c.kind = "Next" => to \in {2, 3}
          BY <1>2, <3>2, <4>1, FixtureMoves
        <4> QED BY <3>2, <4>2 DEF NavigationFrame, Frame
      <3> QED BY <3>1, <3>2 DEF SessionInv
    <2> HIDE DEF to, r
    <2>3. /\ to \in GroupArticles(session)
          /\ c.kind = "Last" => to < session.current
          /\ c.kind = "Next" => to > session.current
          /\ \A n \in GroupArticles(session) :
               /\ ~(session.current < n /\ n < to)
               /\ ~(to < n /\ n < session.current)
      BY <1>2, <2>2, NearestArticle
    <2>4. r.session = At(session, to)
      BY <2>1 DEF Result, Fail
    <2>5. At(session, to).current = to
      BY DEF At, SessionInv, SessionOK
    <2>6. Pointed(At(session, to))
      BY <1>2, <2>3 DEF Pointed
    <2>7. r.reply = <<>> \/ r.reply[1].status = 223
      BY <2>1, <2>2 DEF Result, Fail, NavigationFrame, Frame
    <2>8. Turn(c, r)
      BY SMT, <1>0, <2>4, <2>6, <2>7 DEF Turn
    <2> QED BY <2>3, <2>4, <2>5, <2>8 DEF r
  <1> QED BY <1>1, <1>2

(* The other commands leave the session as it is.                          *)
LEMMA KeptTurn ==
  ASSUME SessionInv, NEW c
  PROVE  /\ Turn(c, ListResult(c)) /\ Turn(c, NewGroupsResult(c))
         /\ Turn(c, NewNewsResult(c)) /\ Turn(c, OverviewResult(c))
  <1>1. ListResult(c).session = session
    BY SMT DEF ListResult, Result, Say, SessionInv
  <1>2. NewGroupsResult(c).session = session
    BY DEF NewGroupsResult, Result
  <1>3. NewNewsResult(c).session = session
    BY DEF NewNewsResult, Result
  <1>4. OverviewResult(c).session = session
    BY DEF OverviewResult, Result, Say
  <1> QED BY <1>1, <1>2, <1>3, <1>4 DEF Turn

-----------------------------------------------------------------------------
(* What one step does to the session.                                      *)

(* The step keeps the configuration, and the session moves as Turn says.   *)
TurnStep ==
  /\ UNCHANGED <<dir, indexed>>
  /\ \/ session' = session \/ Pointed(session')
     \/ command'[1].kind \in {"Group", "ListGroup"} /\ Entered(session')
  /\ (reply' # <<>> /\ reply'[1].status >= 400) => session' = session
  /\ (\A i \in DOMAIN command' : ByIdForm(command'[i])) => session' = session

(* LAST and NEXT move to the nearest article on their side.                *)
NeighbourStep ==
  (Len(command') = 1 /\ command'[1].kind \in {"Last", "Next"} /\ session' # session)
  => /\ (command'[1].kind = "Next") <=> (session'.current > session.current)
     /\ ~\E n \in GroupArticles(session) :
          \/ session.current < n /\ n < session'.current
          \/ session'.current < n /\ n < session.current

(* handle_command applies the handler's result.                            *)
LEMMA AnswerTurn ==
  ASSUME NEW c, NEW r, Turn(c, r), Answer(c, r)
  PROVE  TurnStep /\ (c.kind \notin {"Last", "Next"} => NeighbourStep)
  <1>1. /\ session' = r.session /\ reply' = r.reply /\ command' = <<c>>
        /\ UNCHANGED <<dir, indexed>>
    BY DEF Answer
  <1>2. command'[1] = c /\ 1 \in DOMAIN command'
    BY SMT, <1>1
  <1>3. TurnStep
    BY <1>1, <1>2 DEF TurnStep, Turn
  <1>4. c.kind \notin {"Last", "Next"} => NeighbourStep
    BY <1>2 DEF NeighbourStep
  <1> QED BY <1>3, <1>4

(* Every step of a session.                                                *)
LEMMA StepTurn ==
  ASSUME SessionInv, [Next]_vars
  PROVE  TurnStep /\ NeighbourStep
  <1>1. CASE UNCHANGED vars
    BY <1>1 DEF vars, TurnStep, NeighbourStep
  <1>2. ASSUME NEW c \in Commands,
               \/ RetrieveArticle(c) \/ RetrieveHead(c) \/ RetrieveStat(c) \/ RetrieveBody(c)
        PROVE  TurnStep /\ NeighbourStep
    <2>1. c.kind \in RetrievalKinds /\ Answer(c, RetrievalResult(c))
      BY <1>2 DEF RetrieveArticle, RetrieveHead, RetrieveStat, RetrieveBody, RetrievalKinds
    <2>2. c.kind \notin {"Last", "Next"}
      BY SMT, <2>1 DEF RetrievalKinds
    <2> QED BY <2>1, <2>2, RetrievalTurn, AnswerTurn
  <1>3. ASSUME NEW c \in Commands, Group(c) \/ ListGroup(c)
        PROVE  TurnStep /\ NeighbourStep
    <2>1. CASE Group(c)
      <3>1. c.kind = "Group" /\ Answer(c, GroupResult(c))
        BY <2>1 DEF Group
      <3>2. c.kind \notin {"Last", "Next"}
        BY <3>1
      <3> QED BY <3>1, <3>2, GroupTurn, AnswerTurn
    <2>2. CASE ListGroup(c)
      <3>1. c.kind = "ListGroup" /\ Answer(c, ListGroupResult(c))
        BY <2>2 DEF ListGroup
      <3>2. c.kind \notin {"Last", "Next"}
        BY <3>1
      <3> QED BY <3>1, <3>2, ListGroupTurn, AnswerTurn
    <2> QED BY <1>3, <2>1, <2>2
  <1>4. ASSUME NEW c \in Commands, MoveBack(c) \/ MoveOn(c)
        PROVE  TurnStep /\ NeighbourStep
    <2> DEFINE r == NavigationResult(c)
    <2>1. c.kind \in {"Last", "Next"} /\ Answer(c, r)
      BY <1>4 DEF MoveBack, MoveOn
    <2>2. /\ Turn(c, r)
          /\ r.session # session =>
               /\ c.kind = "Last" => r.session.current < session.current
               /\ c.kind = "Next" => r.session.current > session.current
               /\ \A n \in GroupArticles(session) :
                    /\ ~(session.current < n /\ n < r.session.current)
                    /\ ~(r.session.current < n /\ n < session.current)
      BY <2>1, NavigationTurn
    <2> HIDE DEF r
    <2>3. TurnStep
      BY <2>1, <2>2, AnswerTurn
    <2>4. session' = r.session /\ command' = <<c>>
      BY <2>1 DEF Answer
    <2>5. command'[1] = c
      BY SMT, <2>4
    <2>6. session' # session => session'.current \in Nat /\ session.current \in Nat
      <3>1. session' # session => Pointed(session')
        BY SMT, <2>1, <2>3, <2>5 DEF TurnStep
      <3>2. ASSUME NEW n \in GroupArticles(session)
            PROVE  At(session, n).current = n /\ n \in Nat
        <4>1. At(session, n).current = n
          BY DEF At, SessionInv, SessionOK
        <4>2. n \in Nat
          BY ArticlesAreNumbers DEF SessionInv
        <4> QED BY <4>1, <4>2
      <3> QED BY <3>1, <3>2 DEF Pointed, SessionInv, SessionOK
    <2>7. session' # session => ((c.kind = "Next") <=> (session'.current > session.current))
      BY SMT, <2>1, <2>2, <2>4, <2>6
    <2>8. NeighbourStep
      BY <2>2, <2>4, <2>5, <2>7 DEF NeighbourStep
    <2> QED BY <2>3, <2>8
  <1>5. ASSUME NEW c \in Commands,
               ListGroups(c) \/ NewGroups(c) \/ NewNews(c) \/ Overview(c) \/ Fixed(c)
        PROVE  TurnStep /\ NeighbourStep
    <2>1. c.kind \notin {"Last", "Next"}
      BY SMT, <1>5 DEF ListGroups, NewGroups, NewNews, Overview, Fixed, ListKinds, OverviewKinds, FixedStatus
    <2>2. \E r : Turn(c, r) /\ Answer(c, r)
      BY <1>5, KeptTurn, SayTurn DEF ListGroups, NewGroups, NewNews, Overview, Fixed
    <2> QED BY <2>1, <2>2, AnswerTurn
  <1>6. ASSUME NEW run \in UNION {[1..k -> IdArticles] : k \in 2..MaxBatched}, ArticleBatch(run)
        PROVE  TurnStep /\ NeighbourStep
    <2>1. session' = session /\ UNCHANGED <<dir, indexed>>
      BY <1>6 DEF ArticleBatch
    <2> QED BY <2>1 DEF TurnStep, NeighbourStep
  <1> QED BY <1>1, <1>2, <1>3, <1>4, <1>5, <1>6 DEF Next

-----------------------------------------------------------------------------
(* The session stays a selection of the catalogue.                         *)

(* A selected group is in the catalogue and the pointer on its first       *)
(* article.                                                                *)
LEMMA EnteredOK ==
  ASSUME NEW s, Entered(s)
  PROVE  SessionOK(s) /\ s.chosen /\ s.current = FirstOf(GroupArticles(s))
  <1>1. ASSUME NEW k \in {"Fixture", "Indexed"}, NEW g, NEW articles \in SUBSET Nat,
               s = [chosen |-> TRUE, kind |-> k, group |-> g, current |-> FirstOf(articles)],
               GroupArticles(s) = articles,
               k = "Fixture" => g \in FixtureGroups,
               k = "Indexed" => indexed /\ g \in DOMAIN Index.groups
        PROVE  SessionOK(s) /\ s.chosen /\ s.current = FirstOf(GroupArticles(s))
    <2>1. s.chosen = TRUE /\ s.kind = k /\ s.group = g /\ s.current = FirstOf(articles)
      BY <1>1
    <2>2. IF articles = {} THEN FirstOf(articles) = 0 ELSE FirstOf(articles) \in articles
      BY LeastNumber DEF FirstOf
    <2>3. FirstOf(articles) \in Nat
      <3>1. 0 \in Nat
        BY SMT
      <3> QED BY <2>2, <3>1
    <2>4. k # "none"
      BY <1>1
    <2>5. OnArticle(s)
      BY <1>1, <2>1, <2>2 DEF OnArticle
    <2>6. s = [chosen |-> s.chosen, kind |-> s.kind, group |-> s.group, current |-> s.current]
      BY <1>1, <2>1
    <2> QED BY <1>1, <2>1, <2>3, <2>4, <2>5, <2>6 DEF SessionOK
  <1>2. ASSUME NEW g \in FixtureGroups, s = SelectFixture(g)
        PROVE  SessionOK(s) /\ s.chosen /\ s.current = FirstOf(GroupArticles(s))
    <2>1. s.kind = "Fixture" /\ s.group = g
      BY <1>2 DEF SelectFixture
    <2>2. GroupArticles(s) = FixtureArticles(g)
      BY <2>1 DEF GroupArticles
    <2>3. FixtureArticles(g) \in SUBSET Nat
      BY SMT DEF FixtureArticles, FixtureGroups
    <2>4. "Fixture" # "Indexed"
      OBVIOUS
    <2> QED BY <1>1, <1>2, <2>2, <2>3, <2>4 DEF SelectFixture
  <1>3. ASSUME indexed, NEW g \in DOMAIN Index.groups, s = SelectIndexed(g)
        PROVE  SessionOK(s) /\ s.chosen /\ s.current = FirstOf(GroupArticles(s))
    <2>1. s.kind = "Indexed" /\ s.group = g
      BY <1>3 DEF SelectIndexed
    <2>2. GroupArticles(s) = Index.groups[g].numbers
      BY SMT, <2>1 DEF GroupArticles
    <2>3. Index.groups[g].numbers \in SUBSET Nat
      BY IndexGroups
    <2>4. "Fixture" # "Indexed"
      OBVIOUS
    <2> QED BY <1>1, <1>3, <2>2, <2>3, <2>4 DEF SelectIndexed
  <1> QED BY <1>2, <1>3 DEF Entered

(* The fields of a session whose pointer has been moved.                   *)
LEMMA AtFields ==
  ASSUME NEW s, NEW n,
         s = [chosen |-> s.chosen, kind |-> s.kind, group |-> s.group, current |-> s.current]
  PROVE  At(s, n) = [chosen |-> s.chosen, kind |-> s.kind, group |-> s.group, current |-> n]
  BY SMT DEF At

(* Moving the pointer changes nothing else.                                *)
LEMMA PointedOK ==
  ASSUME SessionOK(session), NEW n \in GroupArticles(session)
  PROVE  LET s == At(session, n)
         IN  /\ SessionOK(s) /\ s.current = n /\ s.chosen = session.chosen
             /\ s.kind = session.kind /\ s.group = session.group
  <1> DEFINE s == At(session, n)
  <1>1. s = [chosen |-> session.chosen, kind |-> session.kind, group |-> session.group, current |-> n]
    BY AtFields DEF SessionOK
  <1> HIDE DEF s
  <1>2. s.chosen = session.chosen /\ s.kind = session.kind /\ s.group = session.group /\ s.current = n
    BY <1>1
  <1>3. GroupArticles(s) = GroupArticles(session)
    BY <1>2 DEF GroupArticles
  <1>4. n \in Nat
    BY ArticlesAreNumbers
  <1>5. OnArticle(s)
    BY <1>2, <1>3 DEF OnArticle
  <1>6. s = [chosen |-> s.chosen, kind |-> s.kind, group |-> s.group, current |-> s.current]
    BY <1>1, <1>2
  <1>7. n = 0 => FALSE
    BY ArticlesAreNumbers
  <1>8. session.kind # "none"
    BY DEF GroupArticles
  <1>9. SessionOK(s)
    BY <1>2, <1>4, <1>5, <1>6, <1>8 DEF SessionOK
  <1> QED BY <1>2, <1>9 DEF s

(* The invariant is kept by a step.                                        *)
LEMMA InvKept ==
  ASSUME SessionInv, TurnStep
  PROVE  SessionInv'
  <1>1. SessionOK(session')
    <2>1. CASE session' = session
      BY <2>1 DEF SessionInv
    <2>2. CASE Pointed(session')
      BY <2>2, PointedOK DEF Pointed, SessionInv
    <2>3. CASE Entered(session')
      BY <2>3, EnteredOK
    <2> QED BY <2>1, <2>2, <2>3 DEF TurnStep
  <1>2. dir' = dir /\ indexed' = indexed
    BY DEF TurnStep
  <1>3. SessionOK(session)'
    BY <1>1, <1>2 DEF SessionOK, OnArticle, GroupArticles
  <1> QED BY <1>2, <1>3 DEF SessionInv

(* A session starts without a group.                                       *)
LEMMA InvInit == Init => SessionInv
  <1>1. SUFFICES ASSUME Init PROVE SessionInv
    OBVIOUS
  <1>2. dir \in BOOLEAN /\ indexed \in BOOLEAN /\ (indexed => dir) /\ session = NoSession
    <2>1. dir \in BOOLEAN /\ (indexed = dir \/ indexed = FALSE) /\ session = NoSession
      BY <1>1 DEF Init
    <2>2. CASE indexed = dir
      BY <2>1, <2>2
    <2>3. CASE indexed = FALSE
      BY <2>1, <2>3
    <2> QED BY <2>1, <2>2, <2>3
  <1>3. session.chosen = FALSE /\ session.kind = "none" /\ session.group = "" /\ session.current = 0
    BY <1>2 DEF NoSession
  <1>4. session = [chosen |-> session.chosen, kind |-> session.kind, group |-> session.group, current |-> session.current]
    <2>1. session = [chosen |-> FALSE, kind |-> "none", group |-> "", current |-> 0]
      BY <1>2 DEF NoSession
    <2> QED BY <1>3, <2>1
  <1>5. GroupArticles(session) = {}
    BY <1>3 DEF GroupArticles
  <1>6. 0 \in Nat
    BY SMT
  <1> QED BY <1>2, <1>3, <1>4, <1>5, <1>6 DEF SessionInv, SessionOK, OnArticle

(* In every state of a session its group is one of the catalogue and its   *)
(* pointer on an article of it (SessionState, handle_command).             *)
THEOREM SelectionIsSound == Spec => []SessionInv
  <1>1. SessionInv /\ [Next]_vars => SessionInv'
    BY StepTurn, InvKept
  <1> QED BY <1>1, InvInit, PTL DEF Spec

-----------------------------------------------------------------------------
(* The session as a cursor.                                                *)

(* The catalogue of the cursor holds the articles the session sees.        *)
LEMMA CatalogueOfSession ==
  ASSUME NEW s, SessionOK(s), s.chosen
  PROVE  <<s.kind, s.group>> \in DOMAIN Groups /\ Groups[<<s.kind, s.group>>] = GroupArticles(s)
  <1> DEFINE k == <<s.kind, s.group>>
             keys == {<<"Fixture", g>> : g \in FixtureGroups} \cup {<<"Indexed", g>> : g \in DOMAIN Index.groups}
  <1>1. Groups = [x \in keys |-> IF x[1] = "Fixture" THEN FixtureArticles(x[2]) ELSE Index.groups[x[2]].numbers]
    BY DEF Groups
  <1>2. k \in keys
    BY DEF SessionOK
  <1>3. k[1] = s.kind /\ k[2] = s.group
    BY SMT
  <1> HIDE DEF k, keys
  <1>4. k \in DOMAIN Groups
        /\ Groups[k] = IF s.kind = "Fixture" THEN FixtureArticles(s.group) ELSE Index.groups[s.group].numbers
    BY <1>1, <1>2, <1>3
  <1>5. s.kind = "Fixture" \/ s.kind = "Indexed"
    BY DEF SessionOK
  <1>6. Groups[k] = GroupArticles(s)
    BY <1>4, <1>5 DEF GroupArticles
  <1> QED BY <1>4, <1>6 DEF k

(* A step of the session is a step of the cursor.                          *)
LEMMA CursorStep ==
  ASSUME SessionInv, TurnStep
  PROVE  [Cursor!Next]_(Cursor!cursor)
  <1> DEFINE key(s) == <<s.kind, s.group>>
  <1>1. CASE session' = session
    BY <1>1 DEF Cursor!cursor
  <1>2. CASE Pointed(session')
    <2>1. PICK n \in GroupArticles(session) : session' = At(session, n)
      BY <1>2 DEF Pointed
    <2>2. session'.current = n /\ key(session') = key(session)
      BY <2>1, PointedOK DEF SessionInv
    <2>3. key(session) \in DOMAIN Groups /\ Groups[key(session)] = GroupArticles(session)
      BY <1>2, CatalogueOfSession DEF Pointed, SessionInv
    <2>4. key(session) # <<"none", "">>
      <3>1. session.kind # "none"
        BY <1>2 DEF Pointed, SessionInv, SessionOK
      <3>2. key(session)[1] = session.kind /\ <<"none", "">>[1] = "none"
        BY SMT
      <3> HIDE DEF key
      <3> QED BY <3>1, <3>2
    <2>5. Cursor!MoveTo(n)
      BY <2>2, <2>3, <2>4 DEF Cursor!MoveTo, Cursor!None
    <2>6. n \in UNION {Groups[g] : g \in DOMAIN Groups}
      BY <2>3
    <2> QED BY <2>5, <2>6 DEF Cursor!Next
  <1>3. CASE Entered(session')
    <2>1. SessionOK(session') /\ session'.chosen /\ session'.current = FirstOf(GroupArticles(session'))
      BY <1>3, EnteredOK
    <2>2. key(session') \in DOMAIN Groups /\ Groups[key(session')] = GroupArticles(session')
      BY <2>1, CatalogueOfSession
    <2>3. \A articles : FirstOf(articles) = Cursor!First(articles)
      BY DEF FirstOf, Min, Cursor!First
    <2>4. Cursor!Select(key(session'))
      BY <2>1, <2>2, <2>3 DEF Cursor!Select
    <2> QED BY <2>2, <2>4 DEF Cursor!Next
  <1> QED BY <1>1, <1>2, <1>3 DEF TurnStep

(* Only GROUP and LISTGROUP change more than the pointer.                  *)
LEMMA OnlyGroupSelects ==
  ASSUME SessionInv, TurnStep
  PROVE  [session' EXCEPT !.current = 0] # [session EXCEPT !.current = 0]
           => command'[1].kind \in {"Group", "ListGroup"}
  <1>1. ASSUME NEW n \in GroupArticles(session), session' = At(session, n)
        PROVE  [session' EXCEPT !.current = 0] = [session EXCEPT !.current = 0]
    <2>1. At(session, 0) = [chosen |-> session.chosen, kind |-> session.kind, group |-> session.group, current |-> 0]
      BY AtFields DEF SessionInv, SessionOK
    <2>2. /\ SessionOK(session') /\ session'.chosen = session.chosen
          /\ session'.kind = session.kind /\ session'.group = session.group
      BY <1>1, PointedOK DEF SessionInv
    <2>3. At(session', 0) = [chosen |-> session'.chosen, kind |-> session'.kind, group |-> session'.group, current |-> 0]
      BY <2>2, AtFields DEF SessionOK
    <2>4. At(session', 0) = At(session, 0)
      BY <2>1, <2>2, <2>3
    <2> QED BY <2>4 DEF At
  <1> QED BY <1>1 DEF TurnStep, Pointed

(* The session of every connection is a cursor over the catalogue, failed  *)
(* commands leave it alone, and LAST and NEXT move it by one article, for  *)
(* every article directory and every sequence of commands (handle_command).*)
THEOREM SessionIsCursor == Spec => IsCursor
  <1>1. Init => Cursor!Init
    <2>1. SUFFICES ASSUME Init PROVE Cursor!Init
      OBVIOUS
    <2>2. session.kind = "none" /\ session.group = "" /\ session.current = 0
      BY <2>1 DEF Init, NoSession
    <2> QED BY <2>2 DEF Cursor!Init, Cursor!None
  <1>2. SessionInv /\ [Next]_vars => [Cursor!Next]_(Cursor!cursor)
    BY StepTurn, CursorStep
  <1> DEFINE
    Kept == /\ (reply' # <<>> /\ reply'[1].status >= 400) => session' = session
            /\ (\A i \in DOMAIN command' : ByIdForm(command'[i])) => session' = session
            /\ [session' EXCEPT !.current = 0] # [session EXCEPT !.current = 0]
                 => command'[1].kind \in {"Group", "ListGroup"}
  <1>3. SessionInv /\ [Next]_vars => [Kept]_vars
    BY StepTurn, OnlyGroupSelects DEF TurnStep
  <1>4. SessionInv /\ [Next]_vars => [NeighbourStep]_vars
    BY StepTurn
  <1>5. Spec => Cursor!Spec
    BY <1>1, <1>2, SelectionIsSound, PTL DEF Spec, Cursor!Spec
  <1>6. Spec => FailuresKeepSelection
    BY <1>3, SelectionIsSound, PTL DEF Spec, FailuresKeepSelection
  <1>7. Spec => StepsToNeighbour
    BY <1>4, SelectionIsSound, PTL DEF Spec, StepsToNeighbour, NeighbourStep
  <1> QED BY <1>5, <1>6, <1>7 DEF IsCursor

-----------------------------------------------------------------------------
(* Every command has one answer.                                           *)

(* What a handler writes: one response, unless it fails.                   *)
OneReply(r) == r.failed \/ Len(r.reply) = 1

(* Handlers that write one frame, or fail, are of this kind (Say, Fail).   *)
LEMMA SayOne ==
  /\ \A frame : OneReply(Say(frame)) /\ Say(frame).reply[1] = frame
  /\ \A s, buffer, frame : LET r == Result(s, buffer, <<frame>>) IN OneReply(r) /\ r.reply[1] = frame
  /\ \A s, buffer : OneReply(Fail(s, buffer))
  <1>1. \A s, buffer, frame : LET r == Result(s, buffer, <<frame>>) IN OneReply(r) /\ r.reply[1] = frame
    BY SMT DEF OneReply, Result
  <1>2. \A s, buffer : OneReply(Fail(s, buffer))
    BY DEF OneReply, Fail
  <1> QED BY <1>1, <1>2 DEF Say

(* Retrieval writes one response.                                          *)
LEMMA RetrievalOne ==
  ASSUME SessionInv, NEW c
  PROVE  OneReply(RetrievalResult(c))
  <1>1. OneReply(ArticleResult(c))
    BY SayOne DEF ArticleResult
  <1>2. OneReply(ByIdResult(c))
    <2>1. dir = TRUE \/ dir = FALSE
      BY DEF SessionInv
    <2> QED BY <2>1, SayOne DEF ByIdResult
  <1>3. OneReply(ByNumberResult(c))
    BY SayOne DEF ByNumberResult
  <1> QED BY <1>1, <1>2, <1>3, SayOne DEF RetrievalResult

(* So do the other handlers, but for the lists of an index.                *)
LEMMA OthersOne ==
  ASSUME SessionInv, NEW c
  PROVE  /\ OneReply(GroupResult(c)) /\ OneReply(ListGroupResult(c)) /\ OneReply(NavigationResult(c))
         /\ (~indexed => OneReply(ListResult(c))) /\ OneReply(NewGroupsResult(c)) /\ OneReply(NewNewsResult(c))
         /\ OneReply(OverviewResult(c))
  <1>1. OneReply(GroupResult(c))
    BY SayOne DEF GroupResult
  <1>2. OneReply(ListGroupResult(c))
    BY SayOne DEF ListGroupResult, ListGroupIndexed, ListGroupFixture
  <1>3. OneReply(NavigationResult(c))
    BY SayOne DEF NavigationResult
  <1>4. ~indexed => OneReply(ListResult(c))
    BY SayOne DEF ListResult
  <1>5. OneReply(NewGroupsResult(c))
    BY SayOne DEF NewGroupsResult
  <1>6. OneReply(NewNewsResult(c))
    BY SayOne DEF NewNewsResult
  <1>7. OneReply(OverviewResult(c))
    BY SayOne DEF OverviewResult
  <1> QED BY <1>1, <1>2, <1>3, <1>4, <1>5, <1>6, <1>7

(* The counters of one command.                                            *)
LEMMA CountOne ==
  ASSUME NEW c
  PROVE  /\ Len(<<c>>) = 1 /\ <<c>>[1] = c /\ DOMAIN <<c>> = {1} /\ CountOf(c).commands = 1
         /\ CountOf(c).articles + CountOf(c).bodies
              = Cardinality({i \in DOMAIN <<c>> : <<c>>[i].kind \in RetrievalKinds})
  <1>1. Len(<<c>>) = 1 /\ <<c>>[1] = c /\ DOMAIN <<c>> = {1}
    BY SMT
  <1>2. CountOf(c).commands = 1
    BY DEF CountOf, Counts
  <1>3. CASE c.kind \in RetrievalKinds
    <2>1. {i \in DOMAIN <<c>> : <<c>>[i].kind \in RetrievalKinds} = {1}
      BY <1>1, <1>3
    <2>2. Cardinality({1}) = 1
      BY FS_Singleton
    <2>3. \/ CountOf(c).articles = 1 /\ CountOf(c).bodies = 0
          \/ CountOf(c).articles = 0 /\ CountOf(c).bodies = 1
      BY <1>3 DEF CountOf, Counts, RetrievalKinds
    <2> HIDE DEF CountOf
    <2>4. CountOf(c).articles + CountOf(c).bodies = 1
      BY SMT, <2>3
    <2> QED BY <1>1, <1>2, <2>1, <2>2, <2>4
  <1>4. CASE c.kind \notin RetrievalKinds
    <2>1. {i \in DOMAIN <<c>> : <<c>>[i].kind \in RetrievalKinds} = {}
      BY <1>1, <1>4
    <2>2. Cardinality({}) = 0
      BY FS_EmptySet
    <2>3. CountOf(c).articles = 0 /\ CountOf(c).bodies = 0
      BY <1>4 DEF CountOf, Counts, RetrievalKinds
    <2>4. CountOf(c).articles + CountOf(c).bodies = 0
      BY SMT, <2>3
    <2> QED BY <1>1, <1>2, <2>1, <2>2, <2>4
  <1> QED BY <1>3, <1>4

(* The counters and the answers after handle_command.                      *)
LEMMA AnsweredOne ==
  ASSUME NEW c, NEW r, OneReply(r) \/ Appends(c), Answer(c, r)
  PROVE  Answered'
  <1>1. /\ command' = <<c>> /\ counted' = CountOf(c) /\ reply' = r.reply
        /\ indexed' = indexed /\ open' = (~r.failed /\ c.kind # "Quit")
    BY DEF Answer
  <1>2. Len(command') = 1
    BY <1>1, CountOne
  <1>3. ~(Len(command') > 1)
    BY SMT, <1>2
  <1>4. open' /\ (\A i \in DOMAIN command' : ~Appends(command[i])') => Len(reply') = Len(command')
    <2>1. 1 \in DOMAIN command' /\ command'[1] = c
      BY <1>1, CountOne
    <2>2. Appends(command[1])' <=> Appends(c)
      BY <1>1, <2>1 DEF Appends
    <2> QED BY <1>1, <1>2, <2>1, <2>2 DEF OneReply
  <1>5. /\ counted'.commands = Len(command')
        /\ counted'.articles + counted'.bodies
             = Cardinality({i \in DOMAIN command' : command'[i].kind \in RetrievalKinds})
    BY <1>1, <1>2, CountOne
  <1> QED BY <1>3, <1>4, <1>5 DEF Answered

(* The counters and the answers after a batch of ARTICLE commands.         *)
LEMMA AnsweredBatch ==
  ASSUME SessionInv, NEW run \in UNION {[1..k -> IdArticles] : k \in 2..MaxBatched}, ArticleBatch(run)
  PROVE  Answered' /\ BufferAgrees'
  <1>1. PICK k \in 2..MaxBatched : run \in [1..k -> IdArticles]
    OBVIOUS
  <1>2. k \in Nat /\ k > 1 /\ k # 1
    BY SMT, BatchAssumption
  <1>3. DOMAIN run = 1..k /\ Len(run) = k
    BY SMT, <1>1, <1>2
  <1>4. /\ command' = run /\ counted' = BatchCounts(run) /\ dir = FALSE /\ dir' = FALSE /\ indexed' = indexed
        /\ reply' = [i \in 1..k |-> Generated("Article", 0, run[i].sel.id)]
    BY <1>3 DEF ArticleBatch, SessionInv
  <1>5. indexed' = FALSE
    BY <1>4 DEF SessionInv
  <1>6. Len(reply') = k
    BY SMT, <1>2, <1>4
  <1>7. counted'.commands = k /\ counted'.articles = k /\ counted'.bodies = 0
    BY <1>3, <1>4 DEF BatchCounts, Counts
  <1>8. \A i \in 1..k : run[i].kind = "Article" /\ run[i].sel.form = "id"
    BY <1>1 DEF IdArticles
  <1>9. counted'.articles + counted'.bodies
          = Cardinality({i \in DOMAIN command' : command'[i].kind \in RetrievalKinds})
    <2>1. {i \in DOMAIN command' : command'[i].kind \in RetrievalKinds} = 1..k
      BY <1>3, <1>4, <1>8 DEF RetrievalKinds
    <2>2. 1 \in Int /\ k \in Int /\ (IF 1 > k THEN 0 ELSE k - 1 + 1) = k /\ k + 0 = k
      BY SMT, <1>2
    <2>3. Cardinality(1..k) = k
      BY <2>2, FS_Interval
    <2> QED BY <1>7, <2>1, <2>2, <2>3
  <1>10. ASSUME NEW i \in 1..k
         PROVE  (reply[i] = RetrievalResult(command[i]).reply[1])'
    <2> DEFINE c == run[i]
    <2>1. c.kind = "Article" /\ c.sel.form = "id" /\ command'[i] = c
      BY <1>4, <1>8
    <2> HIDE DEF c
    <2>2. ArticleSelectorError(c)' = 0
      BY <1>5, <2>1 DEF ArticleSelectorError
    <2>3. RetrievalResult(c)' = ArticleResult(c)'
      BY <2>1, <2>2 DEF RetrievalResult
    <2>4. ArticleResult(c)' = Result(session', aux', <<Generated("Article", 0, c.sel.id)>>)
      BY <1>4, <2>1 DEF ArticleResult, Say
    <2>5. RetrievalResult(c)'.reply[1] = Generated("Article", 0, c.sel.id)
      <3>1. Result(session', aux', <<Generated("Article", 0, c.sel.id)>>).reply[1] = Generated("Article", 0, c.sel.id)
        BY SMT DEF Result
      <3> QED BY <2>3, <2>4, <3>1
    <2>6. reply'[i] = Generated("Article", 0, c.sel.id)
      BY <1>4 DEF c
    <2> QED BY <2>1, <2>5, <2>6
  <1>11. Answered'
    BY <1>3, <1>4, <1>6, <1>7, <1>9, <1>10 DEF Answered
  <1>12. BufferAgrees'
    BY <1>2, <1>3, <1>4 DEF BufferAgrees
  <1> QED BY <1>11, <1>12

(* The kinds with a fixed response have no handler of their own.           *)
LEMMA FixedKinds ==
  ASSUME NEW kind \in DOMAIN FixedStatus
  PROVE  kind \notin RetrievalKinds \cup {"Group", "ListGroup", "Last", "Next", "NewGroups", "NewNews"}
                     \cup ListKinds \cup OverviewKinds
  BY SMT DEF FixedStatus, RetrievalKinds, ListKinds, OverviewKinds

(* The first response of a handler, after handle_command.                  *)
LEMMA AfterAnswer ==
  ASSUME NEW c, NEW r, Answer(c, r)
  PROVE  /\ Len(command') = 1 /\ command'[1] = c /\ reply' = r.reply
         /\ dir' = dir /\ indexed' = indexed
  <1>1. command' = <<c>> /\ reply' = r.reply /\ dir' = dir /\ indexed' = indexed
    BY DEF Answer
  <1>2. Len(<<c>>) = 1 /\ <<c>>[1] = c
    BY SMT
  <1> QED BY <1>1, <1>2

(* process_request_to_buffer and a fixed response.                         *)
LEMMA FixedAgrees ==
  ASSUME NEW c, Fixed(c)
  PROVE  BufferAgrees'
  <1> DEFINE frame == Status(FixedStatus[c.kind])
  <1>1. c.kind \in DOMAIN FixedStatus /\ Answer(c, Say(frame))
    BY DEF Fixed
  <1>2. command'[1] = c /\ reply'[1] = frame
    <2> HIDE DEF frame
    <2>1. Say(frame).reply[1] = frame
      BY SayOne
    <2>2. command'[1] = c /\ reply' = Say(frame).reply
      BY <1>1, AfterAnswer
    <2> QED BY <2>1, <2>2
  <1>3. BufferFrame(c)' = frame
    BY SMT, <1>1, FixedKinds DEF BufferFrame
  <1> HIDE DEF frame
  <1> QED BY <1>2, <1>3 DEF BufferAgrees

(* ... and NEWGROUPS.                                                      *)
LEMMA NewGroupsAgrees ==
  ASSUME SessionInv, NEW c \in Commands, NewGroups(c)
  PROVE  BufferAgrees'
  <1> DEFINE names == IF indexed THEN NewGroupsIndexed(c) ELSE IF c.since >= FarFuture THEN {} ELSE FixtureGroups
             frame == Frame(231, 0, NoId, GroupRows(names), "table")
  <1>1. c.kind = "NewGroups" /\ Answer(c, NewGroupsResult(c))
    BY DEF NewGroups
  <1>2. /\ Len(command') = 1 /\ command'[1] = c /\ reply' = NewGroupsResult(c).reply
        /\ dir' = dir /\ indexed' = indexed
    BY <1>1, AfterAnswer
  <1>3. NewGroupsResult(c).reply[1] = frame
    BY SMT DEF NewGroupsResult, Result
  <1>4. NewGroupsResult(c)'.reply[1] = frame
    BY SMT, <1>2 DEF NewGroupsResult, Result
  <1>5. CASE indexed
    <2>1. BufferFrame(c)' = NewGroupsResult(c)'.reply[1]
      BY SMT, <1>1, <1>2, <1>5 DEF BufferFrame, RetrievalKinds, ListKinds, OverviewKinds, FixedStatus
    <2> HIDE DEF frame
    <2> QED BY <1>2, <1>3, <1>4, <2>1 DEF BufferAgrees
  <1>6. CASE ~indexed
    <2>1. BufferFrame(c)' = Frame(231, 0, NoId, GroupRows(FixtureGroups), "table")
      BY SMT, <1>1, <1>2, <1>6 DEF BufferFrame, RetrievalKinds, ListKinds, OverviewKinds, FixedStatus
    <2>2. Sessionless(c)' => c.since < FarFuture
      BY SMT, <1>1, <1>2, <1>6 DEF Sessionless, FixedStatus, ListKinds
    <2>3. Sessionless(c)' => names = FixtureGroups
      <3>1. c.since < FarFuture => ~(c.since >= FarFuture)
        BY SMT, SinceAssumption
      <3> QED BY <1>6, <2>2, <3>1
    <2> HIDE DEF names
    <2> QED BY <1>2, <1>3, <2>1, <2>3 DEF BufferAgrees
  <1> QED BY <1>5, <1>6 DEF SessionInv

(* ... and NEWNEWS.                                                        *)
LEMMA NewNewsAgrees ==
  ASSUME NEW c, NewNews(c)
  PROVE  BufferAgrees'
  <1> DEFINE frame == Frame(230, 0, NoId, IF indexed THEN NewNewsIndexed(c) ELSE NewNewsFixture(c), "table")
  <1>1. c.kind = "NewNews" /\ Answer(c, NewNewsResult(c))
    BY DEF NewNews
  <1>2. command'[1] = c /\ reply' = NewNewsResult(c).reply /\ indexed' = indexed
    BY <1>1, AfterAnswer
  <1>3. NewNewsResult(c).reply[1] = frame
    BY SMT DEF NewNewsResult, Result
  <1>4. NewNewsResult(c)'.reply[1] = frame
    BY SMT, <1>2 DEF NewNewsResult, Result
  <1>5. BufferFrame(c)' = NewNewsResult(c)'.reply[1]
    BY SMT, <1>1 DEF BufferFrame, RetrievalKinds, ListKinds, OverviewKinds, FixedStatus
  <1> HIDE DEF frame
  <1> QED BY <1>2, <1>3, <1>4, <1>5 DEF BufferAgrees

(* ... and the lists of the fixture groups.                                *)
LEMMA ListAgrees ==
  ASSUME NEW c, ListGroups(c)
  PROVE  BufferAgrees'
  <1>1. c.kind \in ListKinds /\ Answer(c, ListResult(c))
    BY DEF ListGroups
  <1>2. command'[1] = c /\ reply' = ListResult(c).reply /\ indexed' = indexed
    BY <1>1, AfterAnswer
  <1>3. Sessionless(c)' => ~indexed
    BY SMT, <1>1, <1>2 DEF Sessionless, FixedStatus, ListKinds
  <1>4. ~indexed => ListResult(c).reply[1] = ListFixture(c)
    <2>1. ~indexed => ListResult(c) = Say(ListFixture(c))
      BY DEF ListResult
    <2> QED BY <2>1, SayOne
  <1>5. ~indexed => BufferFrame(c)' = ListFixture(c)
    BY SMT, <1>1, <1>2 DEF BufferFrame, RetrievalKinds, ListKinds, OverviewKinds, FixedStatus
  <1> QED BY <1>2, <1>3, <1>4, <1>5 DEF BufferAgrees

(* ... and GROUP of a fixture group.                                       *)
LEMMA GroupAgrees ==
  ASSUME NEW c, Group(c)
  PROVE  BufferAgrees'
  <1> DEFINE g     == FixtureGroupFromName(c.group)
             frame == IF g = "" THEN Status(411) ELSE GroupFrame(g, FixtureArticles(g))
  <1>1. c.kind = "Group" /\ Answer(c, GroupResult(c))
    BY DEF Group
  <1>2. command'[1] = c /\ reply' = GroupResult(c).reply /\ indexed' = indexed
    BY <1>1, AfterAnswer
  <1>3. Sessionless(c)' => ~indexed
    BY SMT, <1>1, <1>2 DEF Sessionless, FixedStatus
  <1>4. ~indexed => GroupResult(c).reply[1] = frame
    <2>1. CASE ~indexed /\ g = ""
      <3>1. GroupResult(c) = Say(Status(411))
        BY <2>1 DEF GroupResult
      <3> QED BY <2>1, <3>1, SayOne
    <2>2. CASE ~indexed /\ g # ""
      <3>1. GroupResult(c) = Result(SelectFixture(g), aux, <<GroupFrame(g, FixtureArticles(g))>>)
        BY <2>2 DEF GroupResult
      <3>2. GroupResult(c).reply[1] = GroupFrame(g, FixtureArticles(g))
        BY SMT, <3>1 DEF Result
      <3> QED BY <2>2, <3>2
    <2> QED BY <2>1, <2>2
  <1>5. BufferFrame(c)' = BufferGroup(c)'
    BY SMT, <1>1 DEF BufferFrame, RetrievalKinds, ListKinds, OverviewKinds, FixedStatus
  <1>6. BufferGroup(c)' = frame
    BY SMT, <1>1 DEF BufferGroup
  <1> HIDE DEF frame
  <1> QED BY <1>2, <1>3, <1>4, <1>5, <1>6 DEF BufferAgrees

(* ... and ARTICLE by message-id.                                          *)
LEMMA ArticleAgrees ==
  ASSUME SessionInv, NEW c \in Commands, RetrieveArticle(c)
  PROVE  BufferAgrees'
  <1> DEFINE r == RetrievalResult(c)
  <1>1. c.kind = "Article" /\ Answer(c, r)
    BY DEF RetrieveArticle
  <1>2. command'[1] = c /\ reply' = r.reply /\ indexed' = indexed /\ dir' = dir
    BY <1>1, AfterAnswer
  <1>3. Sessionless(c)' => c.sel.form = "id"
    BY SMT, <1>1 DEF Sessionless, FixedStatus, ListKinds
  <1>4. BufferFrame(c)' = BufferArticle(c)'
    BY SMT, <1>1 DEF BufferFrame, RetrievalKinds, ListKinds, OverviewKinds, FixedStatus
  <1>5. ASSUME c.sel.form = "id"
        PROVE  r.reply[1] = BufferArticle(c)'
    <2> DEFINE file == FileById(Disk, c.sel.id)
    <2>1. c.sel.lo = 0
      BY <1>5, CommandsAssumption
    <2>2. OpenStored(Disk, 0, c.sel.id) = file
      BY DEF OpenStored, FileByNumber
    <2>3. BufferArticle(c)' = IF dir THEN IF file = {} THEN Status(430)
                                          ELSE StoredFrame("Article", CHOOSE f \in file : TRUE)
                              ELSE Generated("Article", 0, c.sel.id)
      <3>1. OpenStored(Disk, c.sel.lo, c.sel.id) = file
        BY <2>1, <2>2
      <3>2. NotFound(c) = 430 /\ c.sel.form # "none"
        BY <1>5 DEF NotFound
      <3> HIDE DEF file
      <3>3. CASE dir
        BY SMT, <1>2, <1>5, <3>1, <3>2, <3>3 DEF BufferArticle
      <3>4. CASE ~dir
        BY <1>2, <1>5, <3>4 DEF BufferArticle
      <3> QED BY <3>3, <3>4
    <2>4. CASE ArticleSelectorError(c) # 0
      <3>1. ArticleSelectorError(c) = 430 /\ indexed /\ file = {}
        BY <1>5, <2>4 DEF ArticleSelectorError
      <3>2. r = Say(Status(430))
        BY <2>4, <3>1 DEF RetrievalResult
      <3>3. dir
        BY <3>1 DEF SessionInv
      <3>4. r.reply[1] = Status(430)
        BY <3>2, SayOne
      <3> HIDE DEF file, r
      <3> QED BY <2>3, <3>1, <3>3, <3>4
    <2>5. CASE ArticleSelectorError(c) = 0
      <3>1. r = ArticleResult(c)
        BY <1>1, <2>5 DEF RetrievalResult
      <3>2. ArticleResult(c) = IF dir THEN IF file = {} THEN Say(Status(430))
                                           ELSE Result(session, aux, <<StoredFrame("Article", CHOOSE f \in file : TRUE)>>)
                               ELSE Say(Generated("Article", 0, c.sel.id))
        <4>1. NotFound(c) = 430 /\ c.sel.form # "num"
          BY <1>5 DEF NotFound
        <4> HIDE DEF file
        <4>2. CASE dir
          <5> DEFINE n    == IF c.sel.form = "num" THEN c.sel.lo ELSE IF c.sel.form = "id" THEN 0 ELSE session.current
                     stored == OpenStored(Disk, n, c.sel.id)
                     at   == IF c.sel.form = "num" THEN At(session, n) ELSE session
          <5>1. ArticleResult(c) = IF stored = {} THEN Say(Status(NotFound(c)))
                                   ELSE Result(at, aux, <<StoredFrame("Article", CHOOSE f \in stored : TRUE)>>)
            BY <4>2 DEF ArticleResult
          <5>2. n = 0
            BY <1>5, <4>1
          <5>3. at = session
            BY <4>1
          <5>4. stored = file
            <6> HIDE DEF n
            <6> QED BY <2>2, <5>2
          <5> HIDE DEF n, stored, at
          <5>5. CASE file = {}
            BY <4>1, <4>2, <5>1, <5>4, <5>5
          <5>6. CASE file # {}
            BY <4>2, <5>1, <5>3, <5>4, <5>6
          <5> QED BY <5>5, <5>6
        <4>3. CASE ~dir
          BY <1>5, <4>3 DEF ArticleResult
        <4> QED BY <4>2, <4>3
      <3> HIDE DEF file, r
      <3> QED BY <2>3, <3>1, <3>2, SayOne DEF Say
    <2> QED BY <2>4, <2>5
  <1> HIDE DEF r
  <1> QED BY <1>2, <1>3, <1>4, <1>5 DEF BufferAgrees

(* The other commands depend on the session.                               *)
LEMMA OthersAgree ==
  ASSUME NEW c, NEW r, Answer(c, r),
         c.kind \in {"Head", "Stat", "Body", "ListGroup", "Last", "Next"} \cup OverviewKinds
  PROVE  BufferAgrees'
  <1>1. command'[1] = c
    BY AfterAnswer
  <1>2. ~Sessionless(c)'
    BY SMT DEF Sessionless, FixedStatus, ListKinds, OverviewKinds
  <1> QED BY <1>1, <1>2 DEF BufferAgrees

(* What retrieval answers depends on the session and the configuration.    *)
LEMMA RetrievalSame ==
  ASSUME UNCHANGED vars, NEW c
  PROVE  RetrievalResult(c)' = RetrievalResult(c)
  <1>1. dir' = dir /\ indexed' = indexed /\ session' = session /\ aux' = aux
    BY DEF vars
  <1>2. GroupContains(session, c.sel.lo)' <=> GroupContains(session, c.sel.lo)
    BY <1>1 DEF GroupContains, GroupArticles
  <1>3. ArticleSelectorError(c)' = ArticleSelectorError(c)
    BY <1>1, <1>2 DEF ArticleSelectorError
  <1>4. \A frame : Say(frame)' = Say(frame)
    BY <1>1 DEF Say
  <1>5. Chosen(c)' = Chosen(c)
    BY <1>1 DEF Chosen
  <1>6. ArticleResult(c)' = ArticleResult(c)
    BY SMT, <1>1, <1>4, <1>5 DEF ArticleResult
  <1>7. ByIdResult(c)' = ByIdResult(c)
    BY SMT, <1>1, <1>4 DEF ByIdResult
  <1>8. ByNumberResult(c)' = ByNumberResult(c)
    BY SMT, <1>1, <1>5 DEF ByNumberResult
  <1> QED BY <1>3, <1>4, <1>6, <1>7, <1>8 DEF RetrievalResult

(* The answers after a step.                                               *)
LEMMA AnsweredStep ==
  ASSUME SessionInv, Next
  PROVE  Answered' /\ BufferAgrees'
  <1>1. ASSUME NEW c \in Commands, RetrieveArticle(c)
        PROVE  Answered' /\ BufferAgrees'
    BY <1>1, RetrievalOne, AnsweredOne, ArticleAgrees DEF RetrieveArticle
  <1>2. ASSUME NEW c \in Commands, RetrieveHead(c) \/ RetrieveStat(c) \/ RetrieveBody(c)
        PROVE  Answered' /\ BufferAgrees'
    <2>1. c.kind \in {"Head", "Stat", "Body"} /\ Answer(c, RetrievalResult(c))
      BY <1>2 DEF RetrieveHead, RetrieveStat, RetrieveBody
    <2>2. Answered'
      BY <2>1, RetrievalOne, AnsweredOne
    <2> QED BY <2>1, <2>2, OthersAgree
  <1>3. ASSUME NEW c \in Commands, Group(c)
        PROVE  Answered' /\ BufferAgrees'
    BY <1>3, OthersOne, AnsweredOne, GroupAgrees DEF Group
  <1>4. ASSUME NEW c \in Commands, ListGroup(c)
        PROVE  Answered' /\ BufferAgrees'
    <2>1. c.kind = "ListGroup" /\ Answer(c, ListGroupResult(c))
      BY <1>4 DEF ListGroup
    <2>2. Answered'
      BY <2>1, OthersOne, AnsweredOne
    <2> QED BY <2>1, <2>2, OthersAgree
  <1>5. ASSUME NEW c \in Commands, MoveBack(c) \/ MoveOn(c)
        PROVE  Answered' /\ BufferAgrees'
    <2>1. c.kind \in {"Last", "Next"} /\ Answer(c, NavigationResult(c))
      BY <1>5 DEF MoveBack, MoveOn
    <2>2. Answered'
      BY <2>1, OthersOne, AnsweredOne
    <2> QED BY <2>1, <2>2, OthersAgree
  <1>6. ASSUME NEW c \in Commands, ListGroups(c)
        PROVE  Answered' /\ BufferAgrees'
    <2>1. c.kind \in ListKinds /\ Answer(c, ListResult(c))
      BY <1>6 DEF ListGroups
    <2>2. OneReply(ListResult(c)) \/ Appends(c)
      BY <2>1, OthersOne DEF Appends
    <2> QED BY <1>6, <2>1, <2>2, AnsweredOne, ListAgrees DEF ListGroups
  <1>7. ASSUME NEW c \in Commands, NewGroups(c)
        PROVE  Answered' /\ BufferAgrees'
    BY <1>7, OthersOne, AnsweredOne, NewGroupsAgrees DEF NewGroups
  <1>8. ASSUME NEW c \in Commands, NewNews(c)
        PROVE  Answered' /\ BufferAgrees'
    BY <1>8, OthersOne, AnsweredOne, NewNewsAgrees DEF NewNews
  <1>9. ASSUME NEW c \in Commands, Overview(c)
        PROVE  Answered' /\ BufferAgrees'
    <2>1. c.kind \in OverviewKinds /\ Answer(c, OverviewResult(c))
      BY <1>9 DEF Overview
    <2>2. Answered'
      BY <2>1, OthersOne, AnsweredOne
    <2> QED BY <2>1, <2>2, OthersAgree
  <1>10. ASSUME NEW c \in Commands, Fixed(c)
         PROVE  Answered' /\ BufferAgrees'
    <2>1. Answer(c, Say(Status(FixedStatus[c.kind])))
      BY <1>10 DEF Fixed
    <2>2. Answered'
      BY <2>1, SayOne, AnsweredOne
    <2> QED BY <1>10, <2>2, FixedAgrees
  <1> QED BY <1>1, <1>2, <1>3, <1>4, <1>5, <1>6, <1>7, <1>8, <1>9, <1>10, AnsweredBatch DEF Next

(* Every command is counted once and has one answer, batched or not, and   *)
(* where the session does not matter it is the one that                    *)
(* process_request_to_buffer gives, for every article directory and every  *)
(* sequence of commands (handle_command,                                   *)
(* write_batched_message_id_article_responses).                            *)
THEOREM CommandsAreAnswered == Spec => []OneAnswerEach
  <1>1. Init => Answered /\ BufferAgrees
    <2>1. SUFFICES ASSUME Init PROVE Answered /\ BufferAgrees
      OBVIOUS
    <2>2. command = <<>> /\ reply = <<>> /\ counted = Counts(0, 0, 0)
      BY <2>1 DEF Init
    <2>3. Len(command) = 0 /\ DOMAIN command = {} /\ Len(reply) = 0 /\ ~(0 > 1) /\ 0 # 1 /\ 0 + 0 = 0
      BY SMT, <2>2
    <2>4. counted.commands = 0 /\ counted.articles = 0 /\ counted.bodies = 0
      BY <2>2 DEF Counts
    <2>5. {i \in DOMAIN command : command[i].kind \in RetrievalKinds} = {}
      BY <2>3
    <2>6. Cardinality({}) = 0
      BY FS_EmptySet
    <2> QED BY <2>3, <2>4, <2>5, <2>6 DEF Answered, BufferAgrees
  <1>2. SessionInv /\ Answered /\ BufferAgrees /\ [Next]_vars => Answered' /\ BufferAgrees'
    <2>1. CASE UNCHANGED vars
      <3>1. ASSUME Answered PROVE Answered'
        BY <2>1, <3>1, RetrievalSame DEF vars, Answered, Appends
      <3>2. ASSUME BufferAgrees PROVE BufferAgrees'
        <4>1. ASSUME NEW c PROVE BufferFrame(c)' = BufferFrame(c) /\ (Sessionless(c)' <=> Sessionless(c))
          <5>1. dir' = dir /\ indexed' = indexed
            BY <2>1 DEF vars
          <5>2. NewGroupsResult(c)' = NewGroupsResult(c) /\ NewNewsResult(c)' = NewNewsResult(c)
            BY <2>1 DEF vars, NewGroupsResult, NewNewsResult
          <5>3. BufferArticle(c)' = BufferArticle(c) /\ BufferPart(c)' = BufferPart(c)
            BY SMT, <5>1 DEF BufferArticle, BufferPart
          <5> QED BY <5>1, <5>2, <5>3 DEF BufferFrame, Sessionless
        <4> QED BY <2>1, <3>2, <4>1 DEF vars, BufferAgrees
      <3> QED BY <3>1, <3>2
    <2>2. SessionInv /\ Next => Answered' /\ BufferAgrees'
      BY AnsweredStep
    <2> QED BY <2>1, <2>2
  <1>3. Spec => [](Answered /\ BufferAgrees)
    BY <1>1, <1>2, SelectionIsSound, PTL DEF Spec
  <1>4. Answered /\ BufferAgrees => OneAnswerEach
    BY DEF OneAnswerEach
  <1> QED BY <1>3, <1>4, PTL

-----------------------------------------------------------------------------
(* Answers name the article the pointer is at.                             *)

(* The file at the path of its own number is the one the index has.        *)
LEMMA StoredIsIndexed ==
  ASSUME NEW n \in Nat, NEW f \in FileByNumber(Disk, n), WellPlaced(n)
  PROVE  f.num = n /\ n \in DOMAIN Index.byNumber /\ Index.byNumber[n].id = f.id
  <1> DEFINE files == Numbered(Indexable(Disk))
             one   == CHOOSE g \in files : g.num = n
  <1>1. f \in Disk /\ f.path = n /\ n # 0
    BY DEF FileByNumber
  <1>2. f.num = n
    BY <1>1 DEF WellPlaced
  <1>3. f \in files
    BY <1>1, <1>2 DEF Numbered, Indexable
  <1>4. one \in files /\ one.num = n
    BY <1>2, <1>3
  <1>5. one = f
    BY <1>2, <1>3, <1>4, DiskAssumption
  <1>6. Index.byNumber = [m \in {g.num : g \in files} |-> Entry(CHOOSE g \in files : g.num = m)]
    BY DEF Index, IndexOf
  <1>7. n \in {g.num : g \in files}
    <2> HIDE DEF files
    <2> QED BY <1>2, <1>3
  <1>8. n \in DOMAIN Index.byNumber /\ Index.byNumber[n] = Entry(one)
    <2> HIDE DEF files
    <2> QED BY <1>6, <1>7 DEF one
  <1>9. Entry(f).id = f.id
    BY DEF Entry
  <1> QED BY <1>2, <1>5, <1>8, <1>9

(* An answer with a number names the article the session points at         *)
(* afterwards.                                                             *)
Names(c, r) ==
  (/\ ~ByIdForm(c) /\ r.reply # <<>> /\ r.reply[1].status < 400
   /\ r.reply[1].source = "stored" => WellPlaced(r.session.current))
  => /\ r.reply[1].num = r.session.current
     /\ (r.session.kind = "Indexed" /\ r.reply[1].source # "generated")
          => r.reply[1].id = Index.byNumber[r.session.current].id

(* The statuses of refusals.                                               *)
Refusals == {411, 412, 420, 421, 422, 423, 430}

(* A refusal names nothing.                                                *)
LEMMA RefusalNames ==
  ASSUME NEW c, NEW e \in Refusals
  PROVE  Names(c, Say(Status(e)))
  <1>1. Say(Status(e)).reply[1].status = e
    BY SMT DEF Say, Result, Status, Frame
  <1>2. ~(e < 400)
    BY SMT DEF Refusals
  <1> QED BY <1>1, <1>2 DEF Names

(* A generated response carries the number asked for.                      *)
LEMMA GeneratedNames ==
  ASSUME NEW c, NEW kind \in RetrievalKinds, NEW n, NEW s, s.current = n
  PROVE  Names(c, Result(s, aux, <<Generated(kind, n, GeneratedId(n))>>))
  <1>1. \E status : Generated(kind, n, GeneratedId(n)) = Frame(status, n, GeneratedId(n), <<>>, "generated")
    BY DEF Generated, BuildArticle, BuildBody, BuildHead, BuildStat, RetrievalKinds
  <1>2. PICK status : Generated(kind, n, GeneratedId(n)) = Frame(status, n, GeneratedId(n), <<>>, "generated")
    BY <1>1
  <1> DEFINE r == Result(s, aux, <<Frame(status, n, GeneratedId(n), <<>>, "generated")>>)
  <1>3. r.session = s /\ r.reply[1].num = n /\ r.reply[1].source = "generated"
    BY SMT DEF Result, Frame
  <1> HIDE DEF r
  <1>4. Names(c, r)
    BY <1>3 DEF Names
  <1> QED BY <1>2, <1>4 DEF r

(* A stored response carries the number and the message-id of its file.    *)
LEMMA StoredNames ==
  ASSUME NEW c, NEW kind, NEW n \in Nat, NEW f \in FileByNumber(Disk, n), NEW s, s.current = n
  PROVE  Names(c, Result(s, aux, <<StoredFrame(kind, f)>>))
  <1> DEFINE r == Result(s, aux, <<Frame(RetrievalStatus(kind), f.num, f.id, <<>>, "stored")>>)
  <1>1. r.session = s /\ r.reply[1].num = f.num /\ r.reply[1].id = f.id /\ r.reply[1].source = "stored"
    BY SMT DEF Result, Frame
  <1> HIDE DEF r
  <1>2. WellPlaced(n) => f.num = n /\ Index.byNumber[n].id = f.id
    BY StoredIsIndexed
  <1>3. Names(c, r)
    BY <1>1, <1>2 DEF Names
  <1> QED BY <1>3 DEF r, StoredFrame

(* What ARTICLE, HEAD, STAT and BODY name.                                 *)
LEMMA RetrievalNames ==
  ASSUME SessionInv, NEW c \in Commands, c.kind \in RetrievalKinds
  PROVE  Names(c, RetrievalResult(c))
  <1> DEFINE r == RetrievalResult(c)
             n == Chosen(c)
  <1>1. CASE ArticleSelectorError(c) # 0
    <2>1. ArticleSelectorError(c) \in {0, 412, 420, 423, 430}
      <3>1. c.sel.form \in {"none", "num", "id"}
        BY CommandsAssumption DEF RetrievalKinds, OverviewKinds
      <3> QED BY SMT, <3>1 DEF ArticleSelectorError
    <2>2. r = Say(Status(ArticleSelectorError(c)))
      BY <1>1 DEF RetrievalResult
    <2> DEFINE e == ArticleSelectorError(c)
    <2> HIDE DEF e, r
    <2>3. e \in Refusals
      BY SMT, <1>1, <2>1 DEF e, Refusals
    <2> QED BY <2>2, <2>3, RefusalNames DEF e, r
  <1>2. CASE ByIdForm(c)
    BY <1>2 DEF Names
  <1>3. CASE ArticleSelectorError(c) = 0 /\ ~ByIdForm(c)
    <2>1. /\ c.sel.form \in {"none", "num"} /\ session.chosen /\ n \in GroupArticles(session)
          /\ c.sel.form = "none" => n = session.current
          /\ c.sel.form = "num" => n = c.sel.lo
      BY <1>3, ChosenArticle DEF ByIdForm
    <2>2. n \in Nat /\ At(session, n).current = n
      BY <2>1, ArticlesAreNumbers, PointedOK DEF SessionInv
    <2>3. CASE c.kind = "Article"
      <3> DEFINE file == FileByNumber(Disk, n)
                 at   == IF c.sel.form = "num" THEN At(session, n) ELSE session
      <3>1. r = ArticleResult(c)
        BY <1>3, <2>3 DEF RetrievalResult
      <3>2. at.current = n
        BY <2>1, <2>2
      <3>3. CASE ~dir
        <4>1. r = Result(At(session, n), aux, <<Generated("Article", n, GeneratedId(n))>>)
          BY <2>1, <3>1, <3>3 DEF ArticleResult
        <4>2. "Article" \in RetrievalKinds
          BY DEF RetrievalKinds
        <4> HIDE DEF n, r
        <4> QED BY <2>2, <4>1, <4>2, GeneratedNames DEF r
      <3>4. CASE dir
        <4> DEFINE m == IF c.sel.form = "num" THEN c.sel.lo ELSE IF c.sel.form = "id" THEN 0 ELSE session.current
                   stored == OpenStored(Disk, m, c.sel.id)
        <4>1. m = n
          BY <2>1
        <4>2. r = IF stored = {} THEN Say(Status(NotFound(c)))
                  ELSE Result(at, aux, <<StoredFrame("Article", CHOOSE f \in stored : TRUE)>>)
          <5>1. r = IF stored = {} THEN Say(Status(NotFound(c)))
                    ELSE Result(IF c.sel.form = "num" THEN At(session, m) ELSE session, aux,
                                <<StoredFrame("Article", CHOOSE f \in stored : TRUE)>>)
            BY <3>1, <3>4 DEF ArticleResult
          <5>2. at = IF c.sel.form = "num" THEN At(session, m) ELSE session
            <6> HIDE DEF m, n
            <6> QED BY <4>1
          <5> HIDE DEF stored, m, n, r, at
          <5>3. CASE stored = {}
            BY <5>1, <5>3
          <5>4. CASE stored # {}
            BY SMT, <5>1, <5>2, <5>4
          <5> QED BY <5>3, <5>4
        <4>3. stored = file
          <5>1. FileById(Disk, c.sel.id) = {}
            BY <2>1, CommandsAssumption, DiskAssumption DEF FileById
          <5> HIDE DEF m, n
          <5> QED BY SMT, <4>1, <5>1 DEF OpenStored
        <4> HIDE DEF stored, file, at, n, r
        <4>4. CASE file = {}
          <5>1. r = Say(Status(NotFound(c)))
            BY <4>2, <4>3, <4>4
          <5>2. NotFound(c) \in Refusals
            BY SMT DEF NotFound, Refusals
          <5>3. Names(c, Say(Status(NotFound(c))))
            BY <5>2, RefusalNames
          <5> QED BY <5>1, <5>3 DEF r
        <4>5. CASE file # {}
          <5> DEFINE f == CHOOSE f \in file : TRUE
          <5>1. f \in file
            BY <4>5
          <5>2. r = Result(at, aux, <<StoredFrame("Article", f)>>)
            BY <4>2, <4>3, <4>5
          <5> HIDE DEF f
          <5> QED BY <2>2, <3>2, <5>1, <5>2, StoredNames DEF r, file
        <4> QED BY <4>4, <4>5
      <3> QED BY <3>3, <3>4
    <2>4. CASE c.kind # "Article"
      <3> DEFINE file == IF dir THEN FileByNumber(Disk, n) ELSE {}
                 f == CHOOSE f \in file : TRUE
                 at == At(session, n)
      <3>1. r = ByNumberResult(c)
        BY <1>3, <2>1, <2>4 DEF RetrievalResult
      <3>2. CASE file = {}
        <4>1. r = Result(at, aux, <<Generated(c.kind, n, GeneratedId(n))>>)
          BY <3>1, <3>2 DEF ByNumberResult
        <4> HIDE DEF at, n, r
        <4> QED BY <2>2, <4>1, GeneratedNames DEF r, at
      <3>3. CASE file # {}
        <4>1. r = Fail(at, aux) \/ r = Result(at, aux, <<StoredFrame(c.kind, f)>>)
          BY <3>1, <3>3 DEF ByNumberResult
        <4>2. f \in FileByNumber(Disk, n)
          BY <3>3
        <4>3. Names(c, Fail(at, aux))
          BY DEF Names, Fail
        <4> HIDE DEF at, n, r, f
        <4> QED BY <2>2, <4>1, <4>2, <4>3, StoredNames DEF r, at
      <3> QED BY <3>2, <3>3
    <2> QED BY <2>3, <2>4
  <1> QED BY <1>1, <1>2, <1>3

(* What LAST and NEXT name.                                                *)
LEMMA NavigationNames ==
  ASSUME SessionInv, NEW c \in Commands, c.kind \in {"Last", "Next"}
  PROVE  Names(c, NavigationResult(c))
  <1> DEFINE r  == NavigationResult(c)
             to == Move(c.kind)
             at == At(session, to)
  <1>1. CASE ~session.chosen
    <2>1. r = Say(Status(412)) /\ 412 \in Refusals
      BY <1>1 DEF NavigationResult, Refusals
    <2> QED BY <2>1, RefusalNames
  <1>2. CASE session.chosen /\ session.current = 0
    <2>1. r = Say(Status(420)) /\ 420 \in Refusals
      BY <1>2 DEF NavigationResult, Refusals
    <2> QED BY <2>1, RefusalNames
  <1>3. CASE session.chosen /\ session.current # 0 /\ to = 0
    <2>1. r = Say(Status(Edge(c.kind)))
      BY SMT, <1>3 DEF NavigationResult
    <2>2. Edge(c.kind) \in Refusals
      BY SMT DEF Edge, Refusals
    <2> QED BY <2>1, <2>2, RefusalNames
  <1>4. CASE session.chosen /\ session.current # 0 /\ to # 0
    <2>1. r = IF indexed /\ to \notin DOMAIN Index.byNumber THEN Fail(at, aux)
              ELSE Result(at, aux, <<NavigationFrame(c.kind, to)>>)
      BY <1>4 DEF NavigationResult
    <2>2. to = IndexedMove(c.kind)
      BY <1>4, FixtureMoves DEF Move
    <2>3. to \in GroupArticles(session)
      BY <1>4, <2>2, NearestArticle
    <2>4. at.current = to /\ at.kind = session.kind
      BY <2>3, PointedOK DEF SessionInv
    <2>5. Names(c, Fail(at, aux))
      BY DEF Names, Fail
    <2>6. Names(c, Result(at, aux, <<NavigationFrame(c.kind, to)>>))
      <3> HIDE DEF at, to
      <3>1. CASE indexed
        <4> DEFINE x == Result(at, aux, <<Frame(223, to, Index.byNumber[to].id, <<>>, "table")>>)
        <4>1. x.session = at /\ x.reply[1].num = to /\ x.reply[1].id = Index.byNumber[to].id
          BY SMT DEF Result, Frame
        <4> HIDE DEF x
        <4>2. Names(c, x)
          BY <2>4, <4>1 DEF Names
        <4>3. NavigationFrame(c.kind, to) = Frame(223, to, Index.byNumber[to].id, <<>>, "table")
          BY <3>1 DEF NavigationFrame
        <4> QED BY <4>2, <4>3 DEF x
      <3>2. CASE ~indexed
        <4>1. session.kind # "Indexed"
          BY <3>2 DEF SessionInv, SessionOK
        <4>2. CASE NavigationFrame(c.kind, to) = Status(423)
          <5>1. 423 \in Refusals
            BY DEF Refusals
          <5> DEFINE x == Result(at, aux, <<Status(423)>>)
          <5>2. x.reply[1].status = 423
            BY SMT DEF Result, Status, Frame
          <5>3. ~(423 < 400)
            BY SMT
          <5> HIDE DEF x
          <5>4. Names(c, x)
            BY <5>2, <5>3 DEF Names
          <5> QED BY <4>2, <5>4 DEF x
        <4>3. CASE NavigationFrame(c.kind, to) = Frame(223, to, NavigationId(to), <<>>, "table")
          <5> DEFINE x == Result(at, aux, <<Frame(223, to, NavigationId(to), <<>>, "table")>>)
          <5>1. x.session = at /\ x.reply[1].num = to
            BY SMT DEF Result, Frame
          <5> HIDE DEF x
          <5>2. Names(c, x)
            BY <2>4, <4>1, <5>1 DEF Names
          <5> QED BY <4>3, <5>2 DEF x
        <4> QED BY <3>2, <4>2, <4>3 DEF NavigationFrame
      <3> QED BY <3>1, <3>2
    <2> QED BY <2>1, <2>5, <2>6
  <1> QED BY <1>1, <1>2, <1>3, <1>4 DEF SessionInv, SessionOK

(* The pointer and the answer after handle_command.                        *)
LEMMA AnswerNames ==
  ASSUME NEW c, NEW r, Answer(c, r),
         c.kind \in RetrievalKinds \cup {"Last", "Next"} => Names(c, r)
  PROVE  NamesPointer'
  <1>1. session' = r.session
    BY DEF Answer
  <1>2. command'[1] = c /\ reply' = r.reply
    BY AfterAnswer
  <1>3. Names(c, r) => NamesPointer'
    BY <1>1, <1>2 DEF NamesPointer, Names
  <1>4. c.kind \notin RetrievalKinds \cup {"Last", "Next"} => NamesPointer'
    BY <1>2 DEF NamesPointer
  <1> QED BY <1>3, <1>4

(* After every step.                                                       *)
LEMMA NamesStep ==
  ASSUME SessionInv, NamesPointer, [Next]_vars
  PROVE  NamesPointer'
  <1>1. CASE UNCHANGED vars
    <2>1. session' = session /\ command' = command /\ reply' = reply
      BY <1>1 DEF vars
    <2> QED BY SMT, <2>1 DEF NamesPointer
  <1>2. ASSUME NEW c \in Commands,
               \/ RetrieveArticle(c) \/ RetrieveHead(c) \/ RetrieveStat(c) \/ RetrieveBody(c)
        PROVE  NamesPointer'
    <2>1. c.kind \in RetrievalKinds /\ Answer(c, RetrievalResult(c))
      BY <1>2 DEF RetrieveArticle, RetrieveHead, RetrieveStat, RetrieveBody, RetrievalKinds
    <2> QED BY <2>1, RetrievalNames, AnswerNames
  <1>3. ASSUME NEW c \in Commands, MoveBack(c) \/ MoveOn(c)
        PROVE  NamesPointer'
    <2>1. c.kind \in {"Last", "Next"} /\ Answer(c, NavigationResult(c))
      BY <1>3 DEF MoveBack, MoveOn
    <2> QED BY <2>1, NavigationNames, AnswerNames
  <1>4. ASSUME NEW c \in Commands,
               \/ Group(c) \/ ListGroup(c) \/ ListGroups(c) \/ NewGroups(c) \/ NewNews(c) \/ Overview(c) \/ Fixed(c)
        PROVE  NamesPointer'
    <2>1. c.kind \notin RetrievalKinds \cup {"Last", "Next"}
      BY SMT, <1>4 DEF Group, ListGroup, ListGroups, NewGroups, NewNews, Overview, Fixed, ListKinds, OverviewKinds,
        FixedStatus, RetrievalKinds
    <2>2. \E r : Answer(c, r)
      BY <1>4 DEF Group, ListGroup, ListGroups, NewGroups, NewNews, Overview, Fixed
    <2> QED BY <2>1, <2>2, AnswerNames
  <1>5. ASSUME NEW run \in UNION {[1..k -> IdArticles] : k \in 2..MaxBatched}, ArticleBatch(run)
        PROVE  NamesPointer'
    <2>1. PICK k \in 2..MaxBatched : run \in [1..k -> IdArticles]
      OBVIOUS
    <2>2. command' = run
      BY <1>5 DEF ArticleBatch
    <2>3. Len(run) # 1
      BY SMT, <2>1, BatchAssumption
    <2> QED BY <2>2, <2>3 DEF NamesPointer
  <1> QED BY <1>1, <1>2, <1>3, <1>4, <1>5 DEF Next

-----------------------------------------------------------------------------
(* OVER, XOVER, HDR and XHDR in an indexed group.                          *)

(* The articles of an indexed group are finitely many and have entries.    *)
LEMMA IndexedArticles ==
  ASSUME SessionInv, session.kind = "Indexed"
  PROVE  IsFiniteSet(GroupArticles(session)) /\ GroupArticles(session) \in SUBSET DOMAIN Index.byNumber
  <1> DEFINE files == Numbered(Indexable(Disk))
             Of(h) == {f \in files : h \in f.groups}
             g     == session.group
             num   == [f \in Of(g) |-> f.num]
             T     == {f.num : f \in Of(g)}
  <1>1. g \in DOMAIN Index.groups /\ GroupArticles(session) = Index.groups[g].numbers
    BY DEF SessionInv, SessionOK, GroupArticles
  <1>2. Index.groups = [h \in UNION {f.groups : f \in files} |->
                          [numbers |-> {f.num : f \in Of(h)}, active |-> Max({f.date : f \in Of(h)})]]
    BY DEF Index, IndexOf
  <1>3. GroupArticles(session) = T
    <2> HIDE DEF files, g
    <2> QED BY SMT, <1>1, <1>2
  <1>4. IsFiniteSet(Of(g))
    <2>1. Of(g) \in SUBSET Disk
      BY DEF Numbered, Indexable
    <2> HIDE DEF Of
    <2> QED BY <2>1, DiskAssumption, FS_Subset
  <1>5. DOMAIN Index.byNumber = {f.num : f \in files}
    BY DEF Index, IndexOf
  <1>6. T \in SUBSET {f.num : f \in files}
    <2> HIDE DEF files
    <2> QED OBVIOUS
  <1> HIDE DEF Of
  <1>7. num \in [Of(g) -> T] /\ \A t \in T : \E f \in Of(g) : num[f] = t
    OBVIOUS
  <1> HIDE DEF num, T
  <1>8. num \in Surjection(Of(g), T)
    BY <1>7 DEF Surjection
  <1>9. IsFiniteSet(T)
    BY <1>4, <1>8, FS_Surjection
  <1> QED BY <1>3, <1>5, <1>6, <1>9

(* A function on 1..n is a sequence of length n.                           *)
LEMMA SequenceLength ==
  ASSUME NEW n \in Nat, NEW S, NEW s \in [1..n -> S]
  PROVE  Len(s) = n /\ DOMAIN s = 1..n
  BY SMT

(* One row for each article wanted, under its number.                      *)
KeyedRows(rows, c, n, wanted) ==
  /\ rows = [i \in 1..n |-> IndexRow(c, wanted[i])] /\ Len(rows) = n
  /\ \A i \in 1..n : rows[i].key = wanted[i]

(* The rows of wanted articles that all have entries.                      *)
LEMMA AllRows ==
  ASSUME NEW c, c.sel.form # "id", NEW n \in Nat, NEW S \in SUBSET DOMAIN Index.byNumber,
         NEW wanted \in [1..n -> S]
  PROVE  KeyedRows(IndexRows(c, wanted), c, n, wanted)
  <1> DEFINE gaps == {i \in DOMAIN wanted : wanted[i] \notin DOMAIN Index.byNumber}
             rows == [i \in 1..n |-> IndexRow(c, wanted[i])]
  <1>1. Len(wanted) = n /\ DOMAIN wanted = 1..n
    BY SequenceLength
  <1>2. gaps = {}
    BY <1>1
  <1>3. IndexRows(c, wanted) = rows
    BY <1>1, <1>2 DEF IndexRows
  <1>4. rows \in [1..n -> {IndexRow(c, wanted[i]) : i \in 1..n}]
    OBVIOUS
  <1>5. Len(rows) = n
    <2> HIDE DEF rows
    <2> QED BY <1>4, SequenceLength
  <1>6. \A i \in 1..n : IndexRow(c, wanted[i]).key = wanted[i]
    BY DEF IndexRow, OverviewRow, HeaderRow
  <1>7. KeyedRows(rows, c, n, wanted)
    BY <1>5, <1>6 DEF KeyedRows
  <1> QED BY <1>3, <1>7

(* The rows of an overview answer are those of the articles selected.      *)
RowsOf(c, r) ==
  (session.kind = "Indexed" /\ HasBounds(c.sel) /\ r.reply[1].status < 400)
  => [i \in DOMAIN r.reply[1].rows |-> r.reply[1].rows[i].key] = InOrder(Selected(c.sel, GroupArticles(session)))

(* What overview_selector_error refuses with.                              *)
LEMMA SelectorErrors ==
  ASSUME NEW c, OverviewSelectorError(c) # 0
  PROVE  ~(OverviewSelectorError(c) < 400)
  <1>1. OverviewSelectorError(c) \in {0, 412, 420, 423, 430, 503}
    BY SMT DEF OverviewSelectorError
  <1> QED BY SMT, <1>1

(* overview_response_for_index_into and header_response_for_index_into.    *)
LEMMA OverviewRows ==
  ASSUME SessionInv, NEW c
  PROVE  RowsOf(c, OverviewResult(c)) /\ OverviewResult(c).session = session
  <1> DEFINE r == OverviewResult(c)
             e == OverviewSelectorError(c)
             S == Selected(c.sel, GroupArticles(session))
  <1>1. r.session = session
    BY KeptTurn DEF OverviewResult, Result, Say
  <1>2. CASE e # 0
    <2>1. r = Say(Status(e))
      BY <1>2 DEF OverviewResult
    <2> HIDE DEF e
    <2>2. Say(Status(e)).reply[1].status = e
      BY SMT DEF Say, Result, Status, Frame
    <2>3. ~(e < 400)
      BY <1>2, SelectorErrors DEF e
    <2> HIDE DEF r
    <2>4. RowsOf(c, r)
      BY <2>1, <2>2, <2>3 DEF RowsOf
    <2> QED BY <1>1, <2>4 DEF r
  <1>3. CASE e = 0 /\ session.kind = "Indexed" /\ HasBounds(c.sel)
    <2> DEFINE wanted == InOrder(S)
               n      == Cardinality(S)
               rows   == IndexRows(c, wanted)
               frame  == Frame(OverviewStatus(c.kind), 0, NoId, rows, "stored")
    <2>1. indexed
      BY <1>3 DEF SessionInv, SessionOK
    <2>2. c.sel.form # "id" /\ c.sel.form # "none"
      BY SMT, <1>3 DEF HasBounds
    <2>3. Wanted(c) = wanted
      BY <2>2 DEF Wanted
    <2>4. S \in SUBSET GroupArticles(session)
      BY DEF Selected
    <2> HIDE DEF S
    <2>5. S \in SUBSET Nat
      BY <2>4, ArticlesAreNumbers DEF SessionInv
    <2>6. IsFiniteSet(S) /\ S \in SUBSET DOMAIN Index.byNumber
      BY <1>3, <2>4, IndexedArticles, FS_Subset
    <2>7. n \in Nat /\ wanted \in [1..n -> S]
      BY <2>5, <2>6, Listed
    <2>8. r = IF Len(rows) = Len(wanted) THEN Result(session, <<TRUE>>, <<frame>>)
              ELSE Result(session, <<FALSE>>, <<Frame(OverviewStatus(c.kind), 0, NoId,
                                                      FixedRows(c.kind, EffectiveSelector(c)), "table")>>)
      BY <1>3, <2>1, <2>3 DEF OverviewResult
    <2> HIDE DEF n, wanted
    <2>9. KeyedRows(rows, c, n, wanted)
      BY <2>2, <2>6, <2>7, AllRows
    <2>10. Len(wanted) = n
      BY <2>7, SequenceLength
    <2> HIDE DEF rows, frame, r
    <2>11. r = Result(session, <<TRUE>>, <<frame>>)
      BY <2>8, <2>9, <2>10 DEF KeyedRows
    <2>12. r.reply[1].rows = rows
      BY SMT, <2>11 DEF Result, frame, Frame
    <2>13. [i \in DOMAIN rows |-> rows[i].key] = wanted
      <3>1. DOMAIN rows = 1..n
        BY <2>9 DEF KeyedRows
      <3>2. wanted = [i \in 1..n |-> wanted[i]]
        BY <2>7
      <3> QED BY <2>9, <3>1, <3>2 DEF KeyedRows
    <2>14. [i \in DOMAIN r.reply[1].rows |-> r.reply[1].rows[i].key] = wanted
      BY <2>12, <2>13
    <2>15. RowsOf(c, r)
      BY <2>14 DEF RowsOf, wanted, S
    <2> QED BY <1>1, <2>15 DEF r
  <1>4. CASE ~(session.kind = "Indexed" /\ HasBounds(c.sel))
    <2> HIDE DEF r
    <2>1. RowsOf(c, r)
      BY <1>4 DEF RowsOf
    <2> QED BY <1>1, <2>1 DEF r
  <1> QED BY <1>2, <1>3, <1>4

(* After every step.                                                       *)
LEMMA RowsStep ==
  ASSUME SessionInv, IndexedRowsExact, [Next]_vars
  PROVE  IndexedRowsExact'
  <1>1. CASE UNCHANGED vars
    <2>1. session' = session /\ command' = command /\ reply' = reply
      BY <1>1 DEF vars
    <2>2. GroupArticles(session)' = GroupArticles(session)
      BY <2>1 DEF GroupArticles
    <2> QED BY <2>1, <2>2 DEF IndexedRowsExact
  <1>2. ASSUME NEW c \in Commands, Overview(c)
        PROVE  IndexedRowsExact'
    <2> DEFINE r == OverviewResult(c)
    <2>1. c.kind \in OverviewKinds /\ Answer(c, r)
      BY <1>2 DEF Overview
    <2>2. RowsOf(c, r) /\ r.session = session
      BY OverviewRows
    <2> HIDE DEF r
    <2>3. command'[1] = c /\ reply' = r.reply /\ session' = session
      BY <2>1, <2>2, AfterAnswer DEF Answer
    <2>4. GroupArticles(session)' = GroupArticles(session)
      BY <2>3 DEF GroupArticles
    <2> QED BY <2>2, <2>3, <2>4 DEF IndexedRowsExact, RowsOf
  <1>3. ASSUME NEW c, NEW r, Answer(c, r), c.kind \notin OverviewKinds
        PROVE  IndexedRowsExact'
    <2>1. command'[1] = c
      BY <1>3, AfterAnswer
    <2> QED BY <1>3, <2>1 DEF IndexedRowsExact
  <1>4. ASSUME NEW c \in Commands,
               \/ RetrieveArticle(c) \/ RetrieveHead(c) \/ RetrieveStat(c) \/ RetrieveBody(c) \/ MoveBack(c) \/ MoveOn(c)
               \/ Group(c) \/ ListGroup(c) \/ ListGroups(c) \/ NewGroups(c) \/ NewNews(c) \/ Fixed(c)
        PROVE  IndexedRowsExact'
    <2>1. c.kind \notin OverviewKinds
      BY SMTT(20), <1>4 DEF RetrieveArticle, RetrieveHead, RetrieveStat, RetrieveBody, MoveBack, MoveOn,
        Group, ListGroup, ListGroups, NewGroups, NewNews, Fixed, ListKinds, OverviewKinds, FixedStatus
    <2>2. \E r : Answer(c, r)
      BY <1>4 DEF RetrieveArticle, RetrieveHead, RetrieveStat, RetrieveBody, MoveBack, MoveOn,
        Group, ListGroup, ListGroups, NewGroups, NewNews, Fixed
    <2> QED BY <1>3, <2>1, <2>2
  <1>5. ASSUME NEW run \in UNION {[1..k -> IdArticles] : k \in 2..MaxBatched}, ArticleBatch(run)
        PROVE  IndexedRowsExact'
    <2>1. PICK k \in 2..MaxBatched : run \in [1..k -> IdArticles]
      OBVIOUS
    <2>2. command' = run
      BY <1>5 DEF ArticleBatch
    <2>3. Len(run) # 1
      BY SMT, <2>1, BatchAssumption
    <2> QED BY <2>2, <2>3 DEF IndexedRowsExact
  <1> QED BY <1>1, <1>2, <1>4, <1>5 DEF Next

(* Answers with a number name the article the pointer is at and, in an     *)
(* indexed group, its message-id; overview answers there have exactly the  *)
(* rows of the articles selected, in order: for every article directory    *)
(* and every sequence of commands (handle_command).                        *)
THEOREM AnswersNameTheirArticles == Spec => []AnswersNameArticles
  <1>1. Init => NamesPointer /\ IndexedRowsExact
    <2>1. SUFFICES ASSUME Init PROVE NamesPointer /\ IndexedRowsExact
      OBVIOUS
    <2>2. reply = <<>>
      BY <2>1 DEF Init
    <2> QED BY <2>2 DEF NamesPointer, IndexedRowsExact
  <1>2. SessionInv /\ NamesPointer /\ [Next]_vars => NamesPointer'
    BY NamesStep
  <1>3. SessionInv /\ IndexedRowsExact /\ [Next]_vars => IndexedRowsExact'
    BY RowsStep
  <1>4. NamesPointer /\ IndexedRowsExact => AnswersNameArticles
    BY DEF AnswersNameArticles
  <1> QED BY <1>1, <1>2, <1>3, <1>4, SelectionIsSound, PTL DEF Spec
=============================================================================
