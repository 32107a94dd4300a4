--------------------------- MODULE ArticleCursor ---------------------------
(***************************************************************************)
(* What a reader's session promises: a group of the catalogue may be       *)
(* selected, which puts the cursor on its first article, and from then on  *)
(* the cursor only moves among the articles of that group.                 *)
(***************************************************************************)
EXTENDS Integers, FiniteSets

CONSTANT Catalogue   \* the articles of each group

VARIABLES group, at

cursor == <<group, at>>

None == <<"none", "">>

First(articles) == IF articles = {} THEN 0 ELSE CHOOSE n \in articles : \A m \in articles : n <= m

Init == group = None /\ at = 0

Select(g) == group' = g /\ at' = First(Catalogue[g])

MoveTo(n) == group # None /\ n \in Catalogue[group] /\ at' = n /\ UNCHANGED group

Next == (\E g \in DOMAIN Catalogue : Select(g)) \/ (\E n \in UNION {Catalogue[g] : g \in DOMAIN Catalogue} : MoveTo(n))

Spec == Init /\ [][Next]_cursor
=============================================================================
