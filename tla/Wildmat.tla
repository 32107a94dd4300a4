------------------------------ MODULE Wildmat ------------------------------
(***************************************************************************)
(* wildmat_matches and wildmat_pattern_matches of src/lib.rs: which groups *)
(* the LIST variants and NEWNEWS pick.  A wildmat is a sequence of         *)
(* [negated, pattern]; patterns and group names are sequences of           *)
(* characters, typed here one by one.                                      *)
(***************************************************************************)
EXTENDS Integers, Sequences, FiniteSetsExt, SequencesExt

CONSTANTS
  Letters,     \* the characters of group names
  MaxName,     \* characters of a group name
  MaxPattern,  \* characters of a pattern
  MaxPatterns  \* patterns of a wildmat

VARIABLES wildmat, group

vars == <<wildmat, group>>

Init == wildmat = <<[negated |-> FALSE, pattern |-> <<>>]>> /\ group = <<>>

NameChar == Len(group) < MaxName /\ (\E c \in Letters : group' = Append(group, c)) /\ UNCHANGED wildmat

PatternChar ==
  LET n == Len(wildmat)
  IN  /\ Len(wildmat[n].pattern) < MaxPattern
      /\ \E c \in Letters \cup {"*", "?"} : wildmat' = [wildmat EXCEPT ![n].pattern = Append(@, c)]
      /\ UNCHANGED group

(* validate_wildmat lets no pattern be empty, and no first one be negated. *)
Comma ==
  /\ Len(wildmat) < MaxPatterns /\ Last(wildmat).pattern # <<>>
  /\ \E negated \in BOOLEAN : wildmat' = Append(wildmat, [negated |-> negated, pattern |-> <<>>])
  /\ UNCHANGED group

Next == NameChar \/ PatternChar \/ Comma

Spec == Init /\ [][Next]_vars

-----------------------------------------------------------------------------
(* wildmat_pattern_matches: matches_from at position i of the pattern and  *)
(* j of the name.                                                          *)
WildmatPatternMatches(pattern, name) ==
  LET m[i \in 1 .. Len(pattern) + 1, j \in 1 .. Len(name) + 1] ==
        IF i > Len(pattern) THEN j > Len(name)
        ELSE IF pattern[i] = "*" THEN m[i + 1, j] \/ (j <= Len(name) /\ m[i, j + 1])
        ELSE j <= Len(name) /\ (pattern[i] = "?" \/ pattern[i] = name[j]) /\ m[i + 1, j + 1]
  IN  m[1, 1]

(* wildmat_matches: each pattern that matches overrides the ones before.   *)
WildmatMatches(patterns, name) ==
  FoldLeft(LAMBDA matched, p : IF WildmatPatternMatches(p.pattern, name) THEN ~p.negated ELSE matched, FALSE, patterns)

-----------------------------------------------------------------------------
(* The meaning of a pattern, without its recursion: the name can be cut    *)
(* into one piece per character of the pattern, of one character for a     *)
(* letter or a question mark and of any length for a star.                 *)
Cuts(pattern, name) ==
  {c \in [0 .. Len(pattern) -> 0 .. Len(name)] :
     /\ c[0] = 0 /\ c[Len(pattern)] = Len(name)
     /\ \A i \in 1 .. Len(pattern) :
          CASE pattern[i] = "*" -> c[i - 1] <= c[i]
            [] pattern[i] = "?" -> c[i] = c[i - 1] + 1
            [] OTHER -> c[i] = c[i - 1] + 1 /\ name[c[i]] = pattern[i]}

(* A group is picked exactly when some pattern matches it and the last one *)
(* that does is not negated; a pattern matches what its stars and question *)
(* marks stand for (wildmat_matches).                                      *)
PickedByLastMatch ==
  LET matching == {i \in DOMAIN wildmat : Cuts(wildmat[i].pattern, group) # {}}
  IN  WildmatMatches(wildmat, group) <=> (matching # {} /\ ~wildmat[Max(matching)].negated)
=============================================================================
