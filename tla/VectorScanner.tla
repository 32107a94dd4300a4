--------------------------- MODULE VectorScanner ---------------------------
(***************************************************************************)
(* The block-wise search for CRLF . CRLF that replaces the plain search on *)
(* some targets (src/terminator/vector_scanner.rs).  A filter looks at a   *)
(* whole block at once for two equal bytes three apart; a block that       *)
(* passes is searched byte by byte, and the next block overlaps it.  A     *)
(* byte is the set of its bits that are one, so | is union.                *)
(***************************************************************************)
EXTENDS Integers, Sequences, FiniteSetsExt

CONSTANTS
  Scanners,   \* the scanners to run, of the kinds below
  Texts,      \* the data searched
  Width,      \* lanes of find_repeat and find_or (128 or 256)
  Lane, Lanes \* bits of a mask and masks folded into one by find_avx2 (32 and 4)

(* or_cr is used on ARM64, or_lf with AVX-512, avx2 with AVX2.  find_repeat *)
(* is there for x86 without AVX2, where this module is not compiled.       *)
Kinds == {"repeat", "or_cr", "or_lf", "avx2"}

CR == {0, 2, 3}
LF == {1, 3}
Dot == {1, 2, 3, 5}

Pattern == <<CR, LF, Dot, CR, LF>>

Matches(data) == {p \in 1..(Len(data) - 4) : SubSeq(data, p, p + 4) = Pattern}

(* first_match, and what the plain finder returns: 0 stands for None.      *)
FirstMatch(data) == IF Matches(data) = {} THEN 0 ELSE Min(Matches(data))

(* Where the pair of equal bytes lies in the pattern, and the byte.        *)
Skip(s) == IF s = "or_lf" THEN 1 ELSE 0

PairByte(s) == IF s = "or_lf" THEN LF ELSE CR

(* The bytes one step looks at, and how far it then moves.                 *)
BlockLen(s) == IF s = "avx2" THEN Lane * Lanes ELSE Width + 4

Stride(s) == IF s = "avx2" THEN Lane * Lanes - 4 ELSE Width

(* The filter of find_repeat, and exact_pair_match's.                      *)
PairInBlock(s, block) ==
  \E lane \in 1..Width : block[lane + Skip(s)] = PairByte(s) /\ block[lane + Skip(s) + 3] = PairByte(s)

(* The filter of find_or.                                                  *)
OrInBlock(s, block) ==
  \E lane \in 1..Width : block[lane + Skip(s)] \cup block[lane + Skip(s) + 3] = PairByte(s)

(* The filter of find_avx2: the positions of CR folded onto one lane, and  *)
(* compared with themselves rotated by three.                              *)
Folded(block) == {(p - 1) % Lane : p \in {q \in 1..(Lane * Lanes) : block[q] = CR}}

(* Fault: the mask shifted instead of rotated.                             *)
Shifted_PairFolded(block) == \E b \in Folded(block) : b + 3 \in Folded(block)

PairFolded(block) == \E b \in Folded(block) : (b + 3) % Lane \in Folded(block)

(* Filter and verification of one block.                                   *)
SearchBlock(s, block) ==
  CASE s = "repeat" -> IF PairInBlock(s, block) THEN FirstMatch(block) ELSE 0
    [] s = "avx2"   -> IF PairFolded(block) THEN FirstMatch(block) ELSE 0
    [] OTHER        -> IF OrInBlock(s, block) /\ PairInBlock(s, block) THEN FirstMatch(block) ELSE 0

VARIABLES scanner, text, offset, result, done

vars == <<scanner, text, offset, result, done>>

Init == scanner \in Scanners /\ text \in Texts /\ offset = 0 /\ result = 0 /\ done = FALSE

(* One turn of the loop.                                                   *)
ScanBlock ==
  /\ ~done /\ Len(text) - offset >= BlockLen(scanner)
  /\ \E at \in {SearchBlock(scanner, SubSeq(text, offset + 1, offset + BlockLen(scanner)))} :
       IF at # 0 THEN result' = offset + at /\ done' = TRUE /\ UNCHANGED offset
                 ELSE offset' = offset + Stride(scanner) /\ UNCHANGED <<result, done>>
  /\ UNCHANGED <<scanner, text>>

(* The rest goes to the plain finder.                                      *)
ScanRest ==
  /\ ~done /\ Len(text) - offset < BlockLen(scanner)
  /\ LET at == FirstMatch(SubSeq(text, offset + 1, Len(text)))
     IN  result' = IF at = 0 THEN 0 ELSE offset + at
  /\ done' = TRUE
  /\ UNCHANGED <<scanner, text, offset>>

Next == ScanBlock \/ ScanRest

Spec == Init /\ [][Next]_vars

(* Every scanner finds the first terminator of the data, wherever it lies  *)
(* between blocks and lanes and whatever else passes the filters, or none  *)
(* when there is none.                                                     *)
ScanExact == done => result = FirstMatch(text)
=============================================================================
