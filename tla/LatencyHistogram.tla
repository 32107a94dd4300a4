-------------------------- MODULE LatencyHistogram --------------------------
(***************************************************************************)
(* LatencyHistogram of src/lib.rs.  Each load session records into its own *)
(* histogram; run_load merges them as the sessions are joined and asks the *)
(* result for percentiles.  Durations are whole numbers of nanoseconds; a  *)
(* quantile is a fraction <<n, d>>.                                        *)
(***************************************************************************)
EXTENDS Integers, FiniteSets, SequencesExt

CONSTANTS
  Sessions,   \* who records
  LatencyRange, Precision,
  MaxBins,    \* MAX_LATENCY_HISTOGRAM_BINS
  Latencies,  \* what may be measured
  Quantiles,  \* what may be asked for
  MaxSamples  \* bound on recorded samples

(* div_ceil.                                                               *)
CeilDiv(a, b) == (a + b - 1) \div b

(* LatencyHistogram::new accepts these parameters.                         *)
ValidParameters(range, precision) ==
  range # 0 /\ precision # 0 /\ CeilDiv(range, precision) \in 1..MaxBins

BinCount == CeilDiv(LatencyRange, Precision)

NewHistogram == [bins |-> [i \in 0..(BinCount - 1) |-> 0], samples |-> 0, overflow |-> 0]

(* record.                                                                 *)
Record(h, elapsed) ==
  LET index == elapsed \div Precision
      grown == [h EXCEPT !.samples = @ + 1]
  IN  IF index \in DOMAIN h.bins THEN [grown EXCEPT !.bins[index] = @ + 1]
      ELSE [grown EXCEPT !.overflow = @ + 1]

(* merge.                                                                  *)
MergeHistograms(h, other) ==
  [bins |-> [i \in DOMAIN h.bins |-> h.bins[i] + other.bins[i]],
   samples |-> h.samples + other.samples, overflow |-> h.overflow + other.overflow]

(* The samples in the bins 0 to i.                                         *)
SeenUpTo(h, i) == MapThenSumSet(LAMBDA j : h.bins[j], 0..i)

(* Fault: the rank is rounded down.                                        *)
Floor_Rank(h, q) == Max({1, (h.samples * q[1]) \div q[2]})

Rank(h, q) == Max({1, CeilDiv(h.samples * q[1], q[2])})

(* percentile; -1 is None.                                                 *)
Percentile(h, q) ==
  LET reached == {i \in DOMAIN h.bins : SeenUpTo(h, i) >= Rank(h, q)}
  IN  CASE h.samples = 0 \/ q[1] > q[2] -> -1
        [] h.samples # 0 /\ q[1] <= q[2] /\ reached # {} -> Precision * Min(reached)
        [] OTHER -> IF h.overflow # 0 THEN Precision * BinCount ELSE -1

-----------------------------------------------------------------------------
VARIABLES
  histogram, \* of each session, until it is joined
  merged,    \* lifecycle.latency_histogram; Some once a session is joined
  joined,
  measured   \* history: everything recorded, in order

vars == <<histogram, merged, joined, measured>>

Init ==
  /\ ValidParameters(LatencyRange, Precision)
  /\ histogram = [s \in Sessions |-> NewHistogram]
  /\ merged = NewHistogram /\ joined = {} /\ measured = <<>>

RecordLatency(s, elapsed) ==
  /\ s \notin joined /\ Len(measured) < MaxSamples
  /\ histogram' = [histogram EXCEPT ![s] = Record(@, elapsed)]
  /\ measured' = Append(measured, [by |-> s, latency |-> elapsed])
  /\ UNCHANGED <<merged, joined>>

(* The histogram part of LoadSessionOutcome::merge.                        *)
JoinSession(s) ==
  /\ s \notin joined
  /\ merged' = IF joined = {} THEN histogram[s] ELSE MergeHistograms(merged, histogram[s])
  /\ joined' = joined \cup {s}
  /\ UNCHANGED <<histogram, measured>>

Next == \E s \in Sessions : JoinSession(s) \/ \E elapsed \in Latencies : RecordLatency(s, elapsed)

Spec == Init /\ [][Next]_vars

-----------------------------------------------------------------------------
(* The latencies that reached the merged histogram, smallest first.        *)
Sorted ==
  LET counted == SelectSeq(measured, LAMBDA m : m.by \in joined)
  IN  SortSeq([i \in DOMAIN counted |-> counted[i].latency], <)

(* What a percentile means: the rank-th smallest sample, rounded down to   *)
(* the precision, or the end of the range when it lies beyond it.          *)
ReferencePercentile(q) ==
  LET rank   == Max({1, CeilDiv(Len(Sorted) * q[1], q[2])})
      sample == Sorted[rank]
  IN  IF sample \div Precision < BinCount THEN Precision * (sample \div Precision)
      ELSE Precision * BinCount

(* Whatever the sessions recorded and in whatever order they are joined,   *)
(* every percentile of the merged histogram is that of all samples, at     *)
(* quantiles 0 and 1, at bin edges and beyond the range too.               *)
PercentileExact ==
  joined # {} =>
    \A q \in Quantiles :
      Percentile(merged, q) =
        IF Sorted = <<>> \/ q[1] > q[2] THEN -1 ELSE ReferencePercentile(q)

(* No sample is lost between bins and overflow, also across merges.        *)
SamplesKept ==
  joined # {} =>
    /\ merged.samples = Len(Sorted)
    /\ merged.samples = merged.overflow + SeenUpTo(merged, BinCount - 1)
=============================================================================
