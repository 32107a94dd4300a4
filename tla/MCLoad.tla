------------------------------- MODULE MCLoad -------------------------------
(* The load generator, one question at a time: the sessions of a run under *)
(* a quota and under a transfer limit, a session that offers load at a     *)
(* rate, the latency histograms, and how processes divide a workload.      *)
(* part says which one a behaviour is about; the variables of the others   *)
(* are unused.                                                             *)
EXTENDS Integers, Sequences

VARIABLES
  part,
  stop, bytesSent, accepted, active, errors, batches, totals, capacity, filled, sessionStats, ended,
  request, response, lied, run, lifecycle,
  now, since, issuedTimes, latencies, delays, batchStart, issueTime, peer,
  histogram, merged, measured,
  plan, procs, refused, rerun,
  pc, issued, received, inFlight, outcome, joined

runVars       == <<stop, bytesSent, accepted, active, errors, batches, totals, capacity, filled, sessionStats, ended,
                   request, response, lied, run, lifecycle>>
offerVars     == <<now, since, issuedTimes, latencies, delays, batchStart, issueTime, peer>>
histogramVars == <<histogram, merged, measured>>
planVars      == <<plan, procs, refused, rerun>>
windowVars    == <<pc, issued, received, inFlight, outcome>>
allVars       == <<part, runVars, offerVars, histogramVars, planVars, windowVars, joined>>

-----------------------------------------------------------------------------
(* Seven requests over two sessions, against a peer that lies, closes and  *)
(* refuses; ids wrap inside the run.                                       *)
Quota == INSTANCE LoadRun WITH
  Connections <- 2, ClientOffset <- 0, TotalClients <- 2, Requests <- 7, TransferBytes <- 0, PipelineDepth <- 2,
  FlushCommands <- 2, StartId <- 13, IdSpace <- 16, CommandMix <- "Mixed", WorkloadPolicy <- "Disjoint",
  VerificationPolicy <- "Full", SampleEvery <- 100, PeerFaults <- {"wrong", "close", "refuse"}, MaxIssued <- 0

(* A limit of seven bytes, and two of four clients.                        *)
Transfer == INSTANCE LoadRun WITH
  Connections <- 2, ClientOffset <- 1, TotalClients <- 4, Requests <- 0, TransferBytes <- 7, PipelineDepth <- 3,
  FlushCommands <- 2, StartId <- 0, IdSpace <- 16, CommandMix <- "Alternate", WorkloadPolicy <- "Shared",
  VerificationPolicy <- "Sampled", SampleEvery <- 2, PeerFaults <- {}, MaxIssued <- 6

(* Responses faster and slower than the schedule and than the timeout.     *)
Offer == INSTANCE OfferedLoad WITH
  Interval <- 2, IndexSpace <- 64, PipelineDepth <- 3, Requests <- 7, DrainTimeout <- 5,
  ResponseTimes <- {0, 3, 7}, MaxTime <- 40

(* Latencies inside, between and beyond the bins; quantiles at both ends,  *)
(* inside, and one outside.                                                *)
Histogram == INSTANCE LatencyHistogram WITH
  Sessions <- {"a", "b"}, LatencyRange <- 5, Precision <- 2, MaxBins <- 4, Latencies <- {0, 1, 2, 4, 5, 6, 9},
  Quantiles <- {<<0, 1>>, <<1, 2>>, <<2, 3>>, <<19, 20>>, <<1, 1>>, <<3, 2>>}, MaxSamples <- 4

(* Segment files with blank lines, bare ids, a repeated id and a bad line. *)
Row(size, id, bare) == [form |-> "row", size |-> size, id |-> <<"seg", id>>, bare |-> bare]

Odd(form) == [form |-> form, size |-> 0, id |-> <<"seg", 0>>, bare |-> FALSE]

SomeFiles ==
  {<<Row(1, 1, FALSE), Row(1, 2, TRUE), Row(2, 3, FALSE)>>,
   <<Row(2, 1, TRUE), Odd("blank"), Row(1, 1, FALSE)>>,
   <<Row(2, 2, FALSE), Row(1, 1, FALSE)>>,
   <<Row(1, 1, FALSE), Odd("notab")>>,
   <<Odd("blank")>>}

Plan == INSTANCE LoadPlan WITH
  Totals <- {1, 3, 4}, Requests <- {0, 2, 7}, Starts <- {1, 13}, Mixes <- {"Stat", "Alternate", "Mixed"},
  Files <- SomeFiles, Ports <- <<1119, 1120>>, IdSpace <- 16, MaxIssued <- 3

-----------------------------------------------------------------------------
Unused(v) == v = "unused"

NoRun ==
  /\ Unused(stop) /\ Unused(bytesSent) /\ Unused(accepted) /\ Unused(active) /\ Unused(errors) /\ Unused(batches)
  /\ Unused(totals) /\ Unused(capacity) /\ Unused(filled) /\ Unused(sessionStats) /\ Unused(ended)
  /\ Unused(request) /\ Unused(response) /\ Unused(lied) /\ Unused(run) /\ Unused(lifecycle)

NoOffer ==
  /\ Unused(now) /\ Unused(since) /\ Unused(issuedTimes) /\ Unused(latencies) /\ Unused(delays)
  /\ Unused(batchStart) /\ Unused(issueTime) /\ Unused(peer)

NoHistogram == Unused(histogram) /\ Unused(merged) /\ Unused(measured)

NoPlan == Unused(plan) /\ Unused(procs) /\ Unused(refused) /\ Unused(rerun)

NoWindow == Unused(pc) /\ Unused(issued) /\ Unused(received) /\ Unused(inFlight) /\ Unused(outcome)

LoadInit ==
  \/ part \in {"quota", "transfer"} /\ Quota!Init /\ NoOffer /\ NoHistogram /\ NoPlan
  \/ part = "offer" /\ Offer!Init /\ NoRun /\ NoHistogram /\ NoPlan /\ Unused(joined)
  \/ part = "histogram" /\ Histogram!Init /\ NoRun /\ NoOffer /\ NoPlan /\ NoWindow
  \/ part = "plan" /\ Plan!Init /\ NoRun /\ NoOffer /\ NoHistogram /\ NoWindow /\ Unused(joined)

(* Only a run of sessions must not get stuck.                              *)
MayEnd == part \in {"offer", "histogram", "plan"} /\ UNCHANGED allVars

LoadNext ==
  \/ part = "quota" /\ Quota!Next /\ UNCHANGED <<part, offerVars, histogramVars, planVars>>
  \/ part = "transfer" /\ Transfer!Next /\ UNCHANGED <<part, offerVars, histogramVars, planVars>>
  \/ part = "offer" /\ Offer!Next /\ UNCHANGED <<part, runVars, histogramVars, planVars, joined>>
  \/ part = "histogram" /\ Histogram!Next /\ UNCHANGED <<part, runVars, offerVars, planVars, windowVars>>
  \/ part = "plan" /\ Plan!Next /\ UNCHANGED <<part, runVars, offerVars, histogramVars, windowVars, joined>>
  \/ MayEnd

LoadSpec == LoadInit /\ [][LoadNext]_allVars

-----------------------------------------------------------------------------
(* What a run reports is what its sessions did (LoadSession::run_inner and *)
(* run_load): in_flight is what was written and not answered, within the   *)
(* window; shared totals count what was read; every request is completed   *)
(* or reported incomplete; a mismatch is one; the quota is met and the     *)
(* transfer limit exceeded by less than a window per connection; and no    *)
(* Message-ID is asked for twice under the disjoint policy.                *)
RunAccounts ==
  /\ part = "quota" =>
       /\ Quota!WindowExact /\ Quota!ReportedTotals /\ Quota!MismatchIsReal
       /\ Quota!QuotaExact /\ Quota!ReportAccounts /\ Quota!DisjointIds
  /\ part = "transfer" =>
       /\ Transfer!WindowExact /\ Transfer!ReportedTotals /\ Transfer!MismatchIsReal
       /\ Transfer!OvershootBound

(* The offered-load schedule: every latency recorded belongs to its own    *)
(* request (issued_times of LoadSession::run_inner), a request is missed   *)
(* exactly when it was written after its deadline, and the schedule is     *)
(* overtaken by one window at most.                                        *)
ScheduleExact ==
  part = "offer" => Offer!LatencyTrue /\ Offer!MissedExact /\ Offer!BurstBound

(* A percentile of the merged histogram is that of all samples, of which   *)
(* none is lost between bins and overflow (LatencyHistogram::percentile    *)
(* and merge).                                                             *)
PercentileExact == part = "histogram" => Histogram!PercentileExact /\ Histogram!SamplesKept

(* Processes that share a workload divide it without talking to each       *)
(* other: their shares add up, disjoint ids have no gap and no repetition, *)
(* segment rows and ports are used evenly, the id an answer is verified    *)
(* against is the one asked for, and equal identities mean equal requests  *)
(* (partitioned_requests, endpoint_for, workload_identity).                *)
PlanCovers ==
  part = "plan" =>
    /\ Plan!SharesAddUp /\ Plan!DisjointCovers /\ Plan!SegmentsEven
    /\ Plan!BuildersAgree /\ Plan!PortsEven /\ Plan!IdentityFixesStream
=============================================================================
