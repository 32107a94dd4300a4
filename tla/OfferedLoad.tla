---------------------------- MODULE OfferedLoad ----------------------------
(***************************************************************************)
(* A load session with --offered-rate (run_inner, issue_load_batch and     *)
(* OfferedLoadSchedule of src/lib.rs), against a clock.  The session       *)
(* sleeps until the deadline of the next request, issues a batch, reads    *)
(* responses in order and records when each request was issued and         *)
(* answered.  The peer is external and answers in order.  The stop flag    *)
(* and the byte limit, which end the issuing early, are in LoadRun.        *)
(***************************************************************************)
EXTENDS Integers, Sequences, FiniteSetsExt

CONSTANTS
  Interval,      \* 1 / rate
  IndexSpace,    \* 2^32: deadline casts the request index to u32
  PipelineDepth, Requests, DrainTimeout,
  ResponseTimes, \* how long the peer takes to answer a request
  MaxTime        \* bound on the clock

(* OfferedLoadSchedule; the schedule starts at time 0.                     *)
Deadline(index) == Interval * (index % IndexSpace)

DueCount(time) == time \div Interval + 1

SaturatingSub(a, b) == IF a < b THEN 0 ELSE a - b

VARIABLES
  now,
  pc, since,      \* where the session is, and since when it waits there
  issued, received, inFlight,
  issuedTimes,    \* the VecDeque of issue times
  outcome,        \* counters of LoadSessionOutcome
  latencies, delays, \* what the two histograms recorded
  batchStart,     \* history: first index of the last batch
  issueTime,      \* history: when each request was written
  peer            \* when the response to each request arrives

vars == <<now, pc, since, issued, received, inFlight, issuedTimes, outcome, latencies, delays,
          batchStart, issueTime, peer>>

Init ==
  /\ now = 0 /\ pc = "top" /\ since = 0
  /\ issued = 0 /\ received = 0 /\ inFlight = 0
  /\ issuedTimes = <<>> /\ latencies = <<>> /\ delays = <<>>
  /\ outcome = [scheduled |-> 0, issued |-> 0, completed |-> 0, missed |-> 0, peakBacklog |-> 0,
                timedOut |-> 0, incomplete |-> 0]
  /\ batchStart = 0 /\ issueTime = <<>> /\ peer = <<>>

(* The requests left, at most the room in the window.                      *)
BatchSize(capacity) == Min({capacity, Requests - issued})

(* Start to wait for a batch at the head of the loop, or for a response.   *)
LoopTop ==
  /\ pc = "top"
  /\ pc' = IF inFlight = 0 THEN "issue" ELSE "read"
  /\ since' = now
  /\ UNCHANGED <<now, issued, received, inFlight, issuedTimes, outcome, latencies, delays,
                 batchStart, issueTime, peer>>

(* The sleep at the head of issue_load_batch is over.                      *)
MayIssue == now >= Deadline(issued)

(* When the responses to a batch arrive, if the peer needs delay[k] for    *)
(* the k-th request: none before the one ahead of it.                      *)
Arrivals(delay) ==
  [k \in DOMAIN delay |->
     Max({now + delay[j] : j \in 1..k} \cup {peer[j] : j \in DOMAIN peer})]

(* issue_load_batch: once the deadline of the first request has passed the *)
(* whole window is written; every request of the batch is then recorded    *)
(* against its own deadline.                                               *)
IssueBatch ==
  /\ pc \in {"issue", "refill"}
  /\ MayIssue
  /\ \E delay \in [1..BatchSize(PipelineDepth - inFlight) -> ResponseTimes] :
       LET filled   == Len(delay)
           Delay(k) == SaturatingSub(now, Deadline(issued + k))
       IN  /\ issued' = issued + filled /\ inFlight' = inFlight + filled
           /\ issuedTimes' = issuedTimes \o [k \in 1..filled |-> now]
           /\ delays' = delays \o [k \in 1..filled |-> Delay(k - 1)]
           /\ outcome' = [outcome EXCEPT
                !.scheduled = @ + filled, !.issued = @ + filled,
                !.missed = @ + Cardinality({k \in 0..(filled - 1) : Delay(k) # 0}),
                !.peakBacklog = Max({@, SaturatingSub(DueCount(now), issued + filled)})]
           /\ batchStart' = IF filled = 0 THEN batchStart ELSE issued
           /\ issueTime' = issueTime \o [k \in 1..filled |-> now]
           /\ peer' = peer \o Arrivals(delay)
           /\ pc' = IF inFlight + filled = 0 THEN "ended" ELSE "top"
  /\ UNCHANGED <<now, since, received, latencies>>

(* timeout_outcome, for any of the three waits.                            *)
TimeoutOutcome ==
  /\ outcome' = [outcome EXCEPT !.timedOut = 1, !.incomplete = inFlight]
  /\ pc' = "ended"
  /\ UNCHANGED <<now, since, issued, received, inFlight, issuedTimes, latencies, delays,
                 batchStart, issueTime, peer>>

(* The drain timeout also covers the sleep for the schedule.               *)
IssueTimesOut ==
  /\ pc \in {"issue", "refill"} /\ ~MayIssue
  /\ now >= since + DrainTimeout
  /\ TimeoutOutcome

Arrived == received < Len(peer) /\ peer[received + 1] <= now

ReadTimesOut == pc = "read" /\ ~Arrived /\ now >= since + DrainTimeout /\ TimeoutOutcome

(* Fault: the newest issue time is taken.                                  *)
Newest_IssuedAt == issuedTimes[Len(issuedTimes)]

(* issued_times.pop_front: responses arrive in the order of the requests.  *)
IssuedAt == Head(issuedTimes)

ReadResponse ==
  /\ pc = "read" /\ Arrived
  /\ received' = received + 1 /\ inFlight' = inFlight - 1
  /\ outcome' = [outcome EXCEPT !.completed = @ + 1]
  /\ latencies' = Append(latencies, now - IssuedAt)
  /\ issuedTimes' = Tail(issuedTimes)
  /\ pc' = IF inFlight - 1 <= PipelineDepth \div 2 THEN "refill" ELSE "top"
  /\ since' = now
  /\ UNCHANGED <<now, issued, delays, batchStart, issueTime, peer>>

(* Time passes only while the session waits: a timer that has expired and  *)
(* a response that has arrived are served first.                           *)
Waiting ==
  \/ pc \in {"issue", "refill"} /\ ~MayIssue /\ now < since + DrainTimeout
  \/ pc = "read" /\ ~Arrived /\ now < since + DrainTimeout

Tick ==
  /\ Waiting /\ now < MaxTime
  /\ now' = now + 1
  /\ UNCHANGED <<pc, since, issued, received, inFlight, issuedTimes, outcome, latencies, delays,
                 batchStart, issueTime, peer>>

Next == LoopTop \/ IssueBatch \/ IssueTimesOut \/ ReadResponse \/ ReadTimesOut \/ Tick

Spec == Init /\ [][Next]_vars

-----------------------------------------------------------------------------
(* Every latency in the histogram belongs to its own request, although     *)
(* issue times are only kept in a queue beside the window.  A response     *)
(* that arrives while the session sleeps for the schedule is read late:    *)
(* its latency is too long by at most the intervals of one window.         *)
LatencyTrue ==
  /\ Len(issuedTimes) = inFlight /\ Len(latencies) = received
  /\ \A k \in DOMAIN issuedTimes : issuedTimes[k] = issueTime[received + k]
  /\ \A k \in DOMAIN latencies :
       /\ latencies[k] >= peer[k] - issueTime[k]
       /\ latencies[k] <= peer[k] - issueTime[k] + PipelineDepth * Interval

(* A request counts as missed exactly when it was written after its own    *)
(* deadline, and delays are recorded once per request issued.              *)
MissedExact ==
  /\ outcome.issued = issued /\ outcome.scheduled = issued /\ Len(delays) = issued
  /\ \A k \in DOMAIN delays : delays[k] = SaturatingSub(issueTime[k], Deadline(k - 1))
  /\ outcome.missed = Cardinality({k \in DOMAIN delays : delays[k] # 0})

(* The session never runs further ahead of the schedule than its window:   *)
(* a batch starts at the deadline of its first request or later.           *)
BurstBound ==
  /\ issued > 0 => issueTime[batchStart + 1] >= Deadline(batchStart)
  /\ issued <= DueCount(now) + PipelineDepth - 1
=============================================================================
