------------------------------ MODULE LoadRun ------------------------------
(***************************************************************************)
(* Load mode of src/lib.rs: run_load starts one LoadSession per connection *)
(* and joins them.  A session keeps a window of pipelined requests, reads  *)
(* responses in order, and stops on its quota, on the shared stop flag or  *)
(* on the shared byte limit.  Sessions run on several threads and share    *)
(* the stop flag and the statistics, so a step of a session is what it     *)
(* does between two loads or stores of shared state.                       *)
(*                                                                         *)
(* Time is abstract: a timeout may fire wherever the code waits and what   *)
(* it waits for is not there.  The peer is external.                       *)
(***************************************************************************)
EXTENDS Integers, Sequences, FiniteSetsExt, CommandCoordination, SequenceTheorems, TLAPS

CONSTANTS
  Connections,    \* LoadConfig.connections
  ClientOffset, TotalClients,
  Requests,       \* LoadConfig.requests, 0 for none
  TransferBytes,  \* LoadConfig.transfer_bytes, 0 for none
  PipelineDepth,
  FlushCommands,  \* LOAD_STATS_FLUSH_COMMANDS
  StartId, IdSpace, \* the first id, and 2^64
  CommandMix, WorkloadPolicy, VerificationPolicy,
  SampleEvery,    \* 100 in LoadVerificationPolicy::verifies
  PeerFaults,     \* what the peer may do wrong
  MaxIssued       \* bound on requests per session when there is no quota

Session == 0..(Connections - 1)

(* The client_index of a session.                                          *)
GlobalIndex(s) == ClientOffset + s

-----------------------------------------------------------------------------
(* The workload.                                                           *)

(* client_command_kind.                                                    *)
CommandKind(id) ==
  CASE CommandMix = "Alternate" -> IF id % 2 = 0 THEN "Body" ELSE "Article"
    [] CommandMix = "Mixed"     -> <<"Article", "Body", "Stat">>[(id % 3) + 1]
    [] OTHER                    -> CommandMix

(* synthetic_request_id.                                                   *)
SyntheticId(s, index) ==
  CASE WorkloadPolicy = "Disjoint" -> (StartId + GlobalIndex(s) + index * TotalClients) % IdSpace
    [] WorkloadPolicy = "Shared"   -> (StartId + index) % IdSpace
    [] WorkloadPolicy = "Repeat"   -> StartId

(* append_load_workload_request, and what the reader expects back.         *)
WorkloadRequest(s, index) ==
  [kind |-> CommandKind((StartId + index) % IdSpace), id |-> SyntheticId(s, index)]

(* LoadVerificationPolicy::verifies.                                       *)
Verifies(index) ==
  CASE VerificationPolicy = "None"    -> FALSE
    [] VerificationPolicy = "Sampled" -> index % SampleEvery = 0
    [] VerificationPolicy = "Full"    -> TRUE

(* requests_for_connection; the bound stands for no quota.                 *)
Quota(s) ==
  IF Requests = 0 THEN MaxIssued
  ELSE Requests \div TotalClients + IF GlobalIndex(s) < (Requests % TotalClients) THEN 1 ELSE 0

(* The length of a response, by what it carries.                           *)
ResponseLen(kind) == CASE kind = "Article" -> 3 [] kind = "Body" -> 2 [] kind = "Stat" -> 1

MaxResponseLen == 3

(* ResponseInitial::parse for the expected kind, then the Message-ID.      *)
ResponseMatches(response, expected, index) ==
  /\ response.kind = expected.kind
  /\ Verifies(index) => response.id = expected.id

NoStats == [commands |-> 0, article |-> 0, body |-> 0]

CountResponse(stats, kind) ==
  [commands |-> stats.commands + 1,
   article  |-> stats.article + IF kind = "Article" THEN 1 ELSE 0,
   body     |-> stats.body + IF kind = "Body" THEN 1 ELSE 0]

-----------------------------------------------------------------------------
VARIABLES
  stop,      \* the shared AtomicBool
  bytesSent, accepted, active, errors, batches, totals, \* the shared Stats
  pc, capacity, filled, issued, received, inFlight, sessionStats, \* a session
  outcome,   \* LoadSessionOutcome of a session
  ended,     \* how its task ended
  request, response, lied, \* the connection: in order both ways; did the peer lie
  run, lifecycle, joined   \* run_load: state, merged outcome, joined tasks

shared  == <<stop, bytesSent, accepted, active, errors, batches, totals>>
local   == <<pc, capacity, filled, issued, received, inFlight, sessionStats, outcome, ended>>
network == <<request, response, lied>>
runner  == <<run, lifecycle, joined>>
vars    == <<shared, local, network, runner>>

NoOutcome == [timedOut |-> 0, drained |-> 0, incomplete |-> 0]

Init ==
  /\ stop = FALSE /\ bytesSent = 0 /\ accepted = 0 /\ active = 0
  /\ errors = 0 /\ batches = 0 /\ totals = NoStats
  /\ pc = [s \in Session |-> "start"]
  /\ capacity = [s \in Session |-> 0] /\ filled = [s \in Session |-> 0]
  /\ issued = [s \in Session |-> 0] /\ received = [s \in Session |-> 0]
  /\ inFlight = [s \in Session |-> 0]
  /\ sessionStats = [s \in Session |-> NoStats]
  /\ outcome = [s \in Session |-> NoOutcome] /\ ended = [s \in Session |-> "no"]
  /\ request = [s \in Session |-> <<>>] /\ response = [s \in Session |-> <<>>]
  /\ lied = [s \in Session |-> FALSE]
  /\ run = "running" /\ lifecycle = NoOutcome /\ joined = {}

-----------------------------------------------------------------------------
(* LoadSession::run.                                                       *)

Start(s) ==
  /\ pc[s] = "start"
  /\ accepted' = accepted + 1 /\ active' = active + 1
  /\ pc' = [pc EXCEPT ![s] = "setup"]
  /\ UNCHANGED <<stop, bytesSent, errors, batches, totals, capacity, filled, issued, received,
                 inFlight, sessionStats, outcome, ended, network, runner>>

(* The task returns: run_inner's result after the active count is reduced. *)
Return(s, how) ==
  /\ pc' = [pc EXCEPT ![s] = "done"]
  /\ ended' = [ended EXCEPT ![s] = how]
  /\ active' = active - 1

(* timeout_outcome: what was counted locally is dropped with the session.  *)
TimeoutOutcome(s) ==
  /\ Return(s, "ok")
  /\ outcome' = [outcome EXCEPT ![s].timedOut = 1, ![s].incomplete = inFlight[s]]
  /\ UNCHANGED <<stop, bytesSent, accepted, errors, batches, totals, capacity, filled, issued,
                 received, inFlight, sessionStats, network, runner>>

Fail(s, how) ==
  /\ Return(s, how)
  /\ UNCHANGED <<stop, bytesSent, accepted, errors, batches, totals, capacity, filled, issued,
                 received, inFlight, sessionStats, outcome, network, runner>>

(* What read_greeting may see, and validate_service_ready_greeting.        *)
Greeting ==
  {"200", "201"} \cup
  (IF "refuse" \in PeerFaults THEN {"400", "502", "other", "unframed", "eof"} ELSE {})

ServiceReady(greeting) == greeting \in {"200", "201"}

(* Connect and read the greeting.                                          *)
SetupReady(s) ==
  /\ pc[s] = "setup"
  /\ \E greeting \in Greeting : ServiceReady(greeting)
  /\ pc' = [pc EXCEPT ![s] = "top"]
  /\ UNCHANGED <<shared, capacity, filled, issued, received, inFlight, sessionStats, outcome,
                 ended, network, runner>>

SetupTimesOut(s) == pc[s] = "setup" /\ TimeoutOutcome(s)

SetupFails(s) ==
  /\ pc[s] = "setup"
  /\ \E greeting \in Greeting : ~ServiceReady(greeting)
  /\ Fail(s, "setup")

(* The head of the loop: issue a batch when nothing is in flight.          *)
LoopTop(s) ==
  /\ pc[s] = "top"
  /\ IF inFlight[s] = 0
     THEN /\ pc' = [pc EXCEPT ![s] = "fill"]
          /\ capacity' = [capacity EXCEPT ![s] = PipelineDepth]
          /\ filled' = [filled EXCEPT ![s] = 0]
     ELSE /\ pc' = [pc EXCEPT ![s] = "read"]
          /\ UNCHANGED <<capacity, filled>>
  /\ UNCHANGED <<shared, issued, received, inFlight, sessionStats, outcome, ended, network, runner>>

-----------------------------------------------------------------------------
(* issue_load_batch and write_load_batch.                                  *)

(* transfer_limit_reached.                                                 *)
TransferLimitReached == TransferBytes # 0 /\ bytesSent >= TransferBytes

(* The loop condition: room, no stop, quota and byte limit not reached.    *)
MayFill(s) ==
  /\ filled[s] < capacity[s]
  /\ ~stop
  /\ issued[s] + filled[s] < Quota(s)
  /\ ~TransferLimitReached

(* One round of the loop that appends requests to the buffer.              *)
FillOne(s) ==
  /\ pc[s] = "fill" /\ MayFill(s)
  /\ filled' = [filled EXCEPT ![s] = @ + 1]
  /\ UNCHANGED <<shared, pc, capacity, issued, received, inFlight, sessionStats, outcome, ended,
                 network, runner>>

FillDone(s) ==
  /\ pc[s] = "fill" /\ ~MayFill(s) /\ filled[s] # 0
  /\ pc' = [pc EXCEPT ![s] = "write"]
  /\ UNCHANGED <<shared, capacity, filled, issued, received, inFlight, sessionStats, outcome,
                 ended, network, runner>>

(* flush_load_session_stats.                                               *)
Flushed(s) ==
  [commands |-> totals.commands + sessionStats[s].commands,
   article  |-> totals.article + sessionStats[s].article,
   body     |-> totals.body + sessionStats[s].body]

(* Nothing to send: go on reading, or end the loop and flush.              *)
FillNone(s) ==
  /\ pc[s] = "fill" /\ ~MayFill(s) /\ filled[s] = 0
  /\ IF inFlight[s] # 0
     THEN /\ pc' = [pc EXCEPT ![s] = "read"]
          /\ UNCHANGED <<ended, active, totals, sessionStats>>
     ELSE /\ Return(s, "ok")
          /\ totals' = Flushed(s)
          /\ sessionStats' = [sessionStats EXCEPT ![s] = NoStats]
  /\ UNCHANGED <<stop, bytesSent, accepted, errors, batches, capacity, filled, issued, received,
                 inFlight, outcome, network, runner>>

(* write_all of the batch.                                                 *)
WriteBatch(s) ==
  /\ pc[s] = "write"
  /\ request' = [request EXCEPT
       ![s] = @ \o [i \in 1..filled[s] |-> WorkloadRequest(s, issued[s] + i - 1)]]
  /\ batches' = batches + 1
  /\ issued' = [issued EXCEPT ![s] = @ + filled[s]]
  /\ inFlight' = [inFlight EXCEPT ![s] = @ + filled[s]]
  /\ filled' = [filled EXCEPT ![s] = 0]
  /\ pc' = [pc EXCEPT ![s] = "read"]
  /\ UNCHANGED <<stop, bytesSent, accepted, active, errors, totals, capacity, received,
                 sessionStats, outcome, ended, response, lied, runner>>

(* The write does not finish in drain_timeout.  The timeout around the     *)
(* batch and the one around the write expire in the same timer tick: the   *)
(* session ends as timed out, or the run fails.                            *)
WriteTimesOut(s) == pc[s] = "write" /\ (TimeoutOutcome(s) \/ Fail(s, "write"))

WriteFails(s) == pc[s] = "write" /\ "close" \in PeerFaults /\ Fail(s, "write")

-----------------------------------------------------------------------------
(* Responses.                                                              *)

(* Fault: the response is checked against the next request to be issued.   *)
Newest_Expected(s) == WorkloadRequest(s, issued[s] - 1)

(* The request the next response must answer.                              *)
Expected(s) == WorkloadRequest(s, received[s])

(* was_draining, the counters and the flush when enough has been counted.  *)
ReadResponse(s) ==
  /\ pc[s] = "read" /\ response[s] # <<>>
  /\ ResponseMatches(Head(response[s]), Expected(s), received[s])
  /\ LET kind  == Expected(s).kind
         stats == CountResponse(sessionStats[s], kind)
         flush == stats.commands >= FlushCommands
     IN  /\ outcome' = [outcome EXCEPT ![s].drained = @ + IF stop THEN 1 ELSE 0]
         /\ bytesSent' = bytesSent + ResponseLen(kind)
         /\ sessionStats' = [sessionStats EXCEPT ![s] = IF flush THEN NoStats ELSE stats]
         /\ totals' = IF flush THEN [commands |-> totals.commands + stats.commands,
                                     article  |-> totals.article + stats.article,
                                     body     |-> totals.body + stats.body] ELSE totals
  /\ response' = [response EXCEPT ![s] = Tail(@)]
  /\ received' = [received EXCEPT ![s] = @ + 1]
  /\ inFlight' = [inFlight EXCEPT ![s] = @ - 1]
  /\ pc' = [pc EXCEPT ![s] = "limit"]
  /\ UNCHANGED <<stop, accepted, active, errors, batches, capacity, filled, issued, ended,
                 request, lied, runner>>

ReadMismatch(s) ==
  /\ pc[s] = "read" /\ response[s] # <<>>
  /\ ~ResponseMatches(Head(response[s]), Expected(s), received[s])
  /\ Fail(s, "mismatch")

(* read_response finds the stream closed before a whole response.          *)
ReadEof(s) ==
  /\ pc[s] = "read" /\ response[s] = <<>> /\ "close" \in PeerFaults
  /\ Fail(s, "eof")

(* Fault: the read has no timeout.                                         *)
Untimed_ReadTimesOut(s) == FALSE /\ UNCHANGED vars

(* A response that is complete is taken before the timer is looked at.     *)
ReadTimesOut(s) == pc[s] = "read" /\ response[s] = <<>> /\ TimeoutOutcome(s)

(* The byte limit sets the stop flag; then the window is refilled once it  *)
(* is at most half full.                                                   *)
CheckLimit(s) ==
  /\ pc[s] = "limit"
  /\ stop' = (stop \/ TransferLimitReached)
  /\ IF inFlight[s] <= PipelineDepth \div 2
     THEN /\ pc' = [pc EXCEPT ![s] = "fill"]
          /\ capacity' = [capacity EXCEPT ![s] = PipelineDepth - inFlight[s]]
          /\ filled' = [filled EXCEPT ![s] = 0]
     ELSE /\ pc' = [pc EXCEPT ![s] = "top"]
          /\ UNCHANGED <<capacity, filled>>
  /\ UNCHANGED <<bytesSent, accepted, active, errors, batches, totals, issued, received,
                 inFlight, sessionStats, outcome, ended, network, runner>>

-----------------------------------------------------------------------------
(* The peer answers requests in order, or with something else.             *)

PeerResponds(s) ==
  /\ request[s] # <<>>
  /\ response' = [response EXCEPT ![s] = Append(@, Head(request[s]))]
  /\ request' = [request EXCEPT ![s] = Tail(@)]
  /\ UNCHANGED <<shared, local, lied, runner>>

PeerLies(s) ==
  /\ "wrong" \in PeerFaults /\ request[s] # <<>>
  /\ response' = [response EXCEPT ![s] = Append(@, [Head(request[s]) EXCEPT !.id = IdSpace])]
  /\ request' = [request EXCEPT ![s] = Tail(@)]
  /\ lied' = [lied EXCEPT ![s] = TRUE]
  /\ UNCHANGED <<shared, local, runner>>

-----------------------------------------------------------------------------
(* run_load.                                                               *)

(* The signal and duration tasks.                                          *)
RequestStop == run = "running" /\ ~stop /\ stop' = TRUE
               /\ UNCHANGED <<bytesSent, accepted, active, errors, batches, totals, local,
                              network, runner>>

(* LoadSessionOutcome::merge.                                              *)
Merge(a, b) ==
  [timedOut |-> a.timedOut + b.timedOut, drained |-> a.drained + b.drained,
   incomplete |-> a.incomplete + b.incomplete]

JoinOk(s) ==
  /\ run = "running" /\ pc[s] = "done" /\ s \notin joined /\ ended[s] = "ok"
  /\ lifecycle' = Merge(lifecycle, outcome[s])
  /\ joined' = joined \cup {s}
  /\ UNCHANGED <<shared, local, network, run>>

(* The first error stops the other sessions and fails the run.             *)
JoinError(s) ==
  /\ run = "running" /\ pc[s] = "done" /\ s \notin joined /\ ended[s] # "ok"
  /\ errors' = errors + 1 /\ stop' = TRUE
  /\ run' = "failed" /\ joined' = joined \cup {s}
  /\ UNCHANGED <<bytesSent, accepted, active, batches, totals, local, network, lifecycle>>

(* abort_all takes effect where the task waits.                            *)
Abort(s) ==
  /\ run = "failed" /\ pc[s] \in {"start", "setup", "write", "read"}
  /\ pc' = [pc EXCEPT ![s] = "done"] /\ ended' = [ended EXCEPT ![s] = "aborted"]
  /\ UNCHANGED <<shared, capacity, filled, issued, received, inFlight, sessionStats, outcome,
                 network, runner>>

JoinedAll ==
  /\ run = "running" /\ joined = Session
  /\ run' = "reported"
  /\ UNCHANGED <<shared, local, network, lifecycle, joined>>

-----------------------------------------------------------------------------
(* What a session does by itself, timers included.                         *)
LocalStep(s) ==
  \/ Start(s) \/ LoopTop(s) \/ FillOne(s) \/ FillDone(s) \/ FillNone(s)
  \/ ReadResponse(s) \/ ReadMismatch(s) \/ CheckLimit(s) \/ Abort(s)
  \/ SetupTimesOut(s) \/ WriteTimesOut(s) \/ ReadTimesOut(s)

(* What it does when the peer lets it, or fails.                           *)
PeerStep(s) ==
  \/ SetupReady(s) \/ SetupFails(s) \/ WriteBatch(s) \/ WriteFails(s) \/ ReadEof(s)
  \/ PeerResponds(s) \/ PeerLies(s)

RunnerStep == JoinedAll \/ \E s \in Session : JoinOk(s) \/ JoinError(s)

Done == run # "running" /\ (\A s \in Session : pc[s] = "done") /\ UNCHANGED vars

Next ==
  \/ \E s \in Session : LocalStep(s) \/ PeerStep(s)
  \/ RequestStop \/ RunnerStep \/ Done

(* The runtime polls every ready task, and timers fire; nothing is asked   *)
(* of the peer or of the operator.                                         *)
Fairness == WF_vars(RunnerStep) /\ \A s \in Session : WF_vars(LocalStep(s))

Spec == Init /\ [][Next]_vars

FairSpec == Spec /\ Fairness

-----------------------------------------------------------------------------
Total(f) == MapThenSumSet(LAMBDA s : f[s], Session)

OneTo(s) == 0..(received[s] - 1)

(* Bytes of the responses session s has read.                              *)
BytesRead(s) == MapThenSumSet(LAMBDA i : ResponseLen(WorkloadRequest(s, i).kind), OneTo(s))

(* in_flight counts exactly the requests written and not yet answered and  *)
(* never exceeds the window, through refills at half full and stops in the *)
(* middle of a batch; run_inner subtracts it from the depth unchecked.     *)
WindowExact ==
  \A s \in Session :
    /\ inFlight[s] = Len(request[s]) + Len(response[s])
    /\ received[s] + inFlight[s] = issued[s]
    /\ inFlight[s] + filled[s] <= PipelineDepth

(* The reader pairs the k-th response with the k-th request by counting:   *)
(* a session reports a mismatch only when the peer answered something      *)
(* else, never because a refill, a stop or a wrapped id moved its count.   *)
MismatchIsReal == \A s \in Session : ended[s] = "mismatch" => lied[s]

(* After the byte limit is met only what was already sent is still read:   *)
(* the total exceeds transfer_bytes by less than one full window per       *)
(* connection, whatever the interleaving of the shared counter.            *)
OvershootBound ==
  TransferBytes # 0 =>
    bytesSent + MaxResponseLen * Total([s \in Session |-> inFlight[s] + filled[s]])
      < TransferBytes + MaxResponseLen * Connections * PipelineDepth

(* When the run reports and no session timed out, the shared totals count  *)
(* every response read; each session that timed out may have lost what it  *)
(* had not flushed, less than one flush interval.                          *)
ReportedTotals ==
  run = "reported" =>
    /\ bytesSent = MapThenSumSet(BytesRead, Session)
    /\ totals.commands <= Total(received)
    /\ Total(received) - totals.commands <= lifecycle.timedOut * (FlushCommands - 1)
    /\ lifecycle.timedOut = 0 =>
         \A k \in {"Article", "Body"} :
           (IF k = "Article" THEN totals.article ELSE totals.body) =
             MapThenSumSet(LAMBDA s : Cardinality({i \in OneTo(s) : WorkloadRequest(s, i).kind = k}),
                           Session)

Undisturbed == run = "reported" /\ ~stop /\ lifecycle.timedOut = 0 /\ Requests # 0

(* A run that reports, was not stopped and had no timeout has completed    *)
(* the quota of every session, although sessions look at the stop flag and *)
(* at the byte counter at different times.                                 *)
QuotaFilled == Undisturbed => \A s \in Session : received[s] = Quota(s)

(* These are exactly --requests commands: the quotas of all sessions       *)
(* together lose and repeat nothing.                                       *)
QuotaExact == QuotaFilled /\ (Undisturbed /\ Connections = TotalClients => totals.commands = Requests)

(* Only a session that timed out leaves requests incomplete, and only a    *)
(* stop makes one drain its window.                                        *)
OutcomesExplained ==
  /\ lifecycle.timedOut = 0 => lifecycle.incomplete = 0
  /\ ~stop => lifecycle.drained = 0

(* incomplete_requests, drained_requests and timed_out_connections of the  *)
(* report: every request sent is either completed or counted incomplete.   *)
ReportAccounts ==
  /\ OutcomesExplained
  /\ run = "reported" =>
       /\ Total(issued) = Total(received) + lifecycle.incomplete
       /\ lifecycle.drained <= Total(received)
       /\ active = 0 /\ accepted = Connections

(* The disjoint policy gives no two sessions, and no session twice, the    *)
(* same Message-ID, also when ids wrap around u64.                         *)
DisjointIds ==
  WorkloadPolicy = "Disjoint" =>
    \A s, t \in Session : \A i \in 0..(issued[s] - 1), j \in 0..(issued[t] - 1) :
      SyntheticId(s, i) = SyntheticId(t, j) => s = t /\ i = j

(* Whatever the peer does, run_load returns, because every wait has a      *)
(* timeout and a quota or a stop ends the issuing.                         *)
RunReturns == <>(run # "running")

-----------------------------------------------------------------------------
(* Proofs: load mode accounts for its requests whatever the number of      *)
(* sessions, the window, the quota, the byte limit and the workload.  The  *)
(* inductive invariant adds to the properties what a session knows between *)
(* steps: which requests are on its connection and in what order, why it   *)
(* ended, and who still has to set the stop flag.                          *)

(* What LoadConfig::from_args lets through: at least one client in total   *)
(* and a window of at least one request.                                   *)
LoadParameters ==
  /\ Connections \in Nat /\ ClientOffset \in Nat /\ TotalClients \in Nat \ {0}
  /\ Requests \in Nat /\ TransferBytes \in Nat /\ MaxIssued \in Nat
  /\ PipelineDepth \in Nat \ {0}
  /\ StartId \in Nat /\ IdSpace \in Nat \ {0}
  /\ CommandMix \in {"Alternate", "Mixed", "Article", "Body", "Stat"}

(* What a session may send, and what may come back.                        *)
Sent == {WorkloadRequest(s, i) : s \in Session, i \in Nat}

Answers == Sent \cup {[r EXCEPT !.id = IdSpace] : r \in Sent}

(* Where run_inner may be.                                                *)
Place == {"start", "setup", "top", "fill", "write", "read", "limit", "done"}

(* The types of what the invariant speaks of.                              *)
Typed ==
  /\ stop \in BOOLEAN /\ bytesSent \in Nat
  /\ pc \in [Session -> Place]
  /\ capacity \in [Session -> Nat] /\ filled \in [Session -> Nat]
  /\ issued \in [Session -> Nat] /\ received \in [Session -> Nat] /\ inFlight \in [Session -> Nat]
  /\ outcome \in [Session -> [timedOut : Nat, drained : Nat, incomplete : Nat]]
  /\ ended \in [Session -> {"no", "ok", "setup", "write", "mismatch", "eof", "aborted"}]
  /\ request \in [Session -> Seq(Sent)] /\ response \in [Session -> Seq(Answers)]
  /\ lied \in [Session -> BOOLEAN]
  /\ run \in {"running", "failed", "reported"}
  /\ lifecycle \in [timedOut : Nat, drained : Nat, incomplete : Nat]
  /\ joined \in SUBSET Session

(* WindowExact for one session, and the room that capacity leaves.         *)
Window(s) ==
  /\ inFlight[s] = Len(request[s]) + Len(response[s])
  /\ received[s] + inFlight[s] = issued[s]
  /\ inFlight[s] + filled[s] <= PipelineDepth
  /\ issued[s] + filled[s] <= Quota(s)
  /\ pc[s] = "fill" => capacity[s] # 0 /\ capacity[s] + inFlight[s] <= PipelineDepth

(* Requests and responses on the connection are those after the last one   *)
(* read, in order; unless the peer lied.                                   *)
InOrder(s) ==
  /\ \A k \in 1..Len(request[s]) : request[s][k] = WorkloadRequest(s, received[s] + Len(response[s]) + k - 1)
  /\ ~lied[s] => \A k \in 1..Len(response[s]) : response[s][k] = WorkloadRequest(s, received[s] + k - 1)
  /\ ended[s] = "mismatch" => lied[s]

(* A session ends without a timeout when its quota is issued, or because   *)
(* of a stop or the byte limit.                                            *)
Ending(s) ==
  /\ pc[s] # "done" <=> ended[s] = "no"
  /\ ended[s] = "ok" /\ outcome[s].timedOut = 0 =>
       inFlight[s] = 0 /\ (issued[s] = Quota(s) \/ stop \/ TransferLimitReached)
  /\ outcome[s].timedOut = 0 => outcome[s].incomplete = 0
  /\ outcome[s].drained # 0 => stop

(* run_load has merged the outcome of every session it joined.             *)
Joining(s) ==
  s \in joined /\ run # "failed" => ended[s] = "ok" /\ outcome[s].timedOut <= lifecycle.timedOut

(* Whoever reads past the byte limit sets the stop flag next.              *)
LimitStops == TransferLimitReached => stop \/ \E s \in Session : pc[s] = "limit"

(* run_load reports only after it has joined every session.                *)
Reported == run = "reported" => joined = Session

(* The part of the invariant that is about one session.                    *)
SInv(s) == Window(s) /\ InOrder(s) /\ Ending(s) /\ Joining(s)

(* The inductive invariant.                                                *)
IInv ==
  /\ Typed /\ OutcomesExplained /\ LimitStops /\ Reported
  /\ \A s \in Session : SInv(s)

-----------------------------------------------------------------------------
USE DEF Place

(* The steps are left to Zenon, those that say so to SMT.                   *)
USE ZenonT(30)

(* requests_for_connection yields a number.                                *)
LEMMA QuotaType == ASSUME LoadParameters, NEW s \in Session PROVE Quota(s) \in Nat
  <1>1. /\ Requests \div TotalClients \in Nat
        /\ Requests % TotalClients \in Nat
    BY SMT DEF LoadParameters
  <1> QED BY SMT, <1>1 DEF Quota, LoadParameters, GlobalIndex, Session

(* A response to any request of the workload has a length.                 *)
LEMMA KindType ==
  ASSUME LoadParameters, NEW s \in Session, NEW i \in Nat
  PROVE  ResponseLen(WorkloadRequest(s, i).kind) \in Nat
  <1> DEFINE id == (StartId + i) % IdSpace
  <1>1. id \in Nat BY SMT DEF LoadParameters
  <1>2. WorkloadRequest(s, i).kind = CommandKind(id) BY DEF WorkloadRequest
  <1> HIDE DEF id
  <1>3. CommandKind(id) \in {"Article", "Body", "Stat"}
    <2>1. CASE CommandMix = "Alternate" BY <2>1 DEF CommandKind
    <2>2. CASE CommandMix = "Mixed"
      <3>1. id % 3 \in 0..2 BY SMT, <1>1
      <3> QED BY SMT, <2>2, <3>1 DEF CommandKind
    <2>3. CASE CommandMix \in {"Article", "Body", "Stat"} BY <2>3 DEF CommandKind
    <2> QED BY <2>1, <2>2, <2>3 DEF LoadParameters
  <1>4. ResponseLen("Article") = 3 /\ ResponseLen("Body") = 2 /\ ResponseLen("Stat") = 1
    BY DEF ResponseLen
  <1> QED BY SMT, <1>2, <1>3, <1>4

(* All of the state that is session t's own.                               *)
View(t) ==
  <<pc[t], capacity[t], filled[t], issued[t], received[t], inFlight[t], outcome[t], ended[t],
    request[t], response[t], lied[t]>>

(* What the others share only ever grows.                                  *)
Grows == (stop => stop') /\ (TransferLimitReached => TransferLimitReached')

(* A step that leaves session t alone keeps what is known of t, although   *)
(* the stop flag and the byte counter may move under it.                   *)
LEMMA Frame ==
  ASSUME NEW t \in Session, SInv(t), View(t)' = View(t), Grows, UNCHANGED runner
  PROVE  SInv(t)'
  <1>1. Window(t)' BY DEF SInv, Window, View, Quota, GlobalIndex
  <1>2. InOrder(t)'
    <2>1. /\ request'[t] = request[t] /\ response'[t] = response[t] /\ lied'[t] = lied[t]
          /\ received'[t] = received[t] /\ ended'[t] = ended[t]
      BY DEF View
    <2> QED BY <2>1 DEF SInv, InOrder
  <1>3. Ending(t)' BY DEF SInv, Ending, View, Grows, Quota, GlobalIndex
  <1>4. Joining(t)' BY DEF SInv, Joining, View, runner
  <1> QED BY <1>1, <1>2, <1>3, <1>4 DEF SInv

(* So a step of session s need only be followed for s and for the byte     *)
(* limit.                                                                  *)
LEMMA OneSession ==
  ASSUME IInv, NEW s \in Session, Typed', SInv(s)', LimitStops', Grows, UNCHANGED runner,
         \A t \in Session \ {s} : View(t)' = View(t)
  PROVE  IInv'
  <1>1. \A t \in Session : SInv(t)'
    <2> SUFFICES ASSUME NEW t \in Session PROVE SInv(t)'
      OBVIOUS
    <2>1. CASE t = s BY <2>1
    <2>2. CASE t # s
      <3>1. View(t)' = View(t) BY <2>2
      <3>2. SInv(t) BY DEF IInv
      <3> QED BY <3>1, <3>2, Frame
    <2> QED BY <2>1, <2>2
  <1>2. OutcomesExplained' BY DEF IInv, OutcomesExplained, Grows, runner
  <1>3. Reported' BY DEF IInv, Reported, runner, Session
  <1> QED BY <1>1, <1>2, <1>3 DEF IInv
-----------------------------------------------------------------------------
(* Every step keeps the invariant.                                         *)

(* The task starts and is counted.                                         *)
LEMMA StartKeeps ==
  ASSUME LoadParameters, IInv, NEW s \in Session, Start(s)
  PROVE  IInv'
  <1> USE DEF Start, network, runner
  <1>0. Typed /\ SInv(s) /\ LimitStops /\ Quota(s) \in Nat BY QuotaType DEF IInv
  <1>1. Typed' BY <1>0 DEF Typed, LoadParameters
  <1>2. Window(s)' BY <1>0 DEF SInv, Window, Typed, LoadParameters
  <1>3. InOrder(s)' BY <1>0 DEF SInv, InOrder, Typed
  <1>4. Ending(s)' BY <1>0 DEF SInv, Ending, Window, Typed, TransferLimitReached
  <1>5. Joining(s)' BY <1>0 DEF SInv, Joining, Ending, Typed
  <1>6. \A t \in Session \ {s} : View(t)' = View(t) BY <1>0 DEF View, Typed
  <1>7. Grows BY <1>0 DEF Grows, Typed, TransferLimitReached, LoadParameters
  <1>8. LimitStops' BY <1>0 DEF LimitStops, Typed, TransferLimitReached
  <1>9. SInv(s)' BY <1>2, <1>3, <1>4, <1>5 DEF SInv
  <1> QED BY <1>1, <1>6, <1>7, <1>8, <1>9, OneSession

(* The connection is set up.                                               *)
LEMMA ReadyKeeps ==
  ASSUME LoadParameters, IInv, NEW s \in Session, SetupReady(s)
  PROVE  IInv'
  <1> USE DEF SetupReady, shared, network, runner
  <1>0. Typed /\ SInv(s) /\ LimitStops /\ Quota(s) \in Nat BY QuotaType DEF IInv
  <1>1. Typed' BY <1>0 DEF Typed, LoadParameters
  <1>2. Window(s)' BY <1>0 DEF SInv, Window, Typed, LoadParameters
  <1>3. InOrder(s)' BY <1>0 DEF SInv, InOrder, Typed
  <1>4. Ending(s)' BY <1>0 DEF SInv, Ending, Window, Typed, TransferLimitReached
  <1>5. Joining(s)' BY <1>0 DEF SInv, Joining, Ending, Typed
  <1>6. \A t \in Session \ {s} : View(t)' = View(t) BY <1>0 DEF View, Typed
  <1>7. Grows BY <1>0 DEF Grows, Typed, TransferLimitReached, LoadParameters
  <1>8. LimitStops' BY <1>0 DEF LimitStops, Typed, TransferLimitReached
  <1>9. SInv(s)' BY <1>2, <1>3, <1>4, <1>5 DEF SInv
  <1> QED BY <1>1, <1>6, <1>7, <1>8, <1>9, OneSession

(* The head of run_inner's loop offers the whole window when nothing is in *)
(* flight.                                                                 *)
LEMMA TopKeeps ==
  ASSUME LoadParameters, IInv, NEW s \in Session, LoopTop(s)
  PROVE  IInv'
  <1> USE DEF LoopTop, shared, network, runner
  <1>0. Typed /\ SInv(s) /\ LimitStops /\ Quota(s) \in Nat BY QuotaType DEF IInv
  <1>1. Typed'
    <2>1. capacity' \in [Session -> Nat] /\ filled' \in [Session -> Nat] /\ pc' \in [Session -> Place]
      <3>1. pc \in [Session -> Place] /\ capacity \in [Session -> Nat] /\ filled \in [Session -> Nat]
        BY <1>0 DEF Typed
      <3>2. PipelineDepth \in Nat /\ PipelineDepth - inFlight[s] \in Nat
        <4>1. PipelineDepth \in Nat /\ inFlight[s] \in Nat /\ filled[s] \in Nat BY <1>0
                                                                                   DEF Typed, LoadParameters
        <4>2. inFlight[s] + filled[s] <= PipelineDepth BY <1>0 DEF SInv, Window
        <4> QED BY SMT, <4>1, <4>2
      <3>3. CASE inFlight[s] = 0 BY SMT, <3>1, <3>2, <3>3
      <3>4. CASE ~(inFlight[s] = 0) BY <3>1, <3>4
      <3> QED BY <3>3, <3>4
    <2> QED BY <1>0, <2>1 DEF Typed
  <1>2. Window(s)'
    <2>1. /\ PipelineDepth \in Nat \ {0} /\ capacity[s] \in Nat /\ filled[s] \in Nat /\ inFlight[s] \in Nat
          /\ issued[s] \in Nat
      BY <1>0 DEF Typed, LoadParameters
    <2>2. UNCHANGED <<request, response, received, inFlight, issued>> OBVIOUS
    <2>3. CASE inFlight[s] = 0
      <3>1. pc'[s] = "fill" /\ capacity'[s] = PipelineDepth /\ filled'[s] = 0 BY <1>0, <2>3
                                                                                 DEF Typed
      <3>2. issued[s] + filled[s] <= Quota(s) BY <1>0 DEF SInv, Window
      <3>3. issued[s] + 0 <= Quota(s) /\ inFlight[s] + 0 <= PipelineDepth /\ PipelineDepth # 0
            /\ PipelineDepth + inFlight[s] <= PipelineDepth
        BY SMT, <1>0, <2>1, <2>3, <3>2
      <3> QED BY <1>0, <2>2, <3>1, <3>3 DEF SInv, Window
    <2>4. CASE inFlight[s] # 0
      <3>1. pc'[s] = "read" /\ filled'[s] = filled[s] BY <1>0, <2>4 DEF Typed
      <3> QED BY <1>0, <2>2, <3>1 DEF SInv, Window
    <2> QED BY <2>3, <2>4
  <1>3. InOrder(s)' BY <1>0 DEF SInv, InOrder, Typed
  <1>4. Ending(s)' BY <1>0 DEF SInv, Ending, Window, Typed, TransferLimitReached
  <1>5. Joining(s)' BY <1>0 DEF SInv, Joining, Ending, Typed
  <1>6. \A t \in Session \ {s} : View(t)' = View(t) BY <1>0 DEF View, Typed
  <1>7. Grows BY <1>0 DEF Grows, Typed, TransferLimitReached, LoadParameters
  <1>8. LimitStops' BY <1>0 DEF LimitStops, Typed, TransferLimitReached
  <1>9. SInv(s)' BY <1>2, <1>3, <1>4, <1>5 DEF SInv
  <1> QED BY <1>1, <1>6, <1>7, <1>8, <1>9, OneSession

(* issue_load_batch appends a request: capacity leaves room for it.        *)
LEMMA FillOneKeeps ==
  ASSUME LoadParameters, IInv, NEW s \in Session, FillOne(s)
  PROVE  IInv'
  <1> USE DEF FillOne, MayFill, shared, network, runner
  <1>0. Typed /\ SInv(s) /\ LimitStops /\ Quota(s) \in Nat BY QuotaType DEF IInv
  <1>1. Typed'
    <2>1. filled[s] \in Nat BY <1>0 DEF Typed
    <2>2. filled[s] + 1 \in Nat BY SMT, <2>1
    <2>3. filled' \in [Session -> Nat] BY <1>0, <2>2 DEF Typed
    <2> QED BY <1>0, <2>3 DEF Typed
  <1>2. Window(s)'
    <2>1. /\ PipelineDepth \in Nat \ {0} /\ capacity[s] \in Nat /\ filled[s] \in Nat /\ inFlight[s] \in Nat
          /\ issued[s] \in Nat
      BY <1>0 DEF Typed, LoadParameters
    <2>2. UNCHANGED <<request, response, received, inFlight, issued>> OBVIOUS
    <2>3. UNCHANGED <<pc, capacity>> /\ filled'[s] = filled[s] + 1 BY <1>0 DEF Typed
    <2>4. capacity[s] + inFlight[s] <= PipelineDepth BY <1>0 DEF SInv, Window
    <2>5. inFlight[s] + (filled[s] + 1) <= PipelineDepth BY SMT, <2>1, <2>4
    <2>6. issued[s] + (filled[s] + 1) <= Quota(s) BY SMT, <1>0, <2>1
    <2> QED BY <1>0, <2>2, <2>3, <2>5, <2>6 DEF SInv, Window
  <1>3. InOrder(s)' BY <1>0 DEF SInv, InOrder, Typed
  <1>4. Ending(s)' BY <1>0 DEF SInv, Ending, Window, Typed, TransferLimitReached
  <1>5. Joining(s)' BY <1>0 DEF SInv, Joining, Ending, Typed
  <1>6. \A t \in Session \ {s} : View(t)' = View(t) BY <1>0 DEF View, Typed
  <1>7. Grows BY <1>0 DEF Grows, Typed, TransferLimitReached, LoadParameters
  <1>8. LimitStops' BY <1>0 DEF LimitStops, Typed, TransferLimitReached
  <1>9. SInv(s)' BY <1>2, <1>3, <1>4, <1>5 DEF SInv
  <1> QED BY <1>1, <1>6, <1>7, <1>8, <1>9, OneSession

(* The batch is complete.                                                  *)
LEMMA FillDoneKeeps ==
  ASSUME LoadParameters, IInv, NEW s \in Session, FillDone(s)
  PROVE  IInv'
  <1> USE DEF FillDone, shared, network, runner
  <1>0. Typed /\ SInv(s) /\ LimitStops /\ Quota(s) \in Nat BY QuotaType DEF IInv
  <1>1. Typed' BY <1>0 DEF Typed, LoadParameters
  <1>2. Window(s)' BY <1>0 DEF SInv, Window, Typed, LoadParameters
  <1>3. InOrder(s)' BY <1>0 DEF SInv, InOrder, Typed
  <1>4. Ending(s)' BY <1>0 DEF SInv, Ending, Window, Typed, TransferLimitReached
  <1>5. Joining(s)' BY <1>0 DEF SInv, Joining, Ending, Typed
  <1>6. \A t \in Session \ {s} : View(t)' = View(t) BY <1>0 DEF View, Typed
  <1>7. Grows BY <1>0 DEF Grows, Typed, TransferLimitReached, LoadParameters
  <1>8. LimitStops' BY <1>0 DEF LimitStops, Typed, TransferLimitReached
  <1>9. SInv(s)' BY <1>2, <1>3, <1>4, <1>5 DEF SInv
  <1> QED BY <1>1, <1>6, <1>7, <1>8, <1>9, OneSession

(* Nothing to send: a session that ends here has its quota, saw the stop   *)
(* flag, or saw the byte limit.                                            *)
LEMMA FillNoneKeeps ==
  ASSUME LoadParameters, IInv, NEW s \in Session, FillNone(s)
  PROVE  IInv'
  <1> USE DEF FillNone, MayFill, Return, network, runner
  <1>0. Typed /\ SInv(s) /\ LimitStops /\ Quota(s) \in Nat BY QuotaType DEF IInv
  <1>1. Typed' BY <1>0 DEF Typed, LoadParameters
  <1>2. Window(s)' BY <1>0 DEF SInv, Window, Typed, LoadParameters
  <1>3. InOrder(s)' BY <1>0 DEF SInv, InOrder, Typed
  <1>4. Ending(s)'
    <2>1. /\ PipelineDepth \in Nat \ {0} /\ capacity[s] \in Nat /\ filled[s] \in Nat /\ inFlight[s] \in Nat
          /\ issued[s] \in Nat
      BY <1>0 DEF Typed, LoadParameters
    <2>2. UNCHANGED <<outcome, stop, bytesSent, inFlight, issued>> OBVIOUS
    <2>3. CASE inFlight[s] # 0
      <3>1. pc'[s] = "read" /\ ended'[s] = ended[s] BY <1>0, <2>3 DEF Typed
      <3> QED BY SMT, <1>0, <2>2, <3>1 DEF SInv, Ending, TransferLimitReached
    <2>4. CASE inFlight[s] = 0
      <3>1. pc'[s] = "done" /\ ended'[s] = "ok" BY <1>0, <2>4 DEF Typed
      <3>2. capacity[s] # 0 /\ issued[s] + filled[s] <= Quota(s) BY <1>0 DEF SInv, Window
      <3>3. issued[s] = Quota(s) \/ stop \/ TransferLimitReached BY SMT, <1>0, <2>1, <3>2
      <3> QED BY SMT, <1>0, <2>2, <2>4, <3>1, <3>3 DEF SInv, Ending, TransferLimitReached
    <2> QED BY <2>3, <2>4
  <1>5. Joining(s)' BY <1>0 DEF SInv, Joining, Ending, Typed
  <1>6. \A t \in Session \ {s} : View(t)' = View(t) BY <1>0 DEF View, Typed
  <1>7. Grows BY <1>0 DEF Grows, Typed, TransferLimitReached, LoadParameters
  <1>8. LimitStops' BY <1>0 DEF LimitStops, Typed, TransferLimitReached
  <1>9. SInv(s)' BY <1>2, <1>3, <1>4, <1>5 DEF SInv
  <1> QED BY <1>1, <1>6, <1>7, <1>8, <1>9, OneSession

(* timeout_outcome: what is in flight is counted incomplete.               *)
LEMMA TimeoutKeeps ==
  ASSUME LoadParameters, IInv, NEW s \in Session, pc[s] \in {"setup", "write", "read"}, TimeoutOutcome(s)
  PROVE  IInv'
  <1> USE DEF TimeoutOutcome, Return, network, runner
  <1>0. Typed /\ SInv(s) /\ LimitStops /\ Quota(s) \in Nat BY QuotaType DEF IInv
  <1>1. Typed' BY <1>0 DEF Typed, LoadParameters
  <1>2. Window(s)' BY <1>0 DEF SInv, Window, Typed, LoadParameters
  <1>3. InOrder(s)' BY <1>0 DEF SInv, InOrder, Typed
  <1>4. Ending(s)' BY SMT, <1>0 DEF SInv, Ending, Window, Typed, TransferLimitReached
  <1>5. Joining(s)' BY <1>0 DEF SInv, Joining, Ending, Typed
  <1>6. \A t \in Session \ {s} : View(t)' = View(t) BY <1>0 DEF View, Typed
  <1>7. Grows BY <1>0 DEF Grows, Typed, TransferLimitReached, LoadParameters
  <1>8. LimitStops' BY <1>0 DEF LimitStops, Typed, TransferLimitReached
  <1>9. SInv(s)' BY <1>2, <1>3, <1>4, <1>5 DEF SInv
  <1> QED BY <1>1, <1>6, <1>7, <1>8, <1>9, OneSession

(* The session ends with an error.                                         *)
LEMMA FailKeeps ==
  ASSUME LoadParameters, IInv, NEW s \in Session, NEW how \in {"setup", "write", "eof"},
         pc[s] \in {"setup", "write", "read"}, Fail(s, how)
  PROVE  IInv'
  <1> USE DEF Fail, Return, network, runner
  <1>0. Typed /\ SInv(s) /\ LimitStops /\ Quota(s) \in Nat BY QuotaType DEF IInv
  <1>1. Typed' BY <1>0 DEF Typed, LoadParameters
  <1>2. Window(s)' BY <1>0 DEF SInv, Window, Typed, LoadParameters
  <1>3. InOrder(s)' BY <1>0 DEF SInv, InOrder, Typed
  <1>4. Ending(s)' BY <1>0 DEF SInv, Ending, Window, Typed, TransferLimitReached
  <1>5. Joining(s)' BY <1>0 DEF SInv, Joining, Ending, Typed
  <1>6. \A t \in Session \ {s} : View(t)' = View(t) BY <1>0 DEF View, Typed
  <1>7. Grows BY <1>0 DEF Grows, Typed, TransferLimitReached, LoadParameters
  <1>8. LimitStops' BY <1>0 DEF LimitStops, Typed, TransferLimitReached
  <1>9. SInv(s)' BY <1>2, <1>3, <1>4, <1>5 DEF SInv
  <1> QED BY <1>1, <1>6, <1>7, <1>8, <1>9, OneSession

(* abort_all ends the task where it waits.                                 *)
LEMMA AbortKeeps ==
  ASSUME LoadParameters, IInv, NEW s \in Session, Abort(s)
  PROVE  IInv'
  <1> USE DEF Abort, shared, network, runner
  <1>0. Typed /\ SInv(s) /\ LimitStops /\ Quota(s) \in Nat BY QuotaType DEF IInv
  <1>1. Typed' BY <1>0 DEF Typed, LoadParameters
  <1>2. Window(s)' BY <1>0 DEF SInv, Window, Typed, LoadParameters
  <1>3. InOrder(s)' BY <1>0 DEF SInv, InOrder, Typed
  <1>4. Ending(s)' BY <1>0 DEF SInv, Ending, Window, Typed, TransferLimitReached
  <1>5. Joining(s)' BY <1>0 DEF SInv, Joining, Ending, Typed
  <1>6. \A t \in Session \ {s} : View(t)' = View(t) BY <1>0 DEF View, Typed
  <1>7. Grows BY <1>0 DEF Grows, Typed, TransferLimitReached, LoadParameters
  <1>8. LimitStops' BY <1>0 DEF LimitStops, Typed, TransferLimitReached
  <1>9. SInv(s)' BY <1>2, <1>3, <1>4, <1>5 DEF SInv
  <1> QED BY <1>1, <1>6, <1>7, <1>8, <1>9, OneSession

(* After a response the byte limit is published in the stop flag and the   *)
(* window refilled when it is at most half full.                           *)
LEMMA CheckKeeps ==
  ASSUME LoadParameters, IInv, NEW s \in Session, CheckLimit(s)
  PROVE  IInv'
  <1> USE DEF CheckLimit, network, runner
  <1>0. Typed /\ SInv(s) /\ LimitStops /\ Quota(s) \in Nat BY QuotaType DEF IInv
  <1>1. Typed'
    <2>1. capacity' \in [Session -> Nat] /\ filled' \in [Session -> Nat] /\ pc' \in [Session -> Place]
      <3>1. pc \in [Session -> Place] /\ capacity \in [Session -> Nat] /\ filled \in [Session -> Nat]
        BY <1>0 DEF Typed
      <3>2. PipelineDepth \in Nat /\ PipelineDepth - inFlight[s] \in Nat
        <4>1. PipelineDepth \in Nat /\ inFlight[s] \in Nat /\ filled[s] \in Nat BY <1>0
                                                                                   DEF Typed, LoadParameters
        <4>2. inFlight[s] + filled[s] <= PipelineDepth BY <1>0 DEF SInv, Window
        <4> QED BY SMT, <4>1, <4>2
      <3>3. CASE inFlight[s] <= PipelineDepth \div 2 BY SMT, <3>1, <3>2, <3>3
      <3>4. CASE ~(inFlight[s] <= PipelineDepth \div 2) BY <3>1, <3>4
      <3> QED BY <3>3, <3>4
    <2> QED BY <1>0, <2>1 DEF Typed
  <1>2. Window(s)'
    <2>1. /\ PipelineDepth \in Nat \ {0} /\ capacity[s] \in Nat /\ filled[s] \in Nat /\ inFlight[s] \in Nat
          /\ issued[s] \in Nat
      BY <1>0 DEF Typed, LoadParameters
    <2>2. UNCHANGED <<request, response, received, inFlight, issued>> OBVIOUS
    <2>3. issued[s] + filled[s] <= Quota(s) /\ inFlight[s] + filled[s] <= PipelineDepth BY <1>0
                                                                                           DEF SInv, Window
    <2>4. CASE inFlight[s] <= PipelineDepth \div 2
      <3>1. pc'[s] = "fill" /\ capacity'[s] = PipelineDepth - inFlight[s] /\ filled'[s] = 0
        BY <1>0, <2>4 DEF Typed
      <3>2. PipelineDepth \div 2 < PipelineDepth BY SMT, <2>1
      <3>3. PipelineDepth \div 2 \in Int BY SMT, <2>1
      <3>4. /\ issued[s] + 0 <= Quota(s) /\ inFlight[s] + 0 <= PipelineDepth
            /\ PipelineDepth - inFlight[s] # 0
            /\ (PipelineDepth - inFlight[s]) + inFlight[s] <= PipelineDepth
        BY SMT, <1>0, <2>1, <2>3, <2>4, <3>2, <3>3
      <3> QED BY <1>0, <2>2, <3>1, <3>4 DEF SInv, Window
    <2>5. CASE ~(inFlight[s] <= PipelineDepth \div 2)
      <3>1. pc'[s] = "top" /\ filled'[s] = filled[s] BY <1>0, <2>5 DEF Typed
      <3> QED BY <1>0, <2>2, <3>1 DEF SInv, Window
    <2> QED BY <2>4, <2>5
  <1>3. InOrder(s)' BY <1>0 DEF SInv, InOrder, Typed
  <1>4. Ending(s)' BY <1>0 DEF SInv, Ending, Window, Typed, TransferLimitReached
  <1>5. Joining(s)' BY <1>0 DEF SInv, Joining, Ending, Typed
  <1>6. \A t \in Session \ {s} : View(t)' = View(t) BY <1>0 DEF View, Typed
  <1>7. Grows BY <1>0 DEF Grows, Typed, TransferLimitReached, LoadParameters
  <1>8. LimitStops' BY <1>0 DEF LimitStops, Typed, TransferLimitReached
  <1>9. SInv(s)' BY <1>2, <1>3, <1>4, <1>5 DEF SInv
  <1> QED BY <1>1, <1>6, <1>7, <1>8, <1>9, OneSession

(* The first response on the connection answers the request the reader     *)
(* expects, so a mismatch is the peer's.                                   *)
LEMMA MismatchKeeps ==
  ASSUME LoadParameters, IInv, NEW s \in Session, ReadMismatch(s)
  PROVE  IInv'
  <1> USE DEF ReadMismatch, Fail, Return, network, runner
  <1>0. Typed /\ SInv(s) /\ LimitStops /\ Quota(s) \in Nat BY QuotaType DEF IInv
  <1>1. Typed' BY <1>0 DEF Typed, LoadParameters
  <1>2. Window(s)' BY <1>0 DEF SInv, Window, Typed, LoadParameters
  <1>3. InOrder(s)'
    <2>1. UNCHANGED <<request, response, received, lied>> /\ ended'[s] = "mismatch" BY <1>0
                                                                                       DEF Typed
    <2>2. lied[s]
      <3> SUFFICES ASSUME ~lied[s] PROVE FALSE
        BY <1>0 DEF Typed
      <3>1. received[s] \in Nat /\ response[s] \in Seq(Answers) BY <1>0 DEF Typed
      <3>2. 1 \in 1..Len(response[s]) /\ Head(response[s]) = response[s][1] BY SMT, <3>1
      <3>3. response[s][1] = WorkloadRequest(s, received[s] + 1 - 1) BY <1>0, <3>2
                                                                        DEF SInv, InOrder
      <3>4. received[s] + 1 - 1 = received[s] BY SMT, <3>1
      <3>5. Head(response[s]) = Expected(s) BY <3>2, <3>3, <3>4 DEF Expected
      <3> QED BY <3>5 DEF ResponseMatches
    <2> QED BY <1>0, <2>1, <2>2 DEF SInv, InOrder
  <1>4. Ending(s)' BY <1>0 DEF SInv, Ending, Window, Typed, TransferLimitReached
  <1>5. Joining(s)' BY <1>0 DEF SInv, Joining, Ending, Typed
  <1>6. \A t \in Session \ {s} : View(t)' = View(t) BY <1>0 DEF View, Typed
  <1>7. Grows BY <1>0 DEF Grows, Typed, TransferLimitReached, LoadParameters
  <1>8. LimitStops' BY <1>0 DEF LimitStops, Typed, TransferLimitReached
  <1>9. SInv(s)' BY <1>2, <1>3, <1>4, <1>5 DEF SInv
  <1> QED BY <1>1, <1>6, <1>7, <1>8, <1>9, OneSession

(* A response is read: the counters move together, and the byte limit, if  *)
(* it is met now, is met with the session about to set the stop flag.      *)
LEMMA ReadKeeps ==
  ASSUME LoadParameters, IInv, NEW s \in Session, ReadResponse(s)
  PROVE  IInv'
  <1>0. Typed /\ SInv(s) /\ LimitStops /\ Quota(s) \in Nat BY QuotaType DEF IInv
  <1> DEFINE d == IF stop THEN 1 ELSE 0
  <1>a. /\ pc[s] = "read" /\ response[s] # <<>>
        /\ outcome' = [outcome EXCEPT ![s].drained = @ + d]
        /\ bytesSent' = bytesSent + ResponseLen(Expected(s).kind)
        /\ response' = [response EXCEPT ![s] = Tail(@)]
        /\ received' = [received EXCEPT ![s] = @ + 1]
        /\ inFlight' = [inFlight EXCEPT ![s] = @ - 1]
        /\ pc' = [pc EXCEPT ![s] = "limit"]
        /\ UNCHANGED <<stop, capacity, filled, issued, ended, request, lied, runner>>
    BY DEF ReadResponse
  <1>c. UNCHANGED runner BY <1>a
  <1>d. d \in Nat /\ (d # 0 => stop) OBVIOUS
  <1> HIDE DEF d
  <1>e. /\ response[s] \in Seq(Answers) /\ request[s] \in Seq(Sent)
        /\ outcome[s] \in [timedOut : Nat, drained : Nat, incomplete : Nat]
        /\ received[s] \in Nat /\ inFlight[s] \in Nat /\ issued[s] \in Nat /\ filled[s] \in Nat
    BY <1>0 DEF Typed
  <1>f. /\ pc'[s] = "limit" /\ response'[s] = Tail(response[s])
        /\ received'[s] = received[s] + 1 /\ inFlight'[s] = inFlight[s] - 1
        /\ outcome'[s] = [outcome[s] EXCEPT !.drained = @ + d]
    BY <1>0, <1>a DEF Typed
  <1>g. /\ Len(response[s]) \in Nat \ {0} /\ Len(request[s]) \in Nat
        /\ Len(response'[s]) = Len(response[s]) - 1
    <2>1. Len(response[s]) \in Nat /\ Len(request[s]) \in Nat BY <1>e, LenProperties
    <2>2. Len(response[s]) # 0 BY <1>a, <1>e, EmptySeq
    <2>3. Len(Tail(response[s])) = Len(response[s]) - 1 BY <1>a, <1>e, HeadTailProperties
    <2> QED BY <1>f, <2>1, <2>2, <2>3
  <1>h. /\ inFlight[s] = Len(request[s]) + Len(response[s])
        /\ received[s] + inFlight[s] = issued[s]
        /\ inFlight[s] + filled[s] <= PipelineDepth
        /\ issued[s] + filled[s] <= Quota(s)
    BY <1>0 DEF SInv, Window
  <1>i. /\ inFlight[s] - 1 \in Nat /\ inFlight[s] - 1 = Len(request[s]) + (Len(response[s]) - 1)
        /\ (received[s] + 1) + (inFlight[s] - 1) = issued[s]
        /\ (inFlight[s] - 1) + filled[s] <= PipelineDepth
    <2> DEFINE q == Len(request[s])
               p == Len(response[s])
               i == inFlight[s]
               r == received[s]
               f == filled[s]
    <2>1. /\ PipelineDepth \in Nat /\ q \in Nat /\ p \in Nat \ {0} /\ i \in Nat /\ r \in Nat /\ f \in Nat
      BY <1>e, <1>g DEF LoadParameters
    <2>2. i = q + p /\ r + i = issued[s] /\ i + f <= PipelineDepth BY <1>h
    <2> HIDE DEF q, p, i, r, f
    <2>3. /\ i - 1 \in Nat /\ i - 1 = q + (p - 1) /\ (r + 1) + (i - 1) = r + i
          /\ (i - 1) + f <= PipelineDepth
      BY SMT, <2>1, <2>2
    <2> QED BY <2>2, <2>3 DEF q, p, i, r, f
  <1>b. /\ bytesSent' \in Nat /\ bytesSent' >= bytesSent
    <2>1. bytesSent \in Nat BY <1>0 DEF Typed
    <2>2. ResponseLen(Expected(s).kind) \in Nat BY <1>e, KindType DEF Expected
    <2> QED BY SMT, <1>a, <2>1, <2>2
  <1>1. Typed'
    <2>1. inFlight[s] - 1 \in Nat BY <1>i
    <2>2. inFlight' \in [Session -> Nat] /\ received' \in [Session -> Nat]
      <3>1. received[s] + 1 \in Nat BY SMT, <1>e
      <3> QED BY <1>0, <1>a, <2>1, <3>1 DEF Typed
    <2>3. response' \in [Session -> Seq(Answers)]
      <3>1. Tail(response[s]) \in Seq(Answers) BY SMT, <1>a, <1>e
      <3> QED BY <1>0, <1>a, <3>1 DEF Typed
    <2>4. outcome' \in [Session -> [timedOut : Nat, drained : Nat, incomplete : Nat]]
      <3>1. outcome[s] \in [timedOut : Nat, drained : Nat, incomplete : Nat] /\ outcome[s].drained \in Nat
        BY <1>0 DEF Typed
      <3>2. outcome[s].drained + d \in Nat
        BY SMT, <1>d, <3>1
      <3>3. [outcome[s] EXCEPT !.drained = @ + d] \in [timedOut : Nat, drained : Nat, incomplete : Nat]
        BY <3>1, <3>2
      <3> QED BY <1>0, <1>a, <3>3 DEF Typed
    <2>5. pc' \in [Session -> Place] BY <1>0, <1>a DEF Typed
    <2> QED BY <1>0, <1>a, <1>b, <2>2, <2>3, <2>4, <2>5 DEF Typed, runner
  <1>2. Window(s)'
    <2>1. UNCHANGED <<request, issued, filled>> BY <1>a
    <2> QED BY <1>f, <1>g, <1>h, <1>i, <2>1 DEF Window
  <1>3. InOrder(s)'
    <2>4. ASSUME NEW k \in 1..Len(request'[s])
          PROVE  request'[s][k] = WorkloadRequest(s, received'[s] + Len(response'[s]) + k - 1)
      <3>1. request[s][k] = WorkloadRequest(s, received[s] + Len(response[s]) + k - 1)
        BY <1>0, <1>a DEF SInv, InOrder
      <3>2. received'[s] + Len(response'[s]) + k - 1 = received[s] + Len(response[s]) + k - 1
        <4>1. Len(request'[s]) = Len(request[s]) BY <1>a
        <4> DEFINE q == Len(request[s])
                   p == Len(response[s])
                   r == received[s]
        <4>2. r \in Nat /\ k \in 1..q /\ q \in Nat /\ p \in Nat BY <1>e, <1>g, <4>1
        <4>3. received'[s] = received[s] + 1 /\ Len(response'[s]) = p - 1 BY <1>f, <1>g
        <4> HIDE DEF q, p, r
        <4>4. (r + 1) + (p - 1) + k - 1 = r + p + k - 1 BY SMT, <4>2
        <4> QED BY <4>3, <4>4 DEF p, r
      <3> QED BY <1>a, <3>1, <3>2
    <2>5. ASSUME ~lied'[s], NEW k \in 1..Len(response'[s])
          PROVE  response'[s][k] = WorkloadRequest(s, received'[s] + k - 1)
      <3>1. k + 1 \in 1..Len(response[s]) BY SMT, <1>g
      <3>2. response'[s][k] = response[s][k + 1] BY SMT, <1>a, <1>e, <1>f, <1>g
      <3>3. response[s][k + 1] = WorkloadRequest(s, received[s] + (k + 1) - 1)
        BY <1>0, <1>a, <2>5, <3>1 DEF SInv, InOrder
      <3>4. received[s] + (k + 1) - 1 = received'[s] + k - 1 BY SMT, <1>e, <1>f
      <3> QED BY <3>2, <3>3, <3>4
    <2> QED BY <1>0, <1>a, <2>4, <2>5 DEF SInv, InOrder
  <1>4. Ending(s)'
    <2>1. ended[s] = "no" BY <1>0, <1>a DEF SInv, Ending
    <2>2. /\ outcome'[s].timedOut = outcome[s].timedOut /\ outcome'[s].incomplete = outcome[s].incomplete
          /\ outcome'[s].drained = outcome[s].drained + d
      BY <1>e, <1>f
    <2>3. outcome'[s].drained # 0 => stop
      <3>1. outcome[s].drained \in Nat BY <1>e
      <3>2. outcome[s].drained # 0 => stop BY <1>0 DEF SInv, Ending
      <3> QED BY SMT, <1>d, <2>2, <3>1, <3>2
    <2> QED BY <1>0, <1>a, <1>f, <2>1, <2>2, <2>3 DEF SInv, Ending
  <1>5. Joining(s)' BY <1>0, <1>a DEF SInv, Joining, Ending, Typed, runner
  <1>6. \A t \in Session \ {s} : View(t)' = View(t) BY <1>0, <1>a DEF View, Typed
  <1>7. Grows
    <2>1. bytesSent \in Nat /\ TransferBytes \in Nat BY <1>0 DEF Typed, LoadParameters
    <2>2. bytesSent >= TransferBytes => bytesSent' >= TransferBytes BY SMT, <1>b, <2>1
    <2>3. UNCHANGED stop BY <1>a
    <2> QED BY <2>2, <2>3 DEF Grows, TransferLimitReached
  <1>8. LimitStops'
    BY <1>f DEF LimitStops
  <1>9. SInv(s)' BY <1>2, <1>3, <1>4, <1>5 DEF SInv
  <1> QED BY <1>1, <1>6, <1>7, <1>8, <1>9, <1>c, OneSession

(* The batch is written behind the requests on the connection.             *)
LEMMA WriteKeeps ==
  ASSUME LoadParameters, IInv, NEW s \in Session, WriteBatch(s)
  PROVE  IInv'
  <1> DEFINE b == [i \in 1..filled[s] |-> WorkloadRequest(s, issued[s] + i - 1)]
             q == Len(request[s])
             p == Len(response[s])
             f == filled[s]
             r == received[s]
             n == issued[s]
  <1>0. Typed /\ SInv(s) /\ LimitStops /\ Quota(s) \in Nat BY QuotaType DEF IInv
  <1>a. /\ pc[s] = "write" /\ pc' = [pc EXCEPT ![s] = "read"]
        /\ request' = [request EXCEPT ![s] = @ \o b]
        /\ issued' = [issued EXCEPT ![s] = @ + filled[s]]
        /\ inFlight' = [inFlight EXCEPT ![s] = @ + filled[s]]
        /\ filled' = [filled EXCEPT ![s] = 0]
        /\ UNCHANGED <<stop, bytesSent, capacity, received, outcome, ended, response, lied, runner>>
    BY DEF WriteBatch
  <1>b. UNCHANGED runner BY <1>a
  <1>c. /\ request[s] \in Seq(Sent) /\ response[s] \in Seq(Answers) /\ f \in Nat /\ r \in Nat /\ n \in Nat
        /\ inFlight[s] \in Nat
    BY <1>0 DEF Typed
  <1>d. q \in Nat /\ p \in Nat BY <1>c, LenProperties
  <1>e. b \in Seq(Sent) /\ Len(b) = f
    <2>1. \A i \in 1..f : WorkloadRequest(s, issued[s] + i - 1) \in Sent
      <3> SUFFICES ASSUME NEW i \in 1..f PROVE WorkloadRequest(s, issued[s] + i - 1) \in Sent
        OBVIOUS
      <3>1. issued[s] + i - 1 \in Nat BY SMT, <1>c
      <3> QED BY SMT, <3>1 DEF Sent
    <2>2. b \in [1..f -> Sent] BY <2>1
    <2> HIDE DEF f, b
    <2> QED BY SMT, <1>c, <2>2
  <1>f. /\ request'[s] = request[s] \o b /\ issued'[s] = n + f /\ inFlight'[s] = inFlight[s] + f
        /\ filled'[s] = 0 /\ pc'[s] = "read"
    BY <1>0, <1>a DEF Typed
  <1>g. /\ inFlight[s] = q + p /\ r + inFlight[s] = n
        /\ inFlight[s] + f <= PipelineDepth /\ n + f <= Quota(s)
    BY <1>0 DEF SInv, Window
  <1>h. /\ request[s] \o b \in Seq(Sent) /\ Len(request[s] \o b) = q + f
        /\ \A k \in 1..(q + f) : (request[s] \o b)[k] = IF k <= q THEN request[s][k] ELSE b[k - q]
    <2> HIDE DEF b, f, n
    <2>1. /\ request[s] \o b \in Seq(Sent) /\ Len(request[s] \o b) = Len(request[s]) + Len(b)
          /\ \A k \in 1..Len(request[s]) + Len(b) :
               (request[s] \o b)[k] = IF k <= Len(request[s]) THEN request[s][k] ELSE b[k - Len(request[s])]
      BY <1>c, <1>e, ConcatProperties
    <2> QED BY <1>e, <2>1
  <1>1. Typed'
    <2>1. request' \in [Session -> Seq(Sent)] BY <1>0, <1>a, <1>h DEF Typed
    <2>2. issued[s] + filled[s] \in Nat /\ inFlight[s] + filled[s] \in Nat BY SMT, <1>c
    <2>3. /\ issued' \in [Session -> Nat] /\ inFlight' \in [Session -> Nat] /\ filled' \in [Session -> Nat]
          /\ pc' \in [Session -> Place]
      BY <1>0, <1>a, <2>2 DEF Typed
    <2> QED BY <1>0, <1>a, <2>1, <2>3 DEF Typed, runner
  <1>2. Window(s)'
    <2>1. UNCHANGED <<received, response>> BY <1>a
    <2>2. Len(request'[s]) = q + f BY <1>f, <1>h
    <2> HIDE DEF q, p, f, r, n
    <2>3. PipelineDepth \in Nat BY DEF LoadParameters
    <2>4. /\ inFlight[s] + f = (q + f) + p /\ r + (inFlight[s] + f) = n + f
          /\ (inFlight[s] + f) + 0 <= PipelineDepth /\ (n + f) + 0 <= Quota(s)
      BY SMT, <1>c, <1>d, <1>g, <2>3
    <2> QED BY <1>f, <2>1, <2>2, <2>4 DEF Window, q, p, f, r, n
  <1>3. InOrder(s)'
    <2>1. UNCHANGED <<received, response, lied, ended>> BY <1>a
    <2>2. ASSUME NEW k \in 1..Len(request'[s])
          PROVE  request'[s][k] = WorkloadRequest(s, received'[s] + Len(response'[s]) + k - 1)
      <3>1. k \in 1..(q + f) BY <1>f, <1>h
      <3>2. received'[s] + Len(response'[s]) + k - 1 = r + p + k - 1 BY <2>1
      <3>3. CASE k <= q
        <4>1. k \in 1..q BY SMT, <1>c, <1>d, <3>1, <3>3
        <4>2. request[s][k] = WorkloadRequest(s, r + p + k - 1) BY <1>0, <4>1
                                                                   DEF SInv, InOrder
        <4> QED BY <1>f, <1>h, <3>1, <3>2, <3>3, <4>2
      <3>4. CASE ~(k <= q)
        <4> HIDE DEF q, p, f, r, n
        <4>0. k \in Nat /\ k <= q + f /\ k > q BY SMT, <1>c, <1>d, <3>1, <3>4
        <4>a. n = r + (q + p) BY <1>g
        <4>b. k - q \in 1..f BY SMT, <1>c, <1>d, <4>0
        <4>c. (r + (q + p)) + (k - q) - 1 = r + p + k - 1 BY SMT, <1>c, <1>d, <4>0
        <4>1. k - q \in 1..f /\ n + (k - q) - 1 = r + p + k - 1 BY <4>a, <4>b, <4>c
        <4>2. b[k - q] = WorkloadRequest(s, n + (k - q) - 1) BY <4>1 DEF n, f
        <4> HIDE DEF b
        <4> QED BY <1>f, <1>h, <3>1, <3>2, <3>4, <4>1, <4>2
      <3> QED BY <3>3, <3>4
    <2> QED BY <1>0, <2>1, <2>2 DEF SInv, InOrder
  <1>4. Ending(s)' BY <1>0, <1>a, <1>f DEF SInv, Ending
  <1>5. Joining(s)' BY <1>0, <1>a DEF SInv, Joining, runner
  <1>6. \A t \in Session \ {s} : View(t)' = View(t) BY <1>0, <1>a DEF View, Typed
  <1>7. Grows BY <1>a DEF Grows, TransferLimitReached
  <1>8. LimitStops' BY <1>0, <1>a DEF LimitStops, Typed, TransferLimitReached
  <1>9. SInv(s)' BY <1>2, <1>3, <1>4, <1>5 DEF SInv
  <1> QED BY <1>1, <1>6, <1>7, <1>8, <1>9, <1>b, OneSession

(* The peer takes the first request and sends an answer.                   *)
LEMMA AnswerKeeps ==
  ASSUME LoadParameters, IInv, NEW s \in Session, NEW x \in Answers, request[s] # <<>>,
         response' = [response EXCEPT ![s] = Append(@, x)],
         request' = [request EXCEPT ![s] = Tail(@)],
         lied' \in [Session -> BOOLEAN], lied[s] => lied'[s], lied'[s] \/ x = Head(request[s]),
         \A t \in Session \ {s} : lied'[t] = lied[t],
         UNCHANGED <<shared, local, runner>>
  PROVE  IInv'
  <1> DEFINE q == Len(request[s])
             p == Len(response[s])
             r == received[s]
  <1>0. Typed /\ SInv(s) /\ LimitStops /\ Quota(s) \in Nat BY QuotaType DEF IInv
  <1>a. /\ UNCHANGED <<stop, bytesSent, pc, capacity, filled, issued, received, inFlight, outcome, ended>>
        /\ UNCHANGED runner
    BY DEF shared, local
  <1>c. request[s] \in Seq(Sent) /\ response[s] \in Seq(Answers) /\ r \in Nat BY <1>0 DEF Typed
  <1>d. q \in Nat /\ p \in Nat BY <1>c, LenProperties
  <1>e. q # 0 BY <1>c, EmptySeq
  <1>f. request'[s] = Tail(request[s]) /\ response'[s] = Append(response[s], x) BY <1>0
                                                                                   DEF Typed
  <1>g. /\ Tail(request[s]) \in Seq(Sent) /\ Len(Tail(request[s])) = q - 1
        /\ Head(request[s]) = request[s][1]
        /\ \A k \in 1..(q - 1) : Tail(request[s])[k] = request[s][k + 1]
    BY SMT, <1>c, <1>d, <1>e, HeadTailProperties
  <1>h. /\ Append(response[s], x) \in Seq(Answers) /\ Len(Append(response[s], x)) = p + 1
        /\ \A k \in 1..p : Append(response[s], x)[k] = response[s][k]
        /\ Append(response[s], x)[p + 1] = x
    BY SMT, <1>c, AppendProperties
  <1>1. Typed'
    <2>1. request' \in [Session -> Seq(Sent)] BY <1>0, <1>g DEF Typed
    <2>2. response' \in [Session -> Seq(Answers)] BY <1>0, <1>h DEF Typed
    <2> QED BY <1>0, <1>a, <2>1, <2>2 DEF Typed, runner
  <1>i. Len(request'[s]) = q - 1 /\ Len(response'[s]) = p + 1 BY <1>f, <1>g, <1>h
  <1>2. Window(s)'
    <2>1. inFlight[s] = q + p BY <1>0 DEF SInv, Window
    <2> HIDE DEF q, p
    <2>2. inFlight[s] = (q - 1) + (p + 1) BY SMT, <1>d, <2>1
    <2> QED BY <1>0, <1>a, <1>i, <2>2 DEF SInv, Window
  <1>3. InOrder(s)'
    <2>1. ASSUME NEW k \in 1..Len(request'[s])
          PROVE  request'[s][k] = WorkloadRequest(s, received'[s] + Len(response'[s]) + k - 1)
      <3>1. k \in 1..(q - 1) /\ received'[s] = r BY <1>a, <1>i
      <3>2. k + 1 \in 1..q BY SMT, <1>d, <3>1
      <3>3. request[s][k + 1] = WorkloadRequest(s, r + p + (k + 1) - 1) BY <1>0, <3>2
                                                                           DEF SInv, InOrder
      <3> HIDE DEF r, p, q
      <3>4. r + p + (k + 1) - 1 = r + (p + 1) + k - 1 BY SMT, <1>c, <1>d, <3>1
      <3> QED BY <1>f, <1>g, <1>i, <3>1, <3>3, <3>4
    <2>2. ASSUME ~lied'[s], NEW k \in 1..Len(response'[s])
          PROVE  response'[s][k] = WorkloadRequest(s, received'[s] + k - 1)
      <3>1. k \in 1..(p + 1) /\ received'[s] = r /\ ~lied[s] /\ x = request[s][1]
        BY <1>a, <1>g, <1>i, <2>2
      <3>2. CASE k \in 1..p
        <4>1. response[s][k] = WorkloadRequest(s, r + k - 1) BY <1>0, <3>1, <3>2
                                                                DEF SInv, InOrder
        <4> QED BY <1>f, <1>h, <3>1, <3>2, <4>1
      <3>3. CASE k = p + 1
        <4>1. 1 \in 1..q BY SMT, <1>d, <1>e
        <4>2. request[s][1] = WorkloadRequest(s, r + p + 1 - 1) BY <1>0, <4>1 DEF SInv, InOrder
        <4>3. r + p + 1 - 1 = r + k - 1
          <5> HIDE DEF r, p
          <5> QED BY SMT, <1>c, <1>d, <3>3
        <4> QED BY <1>f, <1>h, <3>1, <3>3, <4>2, <4>3
      <3>4. k \in 1..p \/ k = p + 1
        <4> HIDE DEF p
        <4> QED BY SMT, <1>d, <3>1
      <3> QED BY <3>2, <3>3, <3>4
    <2> QED BY <1>0, <1>a, <2>1, <2>2 DEF SInv, InOrder
  <1>4. Ending(s)' BY <1>0, <1>a DEF SInv, Ending, TransferLimitReached
  <1>5. Joining(s)' BY <1>0, <1>a DEF SInv, Joining, runner
  <1>6. \A t \in Session \ {s} : View(t)' = View(t) BY <1>0, <1>a DEF View, Typed
  <1>7. Grows BY <1>a DEF Grows, TransferLimitReached
  <1>8. LimitStops' BY <1>0, <1>a DEF LimitStops, TransferLimitReached
  <1>9. SInv(s)' BY <1>2, <1>3, <1>4, <1>5 DEF SInv
  <1> QED BY <1>1, <1>6, <1>7, <1>8, <1>9, <1>a, OneSession

(* Both things the peer may do are such answers.                           *)
LEMMA PeerKeeps ==
  ASSUME LoadParameters, IInv, NEW s \in Session, PeerResponds(s) \/ PeerLies(s)
  PROVE  IInv'
  <1>0. Typed BY DEF IInv
  <1>1. request[s] \in Seq(Sent) /\ request[s] # <<>> BY <1>0 DEF Typed, PeerResponds, PeerLies
  <1>2. Head(request[s]) \in Sent BY <1>1, HeadTailProperties
  <1>3. Head(request[s]) \in Answers /\ [Head(request[s]) EXCEPT !.id = IdSpace] \in Answers
    BY <1>2 DEF Answers
  <1>4. CASE PeerResponds(s)
    <2>1. lied' \in [Session -> BOOLEAN] /\ UNCHANGED lied BY <1>0, <1>4 DEF PeerResponds, Typed
    <2> QED BY <1>1, <1>3, <1>4, <2>1, AnswerKeeps DEF PeerResponds
  <1>5. CASE PeerLies(s)
    <2>1. /\ lied' \in [Session -> BOOLEAN] /\ lied'[s]
          /\ \A t \in Session \ {s} : lied'[t] = lied[t]
      BY <1>0, <1>5 DEF PeerLies, Typed
    <2> QED BY <1>1, <1>3, <1>5, <2>1, AnswerKeeps DEF PeerLies
  <1> QED BY <1>4, <1>5

(* A signal or the end of the duration sets the stop flag.                 *)
LEMMA StopKeeps ==
  ASSUME IInv, RequestStop
  PROVE  IInv'
  <1>1. /\ UNCHANGED <<bytesSent, pc, capacity, filled, issued, received, inFlight, outcome, ended,
                       request, response, lied>>
        /\ UNCHANGED runner /\ stop' = TRUE
    BY DEF RequestStop, local, network
  <1>2. Typed' BY <1>1 DEF IInv, Typed, runner
  <1>3. Grows BY <1>1 DEF Grows, TransferLimitReached
  <1>4. \A t \in Session : View(t)' = View(t) BY <1>1 DEF View
  <1>5. \A t \in Session : SInv(t)' BY <1>1, <1>3, <1>4, Frame DEF IInv
  <1> QED BY <1>1, <1>2, <1>5 DEF IInv, OutcomesExplained, LimitStops, Reported, runner

(* LoadSessionOutcome::merge keeps what the outcomes say.                  *)
LEMMA JoinOkKeeps ==
  ASSUME IInv, NEW s \in Session, JoinOk(s)
  PROVE  IInv'
  <1>1. /\ UNCHANGED <<stop, bytesSent, pc, capacity, filled, issued, received, inFlight, outcome, ended,
                       request, response, lied, run>>
        /\ lifecycle' = Merge(lifecycle, outcome[s]) /\ joined' = joined \cup {s}
        /\ run = "running" /\ ended[s] = "ok"
    BY DEF JoinOk, local, network, shared
  <1>2. /\ outcome[s] \in [timedOut : Nat, drained : Nat, incomplete : Nat]
        /\ lifecycle \in [timedOut : Nat, drained : Nat, incomplete : Nat]
    BY DEF IInv, Typed
  <1>3. /\ lifecycle' \in [timedOut : Nat, drained : Nat, incomplete : Nat]
        /\ lifecycle'.timedOut = lifecycle.timedOut + outcome[s].timedOut
        /\ lifecycle'.drained = lifecycle.drained + outcome[s].drained
        /\ lifecycle'.incomplete = lifecycle.incomplete + outcome[s].incomplete
    BY SMT, <1>1, <1>2 DEF Merge
  <1>4. Typed' BY <1>1, <1>3 DEF IInv, Typed
  <1>5. OutcomesExplained'
    <2>1. /\ outcome[s].timedOut = 0 => outcome[s].incomplete = 0
          /\ outcome[s].drained # 0 => stop
      BY DEF IInv, SInv, Ending
    <2>2. lifecycle'.timedOut = 0 => lifecycle'.incomplete = 0
      BY SMT, <1>2, <1>3, <2>1 DEF IInv, OutcomesExplained
    <2>3. ~stop => lifecycle'.drained = 0 BY SMT, <1>2, <1>3, <2>1 DEF IInv, OutcomesExplained
    <2> QED BY <1>1, <2>2, <2>3 DEF OutcomesExplained
  <1>6. LimitStops' /\ Reported' BY <1>1
                                    DEF IInv, LimitStops, Reported, TransferLimitReached
  <1>7. ASSUME NEW t \in Session PROVE SInv(t)'
    <2>1. SInv(t) BY DEF IInv
    <2>2. Window(t)' /\ InOrder(t)' BY <1>1, <2>1 DEF SInv, Window, InOrder
    <2>3. Ending(t)' BY <1>1, <2>1 DEF SInv, Ending, TransferLimitReached
    <2>4. outcome[t].timedOut \in Nat BY DEF IInv, Typed
    <2>5. ASSUME t = s PROVE Joining(t)'
      <3>1. outcome[s].timedOut <= lifecycle.timedOut + outcome[s].timedOut BY SMT, <1>2
      <3>2. outcome'[t].timedOut <= lifecycle'.timedOut BY <1>1, <1>3, <2>5, <3>1
      <3>3. ended'[t] = "ok" BY <1>1, <2>5
      <3> QED BY <3>2, <3>3 DEF Joining
    <2>6. ASSUME t # s PROVE Joining(t)'
      <3>1. t \in joined' => outcome[t].timedOut <= lifecycle.timedOut /\ ended[t] = "ok"
        BY <1>1, <2>1, <2>6 DEF SInv, Joining
      <3>2. outcome[t].timedOut <= lifecycle.timedOut =>
              outcome[t].timedOut <= lifecycle.timedOut + outcome[s].timedOut
        BY SMT, <1>2, <2>4
      <3>3. t \in joined' => outcome'[t].timedOut <= lifecycle'.timedOut BY <1>1, <1>3, <3>1, <3>2
      <3>4. t \in joined' => ended'[t] = "ok" BY <1>1, <3>1
      <3> QED BY <3>3, <3>4 DEF Joining
    <2> QED BY <2>2, <2>3, <2>5, <2>6 DEF SInv
  <1> QED BY <1>4, <1>5, <1>6, <1>7 DEF IInv

(* run_load ends, with a report or with an error.                          *)
LEMMA RunEndsKeeps ==
  ASSUME IInv, JoinedAll \/ \E s \in Session : JoinError(s)
  PROVE  IInv'
  <1>1. /\ UNCHANGED <<bytesSent, pc, capacity, filled, issued, received, inFlight, outcome, ended,
                       request, response, lied, lifecycle>>
        /\ (stop => stop') /\ stop' \in BOOLEAN
        /\ joined' \in SUBSET Session
        /\ \/ run' = "failed"
           \/ run = "running" /\ run' = "reported" /\ joined = Session /\ UNCHANGED joined
    BY DEF JoinedAll, JoinError, local, network, shared, IInv, Typed
  <1>2. Typed'
    <2>1. run' \in {"running", "failed", "reported"} BY <1>1
    <2>2. stop' \in BOOLEAN /\ joined' \in SUBSET Session BY <1>1
    <2>3. UNCHANGED <<bytesSent, pc, capacity, filled, issued, received, inFlight, outcome, ended,
                      request, response, lied, lifecycle>>
      BY <1>1
    <2> QED BY <2>1, <2>2, <2>3 DEF IInv, Typed
  <1>3. OutcomesExplained' /\ LimitStops' /\ Reported'
    BY <1>1 DEF IInv, OutcomesExplained, LimitStops, Reported, TransferLimitReached
  <1>4. ASSUME NEW t \in Session PROVE SInv(t)'
    <2>1. SInv(t) BY DEF IInv
    <2>2. Window(t)' /\ InOrder(t)' BY <1>1, <2>1 DEF SInv, Window, InOrder
    <2>3. Ending(t)' BY <1>1, <2>1 DEF SInv, Ending, TransferLimitReached
    <2>4. Joining(t)' BY <1>1, <2>1 DEF SInv, Joining
    <2> QED BY <2>2, <2>3, <2>4 DEF SInv
  <1> QED BY <1>2, <1>3, <1>4 DEF IInv

(* The invariant holds when run_load starts.                               *)
LEMMA InitKeeps == ASSUME LoadParameters, Init PROVE IInv
  <1>1. Typed
    <2>1. NoOutcome \in [timedOut : Nat, drained : Nat, incomplete : Nat] BY DEF NoOutcome
    <2>2. request \in [Session -> Seq(Sent)] /\ response \in [Session -> Seq(Answers)] BY SMT
                                                                                          DEF Init
    <2> QED BY <2>1, <2>2 DEF Init, Typed
  <1>2. ASSUME NEW s \in Session PROVE SInv(s)
    <2>1. Quota(s) \in Nat /\ PipelineDepth \in Nat BY QuotaType DEF LoadParameters
    <2>2. /\ request[s] = <<>> /\ response[s] = <<>> /\ pc[s] = "start" /\ ended[s] = "no"
          /\ inFlight[s] = 0 /\ received[s] = 0 /\ issued[s] = 0 /\ filled[s] = 0
          /\ outcome[s] = NoOutcome /\ joined = {}
      BY DEF Init
    <2>3. Len(request[s]) = 0 /\ Len(response[s]) = 0 BY <2>2
    <2>4. Window(s) BY SMT, <2>1, <2>2, <2>3 DEF Window
    <2>5. InOrder(s) BY SMT, <2>2, <2>3 DEF InOrder
    <2> QED BY SMT, <2>2, <2>4, <2>5 DEF SInv, Ending, Joining, NoOutcome
  <1>3. OutcomesExplained /\ Reported BY DEF Init, OutcomesExplained, Reported, NoOutcome
  <1>4. LimitStops BY SMT DEF Init, LimitStops, TransferLimitReached, LoadParameters
  <1> QED BY <1>1, <1>2, <1>3, <1>4 DEF IInv

(* Every step keeps the invariant.                                         *)
LEMMA NextKeeps == ASSUME LoadParameters, IInv, [Next]_vars PROVE IInv'
  <1>1. ASSUME NEW s \in Session, LocalStep(s) PROVE IInv'
    <2>1. SetupTimesOut(s) \/ WriteTimesOut(s) \/ ReadTimesOut(s) => IInv'
      BY TimeoutKeeps, FailKeeps DEF SetupTimesOut, WriteTimesOut, ReadTimesOut
    <2> QED BY <1>1, <2>1, StartKeeps, TopKeeps, FillOneKeeps, FillDoneKeeps, FillNoneKeeps,
               ReadKeeps,
               MismatchKeeps, CheckKeeps, AbortKeeps DEF LocalStep
  <1>2. ASSUME NEW s \in Session, PeerStep(s) PROVE IInv'
    <2>1. SetupFails(s) \/ WriteFails(s) \/ ReadEof(s) => IInv'
      BY FailKeeps DEF SetupFails, WriteFails, ReadEof
    <2> QED BY <1>2, <2>1, ReadyKeeps, WriteKeeps, PeerKeeps DEF PeerStep
  <1>3. RequestStop => IInv' BY StopKeeps
  <1>4. RunnerStep => IInv' BY JoinOkKeeps, RunEndsKeeps DEF RunnerStep
  <1>5. UNCHANGED vars => IInv'
    <2> SUFFICES ASSUME UNCHANGED vars PROVE IInv'
      OBVIOUS
    <2>1. /\ UNCHANGED <<stop, bytesSent, pc, capacity, filled, issued, received, inFlight, outcome, ended,
                         request, response, lied, run, lifecycle, joined>>
          /\ UNCHANGED runner
      BY DEF vars, shared, local, network, runner
    <2>2. Typed' BY <2>1 DEF IInv, Typed
    <2>3. \A t \in Session : SInv(t)' BY <2>1, Frame
                                         DEF IInv, View, Grows, TransferLimitReached
    <2> QED BY <2>1, <2>2, <2>3
               DEF IInv, OutcomesExplained, LimitStops, Reported, TransferLimitReached
  <1> QED BY <1>1, <1>2, <1>3, <1>4, <1>5 DEF Next, Done

(* With the invariant, a run that reports undisturbed has no session left  *)
(* that could have stopped early: the byte limit cannot have been met      *)
(* unseen.                                                                 *)
LEMMA InvGivesQuota == ASSUME LoadParameters, IInv PROVE QuotaFilled
  <1> SUFFICES ASSUME Undisturbed, NEW s \in Session PROVE received[s] = Quota(s)
    BY DEF QuotaFilled
  <1>1. ASSUME NEW t \in Session PROVE ended[t] = "ok" /\ pc[t] = "done" /\ outcome[t].timedOut = 0
    <2>1. ended[t] = "ok" /\ outcome[t].timedOut <= 0
      BY DEF IInv, Reported, SInv, Joining, Undisturbed
    <2>2. outcome[t].timedOut \in Nat BY DEF IInv, Typed
    <2>3. pc[t] = "done" BY <2>1 DEF IInv, SInv, Ending
    <2> QED BY SMT, <2>1, <2>2, <2>3
  <1>2. ~stop /\ ~TransferLimitReached BY <1>1 DEF IInv, LimitStops, Undisturbed
  <1>3. inFlight[s] = 0 /\ issued[s] = Quota(s) BY <1>1, <1>2 DEF IInv, SInv, Ending
  <1>4. received[s] + inFlight[s] = issued[s] /\ received[s] \in Nat BY
                                                                        DEF IInv, SInv, Window, Typed
  <1> QED BY SMT, <1>3, <1>4

(* In every run of load mode in_flight is exact and within the window, a   *)
(* reported mismatch is the peer's, a run that reports undisturbed has     *)
(* completed the quota of every session, and only timeouts leave requests  *)
(* incomplete and only a stop drains.                                      *)
THEOREM LoadAccountsExactly ==
  ASSUME LoadParameters
  PROVE  Spec => [](WindowExact /\ MismatchIsReal /\ QuotaFilled /\ OutcomesExplained)
  <1>1. Init => IInv BY InitKeeps
  <1>2. IInv /\ [Next]_vars => IInv' BY NextKeeps
  <1>3. IInv => WindowExact /\ MismatchIsReal /\ QuotaFilled /\ OutcomesExplained
    BY InvGivesQuota DEF IInv, SInv, Window, InOrder, WindowExact, MismatchIsReal
  <1> QED BY <1>1, <1>2, <1>3, PTL DEF Spec
=============================================================================
