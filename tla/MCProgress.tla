----------------------------- MODULE MCProgress -----------------------------
(* What must come about in the end, one task at a time: the gate that the  *)
(* client's writer waits at, a run of the load generator, and the server's *)
(* sessions as they read, answer and give their slots back.  part says     *)
(* which one a behaviour is about; in the others the gate is idle and the  *)
(* rest is unused.                                                         *)
EXTENDS PipelineGate, Terminator

CONSTANTS s1, s2

VARIABLES
  part,
  stop, bytesSent, accepted, active, errors, totals, pc, capacity, filled, issued, received, inFlight, sessionStats,
  outcome, ended, request, response, lied, run, lifecycle, joined,
  pool, spares, buf, scratch, out, then, hold, left, made, wire, sent,
  input, whole, waits, arrived, pos, mode, from, body, command, batch, answered,
  server, permits, newcomer, delta, next, stats, previous, snapshot, loading, reports, offered, work, failures,
  at, closing, batches

loadVars   == <<stop, bytesSent, accepted, active, errors, totals, pc, capacity, issued, received, inFlight,
                sessionStats, outcome, ended, request, response, lied, run, lifecycle, joined>>
writerVars == <<pool, spares, buf, scratch, out, then, hold, left, made, wire, sent>>
streamVars == <<input, whole, waits, arrived, pos, mode, from, body, command, batch, answered>>
acceptVars == <<server, permits, newcomer, delta, next, stats, previous, snapshot, loading, reports, offered,
                work, failures>>

(* What each component's fairness is about.                                *)
loadAll    == <<loadVars, filled, batches>>
writerAll  == <<writerVars, at, closing>>
streamAll  == <<streamVars, filled>>
acceptAll  == <<acceptVars, at, closing, batches>>

allVars    == <<part, vars, loadVars, writerVars, streamVars, acceptVars, filled, at, closing, batches>>

-----------------------------------------------------------------------------
(* Three requests over two connections that the peer may close.            *)
Load == INSTANCE LoadRun WITH
  Connections <- 2, ClientOffset <- 0, TotalClients <- 2, Requests <- 3, TransferBytes <- 0, PipelineDepth <- 2,
  FlushCommands <- 2, StartId <- 1, IdSpace <- 8, CommandMix <- "Article", WorkloadPolicy <- "Repeat",
  VerificationPolicy <- "None", SampleEvery <- 100, PeerFaults <- {"close"}, MaxIssued <- 0

(* Responses that fit the pending buffer, fill it, overflow it and exceed  *)
(* it.                                                                     *)
Writer == INSTANCE ResponseWriter WITH
  Sessions <- {s1}, Capacity <- 2, Large <- 4, Chunk <- 2, MaxBuffers <- 1, Sizes <- {1, 2, 3, 5},
  GreetingSize <- 1, MaxBatch <- 2, MaxMade <- 9

Date     == <<"D", CR, LF>>
Post     == <<"P", CR, LF>>
TakeThis == <<"T", CR, LF, DOT, CR, LF>>

(* Clients that wait for each answer, and clients that do not.             *)
Stream == INSTANCE CommandStream WITH
  Inputs <- {Date \o Post, Post \o Date, TakeThis \o Post \o Date, Post \o Post},
  MaxLine <- 4, BufferSize <- 8, MaxDepth <- 2

(* One slot, and three peers that want it.                                 *)
Accept == INSTANCE ServerAccept WITH
  Sessions <- {s1, s2}, MaxConnections <- 1, Fields <- <<"commands", "bytes">>,
  Batches <- {[commands |-> 1, bytes |-> 2], [commands |-> 1, bytes |-> 0]},
  MaxAccepts <- 3, MaxBatches <- 1, MaxReports <- 0

-----------------------------------------------------------------------------
Unused(v) == v = "unused"

NoGate == inflight = 0 /\ ending = FALSE /\ permit = FALSE /\ future = "none" /\ step = "work"

NoLoad ==
  /\ Unused(stop) /\ Unused(bytesSent) /\ Unused(accepted) /\ Unused(active) /\ Unused(errors) /\ Unused(totals)
  /\ Unused(pc) /\ Unused(capacity) /\ Unused(issued) /\ Unused(received) /\ Unused(inFlight) /\ Unused(sessionStats)
  /\ Unused(outcome) /\ Unused(ended) /\ Unused(request) /\ Unused(response) /\ Unused(lied)
  /\ Unused(run) /\ Unused(lifecycle) /\ Unused(joined)

NoWriter ==
  /\ Unused(pool) /\ Unused(spares) /\ Unused(buf) /\ Unused(scratch) /\ Unused(out) /\ Unused(then)
  /\ Unused(hold) /\ Unused(left) /\ Unused(made) /\ Unused(wire) /\ Unused(sent)

NoStream ==
  /\ Unused(input) /\ Unused(whole) /\ Unused(waits) /\ Unused(arrived) /\ Unused(pos) /\ Unused(mode)
  /\ Unused(from) /\ Unused(body) /\ Unused(command) /\ Unused(batch) /\ Unused(answered)

NoAccept ==
  /\ Unused(server) /\ Unused(permits) /\ Unused(newcomer) /\ Unused(delta) /\ Unused(next) /\ Unused(stats)
  /\ Unused(previous) /\ Unused(snapshot) /\ Unused(loading) /\ Unused(reports) /\ Unused(offered)
  /\ Unused(work) /\ Unused(failures)

NoSession == Unused(at) /\ Unused(closing)

ProgressInit ==
  \/ /\ part = "gate" /\ Init
     /\ NoLoad /\ NoWriter /\ NoStream /\ NoAccept /\ NoSession /\ Unused(filled) /\ Unused(batches)
  \/ part = "load" /\ Load!Init /\ NoGate /\ NoWriter /\ NoStream /\ NoAccept /\ NoSession
  \/ part = "writer" /\ Writer!Init /\ NoGate /\ NoLoad /\ NoStream /\ NoAccept /\ Unused(filled) /\ Unused(batches)
  \/ part = "stream" /\ Stream!Init /\ NoGate /\ NoLoad /\ NoWriter /\ NoAccept /\ NoSession /\ Unused(batches)
  \/ part = "accept" /\ Accept!Init /\ NoGate /\ NoLoad /\ NoWriter /\ NoStream /\ Unused(filled)

(* A session may be left waiting when no more responses are made.          *)
MayEnd == part = "writer" /\ UNCHANGED allVars

ProgressNext ==
  \/ part = "gate" /\ Next /\ UNCHANGED <<part, loadVars, writerVars, streamVars, acceptVars, filled, at, closing, batches>>
  \/ part = "load" /\ Load!Next /\ UNCHANGED <<part, vars, writerVars, streamVars, acceptVars, at, closing>>
  \/ part = "writer" /\ Writer!Next /\ UNCHANGED <<part, vars, loadVars, streamVars, acceptVars, filled, batches>>
  \/ part = "stream" /\ Stream!Next /\ UNCHANGED <<part, vars, loadVars, writerVars, acceptVars, at, closing, batches>>
  \/ part = "accept" /\ Accept!Next /\ UNCHANGED <<part, vars, loadVars, writerVars, streamVars, filled>>
  \/ MayEnd

(* The fairness of each component, under the same actions.                 *)
ProgressFairness ==
  /\ WF_vars(part = "gate" /\ WriterWaits) /\ WF_vars(part = "gate" /\ EndNotify)
  /\ WF_loadAll(part = "load" /\ Load!RunnerStep) /\ \A s \in 0 .. 1 : WF_loadAll(part = "load" /\ Load!LocalStep(s))
  /\ WF_writerAll(part = "writer" /\ Writer!WriteSome(s1)) /\ WF_writerAll(part = "writer" /\ Writer!Continues(s1))
  /\ WF_writerAll(part = "writer" /\ Writer!EndBatch(s1))
  /\ WF_writerAll(part = "writer" /\ (Writer!Answers(s1) \/ Writer!HandlerFails(s1)))
  /\ WF_streamAll(part = "stream" /\ Stream!Server) /\ WF_streamAll(part = "stream" /\ Stream!ClientSend)
  /\ WF_acceptAll(part = "accept" /\ Accept!AcceptSteps)
  /\ \A s \in {s1, s2} : WF_acceptAll(part = "accept" /\ Accept!TaskSteps(s))

ProgressSpec == ProgressInit /\ [][ProgressNext]_allVars /\ ProgressFairness

-----------------------------------------------------------------------------
(* run_load returns, whatever the peer does.                               *)
RunReturns == part = "load" => Load!RunReturns

(* A batch of commands is answered while the peer takes bytes              *)
(* (handle_connection).                                                    *)
BatchAnswered == (part = "writer" /\ at[s1] = "batch") ~> (part # "writer" \/ at[s1] \in {"read", "gone"})

(* A client that keeps its next command until the last one is answered is  *)
(* answered (should_read_transfer_body).                                   *)
WaitingClientAnswered == (part = "stream" /\ waits /\ Stream!AllPlain) => <>(mode = "closed")

(* A full server gets a slot back when its peers hang up (run_server).     *)
SlotsReturn == (part = "accept" /\ permits = 0) ~> (part # "accept" \/ permits > 0 \/ server = "returned")
=============================================================================
