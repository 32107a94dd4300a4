---------------------------- MODULE MCServerTasks ----------------------------
(* The tasks of the mock server below the commands, one at a time: how a   *)
(* session reads commands, how sessions write responses through shared     *)
(* pools, and how the accept loop starts and counts them.  part says which *)
(* one a behaviour is about; the variables of the others are unused.       *)
EXTENDS Terminator, TLC

CONSTANTS s1, s2

VARIABLES
  part,
  input, whole, waits, arrived, filled, pos, mode, from, body, command, batch, answered,
  pool, spares, buf, scratch, out, then, hold, left, made, wire, sent,
  server, permits, newcomer, delta, next, batches, stats, previous, snapshot, loading, reports, offered, work,
  failures,
  at, closing

streamVars == <<input, whole, waits, arrived, filled, pos, mode, from, body, command, batch, answered>>
writerVars == <<pool, spares, buf, scratch, out, then, hold, left, made, wire, sent>>
acceptVars == <<server, permits, newcomer, delta, next, batches, stats, previous, snapshot, loading, reports,
                offered, work, failures>>
sessionVars == <<at, closing>>

SessionSymmetry == Permutations({s1, s2})

(* Streams of up to three commands, whole and broken.                      *)
Date      == <<"D", CR, LF>>
Named     == <<"D", ":", CR, LF>>
Post      == <<"P", CR, LF>>
End       == <<DOT, CR, LF>>
TakeThis  == <<"T", CR, LF>>
Articles  == {End, <<"D">> \o CRLF \o End, <<DOT, DOT>> \o CRLF \o End, CRLF \o End}
PostBody  == Post \o <<":">> \o CRLF \o Date \o End
Long      == <<"D", "x", "x", "x">> \o CRLF
LongTake  == <<"T", "x", "x", "x">> \o CRLF \o Date \o End
Bare      == <<"D", LF>>
BadBodies == {<<DOT, "x">>, <<"x", LF>>, <<CR, "x">>, <<LF>>, <<DOT, CR, "x">>, <<"x">>}

Plain     == {Date, Post} \cup {TakeThis \o a : a \in Articles}
Odd       == {Named, PostBody, Long, LongTake, Bare, <<"D">>} \cup {TakeThis \o b : b \in BadBodies}

PlainInputs == {<<>>} \cup Plain \cup {a \o b : a \in Plain, b \in Plain}
                 \cup {a \o b \o Date : a \in Plain, b \in Plain}
OddInputs   == {a \o b \o c : a \in {<<>>, Date, Post}, b \in Odd, c \in {<<>>, Date}}

Stream == INSTANCE CommandStream WITH
  Inputs <- PlainInputs \cup OddInputs, MaxLine <- 4, BufferSize <- 8, MaxDepth <- 2

(* A pending buffer of two bytes, and responses that fill it and exceed it. *)
Writer == INSTANCE ResponseWriter WITH
  Sessions <- {s1, s2}, Capacity <- 2, Large <- 2, Chunk <- 1, MaxBuffers <- 1, Sizes <- {2, 3},
  GreetingSize <- 1, MaxBatch <- 2, MaxMade <- 6

(* Batches that add to one counter or to both, and one connection more     *)
(* than the limit.                                                         *)
Accept == INSTANCE ServerAccept WITH
  Sessions <- {s1, s2}, MaxConnections <- 2, Fields <- <<"commands", "bytes">>,
  Batches <- {[commands |-> 1, bytes |-> 2], [commands |-> 1, bytes |-> 0]},
  MaxAccepts <- 3, MaxBatches <- 2, MaxReports <- 0

(* A reporter that takes two snapshots while a session publishes.          *)
Report == INSTANCE ServerAccept WITH
  Sessions <- {s1, s2}, MaxConnections <- 1, Fields <- <<"commands", "bytes">>,
  Batches <- {[commands |-> 1, bytes |-> 1]}, MaxAccepts <- 2, MaxBatches <- 1, MaxReports <- 2

-----------------------------------------------------------------------------
Unused(v) == v = "unused"

NoStream ==
  /\ Unused(input) /\ Unused(whole) /\ Unused(waits) /\ Unused(arrived) /\ Unused(filled) /\ Unused(pos)
  /\ Unused(mode) /\ Unused(from) /\ Unused(body) /\ Unused(command) /\ Unused(batch) /\ Unused(answered)

NoWriter ==
  /\ Unused(pool) /\ Unused(spares) /\ Unused(buf) /\ Unused(scratch) /\ Unused(out) /\ Unused(then)
  /\ Unused(hold) /\ Unused(left) /\ Unused(made) /\ Unused(wire) /\ Unused(sent)

NoAccept ==
  /\ Unused(server) /\ Unused(permits) /\ Unused(newcomer) /\ Unused(delta) /\ Unused(next) /\ Unused(batches)
  /\ Unused(stats) /\ Unused(previous) /\ Unused(snapshot) /\ Unused(loading) /\ Unused(reports)
  /\ Unused(offered) /\ Unused(work) /\ Unused(failures)

TasksInit ==
  \/ part = "stream" /\ Stream!Init /\ NoWriter /\ NoAccept /\ Unused(at) /\ Unused(closing)
  \/ part = "writer" /\ Writer!Init /\ NoStream /\ NoAccept
  \/ part = "accept" /\ Accept!Init /\ NoStream /\ NoWriter
  \/ part = "report" /\ Report!Init /\ NoStream /\ NoWriter

(* A session may be left waiting when no more responses are made.          *)
MayEnd == part = "writer" /\ UNCHANGED <<part, streamVars, writerVars, acceptVars, sessionVars>>

TasksNext ==
  \/ part = "stream" /\ Stream!Next /\ UNCHANGED <<part, writerVars, acceptVars, sessionVars>>
  \/ part = "writer" /\ Writer!Next /\ UNCHANGED <<part, streamVars, acceptVars>>
  \/ part = "accept" /\ Accept!Next /\ UNCHANGED <<part, streamVars, writerVars>>
  \/ part = "report" /\ Report!Next /\ UNCHANGED <<part, streamVars, writerVars>>
  \/ MayEnd

TasksSpec == TasksInit /\ [][TasksNext]_<<part, streamVars, writerVars, acceptVars, sessionVars>>

-----------------------------------------------------------------------------
(* How the network splits the bytes does not decide which commands         *)
(* read_command_batch finds, and an article is read only where one was     *)
(* sent (should_read_transfer_body).                                       *)
SplitsInvisible == part = "stream" => Stream!SplitsInvisible /\ Stream!ArticlesAreSent

(* The responses of sessions that share buffer pools: the wire carries a   *)
(* session's own bytes, each once and in order, bytes_sent counts them, a  *)
(* session that waits in read_command_batch holds no answer back in        *)
(* PendingWrite, and pooled buffers come back empty.                       *)
WritesExact == part = "writer" => Writer!WritesExact

(* Permits, live sessions and active_connections agree between any two     *)
(* steps of run_server and the session tasks.                              *)
ActiveBound ==
  /\ part = "accept" => Accept!ActiveBound
  /\ part = "report" => Report!ActiveBound

(* Shared counters and unpublished SessionStats add up to the work done,   *)
(* and no counter whose difference Snapshot::print takes goes back between *)
(* two snapshots.                                                          *)
TotalsExact ==
  /\ part = "accept" => Accept!TotalsExact
  /\ part = "report" => Report!TotalsExact /\ Report!SnapshotsGrow
=============================================================================
