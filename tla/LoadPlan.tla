------------------------------ MODULE LoadPlan ------------------------------
(***************************************************************************)
(* How load processes that run side by side share one workload             *)
(* (src/lib.rs): LoadConfig::from_args with its segment file, the share of *)
(* the requests a connection gets, the request it writes at each index,    *)
(* the Message-ID it expects back, and the identity its manifest reports.  *)
(* LoadRun models the connections of one process; here no connection       *)
(* fails, and its requests are a set.                                      *)
(***************************************************************************)
EXTENDS Integers, Sequences, SequencesExt, FiniteSets

CONSTANTS
  Totals,     \* values of --total-clients
  Requests,   \* values of --requests
  Starts,     \* values of --start-id
  Mixes,      \* values of --command-mix
  Files,      \* segment files: sequences of lines
  Ports,      \* --ports
  IdSpace,    \* u64: ids wrap here
  MaxIssued   \* bound on the requests of a connection without a quota

Policies == {"Disjoint", "Shared", "Repeat"}

-----------------------------------------------------------------------------
(* The segment file.  A line is [form, size, id, bare]; a bare id has no   *)
(* angle brackets.                                                         *)

NoSegments == [some |-> FALSE, rows |-> <<>>]

(* shared_message_id_from_bytes gives a bare id its brackets, so only the  *)
(* name is left of either.                                                 *)
SegmentRow(line) == [size |-> line.size, id |-> line.id]

(* read_segments: the first line that is not a row refuses the file, and   *)
(* so does a file without rows.                                            *)
FileIsValid(file) ==
  /\ \A i \in DOMAIN file : file[i].form \in {"blank", "row"}
  /\ \E i \in DOMAIN file : file[i].form = "row"

ReadSegments(file) ==
  [some |-> TRUE,
   rows |-> LET kept == SelectSeq(file, LAMBDA line : line.form = "row")
            IN  [i \in DOMAIN kept |-> SegmentRow(kept[i])]]

-----------------------------------------------------------------------------
(* The workload of one process, from its configuration c.                  *)

Clients(c) == c.offset..(c.offset + c.connections - 1)

(* client_command_kind.                                                    *)
CommandKind(id, mix) ==
  CASE mix = "Alternate" -> IF id % 2 = 0 THEN "Body" ELSE "Article"
    [] mix = "Mixed"     -> <<"Article", "Body", "Stat">>[(id % 3) + 1]
    [] OTHER             -> mix

(* synthetic_request_id.                                                   *)
SyntheticId(c, client, index) ==
  CASE c.policy = "Disjoint" -> (c.start + client + index * c.total) % IdSpace
    [] c.policy = "Shared"   -> (c.start + index) % IdSpace
    [] c.policy = "Repeat"   -> c.start

(* segment_ref_for_request.                                                *)
SegmentIndex(c, client, index) == (client + index * c.total) % Len(c.segments.rows)

SegmentFor(c, client, index) == c.segments.rows[SegmentIndex(c, client, index) + 1].id

Synthetic(n) == <<"bench", n>>

(* LoadSession::write_load_batch and append_load_workload_request: the     *)
(* request on the wire.                                                    *)
WorkloadRequest(c, client, index) ==
  [kind |-> CommandKind((c.start + index) % IdSpace, c.mix),
   id   |-> IF c.segments.some THEN SegmentFor(c, client, index)
            ELSE Synthetic(SyntheticId(c, client, index))]

(* LoadSession::expected_message_id and request_message_id_for_command:    *)
(* what a verified answer must carry.                                      *)
ExpectedMessageId(c, client, index) ==
  IF c.segments.some THEN SegmentFor(c, client, index)
  ELSE Synthetic(SyntheticId(c, client, index))

(* client_request_for_command without a selected group, as the benchmarks  *)
(* call it.                                                                *)
ClientRequest(c, client, index) ==
  LET command == (c.start + index) % IdSpace
  IN  [kind |-> CommandKind(command, c.mix),
       id   |-> IF c.segments.some THEN SegmentFor(c, client, index) ELSE Synthetic(command)]

Local_Quota(c, client) ==
  IF c.requests = 0 THEN MaxIssued
  ELSE c.requests \div c.total + IF client - c.offset < (c.requests % c.total) THEN 1 ELSE 0

(* requests_for_connection; the bound stands for no quota.                 *)
Quota(c, client) ==
  IF c.requests = 0 THEN MaxIssued
  ELSE c.requests \div c.total + IF client < (c.requests % c.total) THEN 1 ELSE 0

(* run_load: everything the connections of a process ask for.              *)
Stream(c) ==
  UNION {{[client |-> i, index |-> k, request |-> WorkloadRequest(c, i, k)] : k \in 0..(Quota(c, i) - 1)} : i \in Clients(c)}

(* LoadConfig::endpoint_for.                                               *)
EndpointFor(c, client) == Ports[(client % Len(Ports)) + 1]

(* workload_identity: every field is hashed with its tag and its length,   *)
(* so the digest stands for the tuple.                                     *)
WorkloadIdentity(c) ==
  <<c.requests, c.connections, c.offset, c.total, c.mix, c.start, c.policy, c.segments.rows>>

-----------------------------------------------------------------------------
VARIABLES
  plan,     \* what the operator gives every process
  procs,    \* the configurations of the processes started
  refused,  \* has from_args refused one
  rerun     \* a later run of one process with one setting changed

vars == <<plan, procs, refused, rerun>>

Owned == FoldLeft(LAMBDA n, c : n + c.connections, 0, procs)

Init ==
  /\ plan \in [total : Totals, requests : Requests, start : Starts, mix : Mixes, policy : Policies,
               file : {<<>>} \cup Files]
  /\ procs = <<>> /\ refused = FALSE /\ rerun = <<>>

(* The early returns of LoadConfig::from_args.                             *)
Accepts(args) ==
  /\ ~({"csv", "json"} \subseteq args.output)
  /\ args.maxResponse # 0
  /\ args.policy = "Disjoint" => args.offset + args.connections <= args.total
  /\ args.file # <<>> => FileIsValid(args.file)

(* LoadConfig::from_args; --total-clients 0 means --connections.           *)
FromArgs(args) ==
  [offset |-> args.offset, connections |-> args.connections, total |-> args.total,
   requests |-> args.requests, start |-> args.start, mix |-> args.mix, policy |-> args.policy,
   segments |-> IF args.file = <<>> THEN NoSegments ELSE ReadSegments(args.file)]

(* The arguments of the next process, which owns the next n clients.       *)
ArgsFor(n, output, maxResponse, given) ==
  [offset |-> Owned, connections |-> n, total |-> IF given = 0 THEN n ELSE given,
   requests |-> plan.requests, start |-> plan.start, mix |-> plan.mix, policy |-> plan.policy,
   file |-> plan.file, output |-> output, maxResponse |-> maxResponse]

(* A process is started.  One that owns every client may leave             *)
(* --total-clients out.                                                    *)
Launch ==
  /\ ~refused /\ Owned < plan.total /\ rerun = <<>>
  /\ \E n \in 1..(plan.total - Owned + 1), output \in {{}, {"csv"}, {"csv", "json"}}, maxResponse \in {0, 1},
        given \in {0, plan.total} :
       /\ given = 0 => n = plan.total /\ Owned = 0
       /\ n > plan.total - Owned => plan.policy = "Disjoint"
       /\ LET args == ArgsFor(n, output, maxResponse, given)
          IN  IF Accepts(args) THEN procs' = Append(procs, FromArgs(args)) /\ UNCHANGED refused
                               ELSE refused' = TRUE /\ UNCHANGED procs
  /\ UNCHANGED <<plan, rerun>>

(* Somebody runs the first process again, with one setting changed.        *)
Rerun ==
  /\ procs # <<>> /\ rerun = <<>>
  /\ LET c == procs[1]
     IN  \/ \E x \in Totals : x >= c.offset + c.connections /\ rerun' = <<[c EXCEPT !.total = x]>>
         \/ \E x \in 0..(c.total - c.connections) : rerun' = <<[c EXCEPT !.offset = x]>>
         \/ \E x \in 1..(c.total - c.offset) : rerun' = <<[c EXCEPT !.connections = x]>>
         \/ \E x \in Requests : rerun' = <<[c EXCEPT !.requests = x]>>
         \/ \E x \in Starts : rerun' = <<[c EXCEPT !.start = x]>>
         \/ \E x \in Mixes : rerun' = <<[c EXCEPT !.mix = x]>>
         \/ \E x \in Policies : rerun' = <<[c EXCEPT !.policy = x]>>
         \/ rerun' = <<[c EXCEPT !.segments = NoSegments]>>
         \/ \E x \in Files : FileIsValid(x) /\ rerun' = <<[c EXCEPT !.segments = ReadSegments(x)]>>
  /\ UNCHANGED <<plan, procs, refused>>

Next == Launch \/ Rerun

Spec == Init /\ [][Next]_vars

-----------------------------------------------------------------------------
Together == UNION {Stream(procs[i]) : i \in DOMAIN procs}

Complete == procs # <<>> /\ Owned >= plan.total

(* Processes that own every client between them issue --requests requests  *)
(* in all, however the clients are divided, none twice                     *)
(* (requests_for_connection, run_load).                                    *)
SharesAddUp == Complete /\ plan.requests # 0 => Cardinality(Together) = plan.requests

(* Under the disjoint policy those requests ask for the ids from           *)
(* --start-id on, each exactly once and without a gap, as one process      *)
(* would (synthetic_request_id).                                           *)
DisjointCovers ==
  Complete /\ plan.requests # 0 /\ plan.policy = "Disjoint" /\ plan.file = <<>> =>
    /\ {r.request.id : r \in Together} = {Synthetic((plan.start + k) % IdSpace) : k \in 0..(plan.requests - 1)}
    /\ \A r, s \in Together : r.request.id = s.request.id => r = s

(* A segment file is fetched evenly: no row is asked for twice more than   *)
(* another (segment_ref_for_request).                                      *)
SegmentsEven ==
  Complete /\ plan.requests # 0 /\ plan.file # <<>> =>
    LET c     == procs[1]
        times == [i \in 0..(Len(c.segments.rows) - 1) |->
                    Cardinality({r \in Together : SegmentIndex(c, r.client, r.index) = i})]
    IN  \A i, j \in DOMAIN times : times[i] <= times[j] + 1

(* The Message-ID an answer is verified against is the one the request at  *)
(* that index asked for, though the two are computed apart; and the        *)
(* request the benchmarks build is the one a single client sends.          *)
BuildersAgree ==
  \A i \in DOMAIN procs : \A r \in Stream(procs[i]) :
    LET c == procs[i]
    IN  /\ ExpectedMessageId(c, r.client, r.index) = r.request.id
        /\ c.total = 1 /\ c.policy # "Repeat" => ClientRequest(c, r.client, r.index) = r.request

(* Every port gets its share of the connections of all the processes       *)
(* (endpoint_for rotates over the index in the whole client set).          *)
PortsEven ==
  Complete =>
    LET loads == [p \in {Ports[q] : q \in DOMAIN Ports} |->
                    Cardinality({x \in (1..Len(procs)) \X (0..plan.total) :
                                   x[2] \in Clients(procs[x[1]]) /\ EndpointFor(procs[x[1]], x[2]) = p})]
    IN  \A p, q \in DOMAIN loads : loads[p] <= loads[q] + 1

(* Two runs whose manifests report the same workload identity ask for the  *)
(* same articles in the same order on every connection                     *)
(* (workload_identity leaves out nothing the requests depend on).          *)
IdentityFixesStream ==
  rerun # <<>> /\ WorkloadIdentity(rerun[1]) = WorkloadIdentity(procs[1]) => Stream(rerun[1]) = Stream(procs[1])
=============================================================================
