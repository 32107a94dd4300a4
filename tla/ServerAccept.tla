---------------------------- MODULE ServerAccept ----------------------------
(***************************************************************************)
(* run_server of src/lib.rs: the accept loop with its connection limit,    *)
(* the tasks that serve sessions, the counters all of them share, and the  *)
(* task that reports them.  Every fetch_add, load and permit is a step of  *)
(* its own, so tasks meet between any two of them.                         *)
(***************************************************************************)
EXTENDS Integers, Sequences, FiniteSetsExt

CONSTANTS
  Sessions,          \* session tasks that may be alive at once
  MaxConnections,    \* max_connections
  Fields,            \* the counters add_session adds to, in order
  Batches,           \* what a batch of commands may add to them
  MaxAccepts,        \* connections offered to the listener
  MaxBatches,        \* batches of one session
  MaxReports         \* snapshots the reporter takes

VARIABLES
  server,      \* where run_server is: select, a step of accepting, or returned
  permits,     \* the Semaphore
  newcomer,    \* the session being set up
  at,          \* where the task of each session is
  delta,       \* its SessionStats
  next,        \* the counter it publishes next
  closing,     \* how its last publication continues: no, ok or error
  batches,     \* batches it has served
  stats,       \* Stats
  previous,    \* the reporter's last snapshot
  snapshot,    \* the one it is taking, or has taken
  loading,     \* the counter it loads next
  reports,     \* snapshots it has begun
  offered,     \* connections so far
  work,        \* what the sessions have done in all
  failures     \* sessions that ended with an error

vars == <<server, permits, newcomer, at, delta, next, closing, batches, stats, previous, snapshot,
          loading, reports, offered, work, failures>>

session == <<at, delta, next, closing, batches>>

reporter == <<previous, snapshot, loading, reports>>

FieldSet == {Fields[i] : i \in DOMAIN Fields}

(* The order in which Stats::snapshot loads the counters.                  *)
Loads == <<"accepted", "refused", "active">> \o Fields \o <<"errors">>

Counters == {Loads[i] : i \in DOMAIN Loads}

Zero(names) == [f \in names |-> 0]

Init ==
  /\ server = "select" /\ permits = MaxConnections /\ newcomer \in Sessions
  /\ at = [s \in Sessions |-> "none"] /\ delta = [s \in Sessions |-> Zero(FieldSet)]
  /\ next = [s \in Sessions |-> 1] /\ closing = [s \in Sessions |-> "no"]
  /\ batches = [s \in Sessions |-> 0]
  /\ stats = Zero(Counters) /\ previous = Zero(Counters) /\ snapshot = Zero(Counters) /\ loading = 1
  /\ reports = 0 /\ offered = 0 /\ work = Zero(FieldSet) /\ failures = 0

(* fetch_add.                                                              *)
Add(counter, n) == stats' = [stats EXCEPT ![counter] = @ + n]

-----------------------------------------------------------------------------
(* The accept loop.                                                        *)

(* accept and optimize_server_socket succeed; try_acquire_owned does.      *)
Accept(s) ==
  /\ server = "select" /\ offered < MaxAccepts /\ at[s] = "none"
  /\ permits > 0 /\ permits' = permits - 1
  /\ offered' = offered + 1 /\ newcomer' = s /\ server' = "accepted"
  /\ UNCHANGED <<session, stats, reporter, work, failures>>

(* It does not: the stream is dropped.                                     *)
Refuse ==
  /\ server = "select" /\ offered < MaxAccepts /\ permits = 0
  /\ offered' = offered + 1 /\ Add("refused", 1)
  /\ UNCHANGED <<server, permits, newcomer, session, reporter, work, failures>>

CountAccepted ==
  /\ server = "accepted" /\ server' = "active" /\ Add("accepted", 1)
  /\ UNCHANGED <<permits, newcomer, session, reporter, offered, work, failures>>

CountActive ==
  /\ server = "active" /\ server' = "spawn" /\ Add("active", 1)
  /\ UNCHANGED <<permits, newcomer, session, reporter, offered, work, failures>>

Spawn ==
  /\ server = "spawn" /\ server' = "select"
  /\ at' = [at EXCEPT ![newcomer] = "serving"] /\ batches' = [batches EXCEPT ![newcomer] = 0]
  /\ delta' = [delta EXCEPT ![newcomer] = Zero(FieldSet)]
  /\ UNCHANGED <<permits, newcomer, next, closing, stats, reporter, offered, work, failures>>

(* An error of accept or of optimize_server_socket, and ctrl_c: run_server *)
(* returns while sessions may be running.                                  *)
Return ==
  /\ server = "select" /\ server' = "returned"
  /\ UNCHANGED <<permits, newcomer, session, stats, reporter, offered, work, failures>>

-----------------------------------------------------------------------------
(* A session.  What it does ends when the process does.                    *)
Task(s, where) == server # "returned" /\ at[s] = where

(* process_command_batch, then publish_session_delta.                      *)
ServeBatch(s) ==
  /\ Task(s, "serving") /\ batches[s] < MaxBatches
  /\ \E b \in Batches :
       /\ delta' = [delta EXCEPT ![s] = [f \in FieldSet |-> @[f] + b[f]]]
       /\ work' = [f \in FieldSet |-> work[f] + b[f]]
  /\ batches' = [batches EXCEPT ![s] = @ + 1]
  /\ at' = [at EXCEPT ![s] = "publish"] /\ next' = [next EXCEPT ![s] = 1]
  /\ UNCHANGED <<server, permits, newcomer, closing, stats, reporter, offered, failures>>

(* serve_session_inner returns, with what an unfinished batch had added    *)
(* when it failed; serve_session publishes that too.                       *)
EndSession(s) ==
  /\ Task(s, "serving") /\ closing' = [closing EXCEPT ![s] = "ok"]
  /\ at' = [at EXCEPT ![s] = "publish"] /\ next' = [next EXCEPT ![s] = 1]
  /\ UNCHANGED <<server, permits, newcomer, delta, batches, stats, reporter, offered, work, failures>>

FailSession(s) ==
  /\ Task(s, "serving") /\ closing' = [closing EXCEPT ![s] = "error"]
  /\ \E b \in Batches \cup {Zero(FieldSet)} :
       /\ delta' = [delta EXCEPT ![s] = [f \in FieldSet |-> @[f] + b[f]]]
       /\ work' = [f \in FieldSet |-> work[f] + b[f]]
  /\ at' = [at EXCEPT ![s] = "publish"] /\ next' = [next EXCEPT ![s] = 1]
  /\ failures' = failures + 1
  /\ UNCHANGED <<server, permits, newcomer, batches, stats, reporter, offered>>

(* add_session, one fetch_add at a time.                                   *)
PublishField(s) ==
  /\ Task(s, "publish") /\ next[s] <= Len(Fields)
  /\ LET f == Fields[next[s]] IN Add(f, delta[s][f])
  /\ next' = [next EXCEPT ![s] = @ + 1]
  /\ UNCHANGED <<server, permits, newcomer, at, delta, closing, batches, reporter, offered, work, failures>>

Kept_Published(s) ==
  /\ Task(s, "publish") /\ next[s] > Len(Fields)
  /\ at' = [at EXCEPT ![s] = CASE closing[s] = "no" -> "serving" [] closing[s] = "ok" -> "inactive" [] OTHER -> "error"]
  /\ closing' = [closing EXCEPT ![s] = "no"]
  /\ UNCHANGED <<server, permits, newcomer, delta, next, batches, stats, reporter, offered, work, failures>>

(* The delta starts again from nothing.                                    *)
Published(s) ==
  /\ Task(s, "publish") /\ next[s] > Len(Fields)
  /\ delta' = [delta EXCEPT ![s] = Zero(FieldSet)] /\ next' = [next EXCEPT ![s] = 1]
  /\ at' = [at EXCEPT ![s] = CASE closing[s] = "no" -> "serving" [] closing[s] = "ok" -> "inactive" [] OTHER -> "error"]
  /\ closing' = [closing EXCEPT ![s] = "no"]
  /\ UNCHANGED <<server, permits, newcomer, batches, stats, reporter, offered, work, failures>>

CountError(s) ==
  /\ Task(s, "error") /\ Add("errors", 1) /\ at' = [at EXCEPT ![s] = "inactive"]
  /\ UNCHANGED <<server, permits, newcomer, delta, next, closing, batches, reporter, offered, work, failures>>

Early_CountInactive(s) ==
  /\ Task(s, "inactive") /\ permits' = permits + 1 /\ at' = [at EXCEPT ![s] = "release"]
  /\ UNCHANGED <<server, newcomer, delta, next, closing, batches, stats, reporter, offered, work, failures>>

CountInactive(s) ==
  /\ Task(s, "inactive") /\ Add("active", -1) /\ at' = [at EXCEPT ![s] = "release"]
  /\ UNCHANGED <<server, permits, newcomer, delta, next, closing, batches, reporter, offered, work, failures>>

Leaking_Release(s) ==
  /\ Task(s, "release") /\ permits > 0 /\ permits' = permits + 1 /\ at' = [at EXCEPT ![s] = "none"]
  /\ UNCHANGED <<server, newcomer, delta, next, closing, batches, stats, reporter, offered, work, failures>>

(* The permit is dropped at the end of the task.                           *)
Release(s) ==
  /\ Task(s, "release") /\ permits' = permits + 1 /\ at' = [at EXCEPT ![s] = "none"]
  /\ UNCHANGED <<server, newcomer, delta, next, closing, batches, stats, reporter, offered, work, failures>>

-----------------------------------------------------------------------------
(* report_stats: a snapshot, load by load, at every tick.                  *)
Load ==
  /\ server # "returned" /\ loading <= Len(Loads) /\ reports < MaxReports
  /\ snapshot' = [snapshot EXCEPT ![Loads[loading]] = stats[Loads[loading]]]
  /\ loading' = loading + 1
  /\ UNCHANGED <<server, permits, newcomer, session, stats, previous, reports, offered, work, failures>>

Tick ==
  /\ server # "returned" /\ loading > Len(Loads)
  /\ previous' = snapshot /\ loading' = 1 /\ reports' = reports + 1
  /\ UNCHANGED <<server, permits, newcomer, session, stats, snapshot, offered, work, failures>>

Returned == server = "returned" /\ UNCHANGED vars

TaskSteps(s) ==
  \/ PublishField(s) \/ Published(s) \/ CountError(s) \/ CountInactive(s) \/ Release(s)
  \/ EndSession(s) \/ FailSession(s)

AcceptSteps == CountAccepted \/ CountActive \/ Spawn

Next ==
  \/ \E s \in Sessions : Accept(s) \/ ServeBatch(s) \/ TaskSteps(s)
  \/ Refuse \/ AcceptSteps \/ Return \/ Load \/ Tick \/ Returned

Spec == Init /\ [][Next]_vars

(* The runtime runs every task, and every peer hangs up in the end, so a   *)
(* session that may end does.                                              *)
FairSpec == Spec /\ WF_vars(AcceptSteps) /\ \A s \in Sessions : WF_vars(TaskSteps(s))

-----------------------------------------------------------------------------
Alive == {s \in Sessions : at[s] # "none"}

SettingUp == IF server \in {"accepted", "active", "spawn"} THEN 1 ELSE 0

(* Between any two steps of the accept loop and the tasks, the permits     *)
(* that are out are those of live sessions, and active_connections never   *)
(* shows more than max_connections: a task counts itself out before it     *)
(* gives its permit back.                                                  *)
ActiveBound ==
  /\ permits + Cardinality(Alive) + SettingUp = MaxConnections
  /\ stats["active"] <= MaxConnections

Unpublished(s, f) ==
  IF at[s] = "publish" /\ \E i \in DOMAIN Fields : Fields[i] = f /\ i < next[s] THEN 0 ELSE delta[s][f]

(* Nothing a session does is lost or counted twice, whatever publications  *)
(* overlap and whether it ends well or not: the shared counters and what   *)
(* is still to be published always add up to the work done.                *)
WorkExact ==
  \A f \in FieldSet : work[f] = stats[f] + MapThenSumSet(LAMBDA s : Unpublished(s, f), Sessions)

Failing == {s \in Sessions : closing[s] = "error" \/ at[s] = "error"}

(* Every failed session and every connection is counted once, whichever    *)
(* way run_server and its tasks interleave.                                *)
CountsExact ==
  /\ failures = stats["errors"] + Cardinality(Failing)
  /\ offered = stats["accepted"] + stats["refused"] + (IF server = "accepted" THEN 1 ELSE 0)

TotalsExact == WorkExact /\ CountsExact

(* A snapshot taken while sessions publish never shows less than the one   *)
(* before it, so none of the unsigned differences Snapshot::print takes    *)
(* can wrap.                                                               *)
SnapshotsGrow ==
  \A i \in 1..(loading - 1) : Loads[i] # "active" => snapshot[Loads[i]] >= previous[Loads[i]]

(* A full server does not stay full: when its peers hang up a permit comes *)
(* back, and the next connection is served.                                *)
SlotsReturn == (permits = 0 /\ MaxConnections > 0) ~> (permits > 0 \/ server = "returned")
=============================================================================
