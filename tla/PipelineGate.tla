---------------------------- MODULE PipelineGate ----------------------------
(***************************************************************************)
(* PipelineGate of src/client.rs: an atomic count of the commands in       *)
(* flight and a tokio Notify.  The writer begins commands and waits for    *)
(* none to be left; the reader ends them.  The count and the notification  *)
(* are two objects, so a wake-up can come late, early or for an older      *)
(* wait.                                                                   *)
(***************************************************************************)
EXTENDS Naturals, TLAPS

CONSTANT Limit   \* commands that can be in flight at once

ASSUME LimitAssumption == Limit \in Nat \ {0}

VARIABLES
  inflight,   \* the counter
  ending,     \* end_inflight took the last command and has not notified yet
  permit,     \* Notify holds a notification for a waiter to come
  future,     \* the writer's Notified: none, waiting, woken, or done
  step        \* the writer: work, enable, check, await, idle

vars == <<inflight, ending, permit, future, step>>

(* Type invariant.  That the counter is within 0..Limit is in the guards   *)
(* here, which stand for the reader: it ends what it was handed, and so    *)
(* GateExact of ClientConnection is what keeps the counter from wrapping.  *)
TypeOK ==
  /\ inflight \in 0..Limit
  /\ ending \in BOOLEAN /\ permit \in BOOLEAN
  /\ future \in {"none", "waiting", "woken", "done"}
  /\ step \in {"work", "enable", "check", "await", "idle"}

Init ==
  /\ inflight = 0
  /\ ending = FALSE /\ permit = FALSE
  /\ future = "none" /\ step = "work"

(* begin_inflight, also for the exclusive command after its wait.          *)
BeginInflight ==
  /\ step \in {"work", "idle"} /\ inflight < Limit
  /\ inflight' = inflight + 1
  /\ step' = "work"
  /\ UNCHANGED <<ending, permit, future>>

(* Fault: the value before the subtraction is taken for the one after.     *)
Zero_EndSub ==
  /\ inflight > 0 /\ ~ending
  /\ inflight' = inflight - 1
  /\ ending' = (inflight = 0)
  /\ UNCHANGED <<permit, future, step>>

(* end_inflight: fetch_sub, by the one reader task.                        *)
EndSub ==
  /\ inflight > 0 /\ ~ending
  /\ inflight' = inflight - 1
  /\ ending' = (inflight = 1)
  /\ UNCHANGED <<permit, future, step>>

(* end_inflight: notify_one, which wakes the waiter or leaves a permit.    *)
EndNotify ==
  /\ ending
  /\ ending' = FALSE
  /\ future' = IF future = "waiting" THEN "woken" ELSE future
  /\ permit' = (permit \/ future # "waiting")
  /\ UNCHANGED <<inflight, step>>

WaitUntilIdle ==
  /\ step = "work"
  /\ step' = "enable"
  /\ UNCHANGED <<inflight, ending, permit, future>>

(* notified and enable: a stored permit completes the future at once.      *)
WaitEnable ==
  /\ step = "enable"
  /\ future' = IF permit THEN "done" ELSE "waiting"
  /\ permit' = FALSE
  /\ step' = "check"
  /\ UNCHANGED <<inflight, ending>>

(* The load.  Dropping a woken future passes its notification on.          *)
WaitReturn ==
  /\ step = "check" /\ inflight = 0
  /\ permit' = (permit \/ future = "woken")
  /\ future' = "none"
  /\ step' = "idle"
  /\ UNCHANGED <<inflight, ending>>

WaitAgain ==
  /\ step = "check" /\ inflight # 0
  /\ step' = "await"
  /\ UNCHANGED <<inflight, ending, permit, future>>

(* Fault: a wake-up is taken for idleness.                                 *)
Trusting_WaitAwait ==
  /\ step = "await" /\ future \in {"woken", "done"}
  /\ future' = "none"
  /\ step' = "idle"
  /\ UNCHANGED <<inflight, ending, permit>>

(* The await returns, and the loop looks at the counter again.             *)
WaitAwait ==
  /\ step = "await" /\ future \in {"woken", "done"}
  /\ future' = "none"
  /\ step' = "enable"
  /\ UNCHANGED <<inflight, ending, permit>>

WriterWaits == WaitEnable \/ WaitReturn \/ WaitAgain \/ WaitAwait

Next == BeginInflight \/ EndSub \/ EndNotify \/ WaitUntilIdle \/ WriterWaits

Spec == Init /\ [][Next]_vars

(* Both tasks are polled when they can go on; the reader runs end_inflight *)
(* without an await between its two steps.  Nothing is said of EndSub: the *)
(* peer may never answer.                                                  *)
FairSpec == Spec /\ WF_vars(WriterWaits) /\ WF_vars(EndNotify)

-----------------------------------------------------------------------------
(* No lost wake-up: a writer that sleeps unnotified has a command in       *)
(* flight whose end will notify, or a notification on its way.             *)
NoLostWakeup ==
  step = "await" /\ future = "waiting" => inflight > 0 \/ ending

Waiting ==
  CASE step = "work" -> "no" [] step = "idle" -> "idle" [] OTHER -> "yes"

Atomic == INSTANCE IdleWait WITH waiting <- Waiting

(* wait_until_idle is the atomic wait, although counter and notification   *)
(* are read apart: it returns only at zero, it ignores notifications left  *)
(* by earlier commands, and it returns if the counter stays at zero.       *)
WaitIsAtomic == Atomic!Spec

-----------------------------------------------------------------------------
(* Proofs, for every number of commands in flight.                         *)

(* The inductive invariant.                                                *)
IInv == TypeOK /\ NoLostWakeup

(* An idle gate satisfies the invariant.                                   *)
LEMMA InitIInv == Init => IInv
  <1> SUFFICES ASSUME Init PROVE IInv OBVIOUS
  <1>1. inflight \in 0..Limit
    BY LimitAssumption DEF Init
  <1>2. /\ ending \in BOOLEAN /\ permit \in BOOLEAN
        /\ future = "none" /\ step = "work"
    BY DEF Init
  <1> QED BY <1>1, <1>2 DEF IInv, TypeOK, NoLostWakeup

(* Every step of the counter and of wait_until_idle keeps it.              *)
LEMMA NextIInv == IInv /\ [Next]_vars => IInv'
  <1> SUFFICES ASSUME IInv, [Next]_vars PROVE IInv' OBVIOUS
  <1> USE LimitAssumption DEF IInv, TypeOK, NoLostWakeup
  <1>1. CASE BeginInflight BY <1>1 DEF BeginInflight
  <1>2. CASE EndSub
    <2>1. inflight' \in 0..Limit /\ (inflight' > 0 \/ inflight = 1)
      BY <1>2 DEF EndSub
    <2>2. ending' \in BOOLEAN /\ (inflight = 1 => ending')
      BY <1>2 DEF EndSub
    <2> QED BY <1>2, <2>1, <2>2 DEF EndSub
  <1>3. CASE EndNotify BY <1>3 DEF EndNotify
  <1>4. CASE WaitUntilIdle BY <1>4 DEF WaitUntilIdle
  <1>5. CASE WaitEnable BY <1>5 DEF WaitEnable
  <1>6. CASE WaitReturn BY <1>6 DEF WaitReturn
  <1>7. CASE WaitAgain BY <1>7 DEF WaitAgain
  <1>8. CASE WaitAwait BY <1>8 DEF WaitAwait
  <1>9. CASE UNCHANGED vars BY <1>9 DEF vars
  <1> QED BY <1>1, <1>2, <1>3, <1>4, <1>5, <1>6, <1>7, <1>8, <1>9 DEF Next, WriterWaits

(* The inductive invariant holds throughout.                               *)
LEMMA IInvHolds == Spec => []IInv
  BY InitIInv, NextIInv, PTL DEF Spec

(* A writer asleep in wait_until_idle always has a notification to come.   *)
THEOREM WakeupNeverLost == Spec => []NoLostWakeup
  BY IInvHolds, PTL DEF IInv

(* The safety part of WaitIsAtomic: wait_until_idle returns only when      *)
(* nothing is in flight, and otherwise changes nothing a caller sees.      *)
THEOREM WaitRefines == Spec => Atomic!Safe
  <1>1. Init => Atomic!Init
    BY DEF Init, Atomic!Init, Waiting
  <1>2. IInv /\ [Next]_vars => [Atomic!Next]_(Atomic!vars)
    <2> SUFFICES ASSUME IInv, [Next]_vars PROVE [Atomic!Next]_(Atomic!vars) OBVIOUS
    <2> USE DEF IInv, TypeOK, Waiting
    <2>1. CASE BeginInflight
      BY <2>1 DEF BeginInflight, Atomic!Next, Atomic!Begin
    <2>2. CASE EndSub
      BY <2>2 DEF EndSub, Atomic!Next, Atomic!End
    <2>3. CASE WaitUntilIdle
      BY <2>3 DEF WaitUntilIdle, Atomic!Next, Atomic!Wait
    <2>4. CASE WaitReturn
      BY <2>4 DEF WaitReturn, Atomic!Next, Atomic!Return
    <2>5. CASE EndNotify \/ WaitEnable \/ WaitAgain \/ WaitAwait
      BY <2>5 DEF EndNotify, WaitEnable, WaitAgain, WaitAwait, Atomic!vars
    <2>6. CASE UNCHANGED vars
      BY <2>6 DEF vars, Atomic!vars
    <2> QED BY <2>1, <2>2, <2>3, <2>4, <2>5, <2>6 DEF Next, WriterWaits
  <1> QED BY <1>1, <1>2, IInvHolds, PTL DEF Spec, Atomic!Safe
=============================================================================
