------------------------------ MODULE IdleWait ------------------------------
(* What PipelineGate promises the writer: a wait that ends only at a       *)
(* moment when nothing is in flight, and does end if nothing stays in      *)
(* flight.  ClientConnection waits this way (WriterIdle).                  *)
EXTENDS Naturals

VARIABLES inflight, waiting

vars == <<inflight, waiting>>

Init == inflight = 0 /\ waiting = "no"

Begin ==
  /\ waiting # "yes"
  /\ inflight' = inflight + 1
  /\ waiting' = "no"

End ==
  /\ inflight > 0
  /\ inflight' = inflight - 1
  /\ UNCHANGED waiting

Wait ==
  /\ waiting = "no"
  /\ waiting' = "yes"
  /\ UNCHANGED inflight

Return ==
  /\ waiting = "yes" /\ inflight = 0
  /\ waiting' = "idle"
  /\ UNCHANGED inflight

Next == Begin \/ End \/ Wait \/ Return

Safe == Init /\ [][Next]_vars

Spec == Safe /\ WF_vars(Return)
=============================================================================
