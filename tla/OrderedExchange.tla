-------------------------- MODULE OrderedExchange --------------------------
(***************************************************************************)
(* What a pipelined connection promises its callers: requests are answered *)
(* in the order they were submitted, each with its own response and once;  *)
(* when something fails, pending requests fail, and none submitted after a *)
(* failed one is answered any more.                                        *)
(***************************************************************************)
EXTENDS Naturals, Sequences

VARIABLE outcome   \* of every request submitted, in order

Init == outcome = <<>>

Pending(i) == outcome[i] = "pending"

Submit == outcome' = Append(outcome, "pending")

(* The oldest request that is not answered, and not if it has failed.      *)
Answer(i) ==
  /\ Pending(i) /\ \A j \in 1..(i - 1) : outcome[j] = "answered"
  /\ outcome' = [outcome EXCEPT ![i] = "answered"]

(* Any of the pending requests fail together.                              *)
Fail ==
  /\ DOMAIN outcome' = DOMAIN outcome
  /\ \A i \in DOMAIN outcome : outcome'[i] = outcome[i] \/ (Pending(i) /\ outcome'[i] = "failed")

Next == Fail \/ Submit \/ \E i \in DOMAIN outcome : Answer(i)

Spec == Init /\ [][Next]_outcome
=============================================================================
