--------------------------- MODULE ExperimentRun ---------------------------
(***************************************************************************)
(* What an experiment run promises to whoever reads it, without timers,    *)
(* tokens or workers: it ends once, with one verdict; every outcome is     *)
(* recorded after its request was counted; and the result is published     *)
(* once, after the end, when nothing is left to record, and is then the    *)
(* truth for good.                                                         *)
(***************************************************************************)
EXTENDS Integers

CONSTANT Nil

VARIABLES
  status,   \* Experiment.Status
  fired,    \* requests counted
  settled,  \* outcomes recorded
  result    \* the published result

rvars == <<status, fired, settled, result>>

Init ==
  /\ status = "running"
  /\ fired = 0 /\ settled = 0
  /\ result = Nil

\* Requests already under way, or queued, may still start after the end.
Fire ==
  /\ result = Nil
  /\ fired' = fired + 1
  /\ UNCHANGED <<status, settled, result>>

Settle ==
  /\ settled < fired
  /\ settled' = settled + 1
  /\ UNCHANGED <<status, fired, result>>

End ==
  /\ status = "running"
  /\ status' \in {"completed", "stopped"}
  /\ UNCHANGED <<fired, settled, result>>

Publish ==
  /\ status # "running" /\ settled = fired /\ result = Nil
  /\ result' = [status |-> status, total |-> fired]
  /\ UNCHANGED <<status, fired, settled>>

Next == Fire \/ Settle \/ End \/ Publish

Spec == Init /\ [][Next]_rvars
=============================================================================
