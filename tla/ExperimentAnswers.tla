------------------------- MODULE ExperimentAnswers -------------------------
(***************************************************************************)
(* What the API promises to its clients about each experiment, without     *)
(* registry, phases, collections or processes: an answer is what the       *)
(* experiment is at that moment, with or without its number; and the death *)
(* of a process takes an experiment back to what has been kept of it,      *)
(* which is all or nothing and never changes.                              *)
(***************************************************************************)
EXTENDS Integers

CONSTANTS
  Ids,     \* experiments
  Totals,  \* numbers of requests
  Nil

VARIABLES
  begun,    \* the experiments that were ever created
  truth,    \* what each experiment is, or Nil
  durable,  \* what is kept of it, or Nil
  heard     \* the last answer about it, or Nil

avars == <<begun, truth, durable, heard>>

Terminal == {"completed", "stopped"}

Facts(status, defense, total) ==
  [status |-> status, defense |-> defense, total |-> total]

\* What a later process makes of what is kept: the Defense flag is not.
Recalled(kept) ==
  IF kept = Nil THEN Nil ELSE Facts(kept.status, FALSE, kept.total)

Init ==
  /\ durable \in [Ids -> [status : Terminal, total : Totals] \cup {Nil}]
  /\ begun = {id \in Ids : durable[id] # Nil}
  /\ truth = [id \in Ids |-> Recalled(durable[id])]
  /\ heard = [id \in Ids |-> Nil]

Begin(id) ==
  /\ id \notin begun
  /\ begun' = begun \cup {id}
  /\ \E defense \in BOOLEAN :
       truth' = [truth EXCEPT ![id] = Facts("running", defense, Nil)]
  /\ UNCHANGED <<durable, heard>>

\* It ends once; who stopped it is told so at once.
End(id) ==
  /\ truth[id] # Nil /\ truth[id].status = "running"
  /\ \E status \in Terminal : truth' = [truth EXCEPT ![id].status = status]
  /\ \/ UNCHANGED heard
     \/ truth'[id].status = "stopped" /\ heard' = [heard EXCEPT ![id] = truth'[id]]
  /\ UNCHANGED <<begun, durable>>

\* Its number is final once, after the end.
Settle(id) ==
  /\ truth[id] # Nil /\ truth[id].status # "running" /\ truth[id].total = Nil
  /\ \E total \in Totals : truth' = [truth EXCEPT ![id].total = total]
  /\ UNCHANGED <<begun, durable, heard>>

Keep(id) ==
  /\ truth[id] # Nil /\ truth[id].total # Nil /\ durable[id] = Nil
  /\ durable' = [durable EXCEPT ![id] = [status |-> truth[id].status,
                                         total |-> truth[id].total]]
  /\ UNCHANGED <<begun, truth, heard>>

Answer(id) ==
  /\ truth[id] # Nil
  /\ heard' \in {[heard EXCEPT ![id] = truth[id]],
                 [heard EXCEPT ![id] = [truth[id] EXCEPT !.total = Nil]]}
  /\ UNCHANGED <<begun, truth, durable>>

Die ==
  /\ truth' = [id \in Ids |-> Recalled(durable[id])]
  /\ UNCHANGED <<begun, durable, heard>>

Next == Die \/ \E id \in Ids : Begin(id) \/ End(id) \/ Settle(id) \/ Keep(id)
                                 \/ Answer(id)

Spec == Init /\ [][Next]_avars
=============================================================================
