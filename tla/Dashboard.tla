----------------------------- MODULE Dashboard -----------------------------
(***************************************************************************)
(* The dashboard's experiment list (web/js/dashboard.js): loadList called  *)
(* by the page, the refresh button, a create, a row's stop button, and an  *)
(* interval that asks only while the table shows a running row.            *)
(*                                                                         *)
(* One experiment stands for the list: the table shows it running, shows   *)
(* it finished, does not show it, or shows a failed load.                  *)
(***************************************************************************)
EXTENDS Integers, FiniteSets

CONSTANTS
  Loads,       \* bound: loadList calls under way at one time
  MaxClicks,   \* bound on the user's actions
  Failures,    \* bound on failing requests
  Nil

ASSUME DashboardAssumption ==
  /\ IsFiniteSet(Loads) /\ MaxClicks \in Nat /\ Failures \in Nat

VARIABLES
  server,    \* the experiment on the server: none, running or finished
  rows,      \* what the table shows
  load,      \* each loadList under way: asked, or what it was answered
  stopping,  \* a row's stop button waits for the server
  failed,    \* requests failed so far
  clicks     \* user actions so far

vars == <<server, rows, load, stopping, failed, clicks>>

\* init loads the list once.
Init ==
  /\ server \in {"none", "running"}
  /\ rows = "empty"
  /\ \E first \in Loads : load = [l \in Loads |-> IF l = first THEN "asked" ELSE Nil]
  /\ stopping = FALSE
  /\ failed = 0 /\ clicks = 0

Click == clicks < MaxClicks /\ clicks' = clicks + 1
Fail  == failed < Failures /\ failed' = failed + 1

ServerFinish ==
  /\ server = "running"
  /\ server' = "finished"
  /\ UNCHANGED <<rows, load, stopping, failed, clicks>>

Ask(l) == load[l] = Nil /\ load' = [load EXCEPT ![l] = "asked"]

\* The refresh button.
Refresh(l) ==
  /\ Click /\ Ask(l)
  /\ UNCHANGED <<server, rows, stopping, failed>>

BugAutoRefresh(l) ==
  /\ rows = "running" /\ server = "running" /\ Ask(l)
  /\ UNCHANGED <<server, rows, stopping, failed, clicks>>

\* The 5 s interval: only while the table has a running row.
AutoRefresh(l) ==
  /\ rows = "running" /\ Ask(l)
  /\ UNCHANGED <<server, rows, stopping, failed, clicks>>

\* onCreate, answered: the list is loaded (and the page then left).
Create(l) ==
  /\ Click /\ server = "none"
  /\ server' = "running"
  /\ Ask(l)
  /\ UNCHANGED <<rows, stopping, failed>>

\* onTableClick: the row's button is disabled while the server is asked.
\* Bound: one stop at a time, although a newly rendered row has a new button.
StopClick ==
  /\ Click /\ rows = "running" /\ ~stopping
  /\ stopping' = TRUE
  /\ UNCHANGED <<server, rows, load, failed>>

\* The answer: the list is loaded again, or the button shows the failure.
StopAnswered(l) ==
  /\ stopping /\ stopping' = FALSE
  /\ \/ server = "running" /\ server' = "finished" /\ Ask(l) /\ UNCHANGED failed
     \/ server = "finished" /\ UNCHANGED <<server, load, failed>>
     \/ Fail /\ UNCHANGED <<server, load>>
  /\ UNCHANGED <<rows, clicks>>

\* The browser answers from its cache while the table shows a running row.
BugServe(l) ==
  /\ load[l] = "asked"
  /\ \/ load' = [load EXCEPT ![l] = IF server = "none" THEN "empty"
                                   ELSE IF rows = "running" THEN rows ELSE server]
        /\ UNCHANGED failed
     \/ Fail /\ load' = [load EXCEPT ![l] = "failed"]
  /\ UNCHANGED <<server, rows, stopping, clicks>>

\* The server answers a list request with what it has now, or it fails.
Serve(l) ==
  /\ load[l] = "asked"
  /\ \/ load' = [load EXCEPT ![l] = IF server = "none" THEN "empty" ELSE server]
        /\ UNCHANGED failed
     \/ Fail /\ load' = [load EXCEPT ![l] = "failed"]
  /\ UNCHANGED <<server, rows, stopping, clicks>>

\* The rest of loadList: the table is replaced by the answer.
Render(l) ==
  /\ load[l] \notin {Nil, "asked"}
  /\ rows' = load[l]
  /\ load' = [load EXCEPT ![l] = Nil]
  /\ UNCHANGED <<server, stopping, failed, clicks>>

\* Nothing is under way and the table asks for no refresh.
Idle ==
  /\ rows # "running" /\ ~stopping /\ \A l \in Loads : load[l] = Nil
  /\ UNCHANGED vars

Next == \/ ServerFinish \/ StopClick
        \/ \E l \in Loads : \/ Refresh(l) \/ AutoRefresh(l) \/ Create(l)
                            \/ StopAnswered(l) \/ Serve(l) \/ Render(l)
        \/ Idle

Spec == Init /\ [][Next]_vars

\* Requests are answered and the interval fires; nobody has to click.
FairSpec ==
  /\ Spec
  /\ \A l \in Loads : WF_vars(Serve(l) \/ Render(l))
  /\ WF_vars(\E l \in Loads : AutoRefresh(l))

-----------------------------------------------------------------------------

TypeOK ==
  /\ server \in {"none", "running", "finished"}
  /\ rows \in {"empty", "running", "finished", "failed"}
  /\ load \in [Loads -> {Nil, "asked", "empty", "running", "finished", "failed"}]
  /\ stopping \in BOOLEAN /\ failed \in 0..Failures /\ clicks \in 0..MaxClicks

(***************************************************************************)
(* The table does not keep a finished experiment running: loads that       *)
(* overlap and render in any order, an old answer over a newer one         *)
(* included, are put right by the next refresh (dashboard.js:40-60,        *)
(* 107-111).                                                               *)
(***************************************************************************)
RowsCatchUp == server = "finished" ~> rows # "running"

\* Loads whose answer says running and is not rendered yet.
Outdated == {l \in Loads : load[l] = "running"}

(***************************************************************************)
(* The safety half of it: once the experiment is over no load is answered  *)
(* with running any more, so the table goes back to running only with an   *)
(* answer given before, and each such answer is rendered once              *)
(* (dashboard.js:40-60).                                                   *)
(***************************************************************************)
OldAnswersRunOut ==
  [][server = "finished" =>
       /\ server' = "finished" /\ Outdated' \subseteq Outdated
       /\ rows # "running" /\ rows' = "running" => Outdated' # Outdated]_vars

=============================================================================
