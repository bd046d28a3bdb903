------------------------------ MODULE LiveView ------------------------------
(***************************************************************************)
(* The live page (web/js/live.js): one JavaScript thread whose handlers    *)
(* run to their next await, an interval that polls, clicks at any moment,  *)
(* and answers that arrive in any order or as errors.                      *)
(*                                                                         *)
(* An asynchronous call is a slot: start, an interval's poll, or the stop  *)
(* button's, with what it waits for.  Charts and texts are left out but    *)
(* for what the page says it shows.                                        *)
(***************************************************************************)
EXTENDS Integers, FiniteSets

CONSTANTS
  Ids,        \* experiments
  Calls,      \* bound: asynchronous calls under way at one time
  MaxClicks,  \* bound on the user's clicks
  Nil

ASSUME LiveViewAssumption ==
  /\ IsFiniteSet(Calls) /\ MaxClicks \in Nat
  /\ Nil \notin Nat /\ Nil \notin Ids
  /\ Nil \notin {"running", "finished", "error"}

VARIABLES
  server,     \* the experiment's status on the server
  timer,      \* live.js's timer: the interval it knows, or Nil
  alive,      \* the intervals the browser runs
  nextTimer,  \* what setInterval returns next
  currentId,  \* live.js's currentId
  call,       \* the asynchronous call in each slot
  shown,      \* the experiment and status of the last answer displayed
  clicks      \* clicks so far

page == <<timer, alive, nextTimer>>
vars == <<server, page, currentId, call, shown, clicks>>

Init ==
  /\ server = [id \in Ids |-> "running"]
  /\ timer = Nil /\ alive = {} /\ nextTimer = 1
  /\ currentId = Nil
  /\ call = [c \in Calls |-> Nil]
  /\ shown = Nil
  /\ clicks = 0

\* The experiment ends by itself.
ServerFinish(id) ==
  /\ server[id] = "running"
  /\ server' = [server EXCEPT ![id] = "finished"]
  /\ UNCHANGED <<page, currentId, call, shown, clicks>>

-----------------------------------------------------------------------------

Begin(c, kind, stage, id) ==
  /\ call[c] = Nil
  /\ call' = [call EXCEPT ![c] = [kind |-> kind, stage |-> stage, id |-> id,
                                  got |-> Nil]]

Click == clicks < MaxClicks /\ clicks' = clicks + 1

\* stop(): also from poll, on a finished experiment or an error.
ClearTimer == timer' = Nil /\ alive' = alive \ {timer}

\* The toggle with an interval running.
ToggleOff ==
  /\ Click /\ timer # Nil
  /\ ClearTimer
  /\ UNCHANGED <<server, nextTimer, currentId, call, shown>>

\* The toggle without one, or the page opened with ?id=: start() up to the
\* await in resolveId, with the id typed or the first one running.
ToggleOn(c) ==
  /\ Click /\ timer = Nil
  /\ \E id \in Ids : Begin(c, "start", "resolve", id)
  /\ UNCHANGED <<server, page, currentId, shown>>

\* start() from resolveId to the requests of its first poll.
Resolve(c) ==
  /\ call[c] # Nil /\ call[c].stage = "resolve"
  /\ currentId' = call[c].id
  /\ call' = [call EXCEPT ![c].stage = "asked"]
  /\ UNCHANGED <<server, page, shown, clicks>>

\* resolveId finds nothing running: start() ends, whatever polls already.
ResolveFails(c) ==
  /\ call[c] # Nil /\ call[c].stage = "resolve"
  /\ call' = [call EXCEPT ![c] = Nil]
  /\ UNCHANGED <<server, page, currentId, shown, clicks>>

\* An interval fires: poll() of the experiment then current.
IntervalPoll(c) ==
  /\ alive # {} /\ currentId # Nil
  /\ Begin(c, "tick", "asked", currentId)
  /\ UNCHANGED <<server, page, currentId, shown, clicks>>

\* The stop button, for the experiment current at the click.
StopClick(c) ==
  /\ Click /\ currentId # Nil
  /\ Begin(c, "button", "stopping", currentId)
  /\ UNCHANGED <<server, page, currentId, shown>>

\* The server stops it; or the request is refused or lost, and the button is
\* done.
ServeStop(c) ==
  /\ call[c] # Nil /\ call[c].stage = "stopping"
  /\ \/ /\ server[call[c].id] = "running"
        /\ server' = [server EXCEPT ![call[c].id] = "finished"]
        /\ call' = [call EXCEPT ![c].stage = "stopped"]
     \/ call' = [call EXCEPT ![c] = Nil] /\ UNCHANGED server
  /\ UNCHANGED <<page, currentId, shown, clicks>>

\* After the await, a poll of the experiment that is current by now.
PollAfterStop(c) ==
  /\ call[c] # Nil /\ call[c].stage = "stopped"
  /\ call' = [call EXCEPT ![c].stage = "asked", ![c].id = currentId]
  /\ UNCHANGED <<server, page, currentId, shown, clicks>>

\* The server answers the poll's requests, or they fail.
Serve(c) ==
  /\ call[c] # Nil /\ call[c].stage = "asked"
  /\ \E got \in {server[call[c].id], "error"} :
       call' = [call EXCEPT ![c].stage = "answered", ![c].got = got]
  /\ UNCHANGED <<server, page, currentId, shown, clicks>>

Answered(c, kinds) ==
  /\ call[c] # Nil /\ call[c].stage = "answered" /\ call[c].kind \in kinds
  /\ call' = [call EXCEPT ![c] = Nil]
  /\ shown' = IF call[c].got = "error" THEN shown
              ELSE [id |-> call[c].id, status |-> call[c].got]

BugEndPoll(c) ==
  /\ Answered(c, {"tick", "button"})
  /\ IF call[c].got = "error" THEN ClearTimer
     ELSE UNCHANGED <<timer, alive>>
  /\ UNCHANGED <<server, nextTimer, currentId, clicks>>

\* A failed poll leaves it to the next one.
BugEndPollError(c) ==
  /\ Answered(c, {"tick", "button"})
  /\ IF call[c].got = "finished" THEN ClearTimer ELSE UNCHANGED <<timer, alive>>
  /\ UNCHANGED <<server, nextTimer, currentId, clicks>>

\* The rest of poll(), for the interval or the stop button.
EndPoll(c) ==
  /\ Answered(c, {"tick", "button"})
  /\ IF call[c].got # "running" THEN ClearTimer ELSE UNCHANGED <<timer, alive>>
  /\ UNCHANGED <<server, nextTimer, currentId, clicks>>

BugEndStart(c) ==
  /\ Answered(c, {"start"})
  /\ timer' = nextTimer /\ nextTimer' = nextTimer + 1
  /\ alive' = alive \cup {nextTimer}
  /\ UNCHANGED <<server, currentId, clicks>>

\* The rest of start()'s own poll(), and without another await the rest of
\* start(): whatever the answer was, the timer is replaced.
EndStart(c) ==
  /\ Answered(c, {"start"})
  /\ timer' = nextTimer /\ nextTimer' = nextTimer + 1
  /\ alive' = (alive \ {timer}) \cup {nextTimer}
  /\ UNCHANGED <<server, currentId, clicks>>

-----------------------------------------------------------------------------

Continue(c) == \/ Resolve(c) \/ ResolveFails(c) \/ ServeStop(c)
               \/ PollAfterStop(c) \/ Serve(c) \/ EndPoll(c) \/ EndStart(c)

Idle == alive = {} /\ (\A c \in Calls : call[c] = Nil) /\ UNCHANGED vars

Next == \/ \E id \in Ids : ServerFinish(id)
        \/ ToggleOff
        \/ \E c \in Calls : ToggleOn(c) \/ StopClick(c) \/ IntervalPoll(c)
                              \/ Continue(c)
        \/ Idle

Spec == Init /\ [][Next]_vars

\* Requests are answered or fail, a live interval fires again and again;
\* nobody has to click and no experiment has to end.
FairSpec ==
  /\ Spec
  /\ \A c \in Calls : WF_vars(Continue(c))
  /\ WF_vars(\E c \in Calls : IntervalPoll(c))

-----------------------------------------------------------------------------

CallRecords == [kind : {"start", "tick", "button"},
                stage : {"resolve", "stopping", "stopped", "asked", "answered"},
                id : Ids, got : {Nil, "running", "finished", "error"}]

TypeOK ==
  /\ server \in [Ids -> {"running", "finished"}]
  /\ timer \in Nat \cup {Nil} /\ alive \subseteq Nat /\ nextTimer \in Nat
  /\ currentId \in Ids \cup {Nil}
  /\ call \in [Calls -> CallRecords \cup {Nil}]
  /\ clicks \in 0..MaxClicks

(***************************************************************************)
(* The page never runs an interval it has forgotten: however starts, stops *)
(* and late answers overlap, the browser's only interval is the one in     *)
(* timer, which the toggle can clear (live.js:75-81, 92-94).               *)
(***************************************************************************)
OneInterval == alive = IF timer = Nil THEN {} ELSE {timer}

(***************************************************************************)
(* When every experiment is over the page falls silent by itself, late     *)
(* starts and stale answers included (live.js:69-71).                      *)
(***************************************************************************)
PollingEnds == (\A id \in Ids : server[id] = "finished") ~> alive = {}

(***************************************************************************)
(* Its safety half, in two parts.  An interval is worth a click: those     *)
(* ever begun and the starts under way are no more than the clicks, since  *)
(* start() replaces the timer once, after its own poll (live.js:83-98).    *)
(***************************************************************************)
Starting == {c \in Calls : call[c] # Nil /\ call[c].kind = "start"}

IntervalsPaid == nextTimer - 1 + Cardinality(Starting) <= clicks

\* Polls answered while their experiment still ran.
Outdated == {c \in Calls : call[c] # Nil /\ call[c].got = "running"}

Over == \A id \in Ids : server[id] = "finished"

(***************************************************************************)
(* And once every experiment is over, each poll that ends clears the timer *)
(* but for those answered before, of which there are no more to come       *)
(* (live.js:69-71).                                                        *)
(***************************************************************************)
LastPolls ==
  [][Over =>
       /\ Over' /\ Outdated' \subseteq Outdated
       /\ \A c \in Calls : EndPoll(c) =>
            alive' = {} \/ c \in Outdated \ Outdated']_vars

-----------------------------------------------------------------------------

\* A call ends because its requests failed.
ByAnError == \E c \in Calls :
  call[c] # Nil /\ call'[c] = Nil /\ call[c].got = "error"

(***************************************************************************)
(* "polling while the experiment runs" (README.md:25-26): without a click  *)
(* and without an error, only the end of the current experiment stops it.  *)
(***************************************************************************)
PollsUntilItsEnd ==
  [][timer # Nil /\ timer' = Nil /\ clicks' = clicks /\ ~ByAnError
       => server[currentId] = "finished"]_vars
=============================================================================
