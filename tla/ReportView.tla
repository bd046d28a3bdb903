----------------------------- MODULE ReportView -----------------------------
(***************************************************************************)
(* The report page (web/js/report.js): load(id) and compare(idA, idB) each *)
(* ask for the record and the metrics of their experiments at once, wait   *)
(* for all the answers, and then replace a part of the page.  A failing    *)
(* metrics request is replaced by null, any other failure ends the call at *)
(* once, whatever its other requests answer.                               *)
(*                                                                         *)
(* An answer is abstracted to what the experiment was when the server      *)
(* answered: running; ended, that is finished by its status while its      *)
(* numbers are still the live ones; or final, when the drained and saved   *)
(* result is what it answers.  Nothing numbers the calls, so they may      *)
(* overlap and end in any order.  Opening the page with ?id= or ?compare=  *)
(* makes the same calls as its buttons.                                    *)
(***************************************************************************)
EXTENDS Integers

CONSTANTS
  Ids,        \* experiment ids
  Pairs,      \* the pairs of them that are compared
  Loads,      \* bound: calls of load under way at one time
  Compares,   \* bound: calls of compare under way at one time
  MaxClicks,  \* bound on the user's actions
  Failures,   \* bound on failing requests
  Nil         \* nothing, JavaScript's null included

Calls   == Loads \cup Compares
Kind(c) == IF c \in Loads THEN "load" ELSE "compare"

\* load(id), compare(idA, idB)
Arguments(c) == IF c \in Loads THEN {<<id>> : id \in Ids} ELSE Pairs
Places(c)    == IF c \in Loads THEN {1} ELSE {1, 2}

\* What an experiment is, and what a call holds, with open for an answer
\* still to come.
Stage == {"running", "ended", "final"}
Held(c, open) ==
  [ids : Arguments(c), exp : [Places(c) -> Stage \cup open],
   met : [Places(c) -> Stage \cup open \cup {Nil}], since : [Places(c) -> Stage]]

Open == {"asked"}

ASSUME ReportViewAssumption ==
  /\ Pairs \subseteq Ids \X Ids
  /\ Loads \cap Compares = {} /\ MaxClicks \in Nat /\ Failures \in Nat
  /\ Nil \notin Stage \cup Open
  /\ \A c \in Calls : Nil \notin Held(c, Open)

VARIABLES
  server,    \* each experiment on the server
  sections,  \* the report on the page, or Nil
  table,     \* the comparison on the page, or Nil
  note,      \* the texts of report-note and compare-note
  fetch,     \* the calls under way
  last,      \* history: the last load asked for, and whether it was alone
  failed,    \* requests failed so far
  clicks     \* user actions so far

page == <<sections, table, note>>
vars == <<server, page, fetch, last, failed, clicks>>

Loading == {c \in Loads : fetch[c] # Nil}

Init ==
  /\ server \in [Ids -> Stage]
  /\ sections = Nil /\ table = Nil
  /\ note = [load |-> "empty", compare |-> "empty"]
  /\ fetch = [c \in Calls |-> Nil]
  /\ last = Nil
  /\ failed = 0 /\ clicks = 0

Click == clicks < MaxClicks /\ clicks' = clicks + 1
Fail  == failed < Failures /\ failed' = failed + 1

\* Stop, or finish at the timer, writes the status.
ServerFinish(id) ==
  /\ server[id] = "running"
  /\ server' = [server EXCEPT ![id] = "ended"]
  /\ UNCHANGED <<page, fetch, last, failed, clicks>>

\* After the drain and the save execute publishes the result.
ServerPublish(id) ==
  /\ server[id] = "ended"
  /\ server' = [server EXCEPT ![id] = "final"]
  /\ UNCHANGED <<page, fetch, last, failed, clicks>>

-----------------------------------------------------------------------------

\* All the requests of a call; since is history.
Requests(ids) ==
  LET all(x) == [i \in DOMAIN ids |-> x]
  IN  [ids |-> ids, exp |-> all("asked"), met |-> all("asked"),
       since |-> [i \in DOMAIN ids |-> server[ids[i]]]]

\* The calls of a kind are interchangeable: one that is not under way.
Free(c) ==
  /\ fetch[c] = Nil
  /\ c = CHOOSE d \in Calls : Kind(d) = Kind(c) /\ fetch[d] = Nil

\* A call asks nothing that another call asks already.
BugAsk(c, ids) ==
  /\ Click /\ Free(c)
  /\ fetch' = [fetch EXCEPT ![c] =
       IF \E d \in Calls : fetch[d] # Nil /\ fetch[d].ids = ids
       THEN [(CHOOSE f \in {fetch[d] : d \in Calls} : f # Nil /\ f.ids = ids)
               EXCEPT !.since = Requests(ids).since]
       ELSE Requests(ids)]
  /\ note' = [note EXCEPT ![Kind(c)] = "loading"]
  /\ last' = IF Kind(c) = "load" THEN [id |-> ids[1], alone |-> Loading = {}]
             ELSE last
  /\ UNCHANGED <<server, sections, table, failed>>

\* load and compare, up to their await.
Ask(c, ids) ==
  /\ Click /\ Free(c)
  /\ fetch' = [fetch EXCEPT ![c] = Requests(ids)]
  /\ note' = [note EXCEPT ![Kind(c)] = "loading"]
  /\ last' = IF Kind(c) = "load" THEN [id |-> ids[1], alone |-> Loading = {}]
             ELSE last
  /\ UNCHANGED <<server, sections, table, failed>>

\* An id is missing.
AskNothing(kind) ==
  /\ Click
  /\ note' = [note EXCEPT ![kind] = "missing"]
  /\ UNCHANGED <<server, sections, table, fetch, last, failed>>

Asked(c, request, i) ==
  fetch[c] # Nil /\ i \in DOMAIN fetch[c].ids /\ fetch[c][request][i] = "asked"

\* A request is answered with what the server has by then.
Serve(c, request, i) ==
  /\ Asked(c, request, i)
  /\ fetch' = [fetch EXCEPT ![c][request][i] = server[fetch[c].ids[i]]]
  /\ UNCHANGED <<server, page, last, failed, clicks>>

Over(c) == fetch' = [fetch EXCEPT ![c] = Nil]

\* getMetrics fails: the call goes on with null.
WithoutMetrics(c, i) ==
  /\ Asked(c, "met", i) /\ Fail
  /\ fetch' = [fetch EXCEPT ![c].met[i] = Nil]
  /\ UNCHANGED <<server, page, last, clicks>>

\* No catch clause.
BugReject(c, i) ==
  /\ Asked(c, "exp", i) /\ Fail
  /\ Over(c)
  /\ UNCHANGED <<server, page, last, clicks>>

\* getExperiment fails, and with it the call: the catch clause leaves what
\* the page shows.
Reject(c, i) ==
  /\ Asked(c, "exp", i) /\ Fail
  /\ note' = [note EXCEPT ![Kind(c)] = "error"]
  /\ Over(c)
  /\ UNCHANGED <<server, sections, table, last, clicks>>

\* Without metrics there is nothing to show.
BugRender(c) ==
  /\ fetch[c] # Nil
  /\ \A i \in DOMAIN fetch[c].ids :
       fetch[c].exp[i] # "asked" /\ fetch[c].met[i] # "asked"
  /\ IF \E i \in DOMAIN fetch[c].ids : fetch[c].met[i] = Nil
     THEN UNCHANGED page
     ELSE /\ IF Kind(c) = "load"
             THEN sections' = fetch[c] /\ UNCHANGED table
             ELSE table' = fetch[c] /\ UNCHANGED sections
          /\ note' = [note EXCEPT ![Kind(c)] = "showing"]
  /\ Over(c)
  /\ UNCHANGED <<server, last, failed, clicks>>

\* Everything is there: one part of the page is replaced, with its links.
Render(c) ==
  /\ fetch[c] # Nil
  /\ \A i \in DOMAIN fetch[c].ids :
       fetch[c].exp[i] # "asked" /\ fetch[c].met[i] # "asked"
  /\ IF Kind(c) = "load"
     THEN sections' = fetch[c] /\ UNCHANGED table
     ELSE table' = fetch[c] /\ UNCHANGED sections
  /\ note' = [note EXCEPT ![Kind(c)] = "showing"]
  /\ Over(c)
  /\ UNCHANGED <<server, last, failed, clicks>>

\* No call is under way and nothing moves on the server.
Idle ==
  /\ \A c \in Calls : fetch[c] = Nil
  /\ \A id \in Ids : server[id] = "final"
  /\ UNCHANGED vars

Continue(c) ==
  \/ \E i \in {1, 2} : \/ \E request \in {"exp", "met"} : Serve(c, request, i)
                       \/ WithoutMetrics(c, i) \/ Reject(c, i)
  \/ Render(c)

Next == \/ \E id \in Ids : ServerFinish(id) \/ ServerPublish(id)
        \/ \E c \in Calls :
             \/ \E ids \in Arguments(c) : Ask(c, ids)
             \/ Continue(c)
        \/ \E kind \in {"load", "compare"} : AskNothing(kind)
        \/ Idle

Spec == Init /\ [][Next]_vars

\* Requests are answered or fail, and the browser goes on with the answers.
FairSpec == Spec /\ \A c \in Calls : WF_vars(Continue(c))

-----------------------------------------------------------------------------

TypeOK ==
  /\ server \in [Ids -> Stage]
  /\ \A c \in Loads : sections \in Held(c, {}) \cup {Nil}
  /\ \A c \in Compares : table \in Held(c, {}) \cup {Nil}
  /\ note \in [{"load", "compare"} ->
                 {"empty", "missing", "loading", "showing", "error"}]
  /\ DOMAIN fetch = Calls
  /\ \A c \in Calls : fetch[c] \in Held(c, Open) \cup {Nil}
  /\ last \in [id : Ids, alone : BOOLEAN] \cup {Nil}
  /\ failed \in 0..Failures /\ clicks \in 0..MaxClicks

\* What an experiment may be from the moment it is seen at a stage.
From == [running |-> Stage, ended |-> {"ended", "final"}, final |-> {"final"}]

(***************************************************************************)
(* Nothing on the page is older than the call that put it there, although  *)
(* its requests are answered at different moments and older calls may end  *)
(* later (report.js:34-38, 108-111).  What was asked for after the end of  *)
(* an experiment does not show it running; what was asked for after its    *)
(* result was published has the final numbers, or none.  Asked for in      *)
(* between, a report may be finished with live numbers, or have its record *)
(* and its metrics from different stages.                                  *)
(***************************************************************************)
NothingOlder ==
  \A shown \in {sections, table} \ {Nil} : \A i \in DOMAIN shown.ids :
    /\ shown.exp[i] \in From[shown.since[i]]
    /\ shown.met[i] \in From[shown.since[i]] \cup {Nil}

(***************************************************************************)
(* Once every load has ended the page shows the experiment asked for last, *)
(* or an error, if no older load was under way when it was asked for       *)
(* (report.js:27-93).                                                      *)
(***************************************************************************)
LastAskedShown ==
  last # Nil /\ last.alone /\ Loading = {} =>
    \/ sections # Nil /\ sections.ids = <<last.id>>
    \/ note.load \in {"error", "missing"}

(***************************************************************************)
(* No call leaves the page at "Loading...", whichever of its requests fail *)
(* and whatever is clicked meanwhile (report.js:33, 107).                  *)
(***************************************************************************)
LoadEnds ==
  \A kind \in {"load", "compare"} :
    note[kind] = "loading" ~> note[kind] # "loading"

(***************************************************************************)
(* The inductive invariants behind these properties.  Fresh: what a call   *)
(* holds about an experiment is no older than the call, or still to come.  *)
(* OnlyTheLast: a load asked for alone stays alone until another is asked  *)
(* for.  NotesAccounted: a note says what is so, the safety half of        *)
(* LoadEnds.                                                               *)
(***************************************************************************)
Fresh(f, now) ==
  \A i \in DOMAIN f.ids :
    /\ now[f.ids[i]] \in From[f.since[i]]
    /\ f.exp[i] \in Open \cup From[f.since[i]]
    /\ f.met[i] \in {"asked", Nil} \cup From[f.since[i]]

FreshCalls == \A c \in Calls : fetch[c] # Nil => Fresh(fetch[c], server)

OnlyTheLast ==
  last # Nil /\ last.alone => \A c \in Loading : fetch[c].ids = <<last.id>>

NotesAccounted ==
  /\ \A kind \in {"load", "compare"} :
       note[kind] = "loading" => \E c \in Calls : Kind(c) = kind /\ fetch[c] # Nil
  /\ note.load = "showing" => sections # Nil
  /\ note.compare = "showing" => table # Nil

PageInv ==
  FreshCalls /\ NothingOlder /\ OnlyTheLast /\ LastAskedShown /\ NotesAccounted
=============================================================================
