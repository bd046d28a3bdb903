------------------------- MODULE ExperimentService -------------------------
(***************************************************************************)
(* The API process and its store: the registry of Service                  *)
(* (backend/internal/experiment/service.go), the two MongoDB collections   *)
(* of database.Store (backend/internal/database/mongodb.go), and a process *)
(* that can die at any moment and start again (backend/cmd/server).        *)
(*                                                                         *)
(* A run's traffic is abstracted to what ExperimentRun keeps of it: it     *)
(* ends, drains, and then has one final number of requests.  A live answer *)
(* carries the counters of the moment, which agree with nothing: they are  *)
(* Nil here, also when the status next to them is already terminal.  Each  *)
(* answer tells the whole record, though the reply about the metrics has   *)
(* no Defense flag (handler.go:71-80): it could contradict nobody.         *)
(***************************************************************************)
EXTENDS Integers, FiniteSets

CONSTANTS
  Ids,           \* experiment ids; newID never repeats one
  Old,           \* those an earlier process has run and stored
  MaxTotal,      \* bound on a run's number of requests
  HistoryLimit,  \* historyLimit of mongodb.go (50)
  MaxCrashes,    \* bound on process deaths
  Nil            \* Go's nil

Terminal == {"completed", "stopped"}
Phases   == {"pacing", "drain", "saveExp", "saveMetrics", "publish", "done"}

\* What a client or a document can hold about an experiment; total is Nil
\* when it is live.
AllFacts       == [status : Terminal \cup {"running"}, defense : BOOLEAN,
                   total : 0..MaxTotal \cup {Nil}]
ExperimentDocs == [status : Terminal, total : 0..MaxTotal]
Runs           == [status : Terminal \cup {"running"}, phase : Phases,
                   captured : AllFacts \cup {Nil}, final : AllFacts \cup {Nil}]

ASSUME ServiceAssumption ==
  /\ IsFiniteSet(Ids) /\ Old \subseteq Ids
  /\ MaxTotal \in Nat /\ HistoryLimit \in Nat \ {0} /\ MaxCrashes \in Nat
  /\ Nil \notin Nat \cup BOOLEAN
  /\ Nil \notin AllFacts /\ Nil \notin ExperimentDocs /\ Nil \notin Runs

VARIABLES
  failing,   \* environment: operations of the store may fail
  up,        \* the API process is running
  store,     \* s.store # nil: the process connected when it started
  runs,      \* s.experiments: run or Nil
  expDocs,   \* the experiments collection, by _id
  metDocs,   \* the metrics collection, by experiment_id
  asked,     \* history: the Defense flag each experiment was created with
  order,     \* StartedAt: creation order, 0 for none
  listing,   \* the List call under way or answered last
  answer,    \* the last answer to a client
  known,     \* history: the last answer about each experiment that had one
  crashes    \* process deaths so far

process == <<failing, up, store, runs, crashes>>
docs    == <<expDocs, metDocs>>
client  == <<answer, known>>
birth   == <<asked, order>>
vars    == <<process, docs, birth, listing, client>>

InMemory(id) == runs[id] # Nil

Facts(status, defense, total) ==
  [status |-> status, defense |-> defense, total |-> total]

NoListing == [stage |-> "none", out |-> {}, due |-> {}]

\* A process has just started over the documents of an earlier one.
Init ==
  /\ failing \in BOOLEAN
  /\ up = TRUE /\ store \in {TRUE, ~failing}
  /\ runs = [id \in Ids |-> Nil]
  /\ expDocs = [id \in Ids |-> IF id \in Old THEN [status |-> "completed", total |-> 0]
                                ELSE Nil]
  /\ metDocs = [id \in Ids |-> IF id \in Old THEN 0 ELSE Nil]
  /\ asked = [id \in Ids |-> IF id \in Old THEN FALSE ELSE Nil]
  /\ order \in {o \in [Ids -> 0..Cardinality(Old)] :
                  /\ \A id \in Ids : o[id] = 0 <=> id \notin Old
                  /\ \A i, j \in Old : o[i] = o[j] => i = j}
  /\ listing = NoListing
  /\ answer = Nil /\ known = [id \in Ids |-> Nil]
  /\ crashes = 0

-----------------------------------------------------------------------------
(* The life of a run.                                                      *)

\* Create: registered under the lock, then execute is started.
Create(id, defense) ==
  /\ up /\ asked[id] = Nil
  /\ runs' = [runs EXCEPT ![id] = [status |-> "running", phase |-> "pacing",
                                   captured |-> Nil, final |-> Nil]]
  /\ asked' = [asked EXCEPT ![id] = defense]
  /\ order' = [order EXCEPT ![id] = Cardinality({i \in Ids : order[i] > 0}) + 1]
  /\ UNCHANGED <<failing, up, store, crashes, docs, listing, client>>

InPhase(id, phase) == up /\ InMemory(id) /\ runs[id].phase = phase

\* The loop ends: finish(completed), or finish(stopped) after a Stop.
EndRun(id) ==
  /\ InPhase(id, "pacing")
  /\ runs' = [runs EXCEPT ![id].status = IF @ = "running" THEN "completed" ELSE @,
                          ![id].phase = "drain"]
  /\ UNCHANGED <<failing, up, store, crashes, docs, birth, listing, client>>

BugFinalize(id) ==
  /\ InPhase(id, "drain")
  /\ runs' = [runs EXCEPT
       ![id].captured = Facts(runs[id].status, asked[id], MaxTotal),
       ![id].phase = IF store /\ runs[id].status = "completed"
                     THEN "saveExp" ELSE "publish"]
  /\ UNCHANGED <<failing, up, store, crashes, docs, birth, listing, client>>

\* finalize, once the workers are gone.
Finalize(id) ==
  /\ InPhase(id, "drain")
  /\ \E total \in 0..MaxTotal :
       runs' = [runs EXCEPT
                  ![id].captured = Facts(runs[id].status, asked[id], total),
                  ![id].phase = IF store THEN "saveExp" ELSE "publish"]
  /\ UNCHANGED <<failing, up, store, crashes, docs, birth, listing, client>>

\* The fields SaveResult copies into an ExperimentDoc.
ExperimentDoc(r) == [status |-> r.status, total |-> r.total]

BugSaveExp(id) ==
  /\ InPhase(id, "saveExp")
  /\ \/ expDocs' = [expDocs EXCEPT ![id] = ExperimentDoc(runs[id].captured)]
     \/ failing /\ expDocs' = expDocs
  /\ runs' = [runs EXCEPT ![id].phase = "saveMetrics"]
  /\ UNCHANGED <<failing, up, store, crashes, metDocs, birth, listing, client>>

\* SaveResult, first write: ReplaceOne with upsert.  A failed one may have
\* reached the database; it ends SaveResult either way.
SaveExp(id) ==
  /\ InPhase(id, "saveExp")
  /\ \E ok \in {TRUE, ~failing} :
       /\ \/ expDocs' = [expDocs EXCEPT ![id] = ExperimentDoc(runs[id].captured)]
          \/ ~ok /\ expDocs' = expDocs
       /\ runs' = [runs EXCEPT ![id].phase = IF ok THEN "saveMetrics" ELSE "publish"]
  /\ UNCHANGED <<failing, up, store, crashes, metDocs, birth, listing, client>>

\* A run without requests has no metrics worth a document.
BugSaveMetrics(id) ==
  /\ InPhase(id, "saveMetrics")
  /\ \/ /\ runs[id].captured.total > 0
        /\ metDocs' = [metDocs EXCEPT ![id] = runs[id].captured.total]
     \/ (failing \/ runs[id].captured.total = 0) /\ metDocs' = metDocs
  /\ runs' = [runs EXCEPT ![id].phase = "publish"]
  /\ UNCHANGED <<failing, up, store, crashes, expDocs, birth, listing, client>>

\* SaveResult, second write: InsertOne.
SaveMetrics(id) ==
  /\ InPhase(id, "saveMetrics")
  /\ \/ metDocs' = [metDocs EXCEPT ![id] = runs[id].captured.total]
     \/ failing /\ metDocs' = metDocs
  /\ runs' = [runs EXCEPT ![id].phase = "publish"]
  /\ UNCHANGED <<failing, up, store, crashes, expDocs, birth, listing, client>>

\* r.final, whether SaveResult succeeded or not.
Publish(id) ==
  /\ InPhase(id, "publish")
  /\ runs' = [runs EXCEPT ![id].final = runs[id].captured, ![id].phase = "done"]
  /\ UNCHANGED <<failing, up, store, crashes, docs, birth, listing, client>>

\* The process dies: memory is lost, runs and calls under way with it.
Crash ==
  /\ up /\ crashes < MaxCrashes
  /\ up' = FALSE /\ crashes' = crashes + 1
  /\ runs' = [id \in Ids |-> Nil] /\ listing' = NoListing
  /\ UNCHANGED <<failing, store, docs, birth, client>>

\* main connects to MongoDB, or serves in-memory only for good.
Restart ==
  /\ ~up
  /\ up' = TRUE /\ store' \in {TRUE, ~failing}
  /\ UNCHANGED <<failing, runs, crashes, docs, birth, listing, client>>

-----------------------------------------------------------------------------
(* Requests about one experiment.                                          *)

Refuse(op, id, code) ==
  /\ answer' = [op |-> op, id |-> id, code |-> code]
  /\ UNCHANGED known

Tell(op, id, facts) ==
  /\ answer' = [op |-> op, id |-> id, code |-> "ok"]
  /\ known' = [known EXCEPT ![id] = facts]

BugStop(id) ==
  /\ up
  /\ \/ ~InMemory(id) /\ Refuse("stop", id, "notFound") /\ UNCHANGED runs
     \/ /\ InMemory(id)
        /\ runs' = [runs EXCEPT ![id].status = "stopped"]
        /\ Tell("stop", id, Facts("stopped", asked[id], Nil))
  /\ UNCHANGED <<failing, up, store, crashes, docs, birth, listing>>

\* Stop looks in the registry only.
Stop(id) ==
  /\ up
  /\ \/ ~InMemory(id) /\ Refuse("stop", id, "notFound") /\ UNCHANGED runs
     \/ /\ InMemory(id) /\ runs[id].status # "running"
        /\ Refuse("stop", id, "conflict") /\ UNCHANGED runs
     \/ /\ InMemory(id) /\ runs[id].status = "running"
        /\ runs' = [runs EXCEPT ![id].status = "stopped"]
        /\ Tell("stop", id, Facts("stopped", asked[id], Nil))
  /\ UNCHANGED <<failing, up, store, crashes, docs, birth, listing>>

\* docToResult: what the experiment document alone says.
Recorded(id) == Facts(expDocs[id].status, FALSE, expDocs[id].total)

BugLoaded(id) ==
  Facts(expDocs[id].status, FALSE, IF metDocs[id] = Nil THEN 0 ELSE metDocs[id])

\* LoadResult: docToResult, with the metrics document's numbers if it exists.
\* Its two reads are one step: documents only ever appear, the experiment's
\* first, so a write in between changes neither.
Loaded(id) ==
  Facts(expDocs[id].status, FALSE,
        IF metDocs[id] = Nil THEN expDocs[id].total ELSE metDocs[id])

\* An id the registry does not know: the store, if there is one, decides.
FromStore(op, id, facts) ==
  /\ ~InMemory(id)
  /\ \/ (~store \/ expDocs[id] = Nil) /\ Refuse(op, id, "notFound")
     \/ store /\ failing /\ Refuse(op, id, "error")
     \/ store /\ expDocs[id] # Nil /\ Tell(op, id, facts)

\* Get: the live record while it is in memory, however finished; else Exp of
\* the loaded result, which the metrics document does not touch.
Get(id) ==
  /\ up
  /\ \/ InMemory(id) /\ Tell("get", id, Facts(runs[id].status, asked[id], Nil))
     \/ FromStore("get", id, Recorded(id))
  /\ UNCHANGED <<process, docs, birth, listing>>

\* Metrics: the published result once there is one, else live.
Metrics(id) ==
  /\ up
  /\ \/ /\ InMemory(id)
        /\ Tell("metrics", id,
                IF runs[id].status # "running" /\ runs[id].final # Nil
                THEN runs[id].final
                ELSE Facts(runs[id].status, asked[id], Nil))
     \/ FromStore("metrics", id, Loaded(id))
  /\ UNCHANGED <<process, docs, birth, listing>>

-----------------------------------------------------------------------------
(* List: the registry under the read lock, then the store's history.       *)

Stored == {id \in Ids : expDocs[id] # Nil}

\* History returns the newest HistoryLimit documents.
History == {id \in Stored :
              Cardinality({i \in Stored : order[i] > order[id]}) < HistoryLimit}

Entry(id, status, from) == [id |-> id, status |-> status, from |-> from]

ListMemory ==
  /\ up /\ listing.stage # "history"
  /\ listing' =
       [stage |-> "history",
        out |-> {Entry(id, runs[id].status, "memory") :
                  id \in {i \in Ids : InMemory(i)}},
        due |-> {i \in Ids : InMemory(i) \/ (store /\ i \in Stored)}]
  /\ UNCHANGED <<process, docs, birth, client>>

BugListHistory ==
  /\ up /\ listing.stage = "history"
  /\ listing' = [listing EXCEPT
       !.stage = "served",
       !.out = @ \cup {Entry(id, expDocs[id].status, "store") :
                         id \in IF store THEN History ELSE {}}]
  /\ UNCHANGED <<process, docs, birth, client>>

\* The stored experiments that the registry did not have a moment ago; a
\* failing store adds nothing.
ListHistory ==
  /\ up /\ listing.stage = "history"
  /\ \E found \in {IF store THEN History ELSE {}}
                    \cup (IF failing THEN {{}} ELSE {}) :
       listing' = [listing EXCEPT
         !.stage = "served",
         !.out = @ \cup {Entry(id, expDocs[id].status, "store") :
                           id \in found \ {e.id : e \in listing.out}}]
  /\ UNCHANGED <<process, docs, birth, client>>

-----------------------------------------------------------------------------

Advance(id) == EndRun(id) \/ Finalize(id) \/ SaveExp(id) \/ SaveMetrics(id)
                 \/ Publish(id)

Next ==
  \/ \E id \in Ids :
       \/ \E defense \in BOOLEAN : Create(id, defense)
       \/ Advance(id)
       \/ Stop(id) \/ Get(id) \/ Metrics(id)
  \/ ListMemory \/ ListHistory
  \/ Crash \/ Restart

Spec == Init /\ [][Next]_vars

\* The goroutine of a run is scheduled and its store calls time out; nothing
\* restarts a dead process, and no client has to call.
FairSpec == Spec /\ \A id \in Ids : WF_vars(Advance(id))

-----------------------------------------------------------------------------

TypeOK ==
  /\ failing \in BOOLEAN /\ up \in BOOLEAN /\ store \in BOOLEAN /\ crashes \in 0..MaxCrashes
  /\ runs \in [Ids -> {Nil} \cup Runs]
  /\ expDocs \in [Ids -> {Nil} \cup ExperimentDocs]
  /\ metDocs \in [Ids -> 0..MaxTotal \cup {Nil}]
  /\ asked \in [Ids -> BOOLEAN \cup {Nil}] /\ order \in [Ids -> Nat]
  /\ known \in [Ids -> AllFacts \cup {Nil}]

(***************************************************************************)
(* The store holds finished runs only, as memory has them while it still   *)
(* has them, and no metrics document without its experiment document,      *)
(* whichever write fails (service.go:245-254, mongodb.go:141-159).         *)
(***************************************************************************)
StoreSound ==
  \A id \in Ids :
    /\ expDocs[id] # Nil =>
         /\ expDocs[id].status \in Terminal
         /\ InMemory(id) => ExperimentDoc(runs[id].captured) = expDocs[id]
         /\ InMemory(id) => runs[id].status = expDocs[id].status
    /\ metDocs[id] # Nil =>
         expDocs[id] # Nil /\ metDocs[id] = expDocs[id].total

(***************************************************************************)
(* What two answers about an experiment agree on, from memory or from the  *)
(* store, before or after any restart: a terminal status stays, and a      *)
(* final number is the same in every answer that carries one (service.go:  *)
(* 347-377, mongodb.go:163-197).  The Defense flag, which the stored form  *)
(* lacks (mongodb.go:225-251), may differ: it is lost when memory is,      *)
(* never invented, and never comes back.  Refusals say nothing, so that an *)
(* experiment lost in a death before its save is not found is no           *)
(* disagreement here; and the numbers of an answer taken before            *)
(* publication, finished or not, are not compared.                         *)
(***************************************************************************)
AnswersAgree ==
  [][\A id \in Ids :
       known[id] # Nil =>
         /\ known[id].status # "running" => known'[id].status = known[id].status
         /\ known[id].total # Nil /\ known'[id].total # Nil
              => known'[id].total = known[id].total
         /\ known'[id].defense # known[id].defense
              => known[id].defense /\ ~InMemory(id)]_vars

(***************************************************************************)
(* List merges two readings taken at different times.  An experiment that  *)
(* is saved or ends in between is listed once, and everything that was in  *)
(* memory or stored when the call began is listed, as long as the store    *)
(* answers; a stored one gives way only to a full history of newer ones    *)
(* (service.go:169-192, mongodb.go:204-205).                               *)
(***************************************************************************)
ListingSound ==
  listing.stage = "served" =>
    /\ \A e, f \in listing.out : e.id = f.id => e = f
    /\ ~failing =>
         \A id \in listing.due \ {e.id : e \in listing.out} :
           Cardinality({i \in Stored : order[i] > order[id]}) >= HistoryLimit

(***************************************************************************)
(* "Finished experiments persist to MongoDB" (README.md:27): with a        *)
(* working store, a run that has ended, completed or stopped, is saved     *)
(* unless its process dies first.                                          *)
(***************************************************************************)
FinishedPersists ==
  \A id \in Ids :
    (~failing /\ up /\ InMemory(id) /\ runs[id].status # "running")
      ~> (expDocs[id] # Nil \/ ~up)

(***************************************************************************)
(* The safety half of it: with a working store a published result is in    *)
(* both collections, and what a later process will load from them says the *)
(* same (service.go:245-258, mongodb.go:112-159, 175-197).                 *)
(***************************************************************************)
PublishedIsStored ==
  ~failing =>
    \A id \in Ids : InMemory(id) /\ runs[id].final # Nil =>
      /\ expDocs[id] # Nil /\ metDocs[id] # Nil
      /\ Loaded(id).status = runs[id].final.status
      /\ Loaded(id).total = runs[id].final.total

(***************************************************************************)
(* A document is never replaced or lost: the upsert of the first write     *)
(* (mongodb.go:141) only ever inserts, across deaths, restarts and failed  *)
(* writes.                                                                 *)
(***************************************************************************)
DocumentsStay ==
  [][\A id \in Ids : /\ expDocs[id] # Nil => expDocs'[id] = expDocs[id]
                     /\ metDocs[id] # Nil => metDocs'[id] = metDocs[id]]_vars

\* What an experiment is: what its run in memory says, or else its document.
\* A result's number is final when it is captured, however late its
\* publication.
Truth(id) ==
  IF InMemory(id)
  THEN Facts(runs[id].status, asked[id],
             IF runs[id].phase \in {"pacing", "drain"} THEN Nil
             ELSE runs[id].captured.total)
  ELSE IF expDocs[id] = Nil THEN Nil
  ELSE Recorded(id)

Answers == INSTANCE ExperimentAnswers WITH
  Totals <- 0..MaxTotal,
  begun <- {id \in Ids : asked[id] # Nil}, truth <- [id \in Ids |-> Truth(id)],
  durable <- expDocs, heard <- known

(***************************************************************************)
(* The service keeps the promises of ExperimentAnswers: an answer of Get,  *)
(* Metrics or Stop (service.go:125-164, 347-377) is what the experiment is *)
(* at that moment, it ends once, and what a later process loads of it      *)
(* (mongodb.go:163-197) is all that was kept, whatever fails or dies.      *)
(***************************************************************************)
AnswersSpec == Answers!Spec
=============================================================================
