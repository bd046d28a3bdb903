---------------------- MODULE ExperimentServiceProofs ----------------------
(***************************************************************************)
(* Proofs about ExperimentService for any number of experiments, requests, *)
(* process deaths and any size of the history.                             *)
(***************************************************************************)
EXTENDS ExperimentService, FiniteSetTheorems, TLAPS

(* What a run in memory has done to its result and to the store so far. *)
RunGood(id) ==
  InMemory(id) =>
    /\ asked[id] \in BOOLEAN
    /\ runs[id].phase = "pacing" => runs[id].status \in {"running", "stopped"}
    /\ runs[id].phase # "pacing" => runs[id].status \in Terminal
    /\ runs[id].phase \notin {"pacing", "drain"} =>
         /\ runs[id].captured \in AllFacts
         /\ runs[id].captured.status = runs[id].status
         /\ runs[id].captured.defense = asked[id]
         /\ runs[id].captured.total \in 0..MaxTotal
    /\ runs[id].phase \in {"pacing", "drain", "saveExp"} => expDocs[id] = Nil
    /\ runs[id].phase \in {"pacing", "drain", "saveExp", "saveMetrics"}
         => metDocs[id] = Nil
    /\ runs[id].phase = "saveMetrics"
         => expDocs[id] = ExperimentDoc(runs[id].captured)
    /\ runs[id].final # Nil =>
         runs[id].phase = "done" /\ runs[id].final = runs[id].captured

(* StoreSound of one experiment; only created ones are stored. *)
StoreGood(id) ==
  /\ expDocs[id] # Nil =>
       /\ asked[id] # Nil
       /\ expDocs[id].status \in Terminal
       /\ InMemory(id) => ExperimentDoc(runs[id].captured) = expDocs[id]
       /\ InMemory(id) => runs[id].status = expDocs[id].status
  /\ metDocs[id] # Nil =>
       expDocs[id] # Nil /\ metDocs[id] = expDocs[id].total

(***************************************************************************)
(* What clients know is still what memory says, or, once the process that  *)
(* ran the experiment is dead, what the store says if it says anything.    *)
(***************************************************************************)
KnownGood(id) ==
  known[id] # Nil =>
    /\ asked[id] # Nil
    /\ InMemory(id) =>
         /\ known[id].defense = asked[id]
         /\ known[id].status # "running" => known[id].status = runs[id].status
         /\ known[id].total # Nil =>
              runs[id].final # Nil /\ known[id].total = runs[id].final.total
    /\ ~InMemory(id) /\ expDocs[id] # Nil =>
         /\ known[id].status # "running" => known[id].status = expDocs[id].status
         /\ known[id].total # Nil => known[id].total = expDocs[id].total

Good(id) == RunGood(id) /\ StoreGood(id) /\ KnownGood(id)

SInv == TypeOK /\ \A id \in Ids : Good(id)

-----------------------------------------------------------------------------

(* An experiment that a step does not touch stays good. *)
LEMMA Untouched ==
  ASSUME NEW id \in Ids, Good(id),
         runs'[id] = runs[id], expDocs'[id] = expDocs[id],
         metDocs'[id] = metDocs[id], asked'[id] = asked[id],
         known'[id] = known[id]
  PROVE  Good(id)'
  BY DEF Good, RunGood, StoreGood, KnownGood, InMemory

(* A run's record replaced by another keeps the type of the registry. *)
LEMMA RunUpdate ==
  ASSUME TypeOK, NEW id \in Ids, NEW r \in Runs,
         runs' = [runs EXCEPT ![id] = r]
  PROVE  /\ runs' \in [Ids -> {Nil} \cup Runs] /\ runs'[id] = r
         /\ \A i \in Ids \ {id} : runs'[i] = runs[i]
  BY DEF TypeOK, Runs

(* Creation: nothing is known or stored of a fresh id. *)
LEMMA CreateStep ==
  ASSUME SInv, NEW id \in Ids, NEW defense \in BOOLEAN, Create(id, defense)
  PROVE  SInv'
<1> USE ServiceAssumption
<1> DEFINE r == [status |-> "running", phase |-> "pacing",
                 captured |-> Nil, final |-> Nil]
<1>1. r \in Runs
  BY DEF Runs, Phases
<1>2. /\ runs' \in [Ids -> {Nil} \cup Runs] /\ runs'[id] = r
      /\ \A i \in Ids \ {id} : runs'[i] = runs[i]
  BY <1>1, RunUpdate DEF Create, SInv
<1>3. /\ asked \in [Ids -> BOOLEAN \cup {Nil}]
      /\ asked' = [asked EXCEPT ![id] = defense] /\ asked[id] = Nil
  BY DEF Create, SInv, TypeOK
<1>4. order' \in [Ids -> Nat]
  <2>1. IsFiniteSet({i \in Ids : order[i] > 0})
    BY FS_Subset
  <2>2. Cardinality({i \in Ids : order[i] > 0}) + 1 \in Nat
    BY <2>1, FS_CardinalityType
  <2> QED
    BY <2>2 DEF Create, SInv, TypeOK
<1>5. TypeOK'
  BY <1>2, <1>3, <1>4 DEF Create, SInv, TypeOK, Runs, docs, client
<1>6. Good(id)'
  BY <1>2, <1>3 DEF Create, SInv, Good, RunGood, StoreGood, KnownGood, InMemory,
     docs, client
<1>7. ASSUME NEW i \in Ids \ {id} PROVE Good(i)'
  BY <1>2, <1>3, Untouched DEF Create, SInv, docs, client
<1> QED
  BY <1>5, <1>6, <1>7 DEF SInv

(* A run's record after one of its own steps; the store may have got a     *)
(* document of it.                                                         *)
LEMMA OwnStep ==
  ASSUME SInv, NEW id \in Ids, NEW r \in Runs,
         runs' = [runs EXCEPT ![id] = r],
         expDocs' \in [Ids -> {Nil} \cup ExperimentDocs],
         metDocs' \in [Ids -> 0..MaxTotal \cup {Nil}],
         \A i \in Ids \ {id} : expDocs'[i] = expDocs[i] /\ metDocs'[i] = metDocs[i],
         UNCHANGED <<failing, up, store, crashes, birth, client>>,
         Good(id)'
  PROVE  SInv'
<1>1. /\ runs' \in [Ids -> {Nil} \cup Runs]
      /\ \A i \in Ids \ {id} : runs'[i] = runs[i]
  BY RunUpdate DEF SInv
<1>2. TypeOK'
  BY <1>1 DEF SInv, TypeOK, Runs, ExperimentDocs, birth, client
<1>3. ASSUME NEW i \in Ids \ {id} PROVE Good(i)'
  BY <1>1, Untouched DEF SInv, birth, client
<1> QED
  BY <1>2, <1>3 DEF SInv

(* What a run in memory is made of. *)
LEMMA RunType ==
  ASSUME SInv, NEW id \in Ids, InMemory(id)
  PROVE  runs[id] \in Runs
  BY DEF SInv, TypeOK, InMemory, Runs

(* The loop ends: the verdict is given before the drain. *)
LEMMA EndRunStep ==
  ASSUME SInv, NEW id \in Ids, EndRun(id)
  PROVE  SInv'
<1> USE ServiceAssumption
<1> DEFINE r == [runs[id] EXCEPT
                   !.status = IF runs[id].status = "running" THEN "completed"
                              ELSE runs[id].status,
                   !.phase = "drain"]
<1>1. runs[id] \in Runs /\ runs[id].phase = "pacing"
  BY RunType DEF EndRun, InPhase
<1>2. runs' = [runs EXCEPT ![id] = r]
  BY <1>1 DEF EndRun, Runs, SInv, TypeOK
<1>3. r \in Runs /\ r.phase = "drain" /\ r.status \in Terminal
      /\ r.captured = runs[id].captured /\ r.final = runs[id].final
      /\ (runs[id].status # "running" => r.status = runs[id].status)
  BY <1>1 DEF Runs, Terminal, Phases
<1> HIDE DEF r
<1>4. runs'[id] = r
  BY <1>2, <1>3, RunUpdate DEF SInv
<1>5. Good(id)
  BY DEF SInv
<1>6. InMemory(id)
  BY DEF EndRun, InPhase
<1>7. Good(id)'
  BY <1>1, <1>3, <1>4, <1>5, <1>6
     DEF EndRun, Good, RunGood, StoreGood, KnownGood, InMemory, docs, birth, client
<1> QED
  BY <1>2, <1>3, <1>7, OwnStep
     DEF EndRun, docs, SInv, TypeOK, ExperimentDocs

(* The result is captured once the workers are gone. *)
LEMMA FinalizeStep ==
  ASSUME SInv, NEW id \in Ids, Finalize(id)
  PROVE  SInv'
<1> USE ServiceAssumption
<1>1. /\ runs[id] \in Runs /\ runs[id].phase = "drain"
      /\ InMemory(id) /\ Good(id) /\ asked[id] \in BOOLEAN
      /\ runs[id].status \in Terminal
  BY RunType DEF Finalize, InPhase, SInv, Good, RunGood
<1>2. PICK total \in 0..MaxTotal :
        runs' = [runs EXCEPT
                   ![id].captured = Facts(runs[id].status, asked[id], total),
                   ![id].phase = IF store THEN "saveExp" ELSE "publish"]
  BY DEF Finalize
<1> DEFINE captured == Facts(runs[id].status, asked[id], total)
           r == [runs[id] EXCEPT
                   !.captured = captured,
                   !.phase = IF store THEN "saveExp" ELSE "publish"]
<1>3. captured \in AllFacts /\ captured.status = runs[id].status
      /\ captured.defense = asked[id] /\ captured.total = total
  BY <1>1 DEF Facts, AllFacts
<1>4. runs' = [runs EXCEPT ![id] = r]
  BY <1>1, <1>2 DEF Runs, SInv, TypeOK
<1> HIDE DEF captured
<1>5. r \in Runs /\ r.phase \in {"saveExp", "publish"}
      /\ r.status = runs[id].status /\ r.captured = captured
      /\ r.final = runs[id].final
  BY <1>1, <1>3 DEF Runs, Phases
<1> HIDE DEF r
<1>6. runs'[id] = r
  BY <1>4, <1>5, RunUpdate DEF SInv
<1>7. Good(id)'
  BY <1>1, <1>3, <1>5, <1>6
     DEF Finalize, Good, RunGood, StoreGood, KnownGood, InMemory, docs, birth, client
<1> QED
  BY <1>4, <1>5, <1>7, OwnStep
     DEF Finalize, docs, SInv, TypeOK, ExperimentDocs

(* The first write: the document is a copy of the captured result. *)
LEMMA SaveExpStep ==
  ASSUME SInv, NEW id \in Ids, SaveExp(id)
  PROVE  SInv'
<1> USE ServiceAssumption
<1>1. /\ runs[id] \in Runs /\ runs[id].phase = "saveExp"
      /\ InMemory(id) /\ Good(id) /\ runs[id].status \in Terminal
      /\ runs[id].captured \in AllFacts
      /\ runs[id].captured.status = runs[id].status
      /\ runs[id].captured.total \in 0..MaxTotal
      /\ expDocs[id] = Nil /\ metDocs[id] = Nil /\ asked[id] \in BOOLEAN
  BY RunType DEF SaveExp, InPhase, SInv, Good, RunGood
<1> DEFINE doc == ExperimentDoc(runs[id].captured)
<1>2. doc \in ExperimentDocs /\ doc.status = runs[id].status
      /\ doc.total = runs[id].captured.total
  BY <1>1 DEF ExperimentDoc, ExperimentDocs
<1> HIDE DEF doc
<1>3. PICK phase \in {"saveMetrics", "publish"} :
        /\ runs' = [runs EXCEPT ![id].phase = phase]
        /\ \/ expDocs' = [expDocs EXCEPT ![id] = doc]
           \/ phase = "publish" /\ expDocs' = expDocs
  BY DEF SaveExp, doc
<1> DEFINE r == [runs[id] EXCEPT !.phase = phase]
<1>4. runs' = [runs EXCEPT ![id] = r]
  BY <1>1, <1>3 DEF Runs, SInv, TypeOK
<1>5. r \in Runs /\ r.phase = phase /\ r.status = runs[id].status
      /\ r.captured = runs[id].captured /\ r.final = runs[id].final
  BY <1>1 DEF Runs, Phases
<1> HIDE DEF r
<1>6. runs'[id] = r
  BY <1>4, <1>5, RunUpdate DEF SInv
<1>7. /\ expDocs' \in [Ids -> {Nil} \cup ExperimentDocs]
      /\ \A i \in Ids \ {id} : expDocs'[i] = expDocs[i]
      /\ expDocs'[id] = doc \/ (phase = "publish" /\ expDocs'[id] = Nil)
  BY <1>1, <1>2, <1>3 DEF SInv, TypeOK, ExperimentDocs
<1>8. metDocs' = metDocs /\ asked' = asked /\ known' = known
  BY DEF SaveExp, birth, client
<1>9. RunGood(id)'
  BY <1>1, <1>3, <1>5, <1>6, <1>7, <1>8
     DEF Good, RunGood, InMemory, ExperimentDoc, doc
<1>10. StoreGood(id)'
  BY <1>1, <1>2, <1>5, <1>6, <1>7, <1>8
     DEF Good, StoreGood, InMemory, doc
<1>11. KnownGood(id)'
  BY <1>1, <1>5, <1>6, <1>8 DEF Good, KnownGood, InMemory
<1> QED
  BY <1>4, <1>5, <1>7, <1>9, <1>10, <1>11, OwnStep
     DEF SaveExp, Good, SInv, TypeOK

(* The second write goes beside the document of the first. *)
LEMMA SaveMetricsStep ==
  ASSUME SInv, NEW id \in Ids, SaveMetrics(id)
  PROVE  SInv'
<1> USE ServiceAssumption
<1>1. /\ runs[id] \in Runs /\ runs[id].phase = "saveMetrics"
      /\ InMemory(id) /\ Good(id) /\ runs[id].status \in Terminal
      /\ runs[id].captured.status = runs[id].status
      /\ runs[id].captured.total \in 0..MaxTotal
      /\ expDocs[id] = ExperimentDoc(runs[id].captured) /\ metDocs[id] = Nil
  BY RunType DEF SaveMetrics, InPhase, SInv, Good, RunGood
<1> DEFINE r == [runs[id] EXCEPT !.phase = "publish"]
<1>2. runs' = [runs EXCEPT ![id] = r]
  BY <1>1 DEF SaveMetrics, Runs, SInv, TypeOK
<1>3. r \in Runs /\ r.phase = "publish" /\ r.status = runs[id].status
      /\ r.captured = runs[id].captured /\ r.final = runs[id].final
  BY <1>1 DEF Runs, Phases
<1> HIDE DEF r
<1>4. runs'[id] = r
  BY <1>2, <1>3, RunUpdate DEF SInv
<1>5. /\ metDocs' \in [Ids -> 0..MaxTotal \cup {Nil}]
      /\ \A i \in Ids \ {id} : metDocs'[i] = metDocs[i]
      /\ metDocs'[id] \in {Nil, runs[id].captured.total}
  BY <1>1 DEF SaveMetrics, SInv, TypeOK
<1>6. expDocs' = expDocs /\ asked' = asked /\ known' = known
  BY DEF SaveMetrics, birth, client
<1>7. expDocs[id].total = runs[id].captured.total
  BY <1>1 DEF ExperimentDoc
<1>8. expDocs[id] # Nil
  <2>1. expDocs[id] \in ExperimentDocs
    BY <1>1 DEF ExperimentDoc, ExperimentDocs
  <2> QED
    BY <2>1
<1>9. RunGood(id)'
  BY <1>1, <1>3, <1>4, <1>6 DEF Good, RunGood, InMemory
<1>10. StoreGood(id)'
  BY <1>1, <1>3, <1>4, <1>5, <1>6, <1>7, <1>8 DEF Good, StoreGood, InMemory
<1>11. KnownGood(id)'
  BY <1>1, <1>3, <1>4, <1>6 DEF Good, KnownGood, InMemory
<1> QED
  BY <1>2, <1>3, <1>5, <1>9, <1>10, <1>11, OwnStep
     DEF SaveMetrics, Good, SInv, TypeOK, ExperimentDocs

(* Publication, whatever became of the writes. *)
LEMMA PublishStep ==
  ASSUME SInv, NEW id \in Ids, Publish(id)
  PROVE  SInv'
<1> USE ServiceAssumption
<1>1. /\ runs[id] \in Runs /\ runs[id].phase = "publish"
      /\ InMemory(id) /\ Good(id) /\ runs[id].captured \in AllFacts
  BY RunType DEF Publish, InPhase, SInv, Good, RunGood
<1> DEFINE r == [runs[id] EXCEPT !.final = runs[id].captured, !.phase = "done"]
<1>2. runs' = [runs EXCEPT ![id] = r]
  BY <1>1 DEF Publish, Runs, SInv, TypeOK
<1>3. r \in Runs /\ r.phase = "done" /\ r.status = runs[id].status
      /\ r.captured = runs[id].captured /\ r.final = runs[id].captured
  BY <1>1 DEF Runs, Phases
<1> HIDE DEF r
<1>4. runs'[id] = r
  BY <1>2, <1>3, RunUpdate DEF SInv
<1>5. Good(id)'
  BY <1>1, <1>3, <1>4
     DEF Publish, Good, RunGood, StoreGood, KnownGood, InMemory, docs, birth, client
<1> QED
  BY <1>2, <1>3, <1>5, OwnStep
     DEF Publish, docs, SInv, TypeOK, ExperimentDocs
-----------------------------------------------------------------------------

(* What AnswersAgree asks of the next answer about an experiment. *)
Agrees(id, facts) ==
  known[id] # Nil =>
    /\ known[id].status # "running" => facts.status = known[id].status
    /\ known[id].total # Nil /\ facts.total # Nil => facts.total = known[id].total
    /\ facts.defense # known[id].defense => known[id].defense /\ ~InMemory(id)

(* A step that tells nobody anything agrees with what is known. *)
LEMMA NothingTold ==
  ASSUME known' = known
  PROVE  \A id \in Ids : Agrees(id, known'[id])
  BY DEF Agrees

(* An answer that changes nothing but what is known. *)
LEMMA TellStep ==
  ASSUME SInv, NEW id \in Ids, NEW facts \in AllFacts,
         known' = [known EXCEPT ![id] = facts],
         UNCHANGED <<process, docs, birth>>,
         InMemory(id) =>
           /\ facts.defense = asked[id] /\ facts.status = runs[id].status
           /\ facts.total # Nil =>
                runs[id].final # Nil /\ facts.total = runs[id].final.total,
         ~InMemory(id) =>
           /\ expDocs[id] # Nil /\ ~facts.defense
           /\ facts.status = expDocs[id].status /\ facts.total = expDocs[id].total
  PROVE  SInv' /\ \A i \in Ids : Agrees(i, known'[i])
<1> USE ServiceAssumption
<1>1. /\ known \in [Ids -> AllFacts \cup {Nil}] /\ known'[id] = facts
      /\ known' \in [Ids -> AllFacts \cup {Nil}]
      /\ \A i \in Ids \ {id} : known'[i] = known[i]
  BY DEF SInv, TypeOK
<1>2. Good(id)
  BY DEF SInv
<1>3. /\ runs'[id] = runs[id] /\ expDocs'[id] = expDocs[id]
      /\ metDocs'[id] = metDocs[id] /\ asked'[id] = asked[id]
  BY DEF process, docs, birth
<1>4. RunGood(id)' /\ StoreGood(id)'
  BY <1>2, <1>3 DEF Good, RunGood, StoreGood, InMemory
<1>5. asked[id] # Nil
  BY <1>2 DEF Good, RunGood, StoreGood
<1>6. KnownGood(id)'
  BY <1>1, <1>3, <1>5 DEF KnownGood, InMemory
<1>7. ASSUME NEW i \in Ids \ {id} PROVE Good(i)'
  BY <1>1, Untouched DEF SInv, process, docs, birth
<1>8. TypeOK'
  BY <1>1 DEF SInv, TypeOK, process, docs, birth
<1>9. SInv'
  BY <1>4, <1>6, <1>7, <1>8 DEF SInv, Good
<1>10. Agrees(id, facts)
  <2>1. known[id] # Nil => known[id] \in AllFacts
    BY <1>1
  <2>2. asked[id] \in BOOLEAN /\ facts.defense \in BOOLEAN
    BY <1>5 DEF SInv, TypeOK, AllFacts
  <2>3. CASE InMemory(id)
    BY <1>2, <2>1, <2>3 DEF Agrees, Good, KnownGood
  <2>4. CASE ~InMemory(id)
    BY <1>2, <2>1, <2>2, <2>4 DEF Agrees, Good, KnownGood, AllFacts
  <2> QED
    BY <2>3, <2>4
<1>11. ASSUME NEW i \in Ids \ {id} PROVE Agrees(i, known'[i])
  BY <1>1 DEF Agrees
<1> QED
  BY <1>1, <1>9, <1>10, <1>11

(* A refusal changes nothing. *)
LEMMA Refused ==
  ASSUME SInv, UNCHANGED <<process, docs, birth, known>>
  PROVE  SInv' /\ \A id \in Ids : Agrees(id, known'[id])
<1>1. TypeOK'
  BY DEF SInv, TypeOK, process, docs, birth
<1>2. ASSUME NEW i \in Ids PROVE Good(i)'
  BY Untouched DEF SInv, process, docs, birth
<1> QED
  BY <1>1, <1>2, NothingTold DEF SInv

(* A live answer repeats the record in memory. *)
LEMMA LiveFacts ==
  ASSUME SInv, NEW id \in Ids, InMemory(id)
  PROVE  LET facts == Facts(runs[id].status, asked[id], Nil)
         IN  /\ facts \in AllFacts /\ facts.defense = asked[id]
             /\ facts.status = runs[id].status /\ facts.total = Nil
<1>1. runs[id] \in Runs /\ asked[id] \in BOOLEAN
  BY RunType DEF SInv, Good, RunGood
<1> QED
  BY <1>1 DEF Facts, AllFacts, Runs

(* An answer from the store repeats the experiment document, the metrics   *)
(* document's number included, if there is one.                            *)
LEMMA LoadedFacts ==
  ASSUME SInv, NEW id \in Ids, expDocs[id] # Nil
  PROVE  /\ Recorded(id) \in AllFacts /\ ~Recorded(id).defense
         /\ Recorded(id).status = expDocs[id].status
         /\ Recorded(id).total = expDocs[id].total
         /\ Loaded(id) = Recorded(id)
<1>1. expDocs[id] \in ExperimentDocs
  BY DEF SInv, TypeOK
<1>2. (IF metDocs[id] = Nil THEN expDocs[id].total ELSE metDocs[id])
        = expDocs[id].total
  BY DEF SInv, Good, StoreGood
<1>3. Loaded(id) = Recorded(id)
  BY <1>2 DEF Loaded, Recorded
<1> QED
  BY <1>1, <1>3 DEF Recorded, Facts, AllFacts, ExperimentDocs

(* Get and Metrics of an experiment that the registry does not know. *)
LEMMA FromStoreStep ==
  ASSUME SInv, NEW id \in Ids, NEW op, NEW facts, FromStore(op, id, facts),
         expDocs[id] # Nil => facts = Recorded(id),
         UNCHANGED <<process, docs, birth>>
  PROVE  SInv' /\ \A i \in Ids : Agrees(i, known'[i])
<1>1. CASE known' = known
  BY <1>1, Refused
<1>2. CASE expDocs[id] # Nil /\ Tell(op, id, facts)
  <2>1. known' = [known EXCEPT ![id] = facts] /\ ~InMemory(id)
    BY <1>2 DEF Tell, FromStore
  <2>2. /\ facts \in AllFacts /\ ~facts.defense
        /\ facts.status = expDocs[id].status /\ facts.total = expDocs[id].total
    BY <1>2, LoadedFacts
  <2> QED
    BY <1>2, <2>1, <2>2, TellStep
<1> QED
  BY <1>1, <1>2 DEF FromStore, Refuse

(* Get. *)
LEMMA GetStep ==
  ASSUME SInv, NEW id \in Ids, Get(id)
  PROVE  SInv' /\ \A i \in Ids : Agrees(i, known'[i])
<1>1. UNCHANGED <<process, docs, birth>>
  BY DEF Get
<1>2. CASE FromStore("get", id, Recorded(id))
  BY <1>1, <1>2, FromStoreStep
<1>3. CASE InMemory(id) /\ Tell("get", id, Facts(runs[id].status, asked[id], Nil))
  <2> DEFINE facts == Facts(runs[id].status, asked[id], Nil)
  <2>1. /\ facts \in AllFacts /\ facts.defense = asked[id]
        /\ facts.status = runs[id].status /\ facts.total = Nil
        /\ known' = [known EXCEPT ![id] = facts]
    BY <1>3, LiveFacts DEF Tell
  <2> HIDE DEF facts
  <2> QED
    BY <1>1, <1>3, <2>1, TellStep
<1> QED
  BY <1>2, <1>3 DEF Get

(* Metrics: the published result once there is one. *)
LEMMA MetricsStep ==
  ASSUME SInv, NEW id \in Ids, Metrics(id)
  PROVE  SInv' /\ \A i \in Ids : Agrees(i, known'[i])
<1>1. UNCHANGED <<process, docs, birth>>
  BY DEF Metrics
<1>2. CASE FromStore("metrics", id, Loaded(id))
  BY <1>1, <1>2, LoadedFacts, FromStoreStep
<1>3. CASE InMemory(id) /\ ~FromStore("metrics", id, Loaded(id))
  <2> DEFINE facts == IF runs[id].status # "running" /\ runs[id].final # Nil
                      THEN runs[id].final
                      ELSE Facts(runs[id].status, asked[id], Nil)
  <2>1. known' = [known EXCEPT ![id] = facts]
    BY <1>3 DEF Metrics, Tell
  <2>2. /\ facts \in AllFacts /\ facts.defense = asked[id]
        /\ facts.status = runs[id].status
        /\ facts.total # Nil =>
             runs[id].final # Nil /\ facts.total = runs[id].final.total
    <3>1. CASE runs[id].status # "running" /\ runs[id].final # Nil
      <4>1. facts = runs[id].final
        BY <3>1
      <4>2. /\ runs[id].final = runs[id].captured /\ runs[id].captured \in AllFacts
            /\ runs[id].captured.status = runs[id].status
            /\ runs[id].captured.defense = asked[id]
        BY <1>3, <3>1 DEF SInv, Good, RunGood
      <4> QED
        BY <3>1, <4>1, <4>2
    <3>2. CASE ~(runs[id].status # "running" /\ runs[id].final # Nil)
      BY <1>3, <3>2, LiveFacts
    <3> QED
      BY <3>1, <3>2
  <2> HIDE DEF facts
  <2> QED
    BY <1>1, <1>3, <2>1, <2>2, TellStep
<1> QED
  BY <1>2, <1>3 DEF Metrics

(* Stop: a running record becomes a stopped one, and the client is told. *)
LEMMA StopStep ==
  ASSUME SInv, NEW id \in Ids, Stop(id)
  PROVE  SInv' /\ \A i \in Ids : Agrees(i, known'[i])
<1> USE ServiceAssumption
<1>1. CASE runs' = runs /\ known' = known
  <2>1. UNCHANGED <<process, docs, birth, known>>
    BY <1>1 DEF Stop, process
  <2> QED
    BY <2>1, Refused
<1>2. CASE /\ InMemory(id) /\ runs[id].status = "running"
           /\ runs' = [runs EXCEPT ![id].status = "stopped"]
           /\ Tell("stop", id, Facts("stopped", asked[id], Nil))
  <2> DEFINE r == [runs[id] EXCEPT !.status = "stopped"]
             facts == Facts("stopped", asked[id], Nil)
  <2>1. /\ runs[id] \in Runs /\ Good(id) /\ asked[id] \in BOOLEAN
        /\ runs[id].phase = "pacing"
    BY <1>2, RunType DEF SInv, Good, RunGood, Runs, Terminal
  <2>2. runs' = [runs EXCEPT ![id] = r]
    BY <1>2, <2>1 DEF Runs, SInv, TypeOK
  <2>3. /\ r \in Runs /\ r.status = "stopped" /\ r.phase = "pacing"
        /\ r.captured = runs[id].captured /\ r.final = runs[id].final
    BY <2>1 DEF Runs, Terminal
  <2>4. /\ facts \in AllFacts /\ facts.defense = asked[id]
        /\ facts.status = "stopped" /\ facts.total = Nil
        /\ known' = [known EXCEPT ![id] = facts]
    BY <1>2, <2>1 DEF Facts, AllFacts, Terminal, Tell
  <2> HIDE DEF r, facts
  <2>5. /\ runs' \in [Ids -> {Nil} \cup Runs] /\ runs'[id] = r
        /\ \A i \in Ids \ {id} : runs'[i] = runs[i]
    BY <2>2, <2>3, RunUpdate DEF SInv
  <2>6. /\ known' \in [Ids -> AllFacts \cup {Nil}] /\ known'[id] = facts
        /\ \A i \in Ids \ {id} : known'[i] = known[i]
    BY <2>4 DEF SInv, TypeOK
  <2>7. UNCHANGED <<failing, up, store, crashes, docs, birth>>
    BY DEF Stop
  <2>8. expDocs'[id] = expDocs[id] /\ metDocs'[id] = metDocs[id]
        /\ asked'[id] = asked[id]
    BY <2>7 DEF docs, birth
  <2>9. Good(id)'
    <3>1. RunGood(id)'
      BY <1>2, <2>1, <2>3, <2>5, <2>8 DEF Good, RunGood, InMemory
    <3>2. StoreGood(id)'
      BY <1>2, <2>1, <2>3, <2>5, <2>8 DEF Good, RunGood, StoreGood, InMemory
    <3>3. KnownGood(id)'
      BY <2>1, <2>3, <2>4, <2>5, <2>6, <2>8 DEF KnownGood, InMemory
    <3> QED
      BY <3>1, <3>2, <3>3 DEF Good
  <2>10. ASSUME NEW i \in Ids \ {id} PROVE Good(i)'
    BY <2>5, <2>6, <2>7, Untouched DEF SInv, docs, birth
  <2>11. TypeOK'
    BY <2>5, <2>6, <2>7 DEF SInv, TypeOK, docs, birth
  <2>12. Agrees(id, facts)
    BY <1>2, <2>1, <2>4 DEF Agrees, Good, KnownGood
  <2>13. ASSUME NEW i \in Ids \ {id} PROVE Agrees(i, known'[i])
    BY <2>6 DEF Agrees
  <2> QED
    BY <2>6, <2>9, <2>10, <2>11, <2>12, <2>13 DEF SInv
<1> QED
  BY <1>1, <1>2 DEF Stop, Refuse

(* Death: what is stored is what memory last said. *)
LEMMA CrashStep ==
  ASSUME SInv, Crash
  PROVE  SInv'
<1> USE ServiceAssumption
<1>1. runs' = [i \in Ids |-> Nil] /\ UNCHANGED <<docs, birth, client>>
  BY DEF Crash
<1>2. TypeOK'
  <2>1. runs' \in [Ids -> {Nil} \cup Runs]
    BY <1>1
  <2>2. crashes' \in 0..MaxCrashes
    BY DEF Crash, SInv, TypeOK
  <2>3. failing' \in BOOLEAN /\ up' \in BOOLEAN /\ store' \in BOOLEAN
    BY Zenon DEF Crash, SInv, TypeOK
  <2> QED
    BY <1>1, <2>1, <2>2, <2>3 DEF SInv, TypeOK, docs, birth, client
<1>3. ASSUME NEW id \in Ids PROVE Good(id)'
  <2>1. Good(id) /\ ~InMemory(id)'
    BY <1>1 DEF SInv, InMemory
  <2>2. /\ expDocs'[id] = expDocs[id] /\ metDocs'[id] = metDocs[id]
        /\ asked'[id] = asked[id] /\ known'[id] = known[id]
    BY <1>1 DEF docs, birth, client
  <2>3. RunGood(id)' /\ StoreGood(id)'
    BY <2>1, <2>2 DEF Good, RunGood, StoreGood
  <2>4. known[id] # Nil /\ expDocs[id] # Nil =>
          /\ known[id].status # "running" => known[id].status = expDocs[id].status
          /\ known[id].total # Nil => known[id].total = expDocs[id].total
    <3>1. CASE InMemory(id)
      <4>1. expDocs[id] # Nil => /\ runs[id].status = expDocs[id].status
                                 /\ runs[id].captured.total = expDocs[id].total
        BY <2>1, <3>1 DEF Good, StoreGood, ExperimentDoc
      <4> QED
        BY <2>1, <3>1, <4>1 DEF Good, KnownGood, RunGood
    <3>2. CASE ~InMemory(id)
      BY <2>1, <3>2 DEF Good, KnownGood
    <3> QED
      BY <3>1, <3>2
  <2>5. KnownGood(id)'
    BY <2>1, <2>2, <2>4 DEF Good, KnownGood
  <2> QED
    BY <2>3, <2>5 DEF Good
<1> QED
  BY <1>2, <1>3 DEF SInv

(* Every step keeps the invariant, and every answer agrees. *)
LEMMA ServiceStep ==
  ASSUME SInv, [Next]_vars
  PROVE  SInv' /\ \A id \in Ids : Agrees(id, known'[id])
<1>1. CASE UNCHANGED vars \/ ListMemory \/ ListHistory
  <2>1. UNCHANGED <<process, docs, birth, known>>
    BY <1>1 DEF vars, ListMemory, ListHistory, client
  <2> QED
    BY <2>1, Refused
<1>2. CASE Crash
  <2>1. known' = known
    BY <1>2 DEF Crash, client
  <2> QED
    BY <1>2, <2>1, CrashStep, NothingTold
<1>3. CASE Restart
  <2>1. known' = known /\ UNCHANGED <<runs, docs, birth>>
    BY <1>3 DEF Restart, client
  <2>2. TypeOK'
    BY <1>3 DEF Restart, SInv, TypeOK, docs, birth, client
  <2>3. ASSUME NEW id \in Ids PROVE Good(id)'
    BY <2>1, Untouched DEF SInv, docs, birth
  <2> QED
    BY <2>1, <2>2, <2>3, NothingTold DEF SInv
<1>4. ASSUME NEW id \in Ids, NEW defense \in BOOLEAN, Create(id, defense)
      PROVE  SInv' /\ \A i \in Ids : Agrees(i, known'[i])
  <2>1. known' = known
    BY <1>4 DEF Create, client
  <2> QED
    BY <1>4, <2>1, CreateStep, NothingTold
<1>5. ASSUME NEW id \in Ids, Advance(id)
      PROVE  SInv' /\ \A i \in Ids : Agrees(i, known'[i])
  <2>1. known' = known
    BY <1>5 DEF Advance, EndRun, Finalize, SaveExp, SaveMetrics, Publish, client
  <2> QED
    BY <1>5, <2>1, EndRunStep, FinalizeStep, SaveExpStep, SaveMetricsStep,
       PublishStep, NothingTold DEF Advance
<1>6. ASSUME NEW id \in Ids, Stop(id) \/ Get(id) \/ Metrics(id)
      PROVE  SInv' /\ \A i \in Ids : Agrees(i, known'[i])
  BY <1>6, StopStep, GetStep, MetricsStep
<1> QED
  BY <1>1, <1>2, <1>3, <1>4, <1>5, <1>6 DEF Next

(* A process that has just started over stored experiments. *)
LEMMA InitialService == Init => SInv
<1> SUFFICES ASSUME Init PROVE SInv
  OBVIOUS
<1> USE ServiceAssumption
<1>1. TypeOK
  <2>1. IsFiniteSet(Old)
    BY FS_Subset
  <2>2. Cardinality(Old) \in Nat
    BY <2>1, FS_CardinalityType
  <2>3. order \in [Ids -> 0..Cardinality(Old)]
    BY DEF Init
  <2>4. order \in [Ids -> Nat]
    BY <2>2, <2>3
  <2>5. expDocs \in [Ids -> {Nil} \cup ExperimentDocs]
    BY DEF Init, ExperimentDocs, Terminal
  <2>6. failing \in BOOLEAN /\ up \in BOOLEAN /\ store \in BOOLEAN
    BY Zenon DEF Init
  <2>7. /\ runs = [id \in Ids |-> Nil] /\ known = [id \in Ids |-> Nil]
        /\ crashes = 0
        /\ metDocs = [id \in Ids |-> IF id \in Old THEN 0 ELSE Nil]
        /\ asked = [id \in Ids |-> IF id \in Old THEN FALSE ELSE Nil]
    BY DEF Init
  <2>8. /\ metDocs \in [Ids -> 0..MaxTotal \cup {Nil}]
        /\ asked \in [Ids -> BOOLEAN \cup {Nil}]
    BY <2>7
  <2>9. /\ runs \in [Ids -> {Nil} \cup Runs] /\ crashes \in 0..MaxCrashes
        /\ known \in [Ids -> AllFacts \cup {Nil}]
    BY <2>7
  <2> QED
    BY <2>4, <2>5, <2>6, <2>8, <2>9 DEF TypeOK
<1>2. ASSUME NEW id \in Ids PROVE Good(id)
  <2>1. /\ ~InMemory(id) /\ known[id] = Nil
        /\ expDocs[id] = IF id \in Old THEN [status |-> "completed", total |-> 0]
                         ELSE Nil
        /\ metDocs[id] = IF id \in Old THEN 0 ELSE Nil
        /\ asked[id] = IF id \in Old THEN FALSE ELSE Nil
    BY DEF Init, InMemory
  <2>2. [status |-> "completed", total |-> 0] \in ExperimentDocs
    BY DEF ExperimentDocs, Terminal
  <2>3. RunGood(id) /\ KnownGood(id)
    BY <2>1 DEF RunGood, KnownGood
  <2>4. CASE id \in Old
    <3>1. asked[id] # Nil
      <4>1. asked[id] = FALSE
        BY <2>1, <2>4
      <4> QED
        BY <4>1
    <3>2. /\ expDocs[id].status = "completed" /\ expDocs[id].total = 0
          /\ expDocs[id] # Nil /\ metDocs[id] = 0
      BY <2>1, <2>2, <2>4
    <3>3. StoreGood(id)
      BY <2>1, <3>1, <3>2 DEF StoreGood, Terminal
    <3> QED
      BY <2>3, <3>3 DEF Good
  <2>5. CASE id \notin Old
    BY <2>1, <2>3, <2>5 DEF Good, StoreGood
  <2> QED
    BY <2>4, <2>5
<1> QED
  BY <1>1, <1>2 DEF SInv

(***************************************************************************)
(* Memory, store and what clients know fit together, in every state of the *)
(* process and of its store's failures.                                    *)
(***************************************************************************)
THEOREM ServiceInductive == Spec => []SInv
<1>1. SInv /\ [Next]_vars => SInv'
  BY ServiceStep
<1> QED
  BY <1>1, InitialService, PTL DEF Spec

(* The registry, the documents and the answers keep their types. *)
THEOREM ServiceTypeCorrect == Spec => []TypeOK
  BY ServiceInductive, PTL DEF SInv

(***************************************************************************)
(* The store holds finished runs only, as memory has them, and no metrics  *)
(* without their experiment, whichever write fails or is cut off.          *)
(***************************************************************************)
THEOREM StoreSoundCorrect == Spec => []StoreSound
<1>1. SInv => StoreSound
  BY DEF SInv, Good, StoreGood, StoreSound
<1> QED
  BY <1>1, ServiceInductive, PTL

(***************************************************************************)
(* A terminal status stays and final numbers are the same in every answer  *)
(* that carries them, across any number of deaths, restarts and failures   *)
(* of the store; only the Defense flag may be lost, and only with memory.  *)
(***************************************************************************)
THEOREM AnswersAgreeCorrect == Spec => AnswersAgree
<1>1. SInv /\ [Next]_vars
        => [\A id \in Ids :
              known[id] # Nil =>
                /\ known[id].status # "running"
                     => known'[id].status = known[id].status
                /\ known[id].total # Nil /\ known'[id].total # Nil
                     => known'[id].total = known[id].total
                /\ known'[id].defense # known[id].defense
                     => known[id].defense /\ ~InMemory(id)]_vars
  BY ServiceStep DEF Agrees
<1> QED
  BY <1>1, ServiceInductive, PTL DEF Spec, AnswersAgree

-----------------------------------------------------------------------------

(* The stored experiments newer than one of them. *)
Newer(id) == {i \in Stored : order[i] > order[id]}

Listed == {e.id : e \in listing.out}

(***************************************************************************)
(* A List call between its two readings: what it owes is in memory's part  *)
(* of the answer or in a store that is there; and once it is answered,     *)
(* what it left out is stored behind a full history of newer ones.         *)
(***************************************************************************)
ListInv ==
  /\ listing = [stage |-> listing.stage, out |-> listing.out, due |-> listing.due]
  /\ listing.stage \in {"none", "history", "served"}
  /\ ~up => listing.stage = "none"
  /\ \A e, f \in listing.out : e.id = f.id => e = f
  /\ listing.stage = "history" =>
       \A id \in listing.due \ Listed : id \in Stored /\ store
  /\ listing.stage = "served" /\ ~failing =>
       \A id \in listing.due \ Listed :
         id \in Stored /\ Cardinality(Newer(id)) >= HistoryLimit

(* A captured result becomes a document. *)
LEMMA NilIsNoDocument ==
  ASSUME NEW r \in AllFacts, r.status \in Terminal, r.total \in 0..MaxTotal
  PROVE  ExperimentDoc(r) # Nil
<1>1. ExperimentDoc(r) \in ExperimentDocs
  BY DEF ExperimentDoc, ExperimentDocs
<1> QED
  BY <1>1, ServiceAssumption

(***************************************************************************)
(* What is stored stays stored, in its order, so that the experiments      *)
(* newer than a stored one only become more.                               *)
(***************************************************************************)
LEMMA NewerGrows ==
  ASSUME SInv, [Next]_vars
  PROVE  /\ Stored \subseteq Stored'
         /\ \A id \in Stored : /\ Newer(id) \subseteq Newer(id)'
                              /\ IsFiniteSet(Newer(id)')
                              /\ Cardinality(Newer(id)) \in Nat
                              /\ Cardinality(Newer(id)) <= Cardinality(Newer(id)')
<1> USE ServiceAssumption
<1>1. Stored \subseteq Stored' /\ \A i \in Stored : order'[i] = order[i]
  <2>1. CASE UNCHANGED <<expDocs, order>>
    BY <2>1 DEF Stored
  <2>2. ASSUME NEW id \in Ids, NEW defense \in BOOLEAN, Create(id, defense)
        PROVE  Stored \subseteq Stored' /\ \A i \in Stored : order'[i] = order[i]
    <3>1. id \notin Stored
      BY <2>2 DEF Create, SInv, Good, StoreGood, Stored
    <3> QED
      BY <2>2, <3>1 DEF Create, Stored, docs, SInv, TypeOK
  <2>3. ASSUME NEW id \in Ids, SaveExp(id)
        PROVE  Stored \subseteq Stored' /\ \A i \in Stored : order'[i] = order[i]
    <3>1. order' = order
      BY <2>3 DEF SaveExp, birth
    <3>2. ExperimentDoc(runs[id].captured) # Nil
      BY <2>3, RunType, NilIsNoDocument DEF SaveExp, InPhase, SInv, Good, RunGood
    <3>3. \/ expDocs' = [expDocs EXCEPT ![id] = ExperimentDoc(runs[id].captured)]
          \/ expDocs' = expDocs
      BY <2>3 DEF SaveExp
    <3> QED
      BY <3>1, <3>2, <3>3 DEF Stored, SInv, TypeOK
  <2>4. ASSUME NEW id \in Ids, EndRun(id) \/ Finalize(id) \/ SaveMetrics(id)
                                 \/ Publish(id)
        PROVE  UNCHANGED <<expDocs, order>>
    BY <2>4 DEF EndRun, Finalize, SaveMetrics, Publish, docs, birth
  <2>5. ASSUME NEW id \in Ids, Stop(id) \/ Get(id) \/ Metrics(id)
        PROVE  UNCHANGED <<expDocs, order>>
    BY <2>5 DEF Stop, Get, Metrics, docs, birth
  <2>6. CASE ListMemory \/ ListHistory \/ Crash \/ Restart \/ UNCHANGED vars
    <3>1. UNCHANGED <<docs, birth>>
      BY <2>6, Zenon DEF ListMemory, ListHistory, Crash, Restart, vars
    <3> QED
      BY <2>1, <3>1 DEF docs, birth
  <2> QED
    BY <2>1, <2>2, <2>3, <2>4, <2>5, <2>6 DEF Next, Advance
<1>2. ASSUME NEW id \in Stored
      PROVE  /\ Newer(id) \subseteq Newer(id)' /\ IsFiniteSet(Newer(id)')
             /\ Cardinality(Newer(id)) \in Nat
             /\ Cardinality(Newer(id)) <= Cardinality(Newer(id)')
  <2>1. Newer(id) \subseteq Newer(id)'
    BY <1>1 DEF Newer
  <2>2. Newer(id)' \subseteq Ids
    BY DEF Newer, Stored
  <2>3. IsFiniteSet(Newer(id)')
    BY <2>2, FS_Subset
  <2>4. IsFiniteSet(Newer(id)) /\ Cardinality(Newer(id)) <= Cardinality(Newer(id)')
    BY <2>1, <2>3, FS_Subset
  <2> QED
    BY <2>1, <2>3, <2>4, FS_CardinalityType
<1> QED
  BY <1>1, <1>2

(* A step that does not touch the call under way. *)
LEMMA ListingUntouched ==
  ASSUME SInv, ListInv, [Next]_vars, UNCHANGED <<listing, up, store, failing>>
  PROVE  ListInv'
<1> USE ServiceAssumption
<1>1. listing' = listing /\ Listed' = Listed
  BY DEF Listed
<1>2. listing.stage = "history" =>
        \A id \in listing.due \ Listed : id \in Stored' /\ store'
  BY NewerGrows DEF ListInv
<1>3. listing.stage = "served" /\ ~failing' =>
        \A id \in listing.due \ Listed :
          id \in Stored' /\ Cardinality(Newer(id)') >= HistoryLimit
  <2> SUFFICES ASSUME listing.stage = "served", ~failing,
                      NEW id \in listing.due \ Listed
               PROVE  id \in Stored' /\ Cardinality(Newer(id)') >= HistoryLimit
    OBVIOUS
  <2>1. id \in Stored /\ Cardinality(Newer(id)) >= HistoryLimit
    BY DEF ListInv
  <2>2. Cardinality(Newer(id)') \in Nat
    BY <2>1, NewerGrows, FS_CardinalityType
  <2> QED
    BY <2>1, <2>2, NewerGrows
<1> QED
  BY <1>1, <1>2, <1>3 DEF ListInv

(* List reads the registry. *)
LEMMA ListMemoryStep ==
  ASSUME SInv, ListInv, ListMemory
  PROVE  ListInv'
<1> DEFINE Entered(id) == Entry(id, runs[id].status, "memory")
           Mine == {i \in Ids : InMemory(i)}
<1>0. listing' = [stage |-> "history", out |-> {Entered(id) : id \in Mine},
                  due |-> {i \in Ids : InMemory(i) \/ (store /\ i \in Stored)}]
  BY DEF ListMemory
<1>1. /\ up /\ up' = up /\ store' = store /\ expDocs' = expDocs
      /\ listing'.stage = "history" /\ listing'.out = {Entered(id) : id \in Mine}
      /\ listing'.due = {i \in Ids : InMemory(i) \/ (store /\ i \in Stored)}
  BY <1>0 DEF ListMemory, process, docs
<1>2. Stored' = Stored
  BY <1>1 DEF Stored
<1>3. \A id : Entered(id).id = id
  BY DEF Entry
<1> HIDE DEF Entered
<1>4. Listed' = Mine
  BY <1>1, <1>3 DEF Listed
<1>5. \A e, f \in listing'.out : e.id = f.id => e = f
  BY <1>1, <1>3
<1>6. \A id \in listing'.due \ Listed' : id \in Stored' /\ store'
  BY <1>1, <1>2, <1>4
<1> QED
  BY <1>0, <1>1, <1>5, <1>6 DEF ListInv

(* List adds the history of the store, if it answers. *)
LEMMA ListHistoryStep ==
  ASSUME SInv, ListInv, ListHistory
  PROVE  ListInv'
<1> USE ServiceAssumption
<1>1. PICK found \in {IF store THEN History ELSE {}}
                        \cup (IF failing THEN {{}} ELSE {}) :
        listing' = [listing EXCEPT
          !.stage = "served",
          !.out = @ \cup {Entry(id, expDocs[id].status, "store") :
                            id \in found \ {e.id : e \in listing.out}}]
  BY Zenon DEF ListHistory
<1> DEFINE Entered(id) == Entry(id, expDocs[id].status, "store")
           Fresh == found \ Listed
<1>2. /\ up /\ up' = up /\ failing' = failing /\ Stored' = Stored
      /\ \A id : Newer(id)' = Newer(id)
      /\ listing.stage = "history"
  BY DEF ListHistory, process, docs, birth, Stored, Newer
<1>3. /\ listing' = [stage |-> "served",
                    out |-> listing.out \cup {Entered(id) : id \in Fresh},
                    due |-> listing.due]
  BY <1>1 DEF ListInv, Listed
<1>4. \A id : Entered(id).id = id
  BY DEF Entry
<1> HIDE DEF Entered, Fresh
<1>5. /\ listing'.stage = "served" /\ listing'.due = listing.due
      /\ listing'.out = listing.out \cup {Entered(id) : id \in Fresh}
  BY <1>3
<1>6. Listed' = Listed \cup Fresh
  BY <1>4, <1>5 DEF Listed
<1>7. \A e, f \in listing'.out : e.id = f.id => e = f
  <2>1. \A e \in listing.out : e.id \notin Fresh
    BY DEF Listed, Fresh
  <2> QED
    BY <1>4, <1>5, <2>1 DEF ListInv
<1>8. ~failing' => \A id \in listing'.due \ Listed' :
                     id \in Stored' /\ Cardinality(Newer(id)') >= HistoryLimit
  <2> SUFFICES ASSUME ~failing, NEW id \in listing.due, id \notin Listed,
                      id \notin Fresh
               PROVE  id \in Stored /\ Cardinality(Newer(id)) >= HistoryLimit
    BY <1>2, <1>5, <1>6
  <2>1. id \in Stored /\ store
    BY <1>2 DEF ListInv
  <2>2. found = History
    BY <1>1, <2>1
  <2>3. id \notin History
    BY <2>2 DEF Fresh
  <2>4. ~(Cardinality(Newer(id)) < HistoryLimit)
    BY <2>1, <2>3 DEF History, Newer, Stored
  <2>5. Newer(id) \subseteq Ids
    BY DEF Newer, Stored
  <2>6. Cardinality(Newer(id)) \in Nat
    BY <2>5, FS_Subset, FS_CardinalityType
  <2> QED
    BY <2>1, <2>4, <2>6
<1> QED
  BY <1>2, <1>5, <1>7, <1>8, <1>3 DEF ListInv

(***************************************************************************)
(* List neither repeats an experiment nor, while the store answers, loses  *)
(* one that was there when the call began, but for a full history of newer *)
(* ones; whatever is saved, ends or dies between its two readings.         *)
(***************************************************************************)
THEOREM ListingSoundCorrect == Spec => []ListingSound
<1>1. Init => ListInv
  BY DEF Init, ListInv, NoListing, Listed
<1>2. SInv /\ ListInv /\ [Next]_vars => ListInv'
  <2> SUFFICES ASSUME SInv, ListInv, [Next]_vars PROVE ListInv'
    OBVIOUS
  <2>1. CASE Crash
    BY <2>1 DEF Crash, ListInv, NoListing, Listed
  <2>2. CASE Restart
    BY <2>2 DEF Restart, ListInv, Listed
  <2>3. CASE UNCHANGED <<listing, up, store, failing>>
    BY <2>3, ListingUntouched
  <2>4. CASE ListMemory \/ ListHistory
    BY <2>4, ListMemoryStep, ListHistoryStep
  <2> QED
    BY <2>1, <2>2, <2>3, <2>4
       DEF Next, vars, process, Create, Advance, EndRun, Finalize, SaveExp,
           SaveMetrics, Publish, Stop, Get, Metrics
<1>3. ListInv => ListingSound
  BY DEF ListInv, ListingSound, Listed, Newer
<1> QED
  BY <1>1, <1>2, <1>3, ServiceInductive, PTL DEF Spec

-----------------------------------------------------------------------------
(* What is stored.                                                         *)

LEMMA DocumentsStep ==
  ASSUME SInv, [Next]_vars
  PROVE  \A i \in Ids : /\ expDocs[i] # Nil => expDocs'[i] = expDocs[i]
                        /\ metDocs[i] # Nil => metDocs'[i] = metDocs[i]
<1>1. CASE UNCHANGED docs
  BY <1>1 DEF docs
<1>2. ASSUME NEW id \in Ids, SaveExp(id)
      PROVE  /\ metDocs' = metDocs /\ expDocs[id] = Nil
             /\ \A i \in Ids : i # id => expDocs'[i] = expDocs[i]
  <2>1. expDocs[id] = Nil
    BY <1>2 DEF SaveExp, InPhase, SInv, Good, RunGood
  <2>2. metDocs' = metDocs /\ \A i \in Ids : i # id => expDocs'[i] = expDocs[i]
    BY <1>2 DEF SaveExp, SInv, TypeOK
  <2> QED
    BY <2>1, <2>2
<1>3. ASSUME NEW id \in Ids, SaveMetrics(id)
      PROVE  /\ expDocs' = expDocs /\ metDocs[id] = Nil
             /\ \A i \in Ids : i # id => metDocs'[i] = metDocs[i]
  <2>1. metDocs[id] = Nil
    BY <1>3 DEF SaveMetrics, InPhase, SInv, Good, RunGood
  <2>2. expDocs' = expDocs /\ \A i \in Ids : i # id => metDocs'[i] = metDocs[i]
    BY <1>3 DEF SaveMetrics, SInv, TypeOK
  <2> QED
    BY <2>1, <2>2
<1>4. ASSUME NEW id \in Ids, NEW defense \in BOOLEAN,
             \/ Create(id, defense) \/ EndRun(id) \/ Finalize(id) \/ Publish(id)
             \/ Stop(id) \/ Get(id) \/ Metrics(id)
      PROVE  UNCHANGED docs
  BY <1>4, Zenon DEF Create, EndRun, Finalize, Publish, Stop, Get, Metrics
<1>5. CASE ListMemory \/ ListHistory \/ Crash \/ Restart \/ UNCHANGED vars
  <2>1. UNCHANGED docs
    BY <1>5, Zenon DEF ListMemory, ListHistory, Crash, Restart, vars
  <2> QED
    BY <1>1, <2>1
<1> QED
  BY <1>1, <1>2, <1>3, <1>4, <1>5 DEF Next, Advance

(***************************************************************************)
(* A document is written once: no later write, death or restart changes or *)
(* loses it.                                                               *)
(***************************************************************************)
THEOREM DocumentsStayCorrect == Spec => DocumentsStay
<1>1. SInv /\ [Next]_vars
        => [\A id \in Ids : /\ expDocs[id] # Nil => expDocs'[id] = expDocs[id]
                            /\ metDocs[id] # Nil => metDocs'[id] = metDocs[id]]_vars
  BY DocumentsStep
<1> QED
  BY <1>1, ServiceInductive, PTL DEF Spec, DocumentsStay

(* While the store works, a run comes to its publication through both      *)
(* writes.                                                                 *)
Saved(id) ==
  InMemory(id) /\ runs[id].phase \in {"publish", "done"} =>
    expDocs[id] # Nil /\ metDocs[id] # Nil

WorkingStore == ~failing => store /\ \A id \in Ids : Saved(id)

(* The steps after which a run stands before or behind its publication.    *)
LEMMA SavedStep ==
  ASSUME SInv, ~failing, store, NEW id \in Ids, Saved(id), [Next]_vars
  PROVE  Saved(id)'
<1> USE ServiceAssumption
<1>a. runs \in [Ids -> {Nil} \cup Runs]
  BY DEF SInv, TypeOK
<1>b. /\ expDocs[id] # Nil => expDocs'[id] # Nil
      /\ metDocs[id] # Nil => metDocs'[id] # Nil
  BY DocumentsStep
<1>1. CASE runs'[id] = runs[id]
  BY <1>1, <1>b DEF Saved, InMemory
<1>2. CASE runs'[id] = Nil
  BY <1>2 DEF Saved, InMemory
<1>3. ASSUME NEW i \in Ids, NEW defense \in BOOLEAN, Create(i, defense)
      PROVE  Saved(id)'
  <2>1. i # id => runs'[id] = runs[id]
    BY <1>3, <1>a DEF Create
  <2>2. i = id => runs'[id].phase = "pacing"
    BY <1>3, <1>a DEF Create
  <2> QED
    BY <1>1, <2>1, <2>2 DEF Saved
<1>4. ASSUME NEW i \in Ids, EndRun(i) \/ Finalize(i)
      PROVE  Saved(id)'
  <2>1. i # id => runs'[id] = runs[id]
    BY <1>4, <1>a, Zenon DEF EndRun, Finalize
  <2>2. i = id => runs[id] \in Runs /\ InMemory(id)
    BY <1>4, RunType DEF EndRun, Finalize, InPhase
  <2>3. ASSUME i = id PROVE runs'[id].phase \in {"drain", "saveExp"}
    <3>1. CASE EndRun(i)
      BY <2>2, <2>3, <3>1, <1>a DEF EndRun, Runs
    <3>2. CASE Finalize(i)
      <4>1. PICK facts :
              runs' = [runs EXCEPT ![i].captured = facts,
                                   ![i].phase = IF store THEN "saveExp" ELSE "publish"]
        BY <3>2, Zenon DEF Finalize
      <4> QED
        BY <2>2, <2>3, <4>1, <1>a DEF Runs
    <3> QED
      BY <1>4, <3>1, <3>2
  <2> QED
    BY <1>1, <2>1, <2>3 DEF Saved
<1>5. ASSUME NEW i \in Ids, SaveExp(i)
      PROVE  Saved(id)'
  <2>1. runs' = [runs EXCEPT ![i].phase = "saveMetrics"]
    BY <1>5 DEF SaveExp
  <2>2. i # id => runs'[id] = runs[id]
    BY <2>1, <1>a
  <2>3. i = id => runs[id] \in Runs
    BY <1>5, RunType DEF SaveExp, InPhase
  <2>4. i = id => runs'[id].phase = "saveMetrics"
    BY <2>1, <2>3, <1>a DEF Runs
  <2> QED
    BY <1>1, <2>2, <2>4 DEF Saved
<1>6. ASSUME NEW i \in Ids, SaveMetrics(i)
      PROVE  Saved(id)'
  <2>1. i # id => runs'[id] = runs[id]
    BY <1>6, <1>a DEF SaveMetrics
  <2>2. CASE i = id
    <3>1. /\ runs[id].captured \in AllFacts
          /\ runs[id].captured.status \in Terminal
          /\ runs[id].captured.total \in 0..MaxTotal
          /\ expDocs[id] = ExperimentDoc(runs[id].captured)
      BY <1>6, <2>2 DEF SaveMetrics, InPhase, SInv, Good, RunGood
    <3>2. expDocs[id] # Nil
      BY <3>1, NilIsNoDocument
    <3>3. metDocs'[id] = runs[id].captured.total
      BY <1>6, <2>2 DEF SaveMetrics, SInv, TypeOK
    <3>4. metDocs'[id] # Nil
      BY <3>1, <3>3
    <3> QED
      BY <3>2, <3>4, <1>b DEF Saved
  <2> QED
    BY <1>1, <2>1, <2>2
<1>7. ASSUME NEW i \in Ids, Publish(i)
      PROVE  Saved(id)'
  <2>1. i # id => runs'[id] = runs[id]
    BY <1>7, <1>a DEF Publish
  <2>2. i = id => expDocs[id] # Nil /\ metDocs[id] # Nil
    BY <1>7 DEF Publish, InPhase, Saved
  <2> QED
    BY <1>1, <1>b, <2>1, <2>2 DEF Saved
<1>8. ASSUME NEW i \in Ids, Stop(i)
      PROVE  Saved(id)'
  <2>1. CASE runs' = runs
    BY <1>1, <2>1
  <2>2. CASE runs' = [runs EXCEPT ![i].status = "stopped"] /\ InMemory(i)
    <3>1. i # id => runs'[id] = runs[id]
      BY <2>2, <1>a
    <3>2. i = id => InMemory(id) /\ runs'[id].phase = runs[id].phase
      BY <2>2, <1>a, RunType DEF Runs
    <3> QED
      BY <1>1, <1>b, <3>1, <3>2 DEF Saved
  <2> QED
    BY <1>8, <2>1, <2>2 DEF Stop
<1>9. CASE Crash
  <2>1. runs'[id] = Nil
    BY <1>9 DEF Crash
  <2> QED
    BY <1>2, <2>1
<1>10. ASSUME NEW i \in Ids, Get(i) \/ Metrics(i)
       PROVE  Saved(id)'
  <2>1. runs' = runs
    BY <1>10 DEF Get, Metrics, process
  <2> QED
    BY <1>1, <2>1
<1>11. CASE ListMemory \/ ListHistory \/ Restart \/ UNCHANGED vars
  <2>1. runs' = runs
    <3>1. UNCHANGED process \/ UNCHANGED runs
      BY <1>11, Zenon DEF ListMemory, ListHistory, Restart, vars
    <3> QED
      BY <3>1 DEF process
  <2> QED
    BY <1>1, <2>1
<1> QED
  BY <1>3, <1>4, <1>5, <1>6, <1>7, <1>8, <1>9, <1>10, <1>11 DEF Next, Advance

(* Whether the store fails never changes, and a working one is kept.       *)
LEMMA StoreKept ==
  ASSUME [Next]_vars
  PROVE  failing' = failing /\ (~failing /\ store => store')
<1>1. CASE Restart
  BY <1>1 DEF Restart
<1>2. CASE Crash
  BY <1>2 DEF Crash
<1>3. CASE ListMemory \/ ListHistory \/ UNCHANGED vars
  <2>1. UNCHANGED process
    BY <1>3, Zenon DEF ListMemory, ListHistory, vars
  <2> QED
    BY <2>1 DEF process
<1>4. ASSUME NEW id \in Ids, NEW defense \in BOOLEAN,
             \/ Create(id, defense) \/ EndRun(id) \/ Finalize(id) \/ SaveExp(id)
             \/ SaveMetrics(id) \/ Publish(id) \/ Stop(id)
      PROVE  UNCHANGED <<failing, store>>
  BY <1>4, Zenon DEF Create, EndRun, Finalize, SaveExp, SaveMetrics, Publish, Stop
<1>5. ASSUME NEW id \in Ids, Get(id) \/ Metrics(id)
      PROVE  UNCHANGED <<failing, store>>
  BY <1>5 DEF Get, Metrics, process
<1> QED
  BY <1>1, <1>2, <1>3, <1>4, <1>5 DEF Next, Advance

(***************************************************************************)
(* With a working store every published result has both its documents, and *)
(* a process that loads them answers what this one published.              *)
(***************************************************************************)
THEOREM PublishedIsStoredCorrect == Spec => []PublishedIsStored
<1>1. Init => WorkingStore
  BY DEF Init, WorkingStore, Saved, InMemory
<1>2. SInv /\ WorkingStore /\ [Next]_vars => WorkingStore'
  BY SavedStep, StoreKept DEF WorkingStore
<1>3. SInv /\ WorkingStore => PublishedIsStored
  <2> SUFFICES ASSUME SInv, WorkingStore, ~failing, NEW id \in Ids, InMemory(id),
                      runs[id].final # Nil
               PROVE  /\ expDocs[id] # Nil /\ metDocs[id] # Nil
                      /\ Loaded(id).status = runs[id].final.status
                      /\ Loaded(id).total = runs[id].final.total
    BY DEF PublishedIsStored
  <2>1. /\ runs[id].phase = "done" /\ runs[id].final = runs[id].captured
        /\ expDocs[id] # Nil /\ metDocs[id] # Nil
    BY DEF WorkingStore, Saved, SInv, Good, RunGood
  <2>2. /\ ExperimentDoc(runs[id].captured) = expDocs[id]
        /\ metDocs[id] = expDocs[id].total
    BY <2>1 DEF SInv, Good, StoreGood
  <2>3. /\ expDocs[id].status = runs[id].final.status
        /\ metDocs[id] = runs[id].final.total
    BY <2>1, <2>2 DEF ExperimentDoc
  <2> QED
    BY <2>1, <2>3 DEF Loaded, Facts
<1> QED
  BY <1>1, <1>2, <1>3, ServiceInductive, PTL DEF Spec

-----------------------------------------------------------------------------
(* The promises of ExperimentAnswers.                                      *)

(* What an experiment is depends on its run, its flag and its document.    *)
LEMMA TruthSame ==
  ASSUME NEW id \in Ids, runs'[id] = runs[id], asked'[id] = asked[id],
         expDocs'[id] = expDocs[id]
  PROVE  Truth(id)' = Truth(id)
BY DEF Truth, Recorded, InMemory

(* A step about one experiment leaves the others what they are. *)
LEMMA TruthUpdate ==
  ASSUME SInv, NEW id \in Ids, NEW r, runs' = [runs EXCEPT ![id] = r],
         \A i \in Ids \ {id} : asked'[i] = asked[i] /\ expDocs'[i] = expDocs[i]
  PROVE  [i \in Ids |-> Truth(i)]' = [[i \in Ids |-> Truth(i)] EXCEPT ![id] = Truth(id)']
<1>1. ASSUME NEW i \in Ids \ {id} PROVE Truth(i)' = Truth(i)
  <2>1. runs'[i] = runs[i]
    BY DEF SInv, TypeOK
  <2> QED
    BY <2>1, TruthSame
<1> QED
  BY <1>1

(* What a run in memory is, in the words of ExperimentAnswers. *)
LEMMA TruthOfRun ==
  ASSUME SInv, NEW id \in Ids, InMemory(id)
  PROVE  /\ Truth(id) # Nil
         /\ Truth(id) = Facts(runs[id].status, asked[id], Truth(id).total)
         /\ runs[id].phase \in {"pacing", "drain"} => Truth(id).total = Nil
         /\ runs[id].phase \notin {"pacing", "drain"} =>
              /\ Truth(id) = runs[id].captured
              /\ Truth(id).total \in 0..MaxTotal
<1>1. runs[id] \in Runs /\ asked[id] \in BOOLEAN
  BY RunType DEF SInv, Good, RunGood
<1>2. CASE runs[id].phase \in {"pacing", "drain"}
  <2>1. Truth(id) = Facts(runs[id].status, asked[id], Nil)
    BY <1>2 DEF Truth
  <2>2. Truth(id) \in AllFacts
    BY <1>1, <2>1 DEF Runs, AllFacts, Facts
  <2> QED
    BY <1>2, <2>1, <2>2, ServiceAssumption DEF Facts
<1>3. CASE runs[id].phase \notin {"pacing", "drain"}
  <2>1. /\ runs[id].captured \in AllFacts
        /\ runs[id].captured.status = runs[id].status
        /\ runs[id].captured.defense = asked[id]
        /\ runs[id].captured.total \in 0..MaxTotal
    BY <1>3 DEF SInv, Good, RunGood
  <2>2. Truth(id) = Facts(runs[id].status, asked[id], runs[id].captured.total)
    BY <1>3 DEF Truth
  <2>3. Truth(id) = runs[id].captured
    BY <2>1, <2>2 DEF Facts, AllFacts
  <2> QED
    BY <1>3, <2>1, <2>2, <2>3, ServiceAssumption DEF Facts
<1> QED
  BY <1>2, <1>3

\* What ExperimentAnswers sees of a step: here nothing of it.
Unseen == UNCHANGED <<asked, expDocs, known>> /\ \A i \in Ids : Truth(i)' = Truth(i)

LEMMA UnseenStep ==
  ASSUME Unseen
  PROVE  UNCHANGED Answers!avars
<1>1. [i \in Ids |-> Truth(i)]' = [i \in Ids |-> Truth(i)]
  BY DEF Unseen
<1>2. {i \in Ids : asked[i] # Nil}' = {i \in Ids : asked[i] # Nil}
  BY DEF Unseen
<1> QED
  BY <1>1, <1>2 DEF Unseen, Answers!avars

(* What each experiment is, as one value. *)
Now == [i \in Ids |-> Truth(i)]

\* All of a step that ExperimentAnswers sees is what it makes of one experiment.
Becomes(id, facts) == Now' = [Now EXCEPT ![id] = facts]

LEMMA TruthNow ==
  ASSUME NEW id \in Ids
  PROVE  Now[id] = Truth(id) /\ Now'[id] = Truth(id)'
BY DEF Now

LEMMA BegunSame ==
  ASSUME UNCHANGED asked
  PROVE  UNCHANGED {i \in Ids : asked[i] # Nil}
OBVIOUS

(* An experiment that was running is over. *)
LEMMA EndAs ==
  ASSUME NEW id \in Ids, NEW status \in Terminal,
         Truth(id) # Nil, Truth(id).status = "running",
         Becomes(id, [Truth(id) EXCEPT !.status = status]),
         UNCHANGED <<asked, expDocs>>,
         \/ UNCHANGED known
         \/ Truth(id)'.status = "stopped" /\ known' = [known EXCEPT ![id] = Truth(id)']
  PROVE  Answers!End(id)
<1>1. Now[id] = Truth(id) /\ Now'[id] = Truth(id)'
  BY TruthNow
<1>2. Now' = [Now EXCEPT ![id].status = status]
  BY <1>1 DEF Becomes
<1>3. status \in Answers!Terminal
  BY DEF Terminal, Answers!Terminal
<1>4. UNCHANGED {i \in Ids : asked[i] # Nil} /\ UNCHANGED expDocs
  BY BegunSame
<1>5. /\ Now[id] # Nil /\ Now[id].status = "running"
      /\ \E s \in Answers!Terminal : Now' = [Now EXCEPT ![id].status = s]
      /\ \/ UNCHANGED known
         \/ Now'[id].status = "stopped" /\ known' = [known EXCEPT ![id] = Now'[id]]
  <2>1. \E s \in Answers!Terminal : Now' = [Now EXCEPT ![id].status = s]
    BY <1>2, <1>3, Zenon
  <2> QED
    BY <1>1, <2>1
<1> QED
  BY <1>4, <1>5, Zenon DEF Answers!End, Now

(* Creation begins an experiment. *)
LEMMA CreateBegins ==
  ASSUME SInv, NEW id \in Ids, NEW defense \in BOOLEAN, Create(id, defense)
  PROVE  Answers!Begin(id)
<1> DEFINE r == [status |-> "running", phase |-> "pacing",
                 captured |-> Nil, final |-> Nil]
<1>1. /\ asked[id] = Nil /\ asked' = [asked EXCEPT ![id] = defense]
      /\ UNCHANGED <<expDocs, known>> /\ runs' = [runs EXCEPT ![id] = r]
  BY DEF Create, docs, client
<1>2. Now' = [Now EXCEPT ![id] = Truth(id)']
  BY <1>1, TruthUpdate DEF SInv, TypeOK, Now
<1>3. Truth(id)' = Facts("running", defense, Nil)
  <2>1. runs'[id] = r /\ asked'[id] = defense
    BY <1>1 DEF SInv, TypeOK
  <2>2. r \in Runs /\ r.phase = "pacing" /\ r.status = "running"
    BY DEF Runs, Phases
  <2> HIDE DEF r
  <2>3. /\ InMemory(id)' /\ runs'[id].phase \in {"pacing", "drain"}
        /\ runs'[id].status = "running"
    BY <2>1, <2>2, ServiceAssumption DEF InMemory
  <2> QED
    BY <2>1, <2>3 DEF Truth
<1>4. {i \in Ids : asked[i] # Nil}' = {i \in Ids : asked[i] # Nil} \cup {id}
  BY <1>1, ServiceAssumption DEF SInv, TypeOK
<1>5. Facts("running", defense, Nil) = Answers!Facts("running", defense, Nil)
  BY DEF Facts, Answers!Facts
<1>6. id \notin {i \in Ids : asked[i] # Nil}
  BY <1>1
<1>7. \E d \in BOOLEAN :
        Now' = [Now EXCEPT ![id] = Answers!Facts("running", d, Nil)]
  BY <1>2, <1>3, <1>5
<1> QED
  BY <1>1, <1>4, <1>6, <1>7, Zenon DEF Answers!Begin, Now

(* The loop's end is the experiment's, unless a Stop came first. *)
LEMMA EndRunEnds ==
  ASSUME SInv, NEW id \in Ids, EndRun(id)
  PROVE  Answers!End(id) \/ Unseen
<1> DEFINE status == IF runs[id].status = "running" THEN "completed"
                     ELSE runs[id].status
           r == [runs[id] EXCEPT !.status = status, !.phase = "drain"]
<1>1. /\ InMemory(id) /\ runs[id].phase = "pacing" /\ runs[id] \in Runs
      /\ UNCHANGED <<asked, expDocs, known>>
  BY RunType DEF EndRun, InPhase, docs, birth, client
<1>2. runs' = [runs EXCEPT ![id] = r]
  BY <1>1 DEF EndRun, Runs
<1>3. Now' = [Now EXCEPT ![id] = Truth(id)']
  BY <1>1, <1>2, TruthUpdate DEF Now
<1>4. Truth(id)' = Facts(status, asked[id], Nil)
  <2>1. runs'[id] = r
    BY <1>2 DEF SInv, TypeOK
  <2>2. r \in Runs /\ r.phase = "drain" /\ r.status = status
    BY <1>1 DEF Runs, Phases, Terminal
  <2> HIDE DEF r, status
  <2> QED
    BY <1>1, <2>1, <2>2, ServiceAssumption DEF Truth, InMemory
<1>5. Truth(id) = Facts(runs[id].status, asked[id], Nil) /\ Truth(id) # Nil
  BY <1>1, TruthOfRun DEF Truth
<1>6. CASE runs[id].status = "running"
  <2>1. /\ Truth(id)' = [Truth(id) EXCEPT !.status = "completed"]
        /\ Truth(id).status = "running"
    BY <1>4, <1>5, <1>6 DEF Facts
  <2>2. "completed" \in Terminal /\ Becomes(id, [Truth(id) EXCEPT !.status = "completed"])
    BY <1>3, <2>1 DEF Terminal, Becomes
  <2> QED
    BY <1>1, <1>5, <2>1, <2>2, EndAs
<1>7. CASE runs[id].status # "running"
  <2>1. Truth(id)' = Truth(id)
    BY <1>4, <1>5, <1>7
  <2>2. ASSUME NEW i \in Ids \ {id} PROVE Truth(i)' = Truth(i)
    BY <1>1, <1>2, TruthSame DEF SInv, TypeOK
  <2> QED
    BY <1>1, <2>1, <2>2 DEF Unseen
<1> QED
  BY <1>6, <1>7
(* The number is final once the workers are gone. *)
LEMMA FinalizeSettles ==
  ASSUME SInv, NEW id \in Ids, Finalize(id)
  PROVE  Answers!Settle(id)
<1>1. /\ InMemory(id) /\ runs[id].phase = "drain" /\ runs[id] \in Runs
      /\ runs[id].status \in Terminal /\ asked[id] \in BOOLEAN
      /\ UNCHANGED <<asked, expDocs, known>>
  BY RunType DEF Finalize, InPhase, docs, birth, client, SInv, Good, RunGood
<1>2. PICK total \in 0..MaxTotal :
        runs' = [runs EXCEPT
                   ![id].captured = Facts(runs[id].status, asked[id], total),
                   ![id].phase = IF store THEN "saveExp" ELSE "publish"]
  BY DEF Finalize
<1> DEFINE captured == Facts(runs[id].status, asked[id], total)
           r == [runs[id] EXCEPT
                   !.captured = captured,
                   !.phase = IF store THEN "saveExp" ELSE "publish"]
<1>3. captured \in AllFacts /\ captured.total = total
  BY <1>1 DEF Facts, AllFacts
<1>4. runs' = [runs EXCEPT ![id] = r]
  BY <1>1, <1>2 DEF Runs, SInv, TypeOK
<1>5. Now' = [Now EXCEPT ![id] = Truth(id)']
  BY <1>1, <1>4, TruthUpdate DEF Now
<1> HIDE DEF captured
<1>6. r \in Runs /\ r.phase \in {"saveExp", "publish"}
      /\ r.status = runs[id].status /\ r.captured = captured
  BY <1>1, <1>3 DEF Runs, Phases
<1>7. runs'[id] = r
  BY <1>4 DEF SInv, TypeOK
<1> HIDE DEF r
<1>8. Truth(id)' = Facts(runs[id].status, asked[id], total)
  <2>1. InMemory(id)' /\ runs'[id].phase \notin {"pacing", "drain"}
    BY <1>6, <1>7, ServiceAssumption DEF InMemory
  <2> QED
    BY <1>1, <1>3, <1>6, <1>7, <2>1 DEF Truth
<1>9. Truth(id) = Facts(runs[id].status, asked[id], Nil) /\ Truth(id) # Nil
  BY <1>1, TruthOfRun DEF Truth
<1>10. /\ Truth(id)' = [Truth(id) EXCEPT !.total = total]
       /\ Truth(id).status # "running" /\ Truth(id).total = Nil
  BY <1>1, <1>8, <1>9 DEF Facts, Terminal
<1>11. Now[id] = Truth(id)
  BY TruthNow
<1>12. \E n \in 0..MaxTotal : Now' = [Now EXCEPT ![id].total = n]
  BY <1>5, <1>10, <1>11
<1>13. Now[id] # Nil /\ Now[id].status # "running" /\ Now[id].total = Nil
  BY <1>9, <1>10, <1>11
<1> QED
  BY <1>1, <1>12, <1>13, BegunSame, Zenon DEF Answers!Settle, Now

(* A run's phase can go on without the experiment becoming anything else. *)
LEMMA PhaseUnseen ==
  ASSUME SInv, NEW id \in Ids, NEW r \in Runs, InMemory(id),
         runs' = [runs EXCEPT ![id] = r],
         r.status = runs[id].status, r.captured = runs[id].captured,
         r.phase \notin {"pacing", "drain"},
         runs[id].phase \notin {"pacing", "drain"},
         UNCHANGED asked, \A i \in Ids \ {id} : expDocs'[i] = expDocs[i]
  PROVE  Now' = Now /\ \A i \in Ids : Truth(i)' = Truth(i)
<1>1. runs'[id] = r
  BY DEF SInv, TypeOK
<1>2. Truth(id)' = Truth(id)
  <2> DEFINE facts == Facts(runs[id].status, asked[id], runs[id].captured.total)
  <2>1. Truth(id) = facts
    BY Zenon DEF Truth
  <2>2. InMemory(id)' /\ runs'[id].phase \notin {"pacing", "drain"}
    BY <1>1, ServiceAssumption DEF InMemory
  <2>3. Truth(id)' = facts'
    BY <2>2, Zenon DEF Truth
  <2>4. runs'[id].status = runs[id].status /\ runs'[id].captured = runs[id].captured
    BY <1>1
  <2>5. facts' = facts
    BY <2>4
  <2> QED
    BY <2>1, <2>3, <2>5
<1>3. ASSUME NEW i \in Ids \ {id} PROVE Truth(i)' = Truth(i)
  <2>1. runs'[i] = runs[i]
    BY DEF SInv, TypeOK
  <2> QED
    BY <2>1, TruthSame
<1> QED
  BY <1>2, <1>3 DEF Now
(* The first write keeps what the experiment is; a failed one may not.     *)
LEMMA SaveExpKeeps ==
  ASSUME SInv, NEW id \in Ids, SaveExp(id)
  PROVE  Answers!Keep(id) \/ Unseen
<1>1. /\ InMemory(id) /\ runs[id].phase = "saveExp" /\ runs[id] \in Runs
      /\ runs[id].captured.total \in 0..MaxTotal /\ expDocs[id] = Nil
      /\ UNCHANGED <<asked, known>>
  BY RunType DEF SaveExp, InPhase, birth, client, SInv, Good, RunGood
<1>2. PICK phase \in {"saveMetrics", "publish"} :
        /\ runs' = [runs EXCEPT ![id].phase = phase]
        /\ \/ expDocs' = [expDocs EXCEPT ![id] = ExperimentDoc(runs[id].captured)]
           \/ expDocs' = expDocs
  BY DEF SaveExp
<1> DEFINE r == [runs[id] EXCEPT !.phase = phase]
<1>3. runs' = [runs EXCEPT ![id] = r]
  BY <1>2
<1>4. r \in Runs /\ r.status = runs[id].status
      /\ r.captured = runs[id].captured /\ r.phase = phase
  BY <1>1 DEF Runs, Phases
<1> HIDE DEF r
<1>5. \A i \in Ids \ {id} : expDocs'[i] = expDocs[i]
  BY <1>2 DEF SInv, TypeOK
<1>6. Now' = Now /\ \A i \in Ids : Truth(i)' = Truth(i)
  BY <1>1, <1>3, <1>4, <1>5, PhaseUnseen
<1>7. CASE expDocs' = expDocs
  BY <1>1, <1>6, <1>7 DEF Unseen
<1>8. CASE expDocs' = [expDocs EXCEPT ![id] = ExperimentDoc(runs[id].captured)]
  <2>1. Truth(id) = runs[id].captured /\ Truth(id) # Nil
        /\ Truth(id).total \in 0..MaxTotal
    BY <1>1, TruthOfRun
  <2>2. Now[id] = runs[id].captured /\ Now[id] # Nil /\ Now[id].total # Nil
    BY <2>1, TruthNow, ServiceAssumption
  <2>3. expDocs' = [expDocs EXCEPT ![id] = [status |-> Now[id].status,
                                            total |-> Now[id].total]]
    BY <1>8, <2>2, Zenon DEF ExperimentDoc
  <2> QED
    BY <1>1, <1>6, <2>2, <2>3, BegunSame, Zenon DEF Answers!Keep, Now
<1> QED
  BY <1>2, <1>7, <1>8

(* The second write and the publication change nothing of it. *)
LEMMA RestUnseen ==
  ASSUME SInv, NEW id \in Ids, SaveMetrics(id) \/ Publish(id)
  PROVE  Unseen
<1>1. /\ InMemory(id) /\ runs[id].phase \in {"saveMetrics", "publish"}
      /\ runs[id] \in Runs /\ UNCHANGED <<asked, expDocs, known>>
  BY RunType DEF SaveMetrics, Publish, InPhase, docs, birth, client
<1>2. PICK r \in Runs :
        /\ runs' = [runs EXCEPT ![id] = r]
        /\ r.status = runs[id].status /\ r.captured = runs[id].captured
        /\ r.phase \notin {"pacing", "drain"}
  <2>1. CASE SaveMetrics(id)
    <3> DEFINE r == [runs[id] EXCEPT !.phase = "publish"]
    <3>1. runs' = [runs EXCEPT ![id] = r]
      BY <2>1 DEF SaveMetrics
    <3>2. r \in Runs /\ r.status = runs[id].status /\ r.captured = runs[id].captured
          /\ r.phase = "publish"
      BY <1>1 DEF Runs, Phases
    <3> HIDE DEF r
    <3> QED
      BY <3>1, <3>2
  <2>2. CASE Publish(id)
    <3> DEFINE r == [runs[id] EXCEPT !.final = runs[id].captured, !.phase = "done"]
    <3>1. runs' = [runs EXCEPT ![id] = r]
      BY <1>1, <2>2 DEF Publish, SInv, TypeOK, Runs
    <3>2. r \in Runs /\ r.status = runs[id].status /\ r.captured = runs[id].captured
          /\ r.phase = "done"
      BY <1>1 DEF Runs, Phases
    <3> HIDE DEF r
    <3> QED
      BY <3>1, <3>2
  <2> QED
    BY <2>1, <2>2
<1>3. \A i \in Ids : Truth(i)' = Truth(i)
  BY <1>1, <1>2, PhaseUnseen
<1> QED
  BY <1>1, <1>3 DEF Unseen

(* A refused Stop tells nothing; another ends the experiment and says so.  *)
LEMMA StopEnds ==
  ASSUME SInv, NEW id \in Ids, Stop(id)
  PROVE  Answers!End(id) \/ Unseen
<1>1. UNCHANGED <<asked, expDocs>>
  BY DEF Stop, docs, birth
<1>2. CASE UNCHANGED <<runs, known>>
  BY <1>1, <1>2, TruthSame DEF Unseen
<1>3. ASSUME InMemory(id), runs[id].status = "running",
             runs' = [runs EXCEPT ![id].status = "stopped"],
             known' = [known EXCEPT ![id] = Facts("stopped", asked[id], Nil)]
      PROVE  Answers!End(id)
  <2> DEFINE r == [runs[id] EXCEPT !.status = "stopped"]
  <2>1. runs[id] \in Runs /\ runs[id].phase = "pacing"
    BY <1>3, RunType DEF SInv, Good, RunGood, Terminal
  <2>2. runs' = [runs EXCEPT ![id] = r]
    BY <1>3
  <2>3. Now' = [Now EXCEPT ![id] = Truth(id)']
    BY <1>1, <2>2, TruthUpdate DEF Now
  <2>4. r \in Runs /\ r.phase = "pacing" /\ r.status = "stopped"
    BY <2>1 DEF Runs, Terminal
  <2>5. runs'[id] = r
    BY <2>2 DEF SInv, TypeOK
  <2> HIDE DEF r
  <2>6. Truth(id)' = Facts("stopped", asked[id], Nil)
    BY <1>1, <2>4, <2>5, ServiceAssumption DEF Truth, InMemory
  <2>7. Truth(id) = Facts("running", asked[id], Nil) /\ Truth(id) # Nil
    BY <1>3, <2>1, TruthOfRun DEF Truth
  <2>8. /\ Truth(id)' = [Truth(id) EXCEPT !.status = "stopped"]
        /\ Truth(id).status = "running" /\ Truth(id)'.status = "stopped"
    BY <2>6, <2>7 DEF Facts
  <2>9. "stopped" \in Terminal /\ Becomes(id, [Truth(id) EXCEPT !.status = "stopped"])
    BY <2>3, <2>8 DEF Terminal, Becomes
  <2>10. known' = [known EXCEPT ![id] = Truth(id)']
    BY <1>3, <2>6
  <2> QED
    BY <1>1, <2>7, <2>8, <2>9, <2>10, EndAs
<1> QED
  BY <1>2, <1>3 DEF Stop, Refuse, Tell

(* An answer from the store is what the document says. *)
LEMMA TruthOfDocument ==
  ASSUME SInv, NEW id \in Ids, ~InMemory(id), expDocs[id] # Nil
  PROVE  Truth(id) # Nil /\ Recorded(id) = Truth(id) /\ Loaded(id) = Truth(id)
<1>1. Truth(id) = Recorded(id)
  BY DEF Truth
<1> QED
  BY <1>1, LoadedFacts, ServiceAssumption

(* Get and Metrics answer what the experiment is, or refuse. *)
LEMMA GetMetricsAnswer ==
  ASSUME SInv, NEW id \in Ids, Get(id) \/ Metrics(id)
  PROVE  Answers!Answer(id) \/ Unseen
<1>1. UNCHANGED <<runs, asked, expDocs>>
  BY DEF Get, Metrics, process, docs, birth
<1>2. Now' = Now /\ \A i \in Ids : Truth(i)' = Truth(i)
  BY <1>1, TruthSame DEF Now
<1>3. CASE UNCHANGED known
  BY <1>1, <1>2, <1>3 DEF Unseen
<1>4. ASSUME NEW facts, known' = [known EXCEPT ![id] = facts], Truth(id) # Nil,
             facts \in {Truth(id), [Truth(id) EXCEPT !.total = Nil]}
      PROVE  Answers!Answer(id)
  <2>1. Now[id] # Nil /\ facts \in {Now[id], [Now[id] EXCEPT !.total = Nil]}
    BY <1>4, TruthNow
  <2>2. known' \in {[known EXCEPT ![id] = Now[id]],
                    [known EXCEPT ![id] = [Now[id] EXCEPT !.total = Nil]]}
    BY <1>4, <2>1
  <2> QED
    BY <1>1, <1>2, <2>1, <2>2, BegunSame, Zenon DEF Answers!Answer, Now
<1>5. CASE InMemory(id)
  <2>1. /\ Truth(id) # Nil
        /\ Truth(id) = Facts(runs[id].status, asked[id], Truth(id).total)
    BY <1>5, TruthOfRun
  <2>2. Facts(runs[id].status, asked[id], Nil) = [Truth(id) EXCEPT !.total = Nil]
    BY <2>1 DEF Facts
  <2>3. runs[id].final # Nil => runs[id].final = Truth(id)
    BY <1>5, TruthOfRun DEF SInv, Good, RunGood
  <2>4. \E facts \in {Truth(id), [Truth(id) EXCEPT !.total = Nil]} :
          known' = [known EXCEPT ![id] = facts]
    <3>1. \/ known' = [known EXCEPT ![id] = Facts(runs[id].status, asked[id], Nil)]
          \/ runs[id].final # Nil /\ known' = [known EXCEPT ![id] = runs[id].final]
      BY <1>5 DEF Get, Metrics, FromStore, Tell
    <3> QED
      BY <2>2, <2>3, <3>1, Zenon
  <2> QED
    BY <1>4, <2>1, <2>4
<1>6. CASE ~InMemory(id)
  <2>1. \/ UNCHANGED known
        \/ /\ expDocs[id] # Nil
           /\ \E facts \in {Recorded(id), Loaded(id)} :
                known' = [known EXCEPT ![id] = facts]
    BY <1>6, Zenon DEF Get, Metrics, FromStore, Tell, Refuse
  <2> QED
    BY <1>3, <1>4, <1>6, <2>1, TruthOfDocument
<1> QED
  BY <1>5, <1>6

(* Death leaves what the documents say, which is what was kept. *)
LEMMA CrashDies ==
  ASSUME SInv, Crash
  PROVE  Answers!Die
<1>1. /\ runs' = [i \in Ids |-> Nil] /\ UNCHANGED <<asked, expDocs, known>>
  BY DEF Crash, docs, birth, client
<1>2. ASSUME NEW i \in Ids PROVE Truth(i)' = Answers!Recalled(expDocs[i])
  BY <1>1 DEF Truth, Recorded, InMemory, Answers!Recalled, Facts, Answers!Facts
<1>3. Now' = [i \in Ids |-> Answers!Recalled(expDocs[i])]
  BY <1>2 DEF Now
<1> QED
  BY <1>1, <1>3, BegunSame, Zenon DEF Answers!Die, Now

LEMMA InitAnswers ==
  ASSUME Init
  PROVE  Answers!Init
<1> USE ServiceAssumption
<1>1. /\ runs = [i \in Ids |-> Nil] /\ known = [i \in Ids |-> Nil]
      /\ expDocs = [i \in Ids |-> IF i \in Old THEN [status |-> "completed", total |-> 0]
                                  ELSE Nil]
      /\ asked = [i \in Ids |-> IF i \in Old THEN FALSE ELSE Nil]
  BY DEF Init
<1>2. [status |-> "completed", total |-> 0] \in ExperimentDocs
  BY DEF ExperimentDocs, Terminal
<1>3. expDocs \in [Ids -> [status : Answers!Terminal, total : 0..MaxTotal] \cup {Nil}]
  BY <1>1, <1>2 DEF ExperimentDocs, Terminal, Answers!Terminal
<1>4. ASSUME NEW i \in Ids PROVE asked[i] # Nil <=> expDocs[i] # Nil
  BY <1>1, <1>2
<1>5. ASSUME NEW i \in Ids PROVE Truth(i) = Answers!Recalled(expDocs[i])
  BY <1>1 DEF Truth, Recorded, InMemory, Answers!Recalled, Facts, Answers!Facts
<1>6. [i \in Ids |-> Truth(i)] = [i \in Ids |-> Answers!Recalled(expDocs[i])]
  BY <1>5
<1>7. {i \in Ids : asked[i] # Nil} = {i \in Ids : expDocs[i] # Nil}
  BY <1>4
<1> QED
  BY <1>1, <1>3, <1>6, <1>7, Zenon DEF Answers!Init

(* Everything the service does is a promise of ExperimentAnswers kept. *)
LEMMA AnswersStep ==
  ASSUME SInv, [Next]_vars
  PROVE  [Answers!Next]_(Answers!avars)
<1>1. CASE Unseen
  BY <1>1, UnseenStep
<1>2. ASSUME NEW id \in Ids,
             \/ Answers!Begin(id) \/ Answers!End(id) \/ Answers!Settle(id)
             \/ Answers!Keep(id) \/ Answers!Answer(id)
      PROVE  Answers!Next
  BY <1>2, Zenon DEF Answers!Next
<1>3. ASSUME NEW id \in Ids, NEW defense \in BOOLEAN, Create(id, defense)
      PROVE  Answers!Begin(id)
  BY <1>3, CreateBegins
<1>4. ASSUME NEW id \in Ids, Advance(id)
      PROVE  \/ Answers!End(id) \/ Answers!Settle(id) \/ Answers!Keep(id) \/ Unseen
  BY <1>4, EndRunEnds, FinalizeSettles, SaveExpKeeps, RestUnseen DEF Advance
<1>5. ASSUME NEW id \in Ids, Stop(id) \/ Get(id) \/ Metrics(id)
      PROVE  Answers!End(id) \/ Answers!Answer(id) \/ Unseen
  BY <1>5, StopEnds, GetMetricsAnswer
<1>6. CASE ListMemory \/ ListHistory \/ Restart \/ UNCHANGED vars
  <2>1. UNCHANGED <<asked, expDocs, known>> /\ UNCHANGED runs
    <3>1. /\ UNCHANGED docs /\ UNCHANGED birth /\ UNCHANGED client
          /\ UNCHANGED process \/ UNCHANGED runs
      BY <1>6, Zenon DEF ListMemory, ListHistory, Restart, vars
    <3> QED
      BY <3>1 DEF process, docs, birth, client
  <2> QED
    BY <1>1, <2>1, TruthSame DEF Unseen
<1>7. CASE Crash
  BY <1>7, CrashDies DEF Answers!Next
<1> QED
  BY <1>1, <1>2, <1>3, <1>4, <1>5, <1>6, <1>7 DEF Next

(***************************************************************************)
(* The service implements ExperimentAnswers: across every interleaving of  *)
(* runs, writes and requests, failing stores and deaths, an answer is what *)
(* the experiment is, and what is kept of one is all of it, for good.      *)
(***************************************************************************)
THEOREM RefinesAnswers == Spec => AnswersSpec
<1>1. Init => Answers!Init
  BY InitAnswers
<1>2. SInv /\ [Next]_vars => [Answers!Next]_(Answers!avars)
  BY AnswersStep
<1> QED
  BY <1>1, <1>2, ServiceInductive, PTL DEF Spec, AnswersSpec, Answers!Spec
=============================================================================
