------------------------------- MODULE Report -------------------------------
(***************************************************************************)
(* The PDF report of one experiment: what Observe and the rows of          *)
(* report.Build (backend/internal/report/report.go) say about the numbers  *)
(* that Handler.reportPDF takes from Service.Metrics.  Those numbers come  *)
(* from two tallies of the same outcomes, the atomic counters and the      *)
(* collector's status codes, read one after the other while workers run;   *)
(* from the captured result once they are gone; and, after a restart, from *)
(* whichever documents SaveResult managed to write.                        *)
(*                                                                         *)
(* A status code is its class; wording, latencies, the target's telemetry  *)
(* and the layout are left out.                                            *)
(***************************************************************************)
EXTENDS Integers

CONSTANTS
  Pool,         \* number of workers
  MaxRequests,  \* bound on the requests of the run
  MaxSamples,   \* capacity of the reservoir
  Nil           \* Go's nil

ASSUME ReportAssumption ==
  Pool \in Nat /\ MaxRequests \in Nat /\ MaxSamples \in Nat

VARIABLES
  defense,   \* Config.Defense
  exp,       \* the atomic counters of successes and failures
  held,      \* outcomes in a worker's hand, tallied but not yet recorded
  codes,     \* the collector's status codes
  captured,  \* the final result, Nil before; kept as history after a death
  memory,    \* the process that ran the experiment is alive
  expDoc, metDoc,  \* the stored documents, or Nil
  copy,      \* a reader's copy of the record, Nil between two readings
  live       \* the input of the last report about the run in progress

run  == <<defense, exp, held, codes>>
docs == <<expDoc, metDoc>>
vars == <<run, captured, memory, docs, copy, live>>

\* 2xx, 429, other 4xx, 5xx, and what is none of them (no response is 0).
Classes == {"ok", "limited", "client", "server", "other"}
Failing == Classes \ {"ok"}

FailedIn(f) == f["limited"] + f["client"] + f["server"] + f["other"]
SumOf(f)    == f["ok"] + FailedIn(f)

Smaller(a, b) == IF a < b THEN a ELSE b

Init ==
  /\ defense \in BOOLEAN
  /\ exp = [ok |-> 0, failed |-> 0]
  /\ held = [c \in Classes |-> 0] /\ codes = [c \in Classes |-> 0]
  /\ captured = Nil /\ memory = TRUE
  /\ expDoc = Nil /\ metDoc = Nil
  /\ copy = Nil /\ live = Nil

-----------------------------------------------------------------------------

\* report.Input, from a record and a view of the collector.
Input(flag, e, f, rate, samples) ==
  [defense |-> flag, ok |-> e.ok, failed |-> e.failed, total |-> SumOf(f),
   codes |-> f, rate |-> rate, samples |-> samples]

\* pct
Percent(part, total) == IF total <= 0 THEN 0 ELSE (part * 100) \div total

BugObservations(i) ==
  LET limited == i.codes["limited"]
      said == [rejected     |-> i.defense /\ limited > 0,
               neverEngaged |-> i.defense /\ ~(limited > 0),
               baseline     |-> ~i.defense,
               serverErrors |-> i.codes["server"] > 0,
               clientErrors |-> i.codes["client"] > 0,
               noFailures   |-> i.failed = 0,
               errorRate    |-> i.failed # 0 /\ ~i.defense,
               noRequests   |-> i.total = 0]
  IN  {s \in DOMAIN said : said[s]}

\* Observe: the sentences a report contains.
Observations(i) ==
  LET limited == i.codes["limited"]
      said == [rejected     |-> i.defense /\ limited > 0,
               neverEngaged |-> i.defense /\ ~(limited > 0),
               baseline     |-> ~i.defense,
               serverErrors |-> i.codes["server"] > 0,
               clientErrors |-> i.codes["limited"] + i.codes["client"] - limited > 0,
               noFailures   |-> i.failed = 0,
               errorRate    |-> i.failed # 0 /\ (~i.defense \/ limited < i.failed),
               noRequests   |-> i.total = 0]
  IN  {s \in DOMAIN said : said[s]}

-----------------------------------------------------------------------------
(* The run.                                                                *)

\* fire bumps one of the counters; only flagged requests meet a 429
\* (DefenseMiddleware).
Tally(c) ==
  /\ memory /\ captured = Nil
  /\ SumOf(held) < Pool /\ exp.ok + exp.failed < MaxRequests
  /\ c = "limited" => defense
  /\ exp' = IF c = "ok" THEN [exp EXCEPT !.ok = @ + 1]
                        ELSE [exp EXCEPT !.failed = @ + 1]
  /\ held' = [held EXCEPT ![c] = @ + 1]
  /\ UNCHANGED <<defense, codes, captured, memory, docs, copy, live>>

\* metrics.Record: a status code and the outcomes seen.
Record(c) ==
  /\ memory /\ held[c] > 0
  /\ held' = [held EXCEPT ![c] = @ - 1]
  /\ codes' = [codes EXCEPT ![c] = @ + 1]
  /\ UNCHANGED <<defense, exp, captured, memory, docs, copy, live>>

\* The workers are not waited for.
BugCapture ==
  /\ memory /\ captured = Nil
  /\ \E rate \in 0..SumOf(codes) :
       captured' = Input(defense, exp, codes, rate,
                         Smaller(SumOf(codes), MaxSamples))
  /\ UNCHANGED <<run, memory, docs, copy, live>>

\* finalize, once the workers have put down all they held.
Capture ==
  /\ memory /\ captured = Nil /\ SumOf(held) = 0
  /\ \E rate \in 0..SumOf(codes) :
       captured' = Input(defense, exp, codes, rate,
                         Smaller(SumOf(codes), MaxSamples))
  /\ UNCHANGED <<run, memory, docs, copy, live>>

\* SaveResult's two writes, the second after the first.  One that fails is
\* one that is not made.  After the drain the record's TotalRequests is the
\* sum of its two tallies (Accounting of TrafficEngine).
SaveExp ==
  /\ memory /\ captured # Nil /\ expDoc = Nil
  /\ expDoc' = [ok |-> captured.ok, failed |-> captured.failed,
                total |-> exp.ok + exp.failed, codes |-> captured.codes]
  /\ UNCHANGED <<run, captured, memory, metDoc, copy, live>>

SaveMetrics ==
  /\ memory /\ expDoc # Nil /\ metDoc = Nil
  /\ metDoc' = [total |-> captured.total, codes |-> captured.codes,
                rate |-> captured.rate]
  /\ UNCHANGED <<run, captured, memory, expDoc, copy, live>>

\* The process dies; a later one has the documents only.
Restart ==
  /\ memory
  /\ memory' = FALSE
  /\ UNCHANGED <<run, captured, docs, copy, live>>

-----------------------------------------------------------------------------
(* A report about the run in progress reads the record, then the view.     *)
(* MetricsPoll takes these readings further apart.                         *)

CopyRecord ==
  /\ memory /\ captured = Nil /\ copy = Nil
  /\ copy' = exp
  /\ UNCHANGED <<run, captured, memory, docs, live>>

Render ==
  /\ memory /\ copy # Nil
  /\ \E rate \in 0..SumOf(codes) :
       live' = Input(defense, copy, codes, rate,
                     Smaller(SumOf(codes), MaxSamples))
  /\ copy' = Nil
  /\ UNCHANGED <<run, captured, memory, docs>>

BugRestored ==
  [Input(FALSE, expDoc, expDoc.codes, 0, expDoc.total)
     EXCEPT !.total = IF metDoc = Nil THEN 0 ELSE metDoc.total]

\* LoadResult: the experiment document, whose totals and codes give way to
\* those of the metrics document; no Defense flag, and as many samples as
\* requests.
Restored ==
  IF metDoc = Nil
  THEN [Input(FALSE, expDoc, expDoc.codes, 0, expDoc.total)
          EXCEPT !.total = expDoc.total]
  ELSE [Input(FALSE, expDoc, metDoc.codes, metDoc.rate, metDoc.total)
          EXCEPT !.total = metDoc.total]

Dead == ~memory /\ UNCHANGED vars

Next ==
  \/ \E c \in Classes : Tally(c) \/ Record(c)
  \/ Capture \/ SaveExp \/ SaveMetrics \/ Restart
  \/ CopyRecord \/ Render
  \/ Dead

Spec == Init /\ [][Next]_vars

-----------------------------------------------------------------------------

Counters == [ok : Nat, failed : Nat]
Codes    == [Classes -> Nat]
Inputs   == [defense : BOOLEAN, ok : Nat, failed : Nat, total : Nat,
             codes : Codes, rate : Nat, samples : Nat]

TypeOK ==
  /\ defense \in BOOLEAN /\ memory \in BOOLEAN
  /\ exp \in Counters /\ held \in Codes /\ codes \in Codes
  /\ captured \in Inputs \cup {Nil} /\ live \in Inputs \cup {Nil}
  /\ copy \in Counters \cup {Nil}
  /\ expDoc \in [ok : Nat, failed : Nat, total : Nat, codes : Codes] \cup {Nil}
  /\ metDoc \in [total : Nat, codes : Codes, rate : Nat] \cup {Nil}

(***************************************************************************)
(* A finished report does not contradict itself, although its sentences    *)
(* come from one tally and its status codes from the other: every failure  *)
(* is a code other than 2xx, "no failed requests" stands beside no error   *)
(* sentence, a failure is always mentioned, the shares stay within 100%,   *)
(* and 429 is told exactly by a defended run that met one (report.go:96-   *)
(* 156, service.go:242-245).                                               *)
(***************************************************************************)
Consistent(i) ==
  LET said == Observations(i) IN
  /\ i.ok = i.codes["ok"] /\ i.failed = FailedIn(i.codes)
  /\ "noFailures" \in said
       => said \cap {"rejected", "serverErrors", "clientErrors", "errorRate"} = {}
  /\ i.failed > 0 => said \cap {"rejected", "errorRate"} # {}
  /\ Percent(i.failed, i.total) <= 100
  /\ Percent(i.codes["limited"], i.total) <= Percent(i.failed, i.total)
  /\ i.codes["limited"] > 0 <=> "rejected" \in said
  /\ "noRequests" \in said <=> i.ok + i.failed = 0

FinalReportAgrees == captured # Nil => Consistent(captured)

(***************************************************************************)
(* A report made after a restart repeats the numbers of the final one,     *)
(* whether one document or both were written, but for the rate: the        *)
(* experiment document has none, so without the metrics document the       *)
(* report says 0 requests per second (mongodb.go:112-197, 225-251,         *)
(* report.go:185).  An undefended run's sentences are the same.  It claims *)
(* at least as many samples, and the same number while the reservoir was   *)
(* not full.                                                               *)
(***************************************************************************)
RestoredReportSame ==
  ~memory /\ expDoc # Nil =>
    LET now == Restored IN
    /\ now.ok = captured.ok /\ now.failed = captured.failed
    /\ now.total = captured.total /\ now.codes = captured.codes
    /\ now.rate = IF metDoc = Nil THEN 0 ELSE captured.rate
    /\ ~defense => Observations(now) = Observations(captured)
    /\ now.samples >= captured.samples
    /\ now.total <= MaxSamples => now.samples = captured.samples

(***************************************************************************)
(* What a report about a running experiment finds stands in the final one, *)
(* although it was put together from two readings of a moving run          *)
(* (service.go:359-367, report.go:96-156): the kinds of errors it names,   *)
(* that there were requests, and that some failed; of an undefended run    *)
(* the error rate too.  A defended run's may be withdrawn: a failure read  *)
(* before its 429 looks like one of another kind.                          *)
(***************************************************************************)
LiveReportStands ==
  live # Nil /\ captured # Nil =>
    LET before == Observations(live)
        after  == Observations(captured)
    IN  /\ before \cap {"rejected", "serverErrors", "clientErrors", "baseline"}
             \subseteq after
        /\ after \cap {"noFailures", "noRequests"} \subseteq before
        /\ ~defense /\ "errorRate" \in before => "errorRate" \in after
=============================================================================
