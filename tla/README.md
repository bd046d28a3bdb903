# A TLA+ model of DDoSLab

DDoSLab is a local HTTP traffic lab: a Go API runs experiments (a paced pool of
worker goroutines against a bundled test server), measures them, persists the
finished ones in MongoDB, and serves a small browser UI that polls it. This
directory holds TLA+ modules of its parts, TLC configurations that check them on
small instances, and TLAPS proofs of what matters most for every instance.

Paths below are relative to `backend/internal/` unless they start with `web/`,
`backend/` or `context/`.

## 1. The system

| Component | State | Operations | Interacts with |
|---|---|---|---|
| Traffic engine, `experiment/service.go` (`execute`, `fire`, `finish`, `Stop`) | per run: record with atomic counters, context, ticker, timer, token channel, worker pool, `r.final` | pace, enqueue, see timer / cancellation, finish, drain, finalize, save, publish; `Stop` | handlers (`Stop`, reads), collector, store, test server |
| Metrics reads, `Service.Metrics`, `Handler.metrics` | none | one reply put together from several readings | engine's record, collector, telemetry probe |
| Registry and REST API, `experiment/service.go`, `handler.go` | `s.experiments` under an RWMutex | Create, Stop, Get, List, Metrics | engine, store |
| MongoDB store, `database/mongodb.go` | collections `experiments`, `metrics` | Connect, SaveResult (two writes), LoadResult (two reads), History | API process |
| API process, `backend/cmd/server` | whether it has a store | start, death, restart | all of the above |
| Metrics collector, `experiment/metrics.go` | status codes, reservoir, `seen`, timestamps, one mutex | Record, Snapshot | workers, readers |
| Percentiles, same file | none | rank of P50, P95, P99 | Snapshot |
| Rate limiter, `server/ratelimit.go`, `testserver.go` | one token bucket and its mutex | Allow, middleware | handler goroutines of the test server |
| Live page, `web/js/live.js` | `timer`, `currentId`, pending requests | toggle, start, poll, stop experiment | REST API |
| Dashboard, `web/js/dashboard.js` | the table | load, auto-refresh, create, stop | REST API |
| Configuration and allowlist, `experiment/model.go`, `server/allowlist.go` | the environment | Validate, AllowedHostsFromEnv, AllowedTarget | Create |
| PDF report, `report/report.go`, `Handler.reportPDF` | none | Observe | a live, final or restored result |
| Report page, `web/js/report.js` | the report, the comparison, their notes | load, compare | REST API |
| Telemetry, API client, charts | none | | |

### What is hard here

* **Two ways to end.** `Stop` marks the run and cancels the context in a handler
  goroutine while the pacing loop may be about to `finish` it as completed.
  Correct: one verdict, never rewritten, whoever wins.
* **Counters in three places.** `fire` bumps two atomics and then records in
  the collector under another mutex, and bumps the total before the request
  exists. Correct: nothing lost or doubled, and the captured result is the final
  truth, because it is captured only after the drain.
* **A full channel.** The pacing loop blocks on it while ticks are dropped and
  the timer fires. Correct: the load never exceeds the rate, the timer still
  ends the run, the drain ends.
* **Readers without a snapshot.** A metrics reply mixes counters read at
  different moments. Correct: bounded skew, and a client never sees numbers go
  back.
* **Failure of half an operation.** SaveResult writes twice, the process may die
  anywhere, the store may be gone. Correct: what is stored is right, a terminal
  status stays, and a final number is the same in every answer that carries one.
* **Time in the limiter and the collector.** A bucket refilled by the clock on
  every call, timestamps appended out of order. Correct: the admitted load is
  bounded in every window and nobody below the rate is denied, unless the bucket is
  smaller than one token; the reported rate counts what it says.
* **Two tallies of one thing.** A report compares the counters of the record with
  the collector's codes, while the run lasts or after it, or after a restart what
  two documents hold. Correct: a finished report never contradicts itself, the
  kinds of errors an earlier one names stand, and a later one repeats it, but for the rate that a
  single document lacks.
* **Arithmetic at the edges.** A truncated ticker interval, the rank of a
  percentile, an allowlist written by hand. Correct: the drift adds no request,
  the rank exists, a host is allowed exactly when it is named.
* **Handlers that await.** In the pages every await lets another handler run.
  Correct: no interval that cannot be cleared, silence once everything is over,
  a table that catches up, nothing on display older than its question.

`PROJECT.json` lists every such hazard with its line and the properties that
cover it, or the reason why none does.

## 2. Modules

### `TrafficEngine` (with `ExperimentRun`, `EngineProofs`)

One run. The clock counts ticker intervals. `Tick` is the Go runtime: a tick is
dropped when `ticker.C` is full, and the interval that reaches `Duration` also
fires `timer.C`. Both may wait at the same time and the loop takes either, as
the `select` does, so a timer slightly before or after its tick adds no order.

| Variable | Code |
|---|---|
| `exp` | `r.exp`: status, `CompletedAt`, atomic counters |
| `ctxDone` | the run's context |
| `tickC`, `timerC` | `ticker.C` (capacity one), `timer.C` |
| `loop` | where `execute` is: outer select, nested select ("send"), the two `finish` calls, then drain, save, publish |
| `tokens` | tokens buffered in the channel, at most `Capacity` = 2 × workers |
| `worker` | where each worker is in `fire`: after the receive, after the total, in the request, with its outcome, before Record |
| `seen` | `r.metrics.seen` |
| `captured`, `saved`, `final` | local `final`, the store's copy, `r.final` |
| `late` | history: requests sent after the status left "running" |

One action per atomic step: `TakeTick`, `Enqueue`, `SeeCancel`, `SeeTimer`,
`Finish`, `Finalize`, `Save`, `Publish` for the loop, `Stop` for a handler (status
and `cancel` change under one write lock, hence one step), and `Receive`, `Leave`,
`Count`, `Send`, `Refuse`, `Answer`, `Tally`, `Record` for a worker. `Send` takes the
moment when `Do` checks the context as the moment the request leaves: one past the
check may reach the wire just after a `Stop`. `Finalize`
reads the record and the collector at once: no worker is left and the status
is final, so no interleaving could tell the difference. `Save` leaves open
whether the store exists, fails or works; its two writes are
`ExperimentService`'s.

`ExperimentRun` is the abstract promise: a run ends once, outcomes follow requests, and
one final result is published after the end when nothing is left to record.
`RunSpec` in `TrafficEngine` instantiates it with the engine's variables
(`settled <- seen`, `result <- Published`).

### `MetricsPoll` (with `MCMetricsPoll`, `EngineProofs`)

Extends `TrafficEngine` by one client that polls: `Check` (status and `r.final`
under a read lock), `Copy` (status under a second one), `LoadSuccessful` and
`LoadFailed` (atomic loads while the workers go on), `TakeView` (the collector's
mutex, after the telemetry probe, hence possibly much later). While the lock is held no `finish`, `Stop` or
publication happens (`Locked` in `Engine`). The reading in hand (`reading`) and the
last reply (`reply`) are the reader's state; `Response` is what the handler takes
from a published result.

### `Limiter` (with `MCLimiter`, `LimiterProofs`)

The token bucket with any number of handlers and the mutex between them. `Allow` is
two steps: `Refill` gets the mutex, reads the clock, refills the bucket and keeps what
it found (`content`); `Admit` or `Deny` decides on that and gives the mutex back. In
between the clock may go on and others wait. The floats become integers: `Rate`
units per tick come back, a request costs `Cost` units, so the code's rate is
`Rate` × (ticks per second) / `Cost`. Rounding of floats is not modelled. `since`,
`admitted` and `lastAdmit` are history: an observer opens a window at any time, and a
request belongs to the time that `Allow` read for it.

### `Collector` (with `MCCollector`, `CollectorProofs`)

`Collector` keeps the clock reading of `Record` apart from the rest of it, which
runs under the mutex, so timestamps enter out of order; it has the trimming,
the sliding window and algorithm R with every possible random index. A sample is
the number of its outcome; `stamps`, the timestamps ever recorded, is history.

### `Pacer` (with `Percentiles`, `MCPacer`, `PacerProofs`)

From a posted configuration to the ticks of its run. The process reads
`ALLOWED_TARGETS` (`list`, cut at its commas) and `TARGET_BASE_URL` (`base`, as
`url.Parse` sees it) from its environment; `Create` validates the numbers (`Valid`)
and the target (`AllowedTarget`); `Tick` and `Timer` advance the time of the ticker,
whose `Interval` is the integer division of the code. The timer may win over a
tick of the same moment. A host is a name with what its spelling may add, capitals
and blanks, so that lower-casing and trimming do something. `TrafficEngine` takes
over where this module stops: its clock counts these ticks.

`Percentiles` has the rank formula over every size the reservoir passes through;
`Pacer` extends it, and each tick may add an outcome. It uses exact integer
arithmetic: `int(p/100*n + 0.5)` in doubles gives the same ranks for the three
percentiles and all sizes up to 8192.

### `ExperimentService` (with `ExperimentAnswers`, `ExperimentServiceProofs`)

The API process and the store. A run is abstracted to what `ExperimentRun` keeps:
it ends, drains, gets its final number, is written in two steps and published.
The first process starts over the documents of an earlier one (`Old`). `failing`
says whether the store's operations may fail; it is chosen once, so one run covers
the working store, of which more is promised, and the failing one.
`Crash` loses the memory, `Restart` connects or goes on without a store for good.
`Stop`, `Get` and `Metrics` answer from memory or, where the code looks there,
from the store: `Get` what the experiment document says (`Recorded`), `Metrics` with
the numbers of the metrics document if it exists (`Loaded`). The two reads of
`LoadResult` are one step: documents only ever appear, the experiment's first. An
answer's number is `Nil` until the result is published: the counters of the moment,
which a live record of an ended run carries too, are compared with nothing. `List` is two steps, `ListMemory` and `ListHistory`. A
failed write may or may not have reached the database. `known` is what clients
have been told.

`ExperimentAnswers` is what a client may rely on, without registry, phases,
collections or processes: each experiment is something (`truth`), begins once, ends
once and then gets one number; an answer is what it is at that moment, with or
without the number; all of it is kept or nothing, for good; and a death takes it back
to what was kept. `AnswersSpec` instantiates it with `truth <- Truth(id)`, what the run
in memory says or else its document, `durable <- expDocs` and `heard <- known`. The
writes of the metrics, the publication, the lists and a restart are invisible in it.

### `Report` (with `ReportProofs`)

What `Observe` says of the numbers `reportPDF` hands it, as the set of the sentences
it contains (`Observations`); a status code is its class. The numbers come
from a run whose workers tally an outcome (`Tally`) and record it later
(`Record`), from the result captured when no worker holds one (`Capture`), from
the documents of the two writes (`SaveExp`, `SaveMetrics`) after a death
(`Restart`, `Restored`), or, while the run lasts, from two readings
(`CopyRecord`, `Render`). The two counters of the record are copied in one step. The
documents of one write have no rate, and the report made of them says 0.
`captured` is kept after the death as history, to compare the restored report with.

### `LiveView` (with `LiveViewProofs`), `Dashboard`, `ReportView` (with `PagesProofs`)

JavaScript handlers run to their next await, so an action is the code between
two awaits. In `LiveView` an asynchronous call is a record in a slot (start, interval's
poll, stop button) that waits for the server and is answered late, early or with
an error; `timer` is the page's variable, `alive` the browser's intervals. In
`Dashboard` one experiment stands for the list, and `rows` is what the table
shows. The first load of the page is in `Init`. In `ReportView` a call of load or
compare is a slot with the answers to its two or four requests; an answer is
what the experiment was when the server gave it, `since` what it was when the call
began. An experiment is running, ended or final: `ServerFinish` is the change of
its status, `ServerPublish` the publication of its result after drain and save, and an
answer in between is finished with live numbers. A failing `getExperiment` ends a
call at once, a failing `getMetrics` leaves it `Nil` for metrics. Opening the page with a query makes the same calls as its buttons.

Definitions named `Bug...` are no part of any specification: each is the
defective form of the definition after it (a dropped guard, an off-by-one, a
missing reset) that a run must detect.

## 3. Runs

| Run | Bounds | Shows |
|---|---|---|
| Engine | 2 workers, duration 5, clock to 6 | `OneVerdict`, `TerminalStatus`, `FinalAccurate`, `Accounting`, `LoadCap`, `LateBounded`, `NoTokenLost`, the proofs' `IInv`; `RunSpec`, the engine implements `ExperimentRun`; `TimerEnds`, `FinishedIsPublished` |
| PollSafety | 2 workers, duration 2, clock to 3 | `RepliesMonotone`: replies never go back; `SkewBounded`: their counters are ahead of the recorded outcomes by at most one per worker (behind them by any number); the proofs' `PollInv` |
| PollFinishedReplyFinal | 1 worker | violated: a finished reply with live numbers |
| LimiterSafety | 2 handlers, bursts of 2, half a token per tick, clock to 7 | `WindowBound`, `SustainsRate` |
| CollectorSafety | 2 recorders, reservoir 2, window 1, kept 2, 4 outcomes, clock to 5 | `RateExact`, `SamplesSound` |
| Pacing | 2000 time units a second, caps 5 s, 20/s, 2 workers with numbers on both sides, 6 lists, every base address, reservoir 50 | `ListHonoured`, `LoadPlanned`, `RanksSound` |
| Service | 1 old and 1 new experiment, history of 1, 2 deaths; a store that works, or may fail or be missing | `StoreSound`, `PublishedIsStored`, `ListingSound`, `AnswersAgree`, `FinishedPersists`; `AnswersSpec`, the service implements `ExperimentAnswers` |
| Live | 2 experiments, 3 calls, 3 clicks | `OneInterval`, `LastPolls`, `PollingEnds` |
| LivePollsUntilItsEnd | 2 experiments, 2 calls, 3 clicks | violated: a late answer about one experiment ends the polling of another |
| DashboardRefresh | 2 loads, 2 clicks, 1 failure | `OldAnswersRunOut`, `RowsCatchUp` |
| ReportSound | 2 workers, 3 requests, reservoir 2 | `FinalReportAgrees`, `RestoredReportSame`, `LiveReportStands` |
| ReportPage | 2 experiments, one pair of them to compare, 2 loads, 1 comparison, 2 clicks, 1 failure | `NothingOlder`, `LastAskedShown`, `NotesAccounted`, `LoadEnds` |

Every module's type invariant is proved; the run of the limiter checks its own too,
because there it bounds the bucket. The two violations are disagreements
between the code and what the repository says of it; `PROJECT.json` quotes both under `findings`. `LoadCap` with
`LateBounded` is what holds of the duration: after the timer up to three requests
per worker are still sent.

Other divergences the models contain, too plain for a run of their own: the stored
form has no Defense flag, so a defended run is a baseline after a restart and its
report says "unprotected baseline", against "the stored/final result" of
`experiment/service.go:344-346` (`AnswersAgree` has the exception); a dashboard whose
table shows no running row, after a failed load for instance, does not refresh
although an experiment runs, against `web/js/dashboard.js:106`; a report about a
running experiment can state an error rate above 100%, its failures and its total
being read apart; a report restored from the experiment document alone says 0
requests per second (`RestoredReportSame` states it); a rate limit below one request
per second, which the test server accepts, denies every flagged request for good,
against "sustains rate requests/second" (`server/ratelimit.go:35`, theorem
`SmallBucketDeniesCorrect`); "traffic stayed under the rate limit"
(`report/report.go:122`) is printed as well when the test server's limiter is
disabled, and "n/a (non-Linux target)" (`web/js/report.js:78`) when a probe timed
out; a restored result claims as many samples as requests, although the reservoir
ends at 8192; the total
counts requests in flight, against `experiment/metrics.go:79-80`; a torn reply can
carry more failures than requests, so the live page's "error share 0..1"
(`web/js/live.js:51`) can exceed one; the percentile is the rounded, not the nearest
rank (first at 11 samples), against `experiment/metrics.go:114`; a process that
dies between the end of a run and its save forgets a finished experiment, against
`README.md:27`; after a restart `Stop` of a finished experiment is a 404, against
`experiment/service.go:125-126`; and the live page polls a finished experiment once
more, against `context/build-plan.md:77`.

**Why the bounds suffice.** Five intervals with two workers fill the channel of
four and block the loop, leave tokens behind at the end and drop ticks; with three
steps of `fire` between the counters two workers show every overlap of two outcomes.
For a poll two intervals do: its hazard is between the steps of two outcomes, not
in the channel. Two handlers contend for one bucket and its mutex; seven ticks
empty it, refill it past its capacity and let a window begin anywhere. A reservoir of two overflows
at the third outcome, and a window of one with two kept ticks makes trimming
happen with out-of-order timestamps. The store's answers never relate two ids, and
the list needs one old and one new experiment to have more documents than its
history. Rates of 7 and 13 do not divide the pacer's second and 1 and 20 do; five
seconds at 20 a second fill a reservoir of 50, and ranks first differ from the
nearest ones at 11. Three requests of two workers make a report with two kinds of
failure and an outcome in a worker's hand. Two experiments and three calls let a
late answer of the first meet a start of the second. A report page of two loads
shows one overtaking the other, one failure is enough to end a call, and one pair
to compare is all that one comparison needs, its two places being alike. The proofs lift all safety results to all instances.

**Bounds in guards.** `MaxClock` (engine, limiter, collector), `MaxSeen`,
`MaxTotal`, `MaxRequests`, `MaxCrashes`, `HistoryLimit` (50 in the code), `Calls`,
`Loads`, `Compares`, `Pairs`, `MaxClicks`, `Failures`. The MC modules reduce workers, recorders and handlers by
symmetry, in runs without liveness properties only.

**Deadlock** is checked everywhere. Where a component may come to rest there is an explicit
action for it (`Terminated`, `Idle`, `Finished`, `Dead`), enabled only in the state of
rest, or, in `Report`, after the death of the process.

**Fairness.** The engine's goroutines are scheduled and Go's `select` picks a
ready case at random, so a case that stays ready is taken (`SeeCancel` and
`SeeTimer` have their own weak fairness); a request ends within the client's
10 s (`Answer` in `Work`); SaveResult has a 5 s timeout. Nothing forces a `Stop`,
and the clock has no fairness: the liveness properties start from a fired timer or an
ended run. In the service a run's goroutine is fair; restarts and clients are
not. In the pages requests are answered or fail and a live interval fires again;
no click is forced and no experiment need end. In the report page each call has
its own fairness (`Continue`): answers of one call do not wait for another's.

## 4. Proofs

All theorems hold for every value of the constants that satisfies the named
assumptions: `EngineAssumption` (a finite non-empty pool, a positive duration),
`LimiterAssumption` (positive rate, cost and capacity), `CollectorAssumption` (a
reservoir of at least one sample, a window no longer than what is kept),
`PacerAssumption` (the duration's cap times the square of the rate's fits in a
second's time units: 3 * 10^8 of 10^9 in the code), `ServiceAssumption`,
`ReportAssumption`, `LiveViewAssumption`, `ReportViewAssumption` (`Nil` is no value of
another kind, the two kinds of calls are different calls, the pairs compared are
pairs of experiments). TLC evaluates the
assumptions on every run.

**Engine** (`EngineProofs`). The safety properties are not inductive by
themselves. The inductive invariant is `TypeOK` and
`IInv = OneVerdict /\ Accounting /\ Drained /\ Pending /\ Spent`:

* `Drained`: beyond the drain every worker has gone and each result is a
  copy of the record. With `OneVerdict` (no more `Stop` or `finish`) and the
  absence of workers the record stands still, which gives `FinalAccurate`.
* `Pending`: requests counted, workers with a token in hand, tokens in the
  channel, the loop's tick and the waiting tick together are at most the intervals
  passed. `LoadCap` alone does not survive `Count`; it needs to know that the token
  was paid for.
* `Spent`: once completed, the requests sent late and those that can still come
  fit in a full channel and a full pool. `LateBounded` follows.
* `Accounting` is needed with the number of workers at each point of `fire`; lemma
  `CountUpdate` says how such a number changes when one worker moves, and `NumMove`
  specialises it to the model's `Move`.

There is one lemma per part (`VerdictStep`, `AccountingStep`, ...) with one step per
action; `Inductive` puts them together, and `VerdictCorrect`, `AccountingCorrect`,
`LoadCapCorrect`, `LateBoundedCorrect`, `FinalAccurateCorrect` and
`TerminalStatusCorrect` follow. `RefinesRun` proves that every step of the engine is
a step of `ExperimentRun` or leaves its variables alone (`RunStep`).

Three more theorems are about the end of a run. `TimerNotLostCorrect`: once the
duration is over, a run that is still running has its timer's only value in the
channel or in the hand of the loop that goes on to `finish`. `NoTokenLostCorrect`: no
worker returns while a token is buffered. `DrainShrinksCorrect`: `Left` counts the
steps that the pool has still to do, six for a token and up to six for a worker; behind
the closed channel each step of a worker lowers it (`LeftFalls`, from `NumMove` at six
sets of points), nothing raises it, and it never exceeds eighteen per worker
(`LeftType`). So the drain ends after finitely many steps if workers take any, which
is what `FinishedIsPublished` needs beside the fairness.

**Limiter** (`LimiterProofs`). `TypeCorrect`; `MutexCorrect`: one handler at a time is
inside `Allow`, and its reading is the bucket (`OneInside`), which both results need;
`WindowBoundCorrect` from the invariant that admissions in the window plus the
present content are paid by the capacity and the refill since the window opened
(`BudgetStep`); `SustainsRateCorrect` from the invariant that the bucket holds either
its capacity or what came back since the last admission (`RegainedStep`). It has no
hypothesis: a denial is due to a recent admission or to a bucket smaller than one
token. The second case is real, since `NewMux` makes the capacity the rate
(`server/testserver.go:29`) and the test server accepts rates below one request per
second; `SmallBucketDeniesCorrect` proves that every flagged request is denied then.

**Poll** (`EngineProofs`). The poll extends the engine, so the engine's theorems
hold beside it (`EngineInside`), its refinement included (`PollRefinesRun`). `PollInv` adds what a reader needs: `Behind`,
what it has read is not ahead of the engine and what it replied not ahead of what
it reads; `SameVerdict`; `SkewBounded`, which bounds one direction only, for the
view is read last and may be ahead of the counters by any number; and `StillToCome`, which pays the outcomes
missing from a completed reply with tokens and workers. `EngineKeepsPoll` and
`PollKeepsPoll` split the step between engine and reader. `RepliesMonotoneCorrect`
also needs the engine's `FinalAccurate`: the first published reply follows live
ones, and is not behind them because the published result is the record.
`NearFinalCorrect` bounds how unfinished a completed reply can be, which needs more
requests than a run of TLC has room for.

**Collector** (`CollectorProofs`). `RateExact` follows from `KeepsTheEnd`: the kept
timestamps are the last ones ever recorded, and all that was dropped is older than
every later window. Trimming stops at the first timestamp that is young enough;
its existence and what lies before it come from `LeastNumber`. `SamplesSound` is
inductive with the type of the lists.

**Pacer** (`PacerProofs`). `OnTime` says where the ticker stands: the time is the
number of ticks times the interval, and the run ends within an interval of it.
`LoadPlanned` follows with `Division`, what an integer division loses, and the
assumption on the caps, which keeps the loss of all ticks below one interval.
`ListHonoured` says that trimming, lower-casing and dropping blanks keep the names
of a list. `RanksSoundCorrect` holds for any reservoir size.

**Service** (`ExperimentServiceProofs`). `SInv` is a conjunction over the experiments
(`Good`): what each phase of a run has done to the documents (`RunGood`), what the
documents have of it (`StoreGood`), and what clients know against memory, or against the
store when memory is lost (`KnownGood`). An experiment that a step does not touch
stays good (`Untouched`); each action has its lemma. `AnswersAgree` is proved with
the invariant, since the same case split decides what an answer may say. It compares
statuses, final numbers and the flag; a refusal says nothing, so an experiment lost in
a death before its save, or hidden by a process without a store, contradicts nothing.
`ListingSoundCorrect` adds `ListInv`: between its two readings List owes only what
its first part has or what is stored. What is stored stays stored, so the
experiments newer than one only become more (`NewerGrows`).
`DocumentsStayCorrect` says that the upsert of the first write only ever inserts: a
run about to write has no document yet (`RunGood`), and an id has one run.
`PublishedIsStoredCorrect` needs two more facts, each an invariant of its own: with
a store that works every process has one (`WorkingStore`), and a run comes to its
publication through both writes (`SavedStep`).

`RefinesAnswers` proves that every step of the service is a step of
`ExperimentAnswers` or leaves its variables alone (`AnswersStep`), with one lemma per
action: the loop's end is the experiment's unless a `Stop` came first (`EndRunEnds`,
`StopEnds`); `Finalize` settles the number, and the first write keeps what the
experiment then is; a reply of `Get` or `Metrics` is its truth, from memory because
`RunGood` makes the captured result agree with the record, and from the store because
`StoreGood` makes the two documents agree (`GetMetricsAnswer`). What
`AnswersAgree` says of statuses and numbers holds of `ExperimentAnswers` too; of the
flag it says more, that it is lost with the memory only.

**Report** (`ReportProofs`). `RInv` says that the two tallies differ by what the
workers hold (`Balance`), that every result and document is a copy of the one before
it (`Copies`), and that what a reader has is nowhere ahead of the tallies it read
(`Reading`), nor of the result once that is captured, which gives `LiveReportStands`.
`Shares` is the
arithmetic of percentages; `Sentences` says when each sentence is said.

**Live page** (`LiveViewProofs`). `LiveTypeCorrect` needs `Chosen`: a stop button that goes on
to poll has an experiment to poll. `OneInterval` is inductive with the types.
`IntervalsPaidCorrect` counts the starts under way against the clicks (`StartStep`): a
step adds a start for a click, ends one for an interval, or only leaves some away.
`LastPollsCorrect` says that once every experiment is over no poll is answered with
"running" any more, so each poll that ends leaves no interval but those answered before.

**Dashboard and report page** (`PagesProofs`). `Held` is what a call of the report page can
hold, its two or four answers open or given; `ReplyFills` says what an answer does to
it, and `Steps` reduces a step to the beginning or end of a call, one reply, or a
note. `NothingOlder` follows
from `FreshCalls`: each answer a call holds is of the stage at which the call was
begun or of a later one (`From`). `LastAskedShown` follows from `OnlyTheLast`: a load begun alone stays the
only one until the next is asked for. The dashboard is an instance beside it with
the same bounds, `Dash`; `OldAnswersRunOutCorrect` says that behind a finished experiment
each step keeps or uses up the old answers.

**Only model-checked.** Liveness under fairness, since ENABLED and liveness are out of the
prover's reach. For each of the six liveness properties the safety half is proved:

| Liveness, checked by TLC | Safety half, proved |
|---|---|
| `TimerEnds` | `TimerNotLost`: the timer waits until a select takes it |
| `FinishedIsPublished` | `DrainShrinks`: the drain has finitely many steps |
| `FinishedPersists` | `PublishedIsStored`: what gets as far as published is stored |
| `PollingEnds` | `IntervalsPaid`, `LastPolls`: intervals need clicks, late polls end them |
| `RowsCatchUp` | `OldAnswersRunOut`: answers from before the end are used up |
| `LoadEnds` | `NotesAccounted`: a note that says loading has a call under way |

What remains to TLC is that the steps are taken. `TimerNotLost`, `DrainShrinks`, `IntervalsPaid`,
`DocumentsStay`, `NearFinal`, `SmallBucketDenies` and the mutex's `OneInside` are
proved and named in no run. No module uses
RECURSIVE operators.

## 5. What is not modelled

The addresses, bodies and latencies of requests, the average latency and the
report's latency sentences; the decoding of JSON; indexes; the PDF's layout and
the pages' texts and charts; static files and deployment. Process telemetry reads
/proc twice per probe, keeps nothing and yields nulls on any failure; its answer is
only displayed, and the time it takes is the step between two readings of a
metrics reply in `MetricsPoll`. The endpoints of the test server answer or sleep. SaveResult is
never repeated by the code, so the comment on retries (`database/mongodb.go:110-111`)
has no run. The registry never forgets a run; the model's bound on ids stands in its
way. Uniformity of the reservoir is a statement about probabilities, which TLA+
does not make.

## 6. Plan

Done: the engine with its abstract specification, the poll, the limiter, the
collector, the pacer with the allowlist and the percentiles, the service with
its store and the abstract specification of its answers, the report, and the three pages; proofs of all safety results, and of the
safety half of each liveness property.

Left, in this order:

1. The composition of the live page with the poll: what the page keeps on display
   when the engine publishes after the last poll.
2. The reservoir's choices counted at small sizes, as the finite form of its
   uniformity.

## 7. Running

    tlc -workers 2 -config Engine.cfg TrafficEngine
    tlapm EngineProofs.tla

`PROJECT.json` names the module of each configuration.
