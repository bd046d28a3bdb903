--------------------------- MODULE TrafficEngine ---------------------------
(***************************************************************************)
(* One experiment run: Service.execute and the goroutines around it        *)
(* (backend/internal/experiment/service.go).  A pacing loop turns ticker   *)
(* ticks into tokens on a bounded channel, a pool of workers turns tokens  *)
(* into requests, a timer ends the run as "completed", Stop (called from   *)
(* an HTTP handler at any moment) ends it as "stopped", and the result is  *)
(* captured, saved and published once the pool has drained.                *)
(*                                                                         *)
(* The clock counts ticker intervals.  Requests themselves, addresses and  *)
(* latencies are abstracted: a request is a worker in state "flight".      *)
(*                                                                         *)
(* A definition named Bug... is no part of the specification: it is the    *)
(* defective form of the definition after it that some run must detect.    *)
(***************************************************************************)
EXTENDS Integers, FiniteSets

CONSTANTS
  Workers,   \* the goroutines of the pool (Config.Workers of them)
  Duration,  \* ticker intervals in DurationSeconds
  MaxClock,  \* bound: the clock of the model stops here
  Nil        \* Go's nil

ASSUME EngineAssumption ==
  /\ IsFiniteSet(Workers)
  /\ Workers # {}
  /\ Duration \in Nat \ {0}
  /\ MaxClock \in Nat
  /\ Duration <= MaxClock
  /\ Nil \notin Nat

VARIABLES
  clock,     \* ticker intervals since the run began
  tickC,     \* a tick waits in ticker.C, which holds at most one
  timerC,    \* the duration timer's value waits in timer.C
  exp,       \* r.exp: status, completion time and the atomic counters
  ctxDone,   \* the run's context is cancelled
  loop,      \* where the pacing goroutine is in execute
  tokens,    \* tokens buffered in the channel
  worker,    \* where each worker goroutine is in fire
  seen,      \* r.metrics.seen: outcomes recorded
  late,      \* history: requests sent after the status left "running"
  captured,  \* execute's local variable final
  saved,     \* what the store holds for this run
  final      \* r.final

timers == <<clock, tickC, timerC>>
record == <<exp, ctxDone>>
pacer  == <<loop, tokens>>
pool   == <<worker, seen, late>>
ending == <<captured, saved, final>>
vars   == <<timers, record, pacer, pool, ending>>

Statuses  == {"running", "completed", "stopped"}
LoopPCs   == {"select", "send", "completed", "stopped",
              "drain", "save", "publish", "done"}
WorkerPCs == {"recv", "fire", "ready", "flight", "ok", "bad", "record", "exit"}

\* cap(tokens)
Capacity == 2 * Cardinality(Workers)

\* The workers at one of the points of S.
At(S) == {w \in Workers : worker[w] \in S}
Num(S) == Cardinality(At(S))

\* The record once finish or Stop has ended the run.
Ended(status) == [exp EXCEPT !.status = status, !.completedAt = clock]

\* The loop has passed close(tokens).
Closed == loop \in {"drain", "save", "publish", "done"}

Init ==
  /\ clock = 0 /\ tickC = FALSE /\ timerC = FALSE
  /\ exp = [status |-> "running", completedAt |-> Nil,
            total |-> 0, successful |-> 0, failed |-> 0]
  /\ ctxDone = FALSE
  /\ loop = "select" /\ tokens = 0
  /\ worker = [w \in Workers |-> "recv"]
  /\ seen = 0 /\ late = 0
  /\ captured = Nil /\ saved = Nil /\ final = Nil

-----------------------------------------------------------------------------
(* The runtime's timers.  A tick that finds the channel full is dropped.   *)

Tick ==
  /\ clock < MaxClock /\ loop # "done"
  /\ clock' = clock + 1
  /\ tickC' = TRUE
  /\ timerC' = (timerC \/ clock' = Duration)
  /\ UNCHANGED <<record, pacer, pool, ending>>

-----------------------------------------------------------------------------
(* The pacing loop: outer select ("select"), nested select ("send"), the   *)
(* calls of finish ("completed", "stopped": its argument), then the tail.  *)

BugTakeTick ==
  /\ loop = "select" /\ tickC
  /\ loop' = "send"
  /\ UNCHANGED <<timers, record, tokens, pool, ending>>

TakeTick ==
  /\ loop = "select" /\ tickC
  /\ tickC' = FALSE
  /\ loop' = "send"
  /\ UNCHANGED <<clock, timerC, record, tokens, pool, ending>>

Enqueue ==
  /\ loop = "send" /\ tokens < Capacity
  /\ tokens' = tokens + 1
  /\ loop' = "select"
  /\ UNCHANGED <<timers, record, pool, ending>>

SeeCancel ==
  /\ loop \in {"select", "send"} /\ ctxDone
  /\ loop' = "stopped"
  /\ UNCHANGED <<timers, record, tokens, pool, ending>>

BugSeeTimer ==
  /\ loop = "send" /\ timerC
  /\ timerC' = FALSE
  /\ loop' = "completed"
  /\ UNCHANGED <<clock, tickC, record, tokens, pool, ending>>

SeeTimer ==
  /\ loop \in {"select", "send"} /\ timerC
  /\ timerC' = FALSE
  /\ loop' = "completed"
  /\ UNCHANGED <<clock, tickC, record, tokens, pool, ending>>

BugFinish ==
  /\ loop \in {"completed", "stopped"}
  /\ exp' = Ended(loop)
  /\ loop' = "drain"
  /\ UNCHANGED <<timers, ctxDone, tokens, pool, ending>>

BugFinishLoop ==
  /\ loop \in {"completed", "stopped"}
  /\ exp' = IF exp.status = "running"
            THEN Ended(loop) ELSE exp
  /\ loop' = "select"
  /\ UNCHANGED <<timers, ctxDone, tokens, pool, ending>>

\* finish(r, status) under the write lock, then break loop and close(tokens).
Finish ==
  /\ loop \in {"completed", "stopped"}
  /\ exp' = IF exp.status = "running"
            THEN Ended(loop) ELSE exp
  /\ loop' = "drain"
  /\ UNCHANGED <<timers, ctxDone, tokens, pool, ending>>

Result == [exp |-> exp, seen |-> seen]

BugFinalize ==
  /\ loop = "drain"
  /\ captured' = Result
  /\ loop' = "save"
  /\ UNCHANGED <<timers, record, tokens, pool, saved, final>>

\* wg.Wait(), then finalize: with the pool gone and the status final, its
\* snapshot and its metrics view see one and the same state.
Finalize ==
  /\ loop = "drain" /\ At({"exit"}) = Workers
  /\ captured' = Result
  /\ loop' = "save"
  /\ UNCHANGED <<timers, record, tokens, pool, saved, final>>

\* SaveResult within its 5 s: the store is nil, fails or takes the result.
Save ==
  /\ loop = "save"
  /\ saved' \in {saved, captured}
  /\ loop' = "publish"
  /\ UNCHANGED <<timers, record, tokens, pool, captured, final>>

\* r.final = &final; the deferred calls stop the timers and close done.
Publish ==
  /\ loop = "publish"
  /\ final' = captured
  /\ loop' = "done"
  /\ UNCHANGED <<timers, record, tokens, pool, captured, saved>>

-----------------------------------------------------------------------------
(* Service.Stop, from any handler goroutine.  Status and cancel change     *)
(* under one write lock, so that a reader sees both or neither.            *)

BugStop ==
  /\ ~ctxDone
  /\ exp' = Ended("stopped")
  /\ ctxDone' = TRUE
  /\ UNCHANGED <<timers, pacer, pool, ending>>

Stop ==
  /\ exp.status = "running"
  /\ exp' = Ended("stopped")
  /\ ctxDone' = TRUE
  /\ UNCHANGED <<timers, pacer, pool, ending>>

-----------------------------------------------------------------------------
(* A worker: for range tokens { fire }.                                    *)

Move(w, from, to) ==
  /\ worker[w] = from
  /\ worker' = [worker EXCEPT ![w] = to]

BugReceive(w) ==
  /\ Move(w, "recv", "fire")
  /\ tokens' = tokens - 1
  /\ UNCHANGED <<timers, record, loop, seen, late, ending>>

Receive(w) ==
  /\ tokens > 0
  /\ Move(w, "recv", "fire")
  /\ tokens' = tokens - 1
  /\ UNCHANGED <<timers, record, loop, seen, late, ending>>

BugLeave(w) ==
  /\ Closed
  /\ Move(w, "recv", "exit")
  /\ UNCHANGED <<timers, record, pacer, seen, late, ending>>

\* The channel is closed and drained: the worker returns.
Leave(w) ==
  /\ Closed /\ tokens = 0
  /\ Move(w, "recv", "exit")
  /\ UNCHANGED <<timers, record, pacer, seen, late, ending>>

\* fire counts the request before it exists.
Count(w) ==
  /\ Move(w, "fire", "ready")
  /\ exp' = [exp EXCEPT !.total = @ + 1]
  /\ UNCHANGED <<timers, ctxDone, pacer, seen, late, ending>>

BugSend(w) ==
  /\ Move(w, "ready", "flight")
  /\ late' = IF exp.status = "running" THEN late ELSE late + 1
  /\ UNCHANGED <<timers, record, pacer, seen, ending>>

\* The request is on its way: a real request, with the run's context alive.
\* Do's check of the context is taken as the moment it leaves; one past the
\* check may reach the wire just after a Stop.
Send(w) ==
  /\ ~ctxDone
  /\ Move(w, "ready", "flight")
  /\ late' = IF exp.status = "running" THEN late ELSE late + 1
  /\ UNCHANGED <<timers, record, pacer, seen, ending>>

\* It cannot be built, or Do refuses it unsent (a cancelled context, no
\* connection).
Refuse(w) ==
  /\ Move(w, "ready", "bad")
  /\ UNCHANGED <<timers, record, pacer, seen, late, ending>>

\* A 2xx answer, or any other answer, a cancellation or the 10 s timeout.
Answer(w) ==
  /\ \E outcome \in {"ok", "bad"} : Move(w, "flight", outcome)
  /\ UNCHANGED <<timers, record, pacer, seen, late, ending>>

BugTally(w) ==
  /\ \/ Move(w, "ok", "record") /\ exp' = [exp EXCEPT !.successful = @ + 1]
     \/ Move(w, "bad", "record") /\ exp' = exp
  /\ UNCHANGED <<timers, ctxDone, pacer, seen, late, ending>>

Tally(w) ==
  /\ \/ Move(w, "ok", "record") /\ exp' = [exp EXCEPT !.successful = @ + 1]
     \/ Move(w, "bad", "record") /\ exp' = [exp EXCEPT !.failed = @ + 1]
  /\ UNCHANGED <<timers, ctxDone, pacer, seen, late, ending>>

BugRecord(w) ==
  /\ Move(w, "record", "recv")
  /\ seen' \in {seen, seen + 1}
  /\ UNCHANGED <<timers, record, pacer, late, ending>>

\* metrics.Record under the collector's own mutex.
Record(w) ==
  /\ Move(w, "record", "recv")
  /\ seen' = seen + 1
  /\ UNCHANGED <<timers, record, pacer, late, ending>>

-----------------------------------------------------------------------------

Pace == TakeTick \/ Enqueue \/ SeeCancel \/ SeeTimer
Tail == Finish \/ Finalize \/ Save \/ Publish
Work(w) == \/ Receive(w) \/ Leave(w) \/ Count(w) \/ Send(w) \/ Refuse(w)
           \/ Answer(w) \/ Tally(w) \/ Record(w)

\* The run is over and its goroutines are gone.
Terminated == loop = "done" /\ UNCHANGED vars

Next == \/ Tick \/ Pace \/ Tail \/ Stop
        \/ \E w \in Workers : Work(w)
        \/ Terminated

Spec == Init /\ [][Next]_vars

(***************************************************************************)
(* The goroutines are scheduled, a ready channel of a select is picked at  *)
(* random and so eventually, and a request ends within the client's 10 s.  *)
(* Nothing forces a Stop, and the clock carries no fairness: the liveness  *)
(* properties start from a timer that has fired or a status that changed.  *)
(***************************************************************************)
Fairness ==
  /\ WF_vars(SeeCancel) /\ WF_vars(SeeTimer) /\ WF_vars(Pace)
  /\ WF_vars(Tail)
  /\ \A w \in Workers : WF_vars(Work(w))

FairSpec == Spec /\ Fairness

-----------------------------------------------------------------------------

Experiments == [status : Statuses, completedAt : Nat \cup {Nil},
                total : Nat, successful : Nat, failed : Nat]
Results == [exp : Experiments, seen : Nat]

TypeOK ==
  /\ clock \in Nat /\ tickC \in BOOLEAN /\ timerC \in BOOLEAN
  /\ exp \in Experiments /\ ctxDone \in BOOLEAN
  /\ loop \in LoopPCs /\ tokens \in 0..Capacity
  /\ worker \in [Workers -> WorkerPCs]
  /\ seen \in Nat /\ late \in Nat
  /\ captured \in Results \cup {Nil}
  /\ saved \in Results \cup {Nil}
  /\ final \in Results \cup {Nil}

(***************************************************************************)
(* The timer and Stop race for the verdict, and one of them wins for good: *)
(* the context is cancelled exactly when the status says "stopped", and    *)
(* whenever the loop calls finish because of a cancellation the status is  *)
(* already "stopped" ("finish() becomes a no-op", service.go:140).         *)
(***************************************************************************)
OneVerdict ==
  /\ ctxDone <=> exp.status = "stopped"
  /\ loop = "stopped" => exp.status = "stopped"
  /\ Closed => exp.status # "running"
  /\ exp.status = "completed" => Closed
  /\ exp.status = "running" <=> exp.completedAt = Nil

(***************************************************************************)
(* A finished run keeps its status and its completion time, whatever Stop, *)
(* finish and the timer do afterwards (service.go:136-143, 314-319).       *)
(***************************************************************************)
TerminalStatus ==
  [][exp.status # "running" =>
       /\ exp'.status = exp.status
       /\ exp'.completedAt = exp.completedAt]_vars

(***************************************************************************)
(* "Workers drained: counters are final" (service.go:244): what is         *)
(* captured, saved or published equals the record at every later moment,   *)
(* and its three tallies agree although three places keep them.            *)
(***************************************************************************)
FinalAccurate ==
  \A r \in {captured, saved, final} \ {Nil} :
    /\ r = Result
    /\ r.exp.status # "running"
    /\ r.exp.total = r.exp.successful + r.exp.failed
    /\ r.exp.total = r.seen

(***************************************************************************)
(* At every moment a counted request is tallied once or is in the hands of *)
(* one worker, and a tallied one is recorded once or about to be: no       *)
(* outcome is lost or counted twice between fire's atomic counters and the *)
(* collector (service.go:281-309).                                         *)
(***************************************************************************)
Accounting ==
  /\ exp.total = exp.successful + exp.failed
                   + Num({"ready", "flight", "ok", "bad"})
  /\ exp.successful + exp.failed = seen + Num({"record"})

(***************************************************************************)
(* The load cap: never more requests than ticker intervals passed, however *)
(* ticks, tokens and workers interleave (service.go:203-238).              *)
(***************************************************************************)
LoadCap == exp.total <= clock

(***************************************************************************)
(* After a Stop no further request leaves the host, whatever the channel   *)
(* still holds.  After the timer the buffered tokens are still spent, at   *)
(* most a full channel and one request per worker (service.go:223-242).    *)
(***************************************************************************)
LateBounded ==
  /\ exp.status = "stopped" => late = 0
  /\ late <= 3 * Cardinality(Workers)

(***************************************************************************)
(* When the duration is over the run leaves "running", even with a full    *)
(* channel and every worker waiting for an answer (service.go:225, 234).   *)
(***************************************************************************)
TimerEnds == timerC ~> exp.status # "running"

(***************************************************************************)
(* The safety half of it: the timer's only value is not lost between the   *)
(* two selects.  While a run outlives its duration, the value waits in the *)
(* channel or the loop that took it is about to call finish                *)
(* (service.go:218-236).                                                   *)
(***************************************************************************)
TimerNotLost ==
  clock >= Duration /\ exp.status = "running" => timerC \/ loop = "completed"

(***************************************************************************)
(* A run whose status is terminal publishes its result: the drain ends and *)
(* nobody waits for good (service.go:241-258).                             *)
(***************************************************************************)
FinishedIsPublished == exp.status # "running" ~> final # Nil

(***************************************************************************)
(* The safety half of it.  Left is what the pool has still to do, a token  *)
(* counting for six steps of the worker that takes it; once the channel is *)
(* closed every step of a worker takes some of it and nothing adds to it,  *)
(* so the drain is over after at most eighteen steps per worker            *)
(* (service.go:207-215, 241-242).                                          *)
(***************************************************************************)
Left == 6 * tokens + Num({"fire"}) + Num({"fire", "ready"})
          + Num({"fire", "ready", "flight"})
          + Num(WorkerPCs \ {"record", "recv", "exit"})
          + Num(WorkerPCs \ {"recv", "exit"}) + Num(WorkerPCs \ {"exit"})

DrainShrinks ==
  [][Closed => /\ Closed' /\ Left' <= Left
               /\ Left <= 18 * Cardinality(Workers)
               /\ worker' # worker => Left' < Left]_vars

(***************************************************************************)
(* No token is lost: a worker returns only from a closed and empty         *)
(* channel, so a captured result counts the request of every token that    *)
(* was ever sent (service.go:210-214, 241-244).                            *)
(***************************************************************************)
NoTokenLost ==
  /\ At({"exit"}) # {} => Closed /\ tokens = 0
  /\ loop \in {"save", "publish", "done"} => tokens = 0

(***************************************************************************)
(* The inductive invariant behind the safety properties.  Drained: beyond  *)
(* the drain nothing runs, and the results are copies of the record.       *)
(* Pending: every token, every tick in hand and every counted request is   *)
(* paid for by an interval.  Spent: once completed, the requests still to  *)
(* come and those sent late fit in a full channel and a full pool.         *)
(***************************************************************************)
Drained ==
  IF loop \in {"save", "publish", "done"}
  THEN At({"exit"}) = Workers /\ captured = Result
       /\ saved \in {Nil, captured} /\ final \in {Nil, captured}
  ELSE captured = Nil /\ saved = Nil /\ final = Nil

One(b) == IF b THEN 1 ELSE 0

Pending == exp.total + Num({"fire"}) + tokens + One(loop = "send") + One(tickC)
             <= clock

Spent ==
  /\ exp.status # "completed" => late = 0
  /\ exp.status = "completed" =>
       late + tokens + Num({"fire", "ready"}) <= 3 * Cardinality(Workers)

IInv == OneVerdict /\ Accounting /\ Drained /\ Pending /\ Spent

(***************************************************************************)
(* The engine keeps the promises of ExperimentRun: its published result is *)
(* the run's final status and count, and the run is at rest from then on.  *)
(***************************************************************************)
Published == IF final = Nil THEN Nil
             ELSE [status |-> final.exp.status, total |-> final.exp.total]

Run == INSTANCE ExperimentRun WITH
  status <- exp.status, fired <- exp.total, settled <- seen,
  result <- Published

RunSpec == Run!Spec
=============================================================================
