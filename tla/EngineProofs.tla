---------------------------- MODULE EngineProofs ----------------------------
(***************************************************************************)
(* Proofs about TrafficEngine, and about MetricsPoll beside it, for every  *)
(* pool, duration and clock bound.                                         *)
(***************************************************************************)
EXTENDS MetricsPoll, FiniteSetTheorems, TLAPS

(***************************************************************************)
(* Counting the workers at a set of points of fire: a subset of a finite   *)
(* pool, and it changes by the worker that moves.                          *)
(***************************************************************************)
LEMMA CountUpdate ==
  ASSUME NEW W, IsFiniteSet(W), NEW PC, NEW f \in [W -> PC],
         NEW w \in W, NEW to, NEW S
  PROVE  Cardinality({v \in W : [f EXCEPT ![w] = to][v] \in S})
           = Cardinality({v \in W : f[v] \in S})
               + One(to \in S) - One(f[w] \in S)
<1> DEFINE g == [f EXCEPT ![w] = to]
           A == {v \in W : f[v] \in S}
           B == {v \in W : g[v] \in S}
<1>1. A \subseteq W /\ (w \in A <=> f[w] \in S)
  OBVIOUS
<1>2. B = IF to \in S THEN (A \ {w}) \cup {w} ELSE A \ {w}
  OBVIOUS
<1> HIDE DEF A, B
<1>3. IsFiniteSet(A) /\ Cardinality(A) \in Nat
  BY <1>1, FS_Subset, FS_CardinalityType
<1>4. /\ IsFiniteSet(A \ {w})
      /\ Cardinality(A \ {w}) = Cardinality(A) - One(f[w] \in S)
  BY <1>1, <1>3, FS_RemoveElement DEF One
<1>5. Cardinality(B) = Cardinality(A \ {w}) + One(to \in S)
  <2>1. CASE to \in S
    <3>1. w \notin A \ {w}
      OBVIOUS
    <3>2. Cardinality((A \ {w}) \cup {w}) = Cardinality(A \ {w}) + 1
      BY <1>4, <3>1, FS_AddElement
    <3> QED
      BY <1>2, <2>1, <3>2 DEF One
  <2>2. CASE to \notin S
    BY <1>2, <1>3, <1>4, <2>2 DEF One
  <2> QED
    BY <2>1, <2>2
<1> QED
  BY <1>3, <1>4, <1>5 DEF A, B, One

(* The pool has a size. *)
LEMMA PoolSize == Cardinality(Workers) \in Nat
BY EngineAssumption, FS_CardinalityType

(* So has every set of workers at some points. *)
LEMMA NumType ==
  ASSUME NEW S
  PROVE  Num(S) \in Nat /\ Num(S) <= Cardinality(Workers)
BY EngineAssumption, FS_Subset, FS_CardinalityType DEF Num, At

(* A move changes a count by the points it leaves and enters. *)
LEMMA NumMove ==
  ASSUME TypeOK, NEW w \in Workers, NEW from, NEW to, NEW S,
         Move(w, from, to)
  PROVE  Num(S)' = Num(S) + One(to \in S) - One(from \in S)
<1>1. worker \in [Workers -> WorkerPCs] /\ IsFiniteSet(Workers)
  BY EngineAssumption DEF TypeOK
<1>2. Cardinality({v \in Workers : [worker EXCEPT ![w] = to][v] \in S})
        = Cardinality({v \in Workers : worker[v] \in S})
            + One(to \in S) - One(worker[w] \in S)
  BY <1>1, CountUpdate
<1>3. worker[w] = from /\ worker' = [worker EXCEPT ![w] = to]
  BY DEF Move
<1> QED
  BY <1>2, <1>3 DEF Num, At

(* A count stands still with the workers. *)
LEMMA NumSame ==
  ASSUME UNCHANGED worker, NEW S
  PROVE  Num(S)' = Num(S)
BY DEF Num, At
-----------------------------------------------------------------------------

(* The types hold at first. *)
LEMMA TypeInit ==
  ASSUME Init
  PROVE  TypeOK
<1> USE DEF Statuses, LoopPCs, WorkerPCs
<1>1. exp \in Experiments
  BY DEF Init, Experiments
<1>2. tokens \in 0..Capacity
  BY PoolSize DEF Init, Capacity
<1> QED
  BY <1>1, <1>2 DEF Init, TypeOK

(* The same along every step. *)
LEMMA TypeStep ==
  ASSUME TypeOK, [Next]_vars
  PROVE  TypeOK'
<1> USE DEF Statuses, LoopPCs, WorkerPCs
<1>0. Cardinality(Workers) \in Nat
  BY PoolSize
<1> USE DEF TypeOK, timers, record, pacer, pool, ending
<1>1. CASE Tick
  BY <1>1 DEF Tick, Capacity
<1>2. CASE Pace
  <2>1. CASE TakeTick
    BY <2>1 DEF TakeTick, Capacity
  <2>2. CASE Enqueue
    BY <1>0, <2>2 DEF Enqueue, Capacity
  <2>3. CASE SeeCancel \/ SeeTimer
    BY <2>3 DEF SeeCancel, SeeTimer, Capacity
  <2> QED
    BY <1>2, <2>1, <2>2, <2>3 DEF Pace
<1>3. CASE Tail
  <2>1. CASE Finish
    BY <2>1 DEF Finish, Ended, Experiments, Capacity
  <2>2. CASE Finalize
    BY <2>2 DEF Finalize, Result, Results, Capacity
  <2>3. CASE Save
    BY <2>3 DEF Save, Capacity
  <2>4. CASE Publish
    BY <2>4 DEF Publish, Capacity
  <2> QED
    BY <1>3, <2>1, <2>2, <2>3, <2>4 DEF Tail
<1>4. CASE Stop
  BY <1>4 DEF Stop, Ended, Experiments, Capacity
<1>5. ASSUME NEW w \in Workers, Work(w) PROVE TypeOK'
  <2>1. CASE Receive(w)
    BY <1>0, <2>1 DEF Receive, Move, Capacity
  <2>2. CASE Leave(w) \/ Send(w) \/ Refuse(w) \/ Answer(w)
    BY <2>2 DEF Leave, Send, Refuse, Answer, Move, Capacity
  <2>3. CASE Count(w) \/ Tally(w) \/ Record(w)
    BY <2>3 DEF Count, Tally, Record, Move, Experiments, Capacity
  <2> QED
    BY <1>5, <2>1, <2>2, <2>3 DEF Work
<1>6. CASE UNCHANGED vars
  BY <1>6 DEF vars, Capacity
<1> QED
  BY <1>1, <1>2, <1>3, <1>4, <1>5, <1>6 DEF Next, Terminated

(* Every variable keeps its type in every reachable state. *)
THEOREM TypeCorrect == Spec => []TypeOK
<1>1. Init => TypeOK
  BY TypeInit
<1>2. TypeOK /\ [Next]_vars => TypeOK'
  BY TypeStep
<1> QED
  BY <1>1, <1>2, PTL DEF Spec

-----------------------------------------------------------------------------

(* OneVerdict: only finish and Stop touch the status or the context. *)
LEMMA VerdictStep ==
  ASSUME TypeOK, OneVerdict, [Next]_vars
  PROVE  OneVerdict'
<1> USE DEF TypeOK, OneVerdict, Experiments, Closed, Statuses, LoopPCs,
            timers, record, pacer, pool, ending
<1>1. CASE Tick
  BY <1>1 DEF Tick
<1>2. CASE Pace
  BY <1>2 DEF Pace, TakeTick, Enqueue, SeeCancel, SeeTimer
<1>3. CASE Finish
  BY <1>3, EngineAssumption DEF Finish, Ended
<1>4. CASE Finalize \/ Save \/ Publish
  BY <1>4 DEF Finalize, Save, Publish
<1>5. CASE Stop
  BY <1>5, EngineAssumption DEF Stop, Ended
<1>6. ASSUME NEW w \in Workers, Work(w) PROVE OneVerdict'
  <2>1. loop' = loop /\ ctxDone' = ctxDone
    BY <1>6 DEF Work, Receive, Leave, Count, Send, Refuse, Answer, Tally, Record
  <2>2. exp'.status = exp.status /\ exp'.completedAt = exp.completedAt
    BY <1>6 DEF Work, Receive, Leave, Count, Send, Refuse, Answer, Tally, Record
  <2> QED
    BY <2>1, <2>2
<1>7. CASE UNCHANGED vars
  BY <1>7 DEF vars
<1> QED
  BY <1>1, <1>2, <1>3, <1>4, <1>5, <1>6, <1>7 DEF Next, Tail, Terminated

\* The points of fire between counting a request and tallying its outcome.
Busy == {"ready", "flight", "ok", "bad"}

(***************************************************************************)
(* Accounting: a step of a worker moves one unit between the counters and  *)
(* the workers at the points in between; nothing else touches either.      *)
(***************************************************************************)
LEMMA AccountingStep ==
  ASSUME TypeOK, Accounting, [Next]_vars
  PROVE  Accounting'
<1> USE DEF timers, record, pacer, pool, ending
<1>a. /\ exp.total \in Nat /\ exp.successful \in Nat /\ exp.failed \in Nat
      /\ exp \in Experiments /\ seen \in Nat
  BY DEF TypeOK, Experiments
<1>b. Num(Busy) \in Nat /\ Num({"record"}) \in Nat
  BY NumType
<1>c. /\ exp.total = exp.successful + exp.failed + Num(Busy)
      /\ exp.successful + exp.failed = seen + Num({"record"})
  BY DEF Accounting, Busy
<1>d. SUFFICES /\ exp'.total = exp'.successful + exp'.failed + Num(Busy)'
               /\ exp'.successful + exp'.failed = seen' + Num({"record"})'
  BY DEF Accounting, Busy
<1>1. CASE Tick \/ Pace \/ Tail \/ Stop \/ UNCHANGED vars
  <2>1. worker' = worker /\ seen' = seen
    BY <1>1 DEF Tick, Pace, TakeTick, Enqueue, SeeCancel, SeeTimer, Tail,
       Finish, Finalize, Save, Publish, Stop, vars
  <2>2. /\ exp'.total = exp.total /\ exp'.successful = exp.successful
        /\ exp'.failed = exp.failed
    BY <1>a, <1>1 DEF Tick, Pace, TakeTick, Enqueue, SeeCancel, SeeTimer, Tail,
       Finish, Finalize, Save, Publish, Stop, vars, Ended, Experiments
  <2>3. Num(Busy)' = Num(Busy) /\ Num({"record"})' = Num({"record"})
    BY <2>1, NumSame
  <2> QED
    BY <1>c, <2>1, <2>2, <2>3
<1>2. ASSUME NEW w \in Workers, Work(w)
      PROVE  /\ exp'.total = exp'.successful + exp'.failed + Num(Busy)'
             /\ exp'.successful + exp'.failed = seen' + Num({"record"})'
  <2>m. ASSUME NEW from, NEW to, Move(w, from, to)
        PROVE  /\ Num(Busy)' = Num(Busy) + One(to \in Busy) - One(from \in Busy)
               /\ Num({"record"})' = Num({"record"}) + One(to \in {"record"})
                                       - One(from \in {"record"})
    BY <2>m, NumMove
  <2>1. CASE Receive(w) \/ Leave(w)
    <3>1. exp' = exp /\ seen' = seen
      BY <2>1 DEF Receive, Leave
    <3>2. Num(Busy)' = Num(Busy) /\ Num({"record"})' = Num({"record"})
      BY <2>1, <2>m, <1>b DEF Receive, Leave, Busy, One
    <3> QED
      BY <1>c, <3>1, <3>2
  <2>2. CASE Send(w) \/ Refuse(w) \/ Answer(w)
    <3>1. exp' = exp /\ seen' = seen
      BY <2>2 DEF Send, Refuse, Answer
    <3>2. Num(Busy)' = Num(Busy) /\ Num({"record"})' = Num({"record"})
      BY <2>2, <2>m, <1>b DEF Send, Refuse, Answer, Busy, One
    <3> QED
      BY <1>c, <3>1, <3>2
  <2>3. CASE Count(w)
    <3>1. Num(Busy)' = Num(Busy) + 1 /\ Num({"record"})' = Num({"record"})
      BY <2>3, <2>m, <1>b DEF Count, Busy, One
    <3>2. /\ exp'.total = exp.total + 1 /\ exp'.successful = exp.successful
          /\ exp'.failed = exp.failed /\ seen' = seen
      BY <2>3, <1>a DEF Count, Experiments
    <3> QED
      BY <1>a, <1>b, <1>c, <3>1, <3>2
  <2>4. CASE Tally(w)
    <3>1. Num(Busy)' = Num(Busy) - 1 /\ Num({"record"})' = Num({"record"}) + 1
      BY <2>4, <2>m, <1>b DEF Tally, Busy, One
    <3>2. /\ exp'.total = exp.total /\ seen' = seen
          /\ exp'.successful + exp'.failed = exp.successful + exp.failed + 1
      BY <2>4, <1>a DEF Tally, Experiments
    <3> QED
      BY <1>a, <1>b, <1>c, <3>1, <3>2
  <2>5. CASE Record(w)
    <3>1. Num(Busy)' = Num(Busy) /\ Num({"record"})' = Num({"record"}) - 1
      BY <2>5, <2>m, <1>b DEF Record, Busy, One
    <3>2. exp' = exp /\ seen' = seen + 1
      BY <2>5 DEF Record
    <3> QED
      BY <1>a, <1>b, <1>c, <3>1, <3>2
  <2> QED
    BY <1>2, <2>1, <2>2, <2>3, <2>4, <2>5 DEF Work
<1> QED
  BY <1>1, <1>2 DEF Next, Terminated

(***************************************************************************)
(* Drained: before the pool has gone there is no result; after it has, no  *)
(* worker can move and no Stop is accepted, so the record stands still.    *)
(***************************************************************************)
LEMMA DrainedStep ==
  ASSUME TypeOK, OneVerdict, Drained, [Next]_vars
  PROVE  Drained'
<1> USE DEF timers, record, pacer, pool, ending
<1>1. CASE Tick \/ Pace \/ Stop \/ UNCHANGED vars
  BY <1>1 DEF Tick, Pace, TakeTick, Enqueue, SeeCancel, SeeTimer, Stop, vars,
     Drained, Result, At, OneVerdict, Closed
<1>2. CASE Finish
  BY <1>2 DEF Finish, Drained
<1>3. CASE Finalize
  BY <1>3 DEF Finalize, Drained, Result, At
<1>4. CASE Save
  BY <1>4 DEF Save, Drained, Result, At
<1>5. CASE Publish
  BY <1>5 DEF Publish, Drained, Result, At
<1>6. ASSUME NEW w \in Workers, Work(w) PROVE Drained'
  <2>1. loop' = loop /\ worker[w] # "exit" /\ UNCHANGED ending
    BY <1>6 DEF Work, Receive, Leave, Count, Send, Refuse, Answer, Tally,
       Record, Move
  <2>2. loop \notin {"save", "publish", "done"}
    BY <2>1 DEF Drained, At
  <2> QED
    BY <2>1, <2>2 DEF Drained
<1> QED
  BY <1>1, <1>2, <1>3, <1>4, <1>5, <1>6 DEF Next, Tail, Terminated

(***************************************************************************)
(* Pending: a tick is worth one interval, and it changes hands without     *)
(* being copied: ticker channel, loop, token channel, worker, counter.     *)
(***************************************************************************)
LEMMA PendingStep ==
  ASSUME TypeOK, Pending, [Next]_vars
  PROVE  Pending'
<1> USE DEF timers, record, pacer, pool, ending, One
<1> DEFINE F == Num({"fire"})
<1>a. /\ exp.total \in Nat /\ exp \in Experiments
      /\ tokens \in Nat /\ clock \in Nat
  BY PoolSize DEF TypeOK, Experiments, Capacity
<1>b. F \in Nat
  BY NumType
<1>c. exp.total + F + tokens + One(loop = "send") + One(tickC) <= clock
  BY DEF Pending
<1>d. SUFFICES exp'.total + F' + tokens' + One(loop' = "send") + One(tickC')
                 <= clock'
  BY DEF Pending
<1> HIDE DEF F
<1>1. CASE Tick \/ Pace \/ Tail \/ Stop \/ UNCHANGED vars
  <2>1. worker' = worker
    BY <1>1 DEF Tick, Pace, TakeTick, Enqueue, SeeCancel, SeeTimer, Tail,
       Finish, Finalize, Save, Publish, Stop, vars
  <2>2. F' = F
    BY <2>1, NumSame DEF F
  <2>3. exp'.total = exp.total
    BY <1>a, <1>1 DEF Tick, Pace, TakeTick, Enqueue, SeeCancel, SeeTimer, Tail,
       Finish, Finalize, Save, Publish, Stop, vars, Ended, Experiments
  <2>4. CASE Tick
    BY <1>a, <1>b, <1>c, <2>2, <2>3, <2>4 DEF Tick
  <2>5. CASE TakeTick
    BY <1>a, <1>b, <1>c, <2>2, <2>3, <2>5 DEF TakeTick
  <2>6. CASE Enqueue
    BY <1>a, <1>b, <1>c, <2>2, <2>3, <2>6 DEF Enqueue
  <2>7. CASE SeeCancel \/ SeeTimer \/ Tail
    BY <1>a, <1>b, <1>c, <2>2, <2>3, <2>7
       DEF SeeCancel, SeeTimer, Tail, Finish, Finalize, Save, Publish
  <2>8. CASE Stop \/ UNCHANGED vars
    BY <1>c, <2>2, <2>3, <2>8 DEF Stop, vars
  <2> QED
    BY <1>1, <2>4, <2>5, <2>6, <2>7, <2>8 DEF Pace
<1>2. ASSUME NEW w \in Workers, Work(w)
      PROVE  exp'.total + F' + tokens' + One(loop' = "send") + One(tickC')
               <= clock'
  <2>1. UNCHANGED <<clock, tickC, loop>>
    BY <1>2 DEF Work, Receive, Leave, Count, Send, Refuse, Answer, Tally, Record
  <2>m. ASSUME NEW from, NEW to, Move(w, from, to)
        PROVE  F' = F + One(to = "fire") - One(from = "fire")
    BY <2>m, NumMove DEF F
  <2>2. CASE Receive(w)
    <3>1. F' = F + 1
      BY <2>2, <2>m, <1>b DEF Receive
    <3>2. tokens' = tokens - 1 /\ exp' = exp
      BY <2>2 DEF Receive
    <3> QED
      BY <1>a, <1>b, <1>c, <2>1, <3>1, <3>2
  <2>3. CASE Count(w)
    <3>1. F' = F - 1
      BY <2>3, <2>m, <1>b DEF Count
    <3>2. tokens' = tokens /\ exp'.total = exp.total + 1
      BY <2>3, <1>a DEF Count, Experiments
    <3> QED
      BY <1>a, <1>b, <1>c, <2>1, <3>1, <3>2
  <2>4. CASE Leave(w) \/ Send(w) \/ Refuse(w) \/ Answer(w) \/ Tally(w) \/ Record(w)
    <3>1. F' = F
      BY <2>4, <2>m, <1>b DEF Leave, Send, Refuse, Answer, Tally, Record
    <3>2. tokens' = tokens /\ exp'.total = exp.total
      BY <2>4, <1>a DEF Leave, Send, Refuse, Answer, Tally, Record, Experiments
    <3> QED
      BY <1>c, <2>1, <3>1, <3>2
  <2> QED
    BY <1>2, <2>2, <2>3, <2>4 DEF Work
<1> QED
  BY <1>1, <1>2 DEF Next, Terminated

(***************************************************************************)
(* Spent: nothing is sent under a cancelled context, and when finish makes *)
(* the status "completed" the channel and the pool hold at most 3W         *)
(* requests to come; the closed channel receives no more.                  *)
(***************************************************************************)
LEMMA SpentStep ==
  ASSUME TypeOK, OneVerdict, Spent, [Next]_vars
  PROVE  Spent'
<1> USE DEF timers, record, pacer, pool, ending, One
<1> DEFINE Y == Num({"fire", "ready"})
           C == Cardinality(Workers)
<1>a. /\ exp \in Experiments /\ late \in Nat
      /\ C \in Nat /\ tokens \in Nat /\ tokens <= 2 * C
  BY PoolSize DEF TypeOK, Capacity
<1>b. Y \in Nat /\ Y <= C
  BY NumType
<1>c. /\ exp.status # "completed" => late = 0
      /\ exp.status = "completed" => late + tokens + Y <= 3 * C
  BY DEF Spent
<1>d. SUFFICES /\ exp'.status # "completed" => late' = 0
               /\ exp'.status = "completed" => late' + tokens' + Y' <= 3 * C
  BY DEF Spent
<1> HIDE DEF Y, C
<1>1. CASE Tick \/ Pace \/ Tail \/ Stop \/ UNCHANGED vars
  <2>1. worker' = worker /\ late' = late
    BY <1>1 DEF Tick, Pace, TakeTick, Enqueue, SeeCancel, SeeTimer, Tail,
       Finish, Finalize, Save, Publish, Stop, vars
  <2>2. Y' = Y
    BY <2>1, NumSame DEF Y
  <2>3. CASE Tick \/ TakeTick \/ SeeCancel \/ SeeTimer \/ Finalize \/ Save
             \/ Publish \/ UNCHANGED vars
    BY <1>c, <2>1, <2>2, <2>3
       DEF Tick, TakeTick, SeeCancel, SeeTimer, Finalize, Save, Publish, vars
  <2>4. CASE Enqueue
    <3>1. exp' = exp /\ exp.status # "completed"
      BY <1>a, <2>4 DEF Enqueue, OneVerdict, Closed
    <3> QED
      BY <1>c, <2>1, <3>1
  <2>5. CASE Finish
    <3>1. tokens' = tokens
      BY <2>5 DEF Finish
    <3>2. exp.status = "running" => late = 0
      BY <1>c
    <3>3. exp'.status # "completed" => exp.status # "completed"
      BY <1>a, <2>5 DEF Finish, Ended, Experiments
    <3>4. exp.status # "running" => exp' = exp
      BY <2>5 DEF Finish
    <3> QED
      BY <1>a, <1>b, <1>c, <2>1, <2>2, <3>1, <3>2, <3>3, <3>4
  <2>6. CASE Stop
    BY <1>a, <1>c, <2>1, <2>6 DEF Stop, Ended, Experiments
  <2> QED
    BY <1>1, <2>3, <2>4, <2>5, <2>6 DEF Pace, Tail
<1>2. ASSUME NEW w \in Workers, Work(w)
      PROVE  /\ exp'.status # "completed" => late' = 0
             /\ exp'.status = "completed" => late' + tokens' + Y' <= 3 * C
  <2>1. exp'.status = exp.status
    BY <1>2, <1>a DEF Work, Receive, Leave, Count, Send, Refuse, Answer, Tally,
       Record, Experiments
  <2>m. ASSUME NEW from, NEW to, Move(w, from, to)
        PROVE  Y' = Y + One(to \in {"fire", "ready"})
                      - One(from \in {"fire", "ready"})
    BY <2>m, NumMove DEF Y
  <2>2. CASE Receive(w)
    <3>1. Y' = Y + 1 /\ tokens' = tokens - 1 /\ late' = late
      BY <2>2, <2>m, <1>b DEF Receive
    <3> QED
      BY <1>a, <1>b, <1>c, <2>1, <3>1
  <2>3. CASE Send(w)
    <3>1. Y' = Y - 1 /\ tokens' = tokens
      BY <2>3, <2>m, <1>b DEF Send
    <3>2. exp.status # "stopped"
      BY <2>3 DEF Send, OneVerdict
    <3>3. late' = IF exp.status = "running" THEN late ELSE late + 1
      BY <2>3 DEF Send
    <3>4. exp.status \in {"running", "completed"}
      BY <1>a, <3>2 DEF Experiments, Statuses
    <3> QED
      BY <1>a, <1>b, <1>c, <2>1, <3>1, <3>3, <3>4
  <2>4. CASE Refuse(w)
    <3>1. Y' = Y - 1 /\ tokens' = tokens /\ late' = late
      BY <2>4, <2>m, <1>b DEF Refuse
    <3> QED
      BY <1>a, <1>b, <1>c, <2>1, <3>1
  <2>5. CASE Leave(w) \/ Count(w) \/ Answer(w) \/ Tally(w) \/ Record(w)
    <3>1. Y' = Y /\ tokens' = tokens /\ late' = late
      BY <2>5, <2>m, <1>b DEF Leave, Count, Answer, Tally, Record
    <3> QED
      BY <1>c, <2>1, <3>1
  <2> QED
    BY <1>2, <2>2, <2>3, <2>4, <2>5 DEF Work
<1> QED
  BY <1>1, <1>2 DEF Next, Terminated

-----------------------------------------------------------------------------

(* The parts of IInv hold together from the start. *)
LEMMA IInvInit ==
  ASSUME Init
  PROVE  IInv
<1>1. ASSUME NEW S, "recv" \notin S PROVE Num(S) = 0
  <2>1. At(S) = {}
    BY <1>1 DEF Init, At
  <2> QED
    BY <2>1, FS_EmptySet DEF Num
<1>2. /\ Num({"ready", "flight", "ok", "bad"}) = 0 /\ Num({"record"}) = 0
      /\ Num({"fire"}) = 0
  BY <1>1
<1>3. OneVerdict /\ Drained
  BY EngineAssumption DEF Init, OneVerdict, Closed, Drained
<1>4. Accounting /\ Pending
  BY <1>2 DEF Init, Accounting, Pending, One
<1>5. Spent
  BY DEF Init, Spent
<1> QED
  BY <1>3, <1>4, <1>5 DEF IInv

(***************************************************************************)
(* The inductive invariant is one: the basis of every theorem below.       *)
(***************************************************************************)
THEOREM Inductive == Spec => []IInv
<1>1. Init => IInv
  BY IInvInit
<1>2. TypeOK /\ IInv /\ [Next]_vars => IInv'
  BY VerdictStep, AccountingStep, DrainedStep, PendingStep, SpentStep DEF IInv
<1> QED
  BY <1>1, <1>2, TypeCorrect, PTL DEF Spec

(***************************************************************************)
(* Every run has one verdict, whoever wins between the timer and Stop.     *)
(***************************************************************************)
THEOREM VerdictCorrect == Spec => []OneVerdict
<1>1. IInv => OneVerdict
  BY DEF IInv
<1> QED
  BY <1>1, Inductive, PTL

(***************************************************************************)
(* No outcome is lost or counted twice, for any number of workers.         *)
(***************************************************************************)
THEOREM AccountingCorrect == Spec => []Accounting
<1>1. IInv => Accounting
  BY DEF IInv
<1> QED
  BY <1>1, Inductive, PTL

(***************************************************************************)
(* The request count never exceeds the ticker intervals passed.            *)
(***************************************************************************)
THEOREM LoadCapCorrect == Spec => []LoadCap
<1>1. TypeOK /\ IInv => LoadCap
  <2> SUFFICES ASSUME TypeOK, Pending PROVE LoadCap
    BY DEF IInv
  <2>1. Num({"fire"}) \in Nat
    BY NumType
  <2> QED
    BY <2>1, PoolSize
       DEF TypeOK, Experiments, Capacity, Pending, LoadCap, One
<1> QED
  BY <1>1, Inductive, TypeCorrect, PTL

(***************************************************************************)
(* No request is sent after a Stop, and at most three per worker after the *)
(* timer.                                                                  *)
(***************************************************************************)
THEOREM LateBoundedCorrect == Spec => []LateBounded
<1>1. TypeOK /\ IInv => LateBounded
  <2> SUFFICES ASSUME TypeOK, Spent PROVE LateBounded
    BY DEF IInv
  <2>1. Num({"fire", "ready"}) \in Nat
    BY NumType
  <2> QED
    BY <2>1, PoolSize DEF TypeOK, Capacity, Spent, LateBounded
<1> QED
  BY <1>1, Inductive, TypeCorrect, PTL

(***************************************************************************)
(* Whatever is captured, saved or published stays the truth about the run, *)
(* and its three tallies agree.                                            *)
(***************************************************************************)
THEOREM FinalAccurateCorrect == Spec => []FinalAccurate
<1>1. TypeOK /\ IInv => FinalAccurate
  <2> SUFFICES ASSUME TypeOK, OneVerdict, Accounting, Drained,
                      NEW r \in {captured, saved, final} \ {Nil}
               PROVE  /\ r = Result /\ r.exp.status # "running"
                      /\ r.exp.total = r.exp.successful + r.exp.failed
                      /\ r.exp.total = r.seen
    BY DEF IInv, FinalAccurate
  <2>1. /\ loop \in {"save", "publish", "done"}
        /\ At({"exit"}) = Workers /\ r = Result
    BY DEF Drained
  <2>2. ASSUME NEW S, "exit" \notin S PROVE Num(S) = 0
    <3>1. At(S) = {}
      BY <2>1, <2>2 DEF At
    <3> QED
      BY <3>1, FS_EmptySet DEF Num
  <2>3. /\ Num({"ready", "flight", "ok", "bad"}) = 0
        /\ Num({"record"}) = 0
    BY <2>2
  <2>4. /\ exp.total = exp.successful + exp.failed /\ exp.total = seen
    BY <2>3 DEF Accounting, TypeOK, Experiments
  <2> QED
    BY <2>1, <2>4 DEF Result, OneVerdict, Closed
<1> QED
  BY <1>1, Inductive, TypeCorrect, PTL

(***************************************************************************)
(* A terminal status and its completion time are never rewritten.          *)
(***************************************************************************)
THEOREM TerminalStatusCorrect == Spec => TerminalStatus
<1>1. TypeOK /\ [Next]_vars
        => [exp.status # "running" =>
              /\ exp'.status = exp.status
              /\ exp'.completedAt = exp.completedAt]_vars
  <2> SUFFICES ASSUME TypeOK, Next, exp.status # "running"
               PROVE  /\ exp'.status = exp.status
                      /\ exp'.completedAt = exp.completedAt
    OBVIOUS
  <2>a. exp \in Experiments
    BY DEF TypeOK
  <2> USE DEF timers, record, pacer, pool, ending
  <2>1. CASE Tick \/ Pace \/ Tail \/ Stop \/ Terminated
    BY <2>1 DEF Tick, Pace, TakeTick, Enqueue, SeeCancel, SeeTimer, Tail,
       Finish, Finalize, Save, Publish, Stop, Terminated, vars
  <2>2. ASSUME NEW w \in Workers, Work(w)
        PROVE  /\ exp'.status = exp.status
               /\ exp'.completedAt = exp.completedAt
    BY <2>a, <2>2 DEF Work, Receive, Leave, Count, Send, Refuse, Answer, Tally,
       Record, Experiments
  <2> QED
    BY <2>1, <2>2 DEF Next
<1> QED
  BY <1>1, TypeCorrect, PTL DEF Spec, TerminalStatus

(***************************************************************************)
(* The engine implements ExperimentRun: counting a request is Fire,        *)
(* recording its outcome Settle, the verdict End, and publishing the       *)
(* result is possible only when everything fired has settled.              *)
(***************************************************************************)
LEMMA RunStep ==
  ASSUME TypeOK, IInv, [Next]_vars
  PROVE  [Run!Next]_<<exp.status, exp.total, seen, Published>>
<1> USE DEF timers, record, pacer, pool, ending
<1> DEFINE rvars == <<exp.status, exp.total, seen, Published>>
<1>a. exp \in Experiments /\ seen \in Nat
  BY DEF TypeOK
<1>1. CASE Tick \/ Pace \/ Finalize \/ Save \/ UNCHANGED vars
  <2>1. UNCHANGED rvars
    BY <1>1 DEF Tick, Pace, TakeTick, Enqueue, SeeCancel, SeeTimer, Finalize,
       Save, vars, Published
  <2> QED
    BY <2>1
<1>2. CASE Finish \/ Stop
  <2>1. /\ exp'.total = exp.total /\ seen' = seen /\ Published' = Published
        /\ \/ exp'.status = exp.status
           \/ exp.status = "running" /\ exp'.status \in {"completed", "stopped"}
    BY <1>2, <1>a DEF Finish, Stop, Ended, Experiments, Published
  <2> QED
    BY <2>1 DEF Run!Next, Run!End
<1>3. CASE Publish
  <2>1. UNCHANGED <<exp, seen>> /\ final' = captured
    BY <1>3 DEF Publish
  <2>2. At({"exit"}) = Workers /\ captured = Result /\ final \in {Nil, captured}
    BY <1>3 DEF Publish, IInv, Drained
  <2>3. CASE final = captured
    BY <2>1, <2>3 DEF Published
  <2>4. CASE final # captured
    <3>1. ASSUME NEW S, "exit" \notin S PROVE Num(S) = 0
      <4>1. At(S) = {}
        BY <2>2, <3>1 DEF At
      <4> QED
        BY <4>1, FS_EmptySet DEF Num
    <3>2. /\ Num({"ready", "flight", "ok", "bad"}) = 0
          /\ Num({"record"}) = 0
      BY <3>1
    <3>3. seen = exp.total
      BY <1>a, <3>2 DEF IInv, Accounting, Experiments
    <3>4. exp.status # "running"
      BY <1>3 DEF Publish, IInv, OneVerdict, Closed
    <3>5. /\ Published = Nil
          /\ Published' = [status |-> exp.status, total |-> exp.total]
      BY <2>1, <2>2, <2>4 DEF Published, Result
    <3> QED
      BY <2>1, <3>3, <3>4, <3>5 DEF Run!Next, Run!Publish
  <2> QED
    BY <2>3, <2>4
<1>4. ASSUME NEW w \in Workers, Work(w) PROVE [Run!Next]_rvars
  <2>1. Published' = Published
    BY <1>4 DEF Work, Receive, Leave, Count, Send, Refuse, Answer, Tally,
       Record, Published
  <2>2. CASE Count(w)
    <3>1. worker[w] # "exit"
      BY <2>2 DEF Count, Move
    <3>2. Published = Nil
      BY <3>1 DEF IInv, Drained, At, Published
    <3>3. /\ exp'.total = exp.total + 1 /\ exp'.status = exp.status
          /\ seen' = seen
      BY <1>a, <2>2 DEF Count, Experiments
    <3> QED
      BY <2>1, <3>2, <3>3 DEF Run!Next, Run!Fire
  <2>3. CASE Record(w)
    <3>1. Num({"record"})' = Num({"record"}) - 1
      <4>1. Move(w, "record", "recv")
        BY <2>3 DEF Record
      <4>2. Num({"record"})' = Num({"record"}) + One("recv" \in {"record"})
                                - One("record" \in {"record"})
        BY <4>1, NumMove
      <4> QED
        BY <4>2, NumType DEF One
    <3>2. /\ Num({"record"}) \in Nat /\ Num({"record"})' \in Nat
          /\ Num({"ready", "flight", "ok", "bad"}) \in Nat
      <4>1. ASSUME NEW S PROVE Num(S)' \in Nat
        BY EngineAssumption, FS_Subset, FS_CardinalityType DEF Num, At
      <4> QED
        BY <4>1, NumType
    <3>3. seen < exp.total
      BY <1>a, <3>1, <3>2 DEF IInv, Accounting, Experiments
    <3>4. exp' = exp /\ seen' = seen + 1
      BY <2>3 DEF Record
    <3> QED
      BY <2>1, <3>3, <3>4 DEF Run!Next, Run!Settle
  <2>4. CASE Receive(w) \/ Leave(w) \/ Send(w) \/ Refuse(w) \/ Answer(w) \/ Tally(w)
    <3>1. exp'.total = exp.total /\ exp'.status = exp.status /\ seen' = seen
      BY <1>a, <2>4 DEF Receive, Leave, Send, Refuse, Answer, Tally, Experiments
    <3> QED
      BY <2>1, <3>1
  <2> QED
    BY <1>4, <2>2, <2>3, <2>4 DEF Work
<1> QED
  BY <1>1, <1>2, <1>3, <1>4 DEF Next, Tail, Terminated

(* Every behaviour of the engine is a behaviour of ExperimentRun. *)
THEOREM RefinesRun == Spec => RunSpec
<1>1. Init => Run!Init
  BY DEF Init, Run!Init, Published
<1>2. TypeOK /\ IInv /\ [Next]_vars => [Run!Next]_Run!rvars
  BY RunStep DEF Run!rvars
<1> QED
  BY <1>1, <1>2, Inductive, TypeCorrect, PTL DEF Spec, RunSpec, Run!Spec

-----------------------------------------------------------------------------

(***************************************************************************)
(* No token is lost: a worker that returns has seen the channel closed and *)
(* empty, nothing is sent into a closed channel, and a result is captured  *)
(* only when the whole pool has returned.                                  *)
(***************************************************************************)
THEOREM NoTokenLostCorrect == Spec => []NoTokenLost
<1> USE DEF timers, record, pacer, pool, ending
<1>1. Init => NoTokenLost
  BY DEF Init, NoTokenLost, At
<1>2. TypeOK /\ NoTokenLost /\ [Next]_vars => NoTokenLost'
  <2> SUFFICES ASSUME TypeOK, NoTokenLost, [Next]_vars
               PROVE  NoTokenLost'
    OBVIOUS
  <2>1. CASE Tick \/ Stop \/ Save \/ Publish \/ UNCHANGED vars
    BY <2>1 DEF Tick, Stop, Save, Publish, vars, NoTokenLost, At, Closed
  <2>2. CASE Pace
    BY <2>2 DEF Pace, TakeTick, Enqueue, SeeCancel, SeeTimer, NoTokenLost, At,
       Closed
  <2>3. CASE Finish
    BY <2>3 DEF Finish, NoTokenLost, At, Closed
  <2>4. CASE Finalize
    BY <2>4, EngineAssumption DEF Finalize, NoTokenLost, At, Closed
  <2>5. ASSUME NEW w \in Workers, Receive(w) PROVE NoTokenLost'
    <3>1. At({"exit"}) = {} /\ loop \notin {"save", "publish", "done"}
      BY <2>5, PoolSize DEF Receive, NoTokenLost, TypeOK, Capacity
    <3>2. At({"exit"})' = {} /\ loop' = loop
      BY <2>5, <3>1 DEF Receive, Move, At, TypeOK
    <3> QED
      BY <3>1, <3>2 DEF NoTokenLost
  <2>6. ASSUME NEW w \in Workers, Leave(w) PROVE NoTokenLost'
    BY <2>6 DEF Leave, NoTokenLost, Closed
  <2>7. ASSUME NEW w \in Workers,
               Count(w) \/ Send(w) \/ Refuse(w) \/ Answer(w) \/ Tally(w)
                 \/ Record(w)
        PROVE  NoTokenLost'
    <3>1. loop' = loop /\ tokens' = tokens
      BY <2>7 DEF Count, Send, Refuse, Answer, Tally, Record
    <3>2. PICK to \in WorkerPCs \ {"exit"} : worker' = [worker EXCEPT ![w] = to]
      BY <2>7 DEF Count, Send, Refuse, Answer, Tally, Record, Move, WorkerPCs
    <3>3. At({"exit"})' \subseteq At({"exit"})
      BY <3>2 DEF At, TypeOK
    <3> QED
      BY <3>1, <3>3 DEF NoTokenLost, Closed
  <2> QED
    BY <2>1, <2>2, <2>3, <2>4, <2>5, <2>6, <2>7 DEF Next, Tail, Work, Terminated
<1> QED
  BY <1>1, <1>2, TypeCorrect, PTL DEF Spec

(***************************************************************************)
(* The timer is not lost: its value stays in its channel until a select    *)
(* takes it, and the loop that took it goes on to finish and never back.   *)
(***************************************************************************)
THEOREM TimerNotLostCorrect == Spec => []TimerNotLost
<1> USE DEF timers, record, pacer, pool, ending
<1>1. Init => TimerNotLost
  BY EngineAssumption DEF Init, TimerNotLost
<1>2. TypeOK /\ OneVerdict /\ TimerNotLost /\ [Next]_vars => TimerNotLost'
  <2> SUFFICES ASSUME TypeOK, OneVerdict, TimerNotLost, [Next]_vars
               PROVE  TimerNotLost'
    OBVIOUS
  <2> USE DEF TimerNotLost
  <2>1. CASE Tick
    <3>1. CASE clock' = Duration
      <4>1. timerC'
        BY <2>1, <3>1 DEF Tick
      <4> QED
        BY <4>1
    <3>2. CASE clock' # Duration
      <4>1. timerC' = timerC
        BY <2>1, <3>2, Zenon DEF Tick, TypeOK
      <4>2. clock' >= Duration => clock >= Duration
        BY <2>1, <3>2, EngineAssumption DEF Tick, TypeOK
      <4>3. loop' = loop /\ exp' = exp
        BY <2>1 DEF Tick
      <4> QED
        BY <4>1, <4>2, <4>3
    <3> QED
      BY <3>1, <3>2
  <2>2. CASE Pace
    BY <2>2 DEF Pace, TakeTick, Enqueue, SeeCancel, SeeTimer, OneVerdict
  <2>3. CASE Finish
    BY <2>3 DEF Finish, Ended, TypeOK, Experiments
  <2>4. CASE Finalize \/ Save \/ Publish
    BY <2>4 DEF Finalize, Save, Publish, OneVerdict, Closed
  <2>5. CASE Stop
    BY <2>5 DEF Stop, Ended, TypeOK, Experiments
  <2>6. ASSUME NEW w \in Workers, Work(w) PROVE TimerNotLost'
    <3>1. UNCHANGED <<clock, timerC, loop>>
      BY <2>6 DEF Work, Receive, Leave, Count, Send, Refuse, Answer, Tally, Record
    <3>2. exp'.status = exp.status
      BY <2>6 DEF Work, Receive, Leave, Count, Send, Refuse, Answer, Tally,
         Record, TypeOK, Experiments
    <3> QED
      BY <3>1, <3>2
  <2>7. CASE UNCHANGED vars
    BY <2>7 DEF vars
  <2> QED
    BY <2>1, <2>2, <2>3, <2>4, <2>5, <2>6, <2>7 DEF Next, Tail, Terminated
<1>3. IInv => OneVerdict
  BY DEF IInv
<1> QED
  BY <1>1, <1>2, <1>3, TypeCorrect, Inductive, PTL DEF Spec

(* What is left has a size. *)
LEMMA LeftType ==
  ASSUME TypeOK
  PROVE  Left \in Nat /\ Left <= 18 * Cardinality(Workers)
<1>1. tokens \in Nat /\ tokens <= 2 * Cardinality(Workers)
  BY PoolSize DEF TypeOK, Capacity
<1>2. \A S : Num(S) \in Nat /\ Num(S) <= Cardinality(Workers)
  BY NumType
<1> QED
  BY <1>1, <1>2, PoolSize DEF Left

(* Every step of a worker behind a closed channel takes some of it. *)
LEMMA LeftFalls ==
  ASSUME TypeOK, NEW w \in Workers, Work(w)
  PROVE  Left' \in Int /\ Left' < Left
<1> USE DEF timers, record, pacer, pool, ending
<1> DEFINE a == Num({"fire"})
           b == Num({"fire", "ready"})
           c == Num({"fire", "ready", "flight"})
           d == Num(WorkerPCs \ {"record", "recv", "exit"})
           e == Num(WorkerPCs \ {"recv", "exit"})
           f == Num(WorkerPCs \ {"exit"})
<1>a. /\ a \in Nat /\ b \in Nat /\ c \in Nat
      /\ d \in Nat /\ e \in Nat /\ f \in Nat
  BY NumType
<1>b. tokens \in Nat
  BY PoolSize DEF TypeOK, Capacity
<1>l. /\ Left = 6 * tokens + a + b + c + d + e + f
      /\ Left' = 6 * tokens' + a' + b' + c' + d' + e' + f'
  BY DEF Left
<1>m. ASSUME NEW from, NEW to, Move(w, from, to)
      PROVE  /\ a' = a + One(to \in {"fire"}) - One(from \in {"fire"})
             /\ b' = b + One(to \in {"fire", "ready"})
                       - One(from \in {"fire", "ready"})
             /\ c' = c + One(to \in {"fire", "ready", "flight"})
                       - One(from \in {"fire", "ready", "flight"})
             /\ d' = d + One(to \in WorkerPCs \ {"record", "recv", "exit"})
                       - One(from \in WorkerPCs \ {"record", "recv", "exit"})
             /\ e' = e + One(to \in WorkerPCs \ {"recv", "exit"})
                       - One(from \in WorkerPCs \ {"recv", "exit"})
             /\ f' = f + One(to \in WorkerPCs \ {"exit"})
                       - One(from \in WorkerPCs \ {"exit"})
  <2>1. ASSUME NEW S PROVE Num(S)' = Num(S) + One(to \in S) - One(from \in S)
    BY <1>m, NumMove
  <2> QED
    BY <2>1
<1> HIDE DEF a, b, c, d, e, f
<1> USE DEF WorkerPCs, One
<1>1. CASE Receive(w)
  <2>1. /\ a' = a + 1 /\ b' = b + 1 /\ c' = c + 1
        /\ d' = d + 1 /\ e' = e + 1 /\ f' = f
    BY <1>a, <1>1, <1>m DEF Receive
  <2>2. tokens' = tokens - 1
    BY <1>1 DEF Receive
  <2> QED
    BY <1>a, <1>b, <1>l, <2>1, <2>2
<1>2. CASE Leave(w)
  <2>1. /\ a' = a /\ b' = b /\ c' = c /\ d' = d /\ e' = e /\ f' = f - 1
    BY <1>a, <1>2, <1>m DEF Leave
  <2>2. tokens' = tokens
    BY <1>2 DEF Leave
  <2> QED
    BY <1>a, <1>b, <1>l, <2>1, <2>2
<1>3. CASE Count(w)
  <2>1. /\ a' = a - 1 /\ b' = b /\ c' = c /\ d' = d /\ e' = e /\ f' = f
    BY <1>a, <1>3, <1>m DEF Count
  <2>2. tokens' = tokens
    BY <1>3 DEF Count
  <2> QED
    BY <1>a, <1>b, <1>l, <2>1, <2>2
<1>4. CASE Send(w)
  <2>1. /\ a' = a /\ b' = b - 1 /\ c' = c /\ d' = d /\ e' = e /\ f' = f
    BY <1>a, <1>4, <1>m DEF Send
  <2>2. tokens' = tokens
    BY <1>4 DEF Send
  <2> QED
    BY <1>a, <1>b, <1>l, <2>1, <2>2
<1>5. CASE Refuse(w)
  <2>1. /\ a' = a /\ b' = b - 1 /\ c' = c - 1 /\ d' = d /\ e' = e /\ f' = f
    BY <1>a, <1>5, <1>m DEF Refuse
  <2>2. tokens' = tokens
    BY <1>5 DEF Refuse
  <2> QED
    BY <1>a, <1>b, <1>l, <2>1, <2>2
<1>6. CASE Answer(w)
  <2>1. /\ a' = a /\ b' = b /\ c' = c - 1 /\ d' = d /\ e' = e /\ f' = f
    BY <1>a, <1>6, <1>m DEF Answer
  <2>2. tokens' = tokens
    BY <1>6 DEF Answer
  <2> QED
    BY <1>a, <1>b, <1>l, <2>1, <2>2
<1>7. CASE Tally(w)
  <2>1. /\ a' = a /\ b' = b /\ c' = c /\ d' = d - 1 /\ e' = e /\ f' = f
    BY <1>a, <1>7, <1>m DEF Tally
  <2>2. tokens' = tokens
    BY <1>7 DEF Tally
  <2> QED
    BY <1>a, <1>b, <1>l, <2>1, <2>2
<1>8. CASE Record(w)
  <2>1. /\ a' = a /\ b' = b /\ c' = c /\ d' = d /\ e' = e - 1 /\ f' = f
    BY <1>a, <1>8, <1>m DEF Record
  <2>2. tokens' = tokens
    BY <1>8 DEF Record
  <2> QED
    BY <1>a, <1>b, <1>l, <2>1, <2>2
<1> QED
  BY <1>1, <1>2, <1>3, <1>4, <1>5, <1>6, <1>7, <1>8 DEF Work

(***************************************************************************)
(* The drain ends for any pool: behind a closed channel what is left never *)
(* grows, falls with every step of a worker, and is at most eighteen steps *)
(* per worker.                                                             *)
(***************************************************************************)
THEOREM DrainShrinksCorrect == Spec => DrainShrinks
<1> USE DEF timers, record, pacer, pool, ending
<1>1. TypeOK /\ [Next]_vars
      => [Closed => /\ Closed' /\ Left' <= Left
                    /\ Left <= 18 * Cardinality(Workers)
                    /\ worker' # worker => Left' < Left]_vars
  <2> SUFFICES ASSUME TypeOK, Next, Closed
               PROVE  /\ Closed' /\ Left' <= Left
                      /\ Left <= 18 * Cardinality(Workers)
                      /\ worker' # worker => Left' < Left
    OBVIOUS
  <2>1. Left \in Nat /\ Left <= 18 * Cardinality(Workers)
    BY LeftType
  <2>2. CASE Tick \/ Pace \/ Tail \/ Stop \/ Terminated
    <3>1. UNCHANGED <<worker, tokens>> /\ Closed'
      BY <2>2 DEF Tick, Pace, TakeTick, Enqueue, SeeCancel, SeeTimer, Tail,
         Finish, Finalize, Save, Publish, Stop, Terminated, vars, Closed
    <3>2. Left' = Left
      BY <3>1 DEF Left, Num, At
    <3> QED
      BY <2>1, <3>1, <3>2
  <2>3. ASSUME NEW w \in Workers, Work(w)
        PROVE  /\ Closed' /\ Left' <= Left
               /\ Left <= 18 * Cardinality(Workers)
               /\ worker' # worker => Left' < Left
    <3>1. Left' \in Int /\ Left' < Left
      BY <2>3, LeftFalls
    <3>2. Closed'
      BY <2>3 DEF Closed, Work, Receive, Leave, Count, Send, Refuse, Answer,
         Tally, Record
    <3> QED
      BY <2>1, <3>1, <3>2
  <2> QED
    BY <2>1, <2>2, <2>3 DEF Next
<1> QED
  BY <1>1, TypeCorrect, PTL DEF Spec, DrainShrinks

-----------------------------------------------------------------------------
(* The poll.  The reader only reads, so the engine's invariants hold       *)
(* beside it.                                                              *)

(* What a step of the engine may do to the numbers a reader reads. *)
LEMMA EngineGrows ==
  ASSUME TypeOK, Next
  PROVE  /\ exp'.successful >= exp.successful /\ exp'.failed >= exp.failed
         /\ seen' >= seen
<1> USE DEF timers, record, pacer, pool, ending
<1>a. exp \in Experiments /\ seen \in Nat
  BY DEF TypeOK
<1>1. CASE Tick \/ Pace \/ Tail \/ Stop \/ Terminated
  <2>1. seen' = seen
    BY <1>1 DEF Tick, Pace, TakeTick, Enqueue, SeeCancel, SeeTimer, Tail,
       Finish, Finalize, Save, Publish, Stop, Terminated, vars
  <2>2. exp'.successful = exp.successful /\ exp'.failed = exp.failed
    BY <1>a, <1>1 DEF Tick, Pace, TakeTick, Enqueue, SeeCancel, SeeTimer, Tail,
       Finish, Finalize, Save, Publish, Stop, Terminated, vars, Ended, Experiments
  <2> QED
    BY <1>a, <2>1, <2>2 DEF Experiments
<1>2. ASSUME NEW w \in Workers, Work(w)
      PROVE  /\ exp'.successful >= exp.successful /\ exp'.failed >= exp.failed
             /\ seen' >= seen
  BY <1>a, <1>2 DEF Work, Receive, Leave, Count, Send, Refuse, Answer, Tally,
     Record, Experiments
<1> QED
  BY <1>1, <1>2 DEF Next

(* A status that is not running stays. *)
LEMMA VerdictKept ==
  ASSUME TypeOK, Next, exp.status # "running"
  PROVE  exp'.status = exp.status
<1> USE DEF timers, record, pacer, pool, ending
<1>1. CASE Tick \/ Pace \/ Tail \/ Stop \/ Terminated
  BY <1>1 DEF Tick, Pace, TakeTick, Enqueue, SeeCancel, SeeTimer, Tail,
     Finish, Finalize, Save, Publish, Stop, Terminated, vars
<1>2. ASSUME NEW w \in Workers, Work(w) PROVE exp'.status = exp.status
  BY <1>2 DEF TypeOK, Work, Receive, Leave, Count, Send, Refuse, Answer, Tally,
     Record, Experiments
<1> QED
  BY <1>1, <1>2 DEF Next

\* The points of fire that still owe the collector an outcome.
Owing == WorkerPCs \ {"recv", "exit"}

(* What is owed has a size, one outcome per worker beside the channel. *)
LEMMA OwedType ==
  ASSUME TypeOK
  PROVE  Owed \in Nat /\ Owed <= 3 * Cardinality(Workers)
<1>1. Num(Owing) \in Nat /\ Num(Owing) <= Cardinality(Workers)
  BY NumType
<1>2. tokens \in Nat /\ tokens <= 2 * Cardinality(Workers)
  BY PoolSize DEF TypeOK, Capacity
<1> QED
  BY <1>1, <1>2, PoolSize DEF Owed, Owing

(* Behind a closed channel an outcome recorded is one owed no longer. *)
LEMMA OwedShrinks ==
  ASSUME TypeOK, Next, Closed
  PROVE  Closed' /\ seen' + Owed' <= seen + Owed
<1> USE DEF timers, record, pacer, pool, ending
<1> DEFINE N == Num(Owing)
<1>a. seen \in Nat /\ tokens \in Nat /\ N \in Nat
  BY NumType, PoolSize DEF TypeOK, Capacity
<1>b. Owed = tokens + N /\ Owed' = tokens' + N'
  BY DEF Owed, Owing
<1> HIDE DEF N
<1>1. CASE Tick \/ Pace \/ Tail \/ Stop \/ Terminated
  <2>1. UNCHANGED <<worker, seen, tokens>> /\ Closed'
    BY <1>1 DEF Tick, Pace, TakeTick, Enqueue, SeeCancel, SeeTimer, Tail,
       Finish, Finalize, Save, Publish, Stop, Terminated, vars, Closed
  <2>2. N' = N
    BY <2>1, NumSame DEF N
  <2> QED
    BY <1>a, <1>b, <2>1, <2>2
<1>2. ASSUME NEW w \in Workers, Work(w)
      PROVE  Closed' /\ seen' + Owed' <= seen + Owed
  <2>1. Closed'
    BY <1>2 DEF Closed, Work, Receive, Leave, Count, Send, Refuse, Answer,
       Tally, Record
  <2>m. ASSUME NEW from, NEW to, Move(w, from, to)
        PROVE  N' = N + One(to \in Owing) - One(from \in Owing)
    BY <2>m, NumMove DEF N
  <2> USE DEF Owing, WorkerPCs, One
  <2>2. CASE Receive(w)
    <3>1. N' = N + 1 /\ tokens' = tokens - 1 /\ seen' = seen
      BY <1>a, <2>2, <2>m DEF Receive
    <3> QED
      BY <1>a, <1>b, <2>1, <3>1
  <2>3. CASE Leave(w) \/ Count(w) \/ Send(w) \/ Refuse(w) \/ Answer(w) \/ Tally(w)
    <3>1. N' = N /\ tokens' = tokens /\ seen' = seen
      BY <1>a, <2>3, <2>m DEF Leave, Count, Send, Refuse, Answer, Tally
    <3> QED
      BY <1>a, <1>b, <2>1, <3>1
  <2>4. CASE Record(w)
    <3>1. N' = N - 1 /\ tokens' = tokens /\ seen' = seen + 1
      BY <1>a, <2>4, <2>m DEF Record
    <3> QED
      BY <1>a, <1>b, <2>1, <3>1
  <2> QED
    BY <1>2, <2>2, <2>3, <2>4 DEF Work
<1> QED
  BY <1>1, <1>2 DEF Next

-----------------------------------------------------------------------------

(* The reader's own types. *)
ReaderType == /\ step \in {"idle", "copy", "ok", "failed", "view"}
              /\ reading \in Replies /\ reply \in Replies

(* The published result is the record, so a reply from it is up to date. *)
LEMMA PublishedIsCurrent ==
  ASSUME TypeOK, IInv, final # Nil
  PROVE  /\ Response(final) = [status |-> exp.status, ok |-> exp.successful,
                               failed |-> exp.failed, seen |-> seen]
         /\ Response(final) \in Replies
<1>1. final = Result
  BY DEF IInv, Drained
<1> QED
  BY <1>1 DEF Response, Result, Replies, TypeOK, Experiments

(* Two bounds in a row. *)
LEMMA Chain ==
  ASSUME NEW a \in Nat, NEW b \in Nat, NEW c \in Nat, NEW d \in Nat,
         NEW e \in Nat, NEW f \in Nat,
         a + b <= c + d, e + f <= a + b
  PROVE  e + f <= c + d
OBVIOUS

(* A step of the engine leaves the reader's types and invariant alone. *)
LEMMA EngineKeepsPoll ==
  ASSUME TypeOK, IInv, TypeOK', IInv', ReaderType, PollInv, Engine
  PROVE  ReaderType' /\ PollInv'
<1> USE DEF reader
<1>a. Next /\ UNCHANGED <<step, reading, reply>>
  BY DEF Engine
<1>b. exp \in Experiments /\ exp' \in Experiments /\ seen \in Nat /\ seen' \in Nat
  BY DEF TypeOK
<1>1. ReaderType'
  BY <1>a DEF ReaderType
<1>2. Behind'
  <2>1. /\ exp'.successful >= exp.successful /\ exp'.failed >= exp.failed
        /\ seen' >= seen
    BY <1>a, EngineGrows
  <2> QED
    BY <1>a, <1>b, <2>1 DEF PollInv, Behind, ReaderType, Replies, Experiments
<1>3. SameVerdict'
  BY <1>a, VerdictKept DEF PollInv, SameVerdict
<1>4. StillToCome'
  <2> SUFFICES ASSUME reply'.status = "completed"
               PROVE  Closed' /\ seen' + Owed' <= reply'.seen
                                                   + 3 * Cardinality(Workers)
    BY DEF StillToCome
  <2>1. Closed /\ seen + Owed <= reply.seen + 3 * Cardinality(Workers)
    BY <1>a DEF PollInv, StillToCome
  <2>2. Closed' /\ seen' + Owed' <= seen + Owed
    BY <1>a, <2>1, OwedShrinks
  <2>3. Owed \in Nat
    BY OwedType
  <2>4. Owed' \in Nat
    <3>1. Num(Owing)' \in Nat
      BY EngineAssumption, FS_Subset, FS_CardinalityType DEF Num, At
    <3> QED
      BY <3>1, PoolSize DEF Owed, Owing, TypeOK, Capacity
  <2> DEFINE o == Owed
             p == Owed'
             b == 3 * Cardinality(Workers)
  <2>5. reply' = reply /\ reply.seen \in Nat /\ b \in Nat
    BY <1>a, PoolSize DEF ReaderType, Replies
  <2>6. o \in Nat /\ p \in Nat
    BY <2>3, <2>4
  <2>7. seen + o <= reply.seen + b /\ seen' + p <= seen + o
    BY <2>1, <2>2
  <2> HIDE DEF o, p, b
  <2>8. seen' + p <= reply.seen + b
    BY <1>b, <2>5, <2>6, <2>7, Chain
  <2>9. seen' + p <= reply'.seen + b
    BY <2>5, <2>8
  <2> QED
    BY <2>2, <2>9 DEF p, b
<1>5. SkewBounded'
  BY <1>a DEF PollInv, SkewBounded
<1> QED
  BY <1>1, <1>2, <1>3, <1>4, <1>5 DEF PollInv

(***************************************************************************)
(* A step of the reader: what it copies is current, and what it replies    *)
(* has been copied since the last reply.                                   *)
(***************************************************************************)
LEMMA PollKeepsPoll ==
  ASSUME TypeOK, IInv, ReaderType, PollInv, Poll
  PROVE  ReaderType' /\ PollInv'
<1>a. exp \in Experiments /\ seen \in Nat /\ Cardinality(Workers) \in Nat
  BY PoolSize DEF TypeOK
<1>b. UNCHANGED vars
  BY DEF Poll, Check, Copy, LoadSuccessful, LoadFailed, TakeView
<1>c. UNCHANGED <<exp, seen, tokens, worker, loop, final>>
  BY <1>b DEF vars, timers, record, pacer, pool, ending
<1>d. Owed' = Owed /\ (Closed' <=> Closed)
  BY <1>c DEF Owed, Num, At, Closed
<1>e. exp.successful + exp.failed <= seen + Cardinality(Workers)
  <2>1. Num({"record"}) \in Nat /\ Num({"record"}) <= Cardinality(Workers)
    BY NumType
  <2> QED
    BY <1>a, <2>1 DEF IInv, Accounting, Experiments
<1>f. exp.status = "completed" =>
        Closed /\ seen + Owed <= seen + 3 * Cardinality(Workers)
  BY <1>a, OwedType DEF IInv, OneVerdict
<1> USE DEF ReaderType, Replies, Experiments
<1>1. CASE Check
  <2>1. CASE exp.status # "running" /\ final # Nil /\ reply' = Response(final)
             /\ UNCHANGED <<step, reading>>
    <3>1. /\ reply' = [status |-> exp.status, ok |-> exp.successful,
                       failed |-> exp.failed, seen |-> seen]
          /\ reply' \in Replies
      BY <2>1, PublishedIsCurrent
    <3>2. step = "idle" /\ step' = "idle" /\ reading' = reading
      BY <1>1, <2>1 DEF Check
    <3> HIDE DEF Replies, Experiments
    <3>3. ReaderType'
      BY <3>1, <3>2
    <3>4. Behind' /\ SkewBounded'
      BY <1>a, <1>c, <1>e, <3>1, <3>2 DEF Behind, SkewBounded, Experiments
    <3>5. SameVerdict' /\ StillToCome'
      BY <1>c, <1>d, <1>f, <3>1, <3>2 DEF SameVerdict, StillToCome
    <3> QED
      BY <3>3, <3>4, <3>5 DEF PollInv
  <2>2. CASE step' = "copy" /\ UNCHANGED <<reading, reply>>
    BY <1>c, <1>d, <2>2 DEF PollInv, Behind, SameVerdict, StillToCome, SkewBounded
  <2> QED
    BY <1>1, <2>1, <2>2 DEF Check
<1>2. CASE Copy
  <2>1. /\ step' = "ok" /\ reply' = reply /\ reading'.status = exp.status
        /\ reading' \in Replies
    BY <1>a, <1>2 DEF Copy, Blank
  <2> QED
    BY <1>c, <1>d, <2>1 DEF PollInv, Behind, SameVerdict, StillToCome, SkewBounded
<1>3. CASE LoadSuccessful
  <2>1. /\ step = "ok" /\ step' = "failed" /\ reply' = reply
        /\ reading' \in Replies
        /\ reading'.status = reading.status /\ reading'.ok = exp.successful
    BY <1>a, <1>3 DEF LoadSuccessful
  <2> QED
    BY <1>c, <1>d, <2>1 DEF PollInv, Behind, SameVerdict, StillToCome, SkewBounded
<1>4. CASE LoadFailed
  <2>1. /\ step = "failed" /\ step' = "view" /\ reply' = reply
        /\ reading' \in Replies
        /\ reading'.status = reading.status /\ reading'.ok = reading.ok
        /\ reading'.failed = exp.failed
    BY <1>a, <1>4 DEF LoadFailed
  <2> QED
    BY <1>c, <1>d, <2>1 DEF PollInv, Behind, SameVerdict, StillToCome, SkewBounded
<1>5. CASE TakeView
  <2>1. /\ step = "view" /\ step' = "idle" /\ reading' = reading
        /\ reply' \in Replies /\ reply'.seen = seen
        /\ reply'.status = reading.status /\ reply'.ok = reading.ok
        /\ reply'.failed = reading.failed
    BY <1>a, <1>5 DEF TakeView
  <2>2. reading.ok <= exp.successful /\ reading.failed <= exp.failed
    BY <2>1 DEF PollInv, Behind
  <2>3. reading.ok + reading.failed <= seen + Cardinality(Workers)
    BY <1>a, <1>e, <2>2
  <2>4. Behind' /\ SkewBounded'
    BY <1>a, <1>c, <2>1, <2>2, <2>3 DEF Behind, SkewBounded
  <2>5. SameVerdict' /\ StillToCome'
    BY <1>c, <1>d, <1>f, <2>1 DEF PollInv, SameVerdict, StillToCome
  <2> QED
    BY <2>1, <2>4, <2>5 DEF PollInv
<1> QED
  BY <1>1, <1>2, <1>3, <1>4, <1>5 DEF Poll

(***************************************************************************)
(* The engine beside a reader is still the engine: the reads take the      *)
(* locks one at a time and change nothing of the run (service.go:347-378). *)
(***************************************************************************)
THEOREM EngineInside == PollSpec => Spec
<1>1. PollInit => Init
  BY DEF PollInit
<1>2. [PollNext]_pvars => [Next]_vars
  BY DEF PollNext, pvars, Engine, Poll, Check, Copy, LoadSuccessful, LoadFailed,
     TakeView
<1> QED
  BY <1>1, <1>2, PTL DEF PollSpec, Spec

(* So it keeps the promises of ExperimentRun to a client that polls. *)
COROLLARY PollRefinesRun == PollSpec => RunSpec
BY EngineInside, RefinesRun, PTL

(***************************************************************************)
(* The reader's inductive invariant holds beside every run.                *)
(***************************************************************************)
THEOREM PollInductive == PollSpec => [](ReaderType /\ PollInv)
<1>1. PollInit => ReaderType /\ PollInv
  BY PoolSize DEF PollInit, Init, ReaderType, Replies, Blank, Statuses, PollInv,
     Behind, SameVerdict, StillToCome, SkewBounded
<1>2. /\ TypeOK /\ IInv /\ TypeOK' /\ IInv' /\ ReaderType /\ PollInv
      /\ [PollNext]_pvars
      => (ReaderType /\ PollInv)'
  <2> SUFFICES ASSUME TypeOK, IInv, TypeOK', IInv', ReaderType, PollInv,
                      [PollNext]_pvars
               PROVE  (ReaderType /\ PollInv)'
    OBVIOUS
  <2>1. CASE UNCHANGED pvars
    BY <2>1 DEF pvars, vars, timers, record, pacer, pool, ending, reader,
       ReaderType, PollInv, Behind, SameVerdict, StillToCome, SkewBounded,
       Owed, Num, At, Closed
  <2> QED
    BY <2>1, EngineKeepsPoll, PollKeepsPoll DEF PollNext
<1> QED
  BY <1>1, <1>2, EngineInside, Inductive, TypeCorrect, PTL DEF PollSpec

(* Every variable of the engine and of the reader keeps its type. *)
THEOREM PollTypeCorrect == PollSpec => []PollTypeOK
<1>1. TypeOK /\ ReaderType => PollTypeOK
  BY DEF ReaderType, PollTypeOK
<1> QED
  BY <1>1, EngineInside, TypeCorrect, PollInductive, PTL

(***************************************************************************)
(* The counters of a reply are ahead of its recorded outcomes by at most   *)
(* one per worker, for any pool; how far behind them they may be, nothing  *)
(* bounds.                                                                 *)
(***************************************************************************)
THEOREM SkewBoundedCorrect == PollSpec => []SkewBounded
<1>1. PollInv => SkewBounded
  BY DEF PollInv
<1> QED
  BY <1>1, PollInductive, PTL

(***************************************************************************)
(* A reply that says completed lacks at most a full channel and one        *)
(* outcome per worker of the final numbers, for any pool.                  *)
(***************************************************************************)
THEOREM NearFinalCorrect == PollSpec => []NearFinal
<1>1. TypeOK /\ ReaderType /\ PollInv => NearFinal
  <2> SUFFICES ASSUME TypeOK, ReaderType, PollInv, reply.status = "completed"
               PROVE  seen <= reply.seen + 3 * Cardinality(Workers)
    BY DEF NearFinal
  <2>1. seen + Owed <= reply.seen + 3 * Cardinality(Workers)
    BY DEF PollInv, StillToCome
  <2>2. Owed \in Nat /\ seen \in Nat /\ reply.seen \in Nat
    BY OwedType DEF TypeOK, ReaderType, Replies
  <2> QED
    BY <2>1, <2>2, PoolSize
<1> QED
  BY <1>1, EngineInside, TypeCorrect, PollInductive, PTL

(***************************************************************************)
(* A client that polls one request at a time never sees a number or the    *)
(* verdict go back.                                                        *)
(***************************************************************************)
THEOREM RepliesMonotoneCorrect == PollSpec => RepliesMonotone
<1>1. TypeOK /\ IInv /\ ReaderType /\ PollInv /\ [PollNext]_pvars
      => [/\ reply'.ok >= reply.ok
          /\ reply'.failed >= reply.failed
          /\ reply'.seen >= reply.seen
          /\ reply.status # "running" => reply'.status = reply.status]_pvars
  <2> SUFFICES ASSUME TypeOK, IInv, ReaderType, PollInv, PollNext
               PROVE  /\ reply'.ok >= reply.ok
                      /\ reply'.failed >= reply.failed
                      /\ reply'.seen >= reply.seen
                      /\ reply.status # "running" => reply'.status = reply.status
    OBVIOUS
  <2>a. reply \in Replies /\ exp \in Experiments /\ seen \in Nat
    BY DEF TypeOK, ReaderType
  <2>1. CASE reply' = reply
    BY <2>a, <2>1 DEF Replies
  <2>2. CASE Check /\ reply' = Response(final) /\ final # Nil
    BY <2>a, <2>2, PublishedIsCurrent
       DEF PollInv, Behind, SameVerdict, Replies, Experiments
  <2>3. CASE TakeView
    BY <2>a, <2>3 DEF TakeView, PollInv, Behind, SameVerdict, ReaderType,
       Replies, Experiments
  <2> QED
    BY <2>1, <2>2, <2>3 DEF PollNext, Engine, reader, Poll, Check, Copy,
       LoadSuccessful, LoadFailed
<1> QED
  BY <1>1, EngineInside, TypeCorrect, Inductive, PollInductive, PTL
     DEF PollSpec, RepliesMonotone
=============================================================================
