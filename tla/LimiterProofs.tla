--------------------------- MODULE LimiterProofs ---------------------------
(***************************************************************************)
(* Proofs about Limiter for every rate, cost, capacity and number of       *)
(* handlers.                                                               *)
(***************************************************************************)
EXTENDS Limiter, TLAPS

(***************************************************************************)
(* What a window has admitted and what the bucket still holds come from    *)
(* one burst and the refills up to l.last; a window opened after l.last    *)
(* has admitted nothing.                                                   *)
(***************************************************************************)
Budget == IF since <= last
          THEN Cost * admitted + tokens <= Capacity + Rate * (last - since)
          ELSE admitted = 0

(***************************************************************************)
(* One handler at a time is inside Allow, and what it read of the bucket   *)
(* is still what the bucket holds.                                         *)
(***************************************************************************)
OneInside == \A h \in Inside : Inside = {h} /\ content[h] = tokens

(***************************************************************************)
(* Since the previous admission the bucket has regained its refills, or is *)
(* full.                                                                   *)
(***************************************************************************)
Regained == tokens = Capacity \/ tokens >= Rate * (last - lastAdmit)

(* Monotonicity of the products that occur below. *)
LEMMA ProductMonotone ==
  ASSUME NEW m \in Nat, NEW a \in Int, NEW b \in Int, a <= b
  PROVE  m * a \in Int /\ m * b \in Int /\ m * a <= m * b
<1>1. b - a \in Nat
  OBVIOUS
<1>2. m * (b - a) \in Nat
  BY <1>1
<1>3. m * b = m * a + m * (b - a)
  OBVIOUS
<1> QED
  BY <1>2, <1>3

(* A refill adds a natural number of units and stops at the capacity. *)
LEMMA RefillBounds ==
  ASSUME TypeOK
  PROVE  /\ Refilled(clock) \in 0..Capacity
         /\ Rate * (clock - last) \in Nat
         /\ Refilled(clock) <= tokens + Rate * (clock - last)
         /\ \/ Refilled(clock) = Capacity
            \/ Refilled(clock) = tokens + Rate * (clock - last)
<1>1. clock - last \in Nat
  BY DEF TypeOK
<1>2. Rate * (clock - last) \in Nat
  BY <1>1, LimiterAssumption
<1> QED
  BY <1>2, LimiterAssumption DEF TypeOK, Refilled

-----------------------------------------------------------------------------

(* The bucket, the window and the handlers keep their types. *)
LEMMA TypeStep ==
  ASSUME TypeOK, [Next]_vars
  PROVE  TypeOK'
<1> USE LimiterAssumption DEF TypeOK, bucket, history, Step, Inside
<1>1. CASE Tick \/ Observe \/ UNCHANGED vars
  BY <1>1 DEF Tick, Observe, vars
<1>2. ASSUME NEW h \in Handlers, Request(h) \/ Pass(h) \/ Respond(h)
      PROVE  TypeOK'
  BY <1>2 DEF Request, Pass, Respond
<1>3. ASSUME NEW h \in Handlers, Refill(h) PROVE TypeOK'
  BY <1>3, RefillBounds DEF Refill
<1>4. ASSUME NEW h \in Handlers, Deny(h) PROVE TypeOK'
  BY <1>4 DEF Deny
<1>5. ASSUME NEW h \in Handlers, Admit(h) PROVE TypeOK'
  BY <1>5 DEF Admit
<1> QED
  BY <1>1, <1>2, <1>3, <1>4, <1>5 DEF Next

(* The bucket is never negative and never above its capacity. *)
THEOREM TypeCorrect == Spec => []TypeOK
<1>1. Init => TypeOK
  BY LimiterAssumption DEF Init, TypeOK
<1>2. TypeOK /\ [Next]_vars => TypeOK'
  BY TypeStep
<1> QED
  BY <1>1, <1>2, PTL DEF Spec

(* The mutex keeps the others out from the refill to the decision. *)
LEMMA OneInsideStep ==
  ASSUME TypeOK, OneInside, [Next]_vars
  PROVE  OneInside'
<1> USE DEF bucket, history, Step
<1>1. CASE Tick \/ Observe \/ UNCHANGED vars
  BY <1>1 DEF Tick, Observe, vars, OneInside, Inside
<1>2. ASSUME NEW h \in Handlers, Request(h) \/ Pass(h) \/ Respond(h)
      PROVE  OneInside'
  <2>1. Inside' = Inside /\ UNCHANGED <<content, tokens>>
    BY <1>2 DEF Request, Pass, Respond, Inside, TypeOK
  <2> QED
    BY <2>1 DEF OneInside
<1>3. ASSUME NEW h \in Handlers, Refill(h)
      PROVE  OneInside'
  <2>1. Inside' = {h} /\ content'[h] = tokens'
    BY <1>3 DEF Refill, Inside, TypeOK
  <2> QED
    BY <2>1 DEF OneInside
<1>4. ASSUME NEW h \in Handlers, Deny(h) \/ Admit(h)
      PROVE  OneInside'
  <2>1. h \in Inside /\ Inside' = Inside \ {h}
    BY <1>4 DEF Deny, Admit, Inside, TypeOK
  <2>2. Inside' = {}
    BY <2>1 DEF OneInside
  <2> QED
    BY <2>2 DEF OneInside
<1> QED
  BY <1>1, <1>2, <1>3, <1>4 DEF Next

(* No two handlers are inside Allow at a time, and the one that is there   *)
(* knows what the bucket holds.                                            *)
THEOREM MutexCorrect == Spec => []OneInside
<1>1. Init => OneInside
  BY DEF Init, OneInside, Inside
<1>2. TypeOK /\ OneInside /\ [Next]_vars => OneInside'
  BY OneInsideStep
<1> QED
  BY <1>1, <1>2, TypeCorrect, PTL DEF Spec

(* Refills pay into the budget, admissions are paid out of it. *)
LEMMA BudgetStep ==
  ASSUME TypeOK, OneInside, Budget, [Next]_vars
  PROVE  Budget'
<1> USE LimiterAssumption DEF bucket, history
<1>1. CASE Tick \/ UNCHANGED vars
  BY <1>1 DEF Tick, vars, Budget
<1>2. CASE Observe
  BY <1>2 DEF Observe, Budget, TypeOK
<1>3. ASSUME NEW h \in Handlers, Request(h) \/ Pass(h) \/ Respond(h) \/ Deny(h)
      PROVE  Budget'
  BY <1>3 DEF Request, Pass, Respond, Deny, Budget
<1>4. ASSUME NEW h \in Handlers, Refill(h)
      PROVE  Budget'
  <2>1. Cost * admitted + Refilled(clock) <= Capacity + Rate * (clock - since)
    <3>1. CASE since <= last
      <4>1. Rate * (clock - since) = Rate * (last - since) + Rate * (clock - last)
        BY DEF TypeOK
      <4>2. Rate * (last - since) \in Int /\ Cost * admitted \in Int
        BY DEF TypeOK
      <4> QED
        BY <3>1, <4>1, <4>2, RefillBounds DEF TypeOK, Budget
    <3>2. CASE ~(since <= last)
      <4>1. Rate * (clock - since) \in Nat
        BY DEF TypeOK
      <4> QED
        BY <3>2, <4>1, RefillBounds DEF Budget
    <3> QED
      BY <3>1, <3>2
  <2>2. /\ since' = since /\ last' = clock /\ since <= clock
        /\ tokens' = Refilled(clock) /\ admitted' = admitted
    BY <1>4 DEF Refill, TypeOK
  <2> QED
    BY <2>1, <2>2 DEF Budget
<1>5. ASSUME NEW h \in Handlers, Admit(h)
      PROVE  Budget'
  <2>1. /\ tokens' = tokens - Cost /\ since' = since /\ last' = last
        /\ admitted' = IF last >= since THEN admitted + 1 ELSE admitted
    <3>1. h \in Inside
      BY <1>5 DEF Admit, Step, Inside
    <3> QED
      BY <1>5, <3>1 DEF Admit, OneInside
  <2>2. Cost * (admitted + 1) = Cost * admitted + Cost
    BY DEF TypeOK
  <2>3. Cost * admitted \in Int /\ Rate * (last - since) \in Int
    BY DEF TypeOK
  <2> QED
    BY <2>1, <2>2, <2>3 DEF Budget, TypeOK
<1> QED
  BY <1>1, <1>2, <1>3, <1>4, <1>5 DEF Next

(***************************************************************************)
(* In every window of time the limiter admits at most one burst and what   *)
(* the window regains.                                                     *)
(***************************************************************************)
THEOREM WindowBoundCorrect == Spec => []WindowBound
<1>1. Init => Budget
  BY LimiterAssumption DEF Init, Budget
<1>2. TypeOK /\ OneInside /\ Budget /\ [Next]_vars => Budget'
  BY BudgetStep
<1>3. TypeOK /\ Budget => WindowBound
  <2> SUFFICES ASSUME TypeOK, Budget PROVE WindowBound
    OBVIOUS
  <2>1. Cost * admitted \in Int /\ Rate * (clock - since) \in Nat
    BY LimiterAssumption DEF TypeOK
  <2>2. CASE since <= last
    <3>1. Rate * (last - since) <= Rate * (clock - since)
      BY ProductMonotone, LimiterAssumption DEF TypeOK
    <3>2. Rate * (last - since) \in Int
      BY LimiterAssumption DEF TypeOK
    <3> QED
      BY <2>1, <2>2, <3>1, <3>2, LimiterAssumption DEF TypeOK, Budget, WindowBound
  <2>3. CASE ~(since <= last)
    BY <2>1, <2>3, LimiterAssumption DEF Budget, WindowBound
  <2> QED
    BY <2>2, <2>3
<1> QED
  BY <1>1, <1>2, <1>3, TypeCorrect, MutexCorrect, PTL DEF Spec

-----------------------------------------------------------------------------

(* An admission restarts the account, a refill adds to it. *)
LEMMA RegainedStep ==
  ASSUME TypeOK, OneInside, Regained, [Next]_vars
  PROVE  Regained'
<1> USE LimiterAssumption DEF bucket, history
<1>1. CASE Tick \/ Observe \/ UNCHANGED vars
  BY <1>1 DEF Tick, Observe, vars, Regained
<1>2. ASSUME NEW h \in Handlers, Request(h) \/ Pass(h) \/ Respond(h) \/ Deny(h)
      PROVE  Regained'
  BY <1>2 DEF Request, Pass, Respond, Deny, Regained
<1>3. ASSUME NEW h \in Handlers, Refill(h) PROVE Regained'
  <2>1. tokens' = Refilled(clock) /\ last' = clock /\ lastAdmit' = lastAdmit
    BY <1>3 DEF Refill
  <2>2. /\ Rate * (clock - lastAdmit)
             = Rate * (last - lastAdmit) + Rate * (clock - last)
        /\ Rate * (last - lastAdmit) \in Int
    BY DEF TypeOK
  <2> QED
    BY <2>1, <2>2, RefillBounds DEF TypeOK, Regained
<1>4. ASSUME NEW h \in Handlers, Admit(h) PROVE Regained'
  <2>1. tokens' \in Nat /\ last' = last /\ lastAdmit' = last
    BY <1>4 DEF Admit, TypeOK
  <2>2. Rate * (last - last) = 0
    BY DEF TypeOK
  <2> QED
    BY <2>1, <2>2 DEF Regained
<1> QED
  BY <1>1, <1>2, <1>3, <1>4 DEF Next

(* With a bucket of a token or more only a request too close is denied. *)
LEMMA DenyStep ==
  ASSUME TypeOK, OneInside, Regained, Next, NEW h \in Handlers,
         handler[h] = "inside", handler'[h] = "denied"
  PROVE  Rate * (last - lastAdmit) < Cost \/ Capacity < Cost
<1>1. content[h] < Cost
  BY DEF Next, Tick, Observe, Request, Pass, Refill, Admit, Deny, Respond, Step,
     bucket, history, TypeOK
<1>2. tokens < Cost
  BY <1>1 DEF OneInside, Inside
<1>3. Rate * (last - lastAdmit) \in Int
  BY LimiterAssumption DEF TypeOK
<1> QED
  BY <1>2, <1>3, LimiterAssumption DEF TypeOK, Regained

(***************************************************************************)
(* The limiter sustains the rate: only a request closer to the previous    *)
(* admission than one token's refill is ever denied, or the bucket cannot  *)
(* hold a token.                                                           *)
(***************************************************************************)
THEOREM SustainsRateCorrect == Spec => SustainsRate
<1>1. Init => Regained
  BY DEF Init, Regained
<1>2. TypeOK /\ OneInside /\ Regained /\ [Next]_vars => Regained'
  BY RegainedStep
<1>3. TypeOK /\ OneInside /\ Regained /\ [Next]_vars
        => [\A h \in Handlers :
              handler[h] = "inside" /\ handler'[h] = "denied"
                => \/ Rate * (last - lastAdmit) < Cost
                   \/ Capacity < Cost]_vars
  BY DenyStep
<1> QED
  BY <1>1, <1>2, <1>3, TypeCorrect, MutexCorrect, PTL DEF Spec, SustainsRate

(***************************************************************************)
(* A bucket that cannot hold a token never admits: what a configured rate  *)
(* below one request per second makes of the limiter.                      *)
(***************************************************************************)
THEOREM SmallBucketDeniesCorrect == Spec => []SmallBucketDenies
<1>1. Init => SmallBucketDenies
  BY DEF Init, SmallBucketDenies
<1>2. TypeOK /\ SmallBucketDenies /\ [Next]_vars => SmallBucketDenies'
  <2> SUFFICES ASSUME TypeOK, Capacity < Cost, admitted = 0, lastAdmit = -Cost,
                      [Next]_vars
               PROVE  admitted' = 0 /\ lastAdmit' = -Cost
    BY DEF SmallBucketDenies
  <2>1. ASSUME NEW h \in Handlers
        PROVE  ~Admit(h)
    BY LimiterAssumption DEF Admit, TypeOK
  <2> QED
    BY <2>1 DEF Next, Tick, Observe, Request, Pass, Refill, Deny, Respond,
       vars, bucket, history
<1> QED
  BY <1>1, <1>2, TypeCorrect, PTL DEF Spec
=============================================================================
