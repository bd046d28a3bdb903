-------------------------- MODULE CollectorProofs --------------------------
(***************************************************************************)
(* Proofs about Collector for any number of recorders and outcomes, any    *)
(* reservoir and any window no longer than what is kept.                   *)
(***************************************************************************)
EXTENDS Collector, FiniteSetTheorems, SequenceTheorems, WellFoundedInduction,
        TLAPS

(* The collector's lists are lists of numbers, and no recorder has read a  *)
(* clock that has not struck.                                              *)
Lists ==
  /\ samples \in Seq(Nat) /\ timestamps \in Seq(Nat) /\ stamps \in Seq(Nat)
  /\ \A w \in Recorders : now[w] # Nil => now[w] <= clock

(***************************************************************************)
(* What is kept is the end of what was recorded: old was dropped, and all  *)
(* of it has left every window for good.                                   *)
(***************************************************************************)
Dropped(old) ==
  /\ Len(stamps) = old + Len(timestamps)
  /\ \A i \in 1..Len(timestamps) : timestamps[i] = stamps[old + i]
  /\ \A i \in 1..old : stamps[i] < clock - Keep

KeepsTheEnd == \E old \in Nat : Dropped(old)

CInv == TypeOK /\ Lists /\ SamplesSound /\ KeepsTheEnd

(* A set of natural numbers that is not empty has a least one. *)
LEMMA LeastNumber ==
  ASSUME NEW T \in SUBSET Nat, T # {}
  PROVE  \E x \in T : \A y \in T : x <= y
<1> DEFINE R == OpToRel(<, Nat)
<1>1. IsWellFoundedOn(R, Nat)
  BY NatLessThanWellFounded
<1>2. PICK x \in T : \A y \in T : <<y, x>> \notin R
  <2> HIDE DEF R
  <2> QED BY <1>1, WFMin
<1>3. \A y \in T : ~(y < x)
  BY <1>2 DEF OpToRel
<1> QED
  BY <1>3

(* Trimming drops a beginning, all of it before the cutoff. *)
LEMMA TrimmedProperties ==
  ASSUME NEW ts \in Seq(Nat), Len(ts) > 0, NEW cutoff \in Int,
         ts[Len(ts)] >= cutoff
  PROVE  \E gone \in 0..(Len(ts) - 1) :
           /\ Trimmed(ts, cutoff) \in Seq(Nat)
           /\ Len(Trimmed(ts, cutoff)) = Len(ts) - gone
           /\ \A i \in 1..(Len(ts) - gone) :
                Trimmed(ts, cutoff)[i] = ts[gone + i]
           /\ \A i \in 1..gone : ts[i] < cutoff
<1> DEFINE Late  == {i \in DOMAIN ts : ts[i] >= cutoff}
           First(i) == /\ ts[i] >= cutoff
                       /\ \A j \in 1..(i - 1) : ts[j] < cutoff
           first == CHOOSE i \in DOMAIN ts : First(i)
<1>1. DOMAIN ts = 1..Len(ts) /\ Len(ts) \in Nat /\ \A i \in 1..Len(ts) : ts[i] \in Nat
  BY LenProperties, ElementOfSeq
<1>2. PICK x \in Late : \A y \in Late : x <= y
  <2>1. Len(ts) \in Late /\ Late \in SUBSET Nat
    BY <1>1
  <2> QED
    BY <2>1, LeastNumber
<1>3. First(x)
  <2>1. x \in 1..Len(ts) /\ ts[x] >= cutoff
    BY <1>1
  <2>2. ASSUME NEW j \in 1..(x - 1) PROVE ts[j] < cutoff
    <3>1. j \in 1..Len(ts) /\ ~(x <= j) /\ ts[j] \in Nat
      BY <1>1, <2>1
    <3>2. j \notin Late
      BY <1>2, <3>1
    <3> QED
      BY <1>1, <3>1, <3>2
  <2> QED
    BY <2>1, <2>2
<1>4. first \in DOMAIN ts /\ First(first)
  <2> HIDE DEF First
  <2> QED BY <1>2, <1>3
<1>5. Trimmed(ts, cutoff) = SubSeq(ts, first, Len(ts))
  BY DEF Trimmed
<1>6. first \in 1..Len(ts)
  BY <1>1, <1>4
<1> HIDE DEF first
<1>7. /\ SubSeq(ts, first, Len(ts)) \in Seq(Nat)
      /\ Len(SubSeq(ts, first, Len(ts))) = Len(ts) - first + 1
      /\ \A i \in 1..(Len(ts) - first + 1) :
           SubSeq(ts, first, Len(ts))[i] = ts[first + i - 1]
  BY <1>1, <1>6, SubSeqProperties
<1>8. first - 1 \in 0..(Len(ts) - 1)
  BY <1>1, <1>6
<1> QED
  <2>1. \A i \in 1..(Len(ts) - (first - 1)) :
          Trimmed(ts, cutoff)[i] = ts[(first - 1) + i]
    BY <1>1, <1>5, <1>6, <1>7
  <2>2. Len(Trimmed(ts, cutoff)) = Len(ts) - (first - 1)
    BY <1>1, <1>5, <1>6, <1>7
  <2> QED
    BY <1>4, <1>5, <1>7, <1>8, <2>1, <2>2

(* The windows of what is kept and of everything hold as many outcomes. *)
LEMMA SameWindow ==
  ASSUME TypeOK, Lists, KeepsTheEnd
  PROVE  RateExact
<1>1. PICK old \in Nat : Dropped(old)
  BY DEF KeepsTheEnd
<1> DEFINE A == {i \in DOMAIN timestamps : timestamps[i] >= clock - Window}
           B == {i \in DOMAIN stamps : stamps[i] >= clock - Window}
           f == [i \in A |-> old + i]
<1>2. /\ DOMAIN timestamps = 1..Len(timestamps) /\ Len(timestamps) \in Nat
      /\ DOMAIN stamps = 1..Len(stamps) /\ Len(stamps) \in Nat
      /\ \A i \in 1..Len(stamps) : stamps[i] \in Nat
  BY LenProperties, ElementOfSeq DEF Lists
<1>3. f \in [A -> B]
  <2> SUFFICES ASSUME NEW i \in A PROVE old + i \in B
    OBVIOUS
  <2>1. i \in 1..Len(timestamps) /\ timestamps[i] >= clock - Window
    BY <1>2
  <2>2. old + i \in 1..Len(stamps) /\ stamps[old + i] = timestamps[i]
    BY <1>1, <1>2, <2>1 DEF Dropped
  <2> QED
    BY <1>2, <2>1, <2>2
<1>4. \A i, j \in A : f[i] = f[j] => i = j
  BY <1>2
<1>5. \A j \in B : \E i \in A : f[i] = j
  <2> SUFFICES ASSUME NEW j \in B PROVE \E i \in A : old + i = j
    OBVIOUS
  <2>1. j \in 1..Len(stamps) /\ stamps[j] >= clock - Window /\ stamps[j] \in Nat
    BY <1>2
  <2>2. ~(j <= old)
    BY <1>1, <2>1, CollectorAssumption DEF Dropped, TypeOK
  <2>3. j - old \in 1..Len(timestamps) /\ old + (j - old) = j
    BY <1>1, <1>2, <2>1, <2>2 DEF Dropped
  <2>4. timestamps[j - old] = stamps[j]
    BY <1>1, <2>3 DEF Dropped
  <2>5. j - old \in A
    BY <1>2, <2>1, <2>3, <2>4
  <2> QED
    BY <2>3, <2>5
<1>6. ExistsBijection(A, B)
  <2> HIDE DEF A, B
  <2>1. f \in Bijection(A, B)
    BY <1>3, <1>4, <1>5 DEF Bijection, Injection, Surjection, IsInjective
  <2> QED
    BY <2>1 DEF ExistsBijection
<1>7. IsFiniteSet(A)
  <2>1. A \subseteq 1..Len(timestamps)
    BY <1>2
  <2>2. IsFiniteSet(1..Len(timestamps))
    BY <1>2, FS_Interval
  <2> QED
    BY <2>1, <2>2, FS_Subset
<1>8. Cardinality(A) = Cardinality(B)
  BY <1>6, <1>7, FS_Bijection
<1> QED
  BY <1>8 DEF RateExact, InWindow
-----------------------------------------------------------------------------

(* The reservoir after another outcome: its number is new, and wherever it *)
(* goes no other is doubled.                                               *)
LEMMA OfferedSound ==
  ASSUME TypeOK, Lists, SamplesSound, NEW s \in Offered(seen + 1)
  PROVE  /\ s \in Seq(Nat)
         /\ \A i \in DOMAIN s : s[i] \in 1..(seen + 1)
         /\ Len(s) = IF seen + 1 < MaxSamples THEN seen + 1 ELSE MaxSamples
         /\ \A i, j \in DOMAIN s : s[i] = s[j] => i = j
<1> USE CollectorAssumption
<1>1. /\ seen \in Nat /\ Len(samples) \in Nat /\ samples \in Seq(Nat)
      /\ DOMAIN samples = 1..Len(samples)
      /\ \A i \in 1..Len(samples) : samples[i] \in 1..seen
      /\ \A i, j \in 1..Len(samples) : samples[i] = samples[j] => i = j
      /\ Len(samples) = IF seen < MaxSamples THEN seen ELSE MaxSamples
  BY LenProperties DEF TypeOK, Lists, SamplesSound
<1>2. CASE Len(samples) < MaxSamples
  <2>1. s = Append(samples, seen + 1)
    BY <1>2 DEF Offered
  <2>2. /\ s \in Seq(Nat) /\ Len(s) = Len(samples) + 1
        /\ \A i \in 1..Len(samples) : s[i] = samples[i]
        /\ s[Len(samples) + 1] = seen + 1
    BY <1>1, <2>1, AppendProperties
  <2>3. DOMAIN s = 1..(Len(samples) + 1)
    BY <2>2, LenProperties
  <2>4. \A i \in DOMAIN s : i \in 1..Len(samples) \/ i = Len(samples) + 1
    BY <1>1, <2>3
  <2>5. \A i \in DOMAIN s : s[i] \in 1..(seen + 1)
    <3> SUFFICES ASSUME NEW i \in DOMAIN s PROVE s[i] \in 1..(seen + 1)
      OBVIOUS
    <3>1. CASE i \in 1..Len(samples)
      <4>1. s[i] = samples[i] /\ samples[i] \in 1..seen
        BY <1>1, <2>2, <3>1
      <4> QED
        BY <1>1, <4>1
    <3>2. CASE i = Len(samples) + 1
      BY <1>1, <2>2, <3>2
    <3> QED
      BY <2>4, <3>1, <3>2
  <2>6. \A i \in 1..Len(samples) : s[i] # seen + 1
    BY <1>1, <2>2
  <2>7. \A i, j \in DOMAIN s : s[i] = s[j] => i = j
    BY <1>1, <2>2, <2>4, <2>6
  <2> QED
    BY <1>1, <1>2, <2>2, <2>5, <2>7
<1>3. CASE ~(Len(samples) < MaxSamples)
  <2>1. Len(samples) = MaxSamples /\ ~(seen + 1 < MaxSamples)
    BY <1>1, <1>3
  <2>2. PICK j \in 0..seen :
          s = IF j < MaxSamples THEN [samples EXCEPT ![j + 1] = seen + 1]
              ELSE samples
    BY <1>1, <1>3 DEF Offered
  <2>3. CASE j < MaxSamples
    <3>1. j + 1 \in 1..Len(samples) /\ s = [samples EXCEPT ![j + 1] = seen + 1]
      BY <2>1, <2>2, <2>3
    <3>2. /\ s \in Seq(Nat) /\ Len(s) = Len(samples)
          /\ \A i \in 1..Len(samples) :
               s[i] = IF i = j + 1 THEN seen + 1 ELSE samples[i]
      BY <1>1, <3>1, ExceptSeq
    <3>3. DOMAIN s = 1..Len(samples)
      BY <3>2, LenProperties
    <3>4. \A i \in 1..Len(samples) : samples[i] # seen + 1
      BY <1>1
    <3>5. \A i \in DOMAIN s : s[i] \in 1..(seen + 1)
      BY <1>1, <3>2, <3>3
    <3>6. \A i, k \in DOMAIN s : s[i] = s[k] => i = k
      BY <1>1, <3>2, <3>3, <3>4
    <3> QED
      BY <2>1, <3>2, <3>5, <3>6
  <2>4. CASE ~(j < MaxSamples)
    <3>1. s = samples
      BY <2>2, <2>4
    <3> QED
      BY <1>1, <2>1, <3>1
  <2> QED
    BY <2>3, <2>4
<1> QED
  BY <1>2, <1>3

(* What Record makes of the timestamps and of their history. *)
LEMMA RecordKeepsTheEnd ==
  ASSUME CInv, NEW w \in Recorders, Record(w)
  PROVE  /\ timestamps' \in Seq(Nat) /\ stamps' \in Seq(Nat)
         /\ \A i \in 1..Len(timestamps') : timestamps'[i] \in 0..clock
         /\ KeepsTheEnd'
<1> USE CollectorAssumption
<1> DEFINE t  == now[w]
           ts == Append(timestamps, t)
<1>1. /\ t \in Nat /\ t <= clock /\ clock \in Nat
      /\ timestamps \in Seq(Nat) /\ stamps \in Seq(Nat)
      /\ timestamps' = Trimmed(ts, t - Keep)
      /\ stamps' = Append(stamps, t)
      /\ clock' = clock
  BY DEF CInv, TypeOK, Lists, Record
<1>2. /\ Len(timestamps) \in Nat /\ Len(stamps) \in Nat
      /\ DOMAIN timestamps = 1..Len(timestamps)
      /\ \A i \in 1..Len(timestamps) : timestamps[i] \in 0..clock
  BY <1>1, LenProperties DEF CInv, TypeOK
<1> HIDE DEF t
<1>3. /\ ts \in Seq(Nat) /\ Len(ts) = Len(timestamps) + 1
      /\ \A i \in 1..Len(timestamps) : ts[i] = timestamps[i]
      /\ ts[Len(timestamps) + 1] = t
  BY <1>1, AppendProperties
<1>4. /\ stamps' \in Seq(Nat) /\ Len(stamps') = Len(stamps) + 1
      /\ \A i \in 1..Len(stamps) : stamps'[i] = stamps[i]
      /\ stamps'[Len(stamps) + 1] = t
  BY <1>1, AppendProperties
<1> HIDE DEF ts
<1>5. PICK gone \in 0..(Len(ts) - 1) :
        /\ timestamps' \in Seq(Nat)
        /\ Len(timestamps') = Len(ts) - gone
        /\ \A i \in 1..(Len(ts) - gone) : timestamps'[i] = ts[gone + i]
        /\ \A i \in 1..gone : ts[i] < t - Keep
  <2>1. Len(ts) > 0 /\ t - Keep \in Int /\ ts[Len(ts)] >= t - Keep
    BY <1>1, <1>2, <1>3
  <2> QED
    BY <1>1, <1>3, <2>1, TrimmedProperties
<1>6. PICK old \in Nat : Dropped(old)
  BY DEF CInv, KeepsTheEnd
<1>7. \A i \in 1..Len(ts) : ts[i] \in 0..clock /\ ts[i] = stamps'[old + i]
  <2> SUFFICES ASSUME NEW i \in 1..Len(ts)
               PROVE  ts[i] \in 0..clock /\ ts[i] = stamps'[old + i]
    OBVIOUS
  <2>1. CASE i = Len(timestamps) + 1
    <3>1. old + i = Len(stamps) + 1
      BY <1>2, <1>6, <2>1 DEF Dropped
    <3> QED
      BY <1>1, <1>3, <1>4, <2>1, <3>1
  <2>2. CASE i # Len(timestamps) + 1
    <3>1. i \in 1..Len(timestamps)
      BY <1>2, <1>3, <2>2
    <3>2. old + i \in 1..Len(stamps) /\ timestamps[i] = stamps[old + i]
      BY <1>2, <1>6, <3>1 DEF Dropped
    <3> QED
      BY <1>2, <1>3, <1>4, <3>1, <3>2
  <2> QED
    BY <2>1, <2>2
<1>8. Dropped(old + gone)'
  <2>1. Len(stamps') = (old + gone) + Len(timestamps')
    BY <1>2, <1>3, <1>4, <1>5, <1>6 DEF Dropped
  <2>2. ASSUME NEW i \in 1..Len(timestamps')
        PROVE  timestamps'[i] = stamps'[(old + gone) + i]
    <3>1. gone + i \in 1..Len(ts) /\ i \in 1..(Len(ts) - gone)
      BY <1>2, <1>3, <1>5
    <3>2. (old + gone) + i = old + (gone + i)
      BY <1>5
    <3> QED
      BY <1>5, <1>7, <3>1, <3>2
  <2>3. ASSUME NEW i \in 1..(old + gone)
        PROVE  stamps'[i] < clock' - Keep
    <3>1. CASE i <= old
      <4>1. i \in 1..Len(stamps) /\ stamps[i] < clock - Keep
        BY <1>2, <1>6, <3>1 DEF Dropped
      <4> QED
        BY <1>1, <1>4, <4>1
    <3>2. CASE ~(i <= old)
      <4>1. i - old \in 1..gone /\ i - old \in 1..Len(ts) /\ old + (i - old) = i
        BY <1>2, <1>3, <1>5, <3>2
      <4>2. ts[i - old] < t - Keep /\ stamps'[i] = ts[i - old]
            /\ ts[i - old] \in 0..clock
        BY <1>5, <1>7, <4>1
      <4> QED
        BY <1>1, <4>2
    <3> QED
      BY <3>1, <3>2
  <2> QED
    BY <2>1, <2>2, <2>3 DEF Dropped
<1>9. old + gone \in Nat
  BY <1>3, <1>5
<1>10. \A i \in 1..Len(timestamps') : timestamps'[i] \in 0..clock
  <2> SUFFICES ASSUME NEW i \in 1..Len(timestamps')
               PROVE  timestamps'[i] \in 0..clock
    OBVIOUS
  <2>1. gone + i \in 1..Len(ts) /\ i \in 1..(Len(ts) - gone)
    BY <1>2, <1>3, <1>5
  <2> QED
    BY <1>5, <1>7, <2>1
<1> QED
  BY <1>4, <1>5, <1>8, <1>9, <1>10 DEF KeepsTheEnd

(* Every step keeps the invariant. *)
LEMMA CollectorStep ==
  ASSUME CInv, [Next]_vars
  PROVE  CInv'
<1> USE CollectorAssumption
<1>1. CASE UNCHANGED vars
  BY <1>1 DEF vars, CInv, TypeOK, Lists, SamplesSound, KeepsTheEnd, Dropped
<1>2. CASE Tick
  <2>1. TypeOK' /\ Lists' /\ SamplesSound'
    BY <1>2 DEF Tick, CInv, TypeOK, Lists, SamplesSound
  <2>2. PICK old \in Nat : Dropped(old)
    BY DEF CInv, KeepsTheEnd
  <2>3. clock' = clock + 1 /\ clock \in Nat
    BY <1>2 DEF Tick, CInv, TypeOK
  <2>4. \A i \in 1..old : stamps[i] \in Nat
    <3>1. Len(timestamps) \in Nat /\ Len(stamps) \in Nat
          /\ \A i \in 1..Len(stamps) : stamps[i] \in Nat
      BY LenProperties, ElementOfSeq DEF CInv, Lists
    <3> QED
      BY <2>2, <3>1 DEF Dropped
  <2>5. Dropped(old)'
    BY <1>2, <2>2, <2>3, <2>4 DEF Tick, Dropped
  <2> QED
    BY <2>1, <2>2, <2>5 DEF CInv, KeepsTheEnd
<1>3. ASSUME NEW w \in Recorders, ReadClock(w) PROVE CInv'
  <2>1. TypeOK' /\ Lists' /\ SamplesSound'
    BY <1>3 DEF ReadClock, CInv, TypeOK, Lists, SamplesSound
  <2>2. KeepsTheEnd'
    BY <1>3 DEF ReadClock, CInv, KeepsTheEnd, Dropped
  <2> QED
    BY <2>1, <2>2 DEF CInv
<1>4. ASSUME NEW w \in Recorders, Record(w) PROVE CInv'
  <2>1. /\ samples' \in Offered(seen + 1) /\ seen' = seen + 1 /\ seen \in Nat
        /\ clock' = clock /\ clock \in 0..MaxClock
        /\ now' = [now EXCEPT ![w] = Nil] /\ now \in [Recorders -> Nat \cup {Nil}]
        /\ TypeOK /\ Lists /\ SamplesSound
    BY <1>4 DEF Record, CInv, TypeOK
  <2>2. /\ samples' \in Seq(Nat)
        /\ \A i \in DOMAIN samples' : samples'[i] \in 1..seen'
        /\ SamplesSound'
    BY <2>1, OfferedSound DEF SamplesSound
  <2>3. /\ timestamps' \in Seq(Nat) /\ stamps' \in Seq(Nat) /\ KeepsTheEnd'
        /\ \A i \in DOMAIN timestamps' : timestamps'[i] \in 0..clock'
    BY <1>4, <2>1, RecordKeepsTheEnd, LenProperties
  <2>4. /\ now' \in [Recorders -> Nat \cup {Nil}]
        /\ \A v \in Recorders : now'[v] # Nil => now'[v] <= clock'
    BY <2>1 DEF Lists
  <2> QED
    BY <2>1, <2>2, <2>3, <2>4 DEF CInv, TypeOK, Lists
<1> QED
  BY <1>1, <1>2, <1>3, <1>4 DEF Next, Terminated

(***************************************************************************)
(* The invariant that the three results below rest on: beyond their types, *)
(* the kept timestamps are the last of all ever recorded.                  *)
(***************************************************************************)
THEOREM CollectorInductive == Spec => []CInv
<1>1. Init => CInv
  <2> SUFFICES ASSUME Init PROVE CInv
    OBVIOUS
  <2>1. TypeOK /\ Lists /\ SamplesSound
    BY CollectorAssumption, EmptySeq DEF Init, TypeOK, Lists, SamplesSound
  <2>2. Dropped(0)
    BY EmptySeq DEF Init, Dropped
  <2> QED
    BY <2>1, <2>2 DEF CInv, KeepsTheEnd
<1>2. CInv /\ [Next]_vars => CInv'
  BY CollectorStep
<1> QED
  BY <1>1, <1>2, PTL DEF Spec

(* The collector's variables keep their types, with any number of workers. *)
THEOREM CollectorTypeCorrect == Spec => []TypeOK
  BY CollectorInductive, PTL DEF CInv

(***************************************************************************)
(* The reservoir is as full as it can be and has no outcome twice, for any *)
(* size of it and any choices of the random index.                         *)
(***************************************************************************)
THEOREM SamplesSoundCorrect == Spec => []SamplesSound
  BY CollectorInductive, PTL DEF CInv

(***************************************************************************)
(* The reported rate counts every outcome of the window, for any number of *)
(* workers whose timestamps enter out of order, if the window is no longer *)
(* than what is kept.                                                      *)
(***************************************************************************)
THEOREM RateExactCorrect == Spec => []RateExact
<1>1. CInv => RateExact
  BY SameWindow DEF CInv
<1> QED
  BY <1>1, CollectorInductive, PTL
=============================================================================
