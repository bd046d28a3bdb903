----------------------------- MODULE Collector -----------------------------
(***************************************************************************)
(* The metrics collector (backend/internal/experiment/metrics.go): workers *)
(* record outcomes concurrently, and a snapshot reports the request rate   *)
(* of a sliding window and a sample of the latencies.  Record reads the    *)
(* clock before it takes the mutex, so timestamps enter out of order.      *)
(*                                                                         *)
(* A sample is represented by the number of the outcome it came from.      *)
(***************************************************************************)
EXTENDS Integers, Sequences, FiniteSets

CONSTANTS
  Recorders,   \* the workers
  MaxSamples,  \* maxSamples (8192)
  Window,      \* rpsWindow (5 s), in ticks
  Keep,        \* tsKeep (10 s), in ticks
  MaxClock,    \* bound on the clock
  MaxSeen,     \* bound on the outcomes recorded
  Nil

ASSUME CollectorAssumption ==
  /\ MaxSamples \in Nat \ {0} /\ MaxClock \in Nat /\ MaxSeen \in Nat
  /\ Window \in Nat /\ Keep \in Nat /\ Window <= Keep
  /\ Nil \notin Nat

VARIABLES
  clock,       \* time.Now()
  now,         \* each recorder's local variable now, between clock and lock
  seen,        \* m.seen
  samples,     \* m.samples
  timestamps,  \* m.timestamps
  stamps       \* history: every timestamp ever recorded

vars == <<clock, now, seen, samples, timestamps, stamps>>

Init ==
  /\ clock = 0
  /\ now = [w \in Recorders |-> Nil]
  /\ seen = 0
  /\ samples = <<>> /\ timestamps = <<>> /\ stamps = <<>>

Tick ==
  /\ clock < MaxClock
  /\ clock' = clock + 1
  /\ UNCHANGED <<now, seen, samples, timestamps, stamps>>

\* Record: now := time.Now(), before m.mu.Lock().
ReadClock(w) ==
  /\ now[w] = Nil /\ seen < MaxSeen
  /\ now' = [now EXCEPT ![w] = clock]
  /\ UNCHANGED <<clock, seen, samples, timestamps, stamps>>

BugTrimmed(ts, cutoff) ==
  LET first == CHOOSE i \in DOMAIN ts : /\ ts[i] >= cutoff
                                        /\ \A j \in 1..(i - 1) : ts[j] < cutoff
  IN  SubSeq(ts, first + 1, Len(ts))

\* The timestamps without the leading ones before cutoff (the last one, just
\* appended, never is).
Trimmed(ts, cutoff) ==
  LET first == CHOOSE i \in DOMAIN ts : /\ ts[i] >= cutoff
                                        /\ \A j \in 1..(i - 1) : ts[j] < cutoff
  IN  SubSeq(ts, first, Len(ts))

BugOffered(item) ==
  IF Len(samples) < MaxSamples
  THEN {Append(samples, item)}
  ELSE {Append(Tail(samples), item)} \cup {Append(samples, item)}

\* What algorithm R can make of the reservoir: j = rand.Intn(m.seen).
Offered(item) ==
  IF Len(samples) < MaxSamples
  THEN {Append(samples, item)}
  ELSE {IF j < MaxSamples THEN [samples EXCEPT ![j + 1] = item] ELSE samples :
          j \in 0..(item - 1)}

\* The rest of Record, under the mutex.
Record(w) ==
  /\ now[w] # Nil
  /\ now' = [now EXCEPT ![w] = Nil]
  /\ seen' = seen + 1
  /\ samples' \in Offered(seen + 1)
  /\ timestamps' = Trimmed(Append(timestamps, now[w]), now[w] - Keep)
  /\ stamps' = Append(stamps, now[w])
  /\ UNCHANGED clock

\* Everything is recorded and the clock has stopped.
Terminated ==
  /\ clock = MaxClock /\ seen >= MaxSeen /\ \A w \in Recorders : now[w] = Nil
  /\ UNCHANGED vars

Next == Tick \/ (\E w \in Recorders : ReadClock(w) \/ Record(w)) \/ Terminated

Spec == Init /\ [][Next]_vars

-----------------------------------------------------------------------------

\* Snapshot: the requests of the last rpsWindow, of which v.RPS is the mean.
InWindow(ts) == Cardinality({i \in DOMAIN ts : ts[i] >= clock - Window})

TypeOK ==
  /\ clock \in 0..MaxClock /\ seen \in Nat
  /\ now \in [Recorders -> Nat \cup {Nil}]
  /\ \A i \in DOMAIN timestamps : timestamps[i] \in 0..clock
  /\ \A i \in DOMAIN samples : samples[i] \in 1..seen

(***************************************************************************)
(* The reported rate counts every outcome recorded in the window, whenever *)
(* the snapshot is taken: trimming on a recorder's own, possibly old, now  *)
(* and in append order drops nothing the window still needs, and keeps     *)
(* nothing twice (metrics.go:55-63, 90-98).                                *)
(***************************************************************************)
RateExact == InWindow(timestamps) = InWindow(stamps)

(***************************************************************************)
(* The reservoir holds as many different outcomes as it can, each at most  *)
(* once (metrics.go:46-52, 103).                                           *)
(***************************************************************************)
SamplesSound ==
  /\ Len(samples) = IF seen < MaxSamples THEN seen ELSE MaxSamples
  /\ \A i, j \in DOMAIN samples : samples[i] = samples[j] => i = j
=============================================================================
