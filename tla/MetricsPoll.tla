---------------------------- MODULE MetricsPoll ----------------------------
(***************************************************************************)
(* A client polling GET /experiments/{id}/metrics while the engine runs:   *)
(* Service.Metrics and Handler.metrics.  The reader holds the read lock    *)
(* for the check and for the copy of the record, but the counters are      *)
(* atomics that workers bump meanwhile, and the collector's view is taken  *)
(* later under another mutex.                                              *)
(***************************************************************************)
EXTENDS TrafficEngine

VARIABLES
  step,      \* the reader: "idle", then what it reads next
  reading,   \* what it has read so far
  reply      \* the last reply sent

reader == <<step, reading, reply>>
pvars  == <<vars, reader>>

Blank   == [status |-> "running", ok |-> 0, failed |-> 0, seen |-> 0]
Replies == [status : Statuses, ok : Nat, failed : Nat, seen : Nat]

\* What MetricsResponse takes from a Result.
Response(r) == [status |-> r.exp.status, ok |-> r.exp.successful,
                failed |-> r.exp.failed, seen |-> r.seen]

PollInit ==
  /\ Init
  /\ step = "idle" /\ reading = Blank /\ reply = Blank

-----------------------------------------------------------------------------

\* r.exp.Status and r.final under one read lock: a finished run with a
\* published result is answered from it, any other is read live.
Check ==
  /\ step = "idle"
  /\ \/ /\ exp.status # "running" /\ final # Nil
        /\ reply' = Response(final)
        /\ UNCHANGED <<step, reading>>
     \/ /\ exp.status = "running" \/ final = Nil
        /\ step' = "copy"
        /\ UNCHANGED <<reading, reply>>
  /\ UNCHANGED vars

\* snapshot: the read lock is taken again; the status, then the counters.
Copy ==
  /\ step = "copy"
  /\ reading' = [Blank EXCEPT !.status = exp.status]
  /\ step' = "ok"
  /\ UNCHANGED <<vars, reply>>

LoadSuccessful ==
  /\ step = "ok"
  /\ reading' = [reading EXCEPT !.ok = exp.successful]
  /\ step' = "failed"
  /\ UNCHANGED <<vars, reply>>

LoadFailed ==
  /\ step = "failed"
  /\ reading' = [reading EXCEPT !.failed = exp.failed]
  /\ step' = "view"
  /\ UNCHANGED <<vars, reply>>

\* r.metrics.Snapshot(), after the target has been probed; then the reply.
TakeView ==
  /\ step = "view"
  /\ reply' = [reading EXCEPT !.seen = seen]
  /\ step' = "idle"
  /\ UNCHANGED <<vars, reading>>

Poll == Check \/ Copy \/ LoadSuccessful \/ LoadFailed \/ TakeView

\* The read lock is held from the copy of the status to the last counter.
Locked == step \in {"ok", "failed"}

\* finish, Stop and the publication of r.final need the write lock.
Engine ==
  /\ Next
  /\ Locked => exp'.status = exp.status /\ final' = final
  /\ UNCHANGED reader

PollNext == Engine \/ Poll

PollSpec == PollInit /\ [][PollNext]_pvars

-----------------------------------------------------------------------------

PollTypeOK ==
  /\ TypeOK
  /\ step \in {"idle", "copy", "ok", "failed", "view"}
  /\ reading \in Replies /\ reply \in Replies

(***************************************************************************)
(* A client that polls one request at a time never sees a tally or the     *)
(* status go back, the published result after live readings included       *)
(* (service.go:347-366, live.js:29-73).                                    *)
(***************************************************************************)
RepliesMonotone ==
  [][/\ reply'.ok >= reply.ok
     /\ reply'.failed >= reply.failed
     /\ reply'.seen >= reply.seen
     /\ reply.status # "running" => reply'.status = reply.status]_pvars

(***************************************************************************)
(* How torn a reply can be, one way: its counters exceed the recorded      *)
(* outcomes by at most one per worker, since each worker records before it *)
(* tallies again (service.go:303-308, 338-340, 363).  The other way there  *)
(* is no bound: the telemetry probe runs between the two readings, and     *)
(* what is recorded meanwhile is in the second only (service.go:359-363).  *)
(***************************************************************************)
SkewBounded == reply.ok + reply.failed <= reply.seen + Cardinality(Workers)

(***************************************************************************)
(* How unfinished a reply can be that says completed: the channel closed   *)
(* with that status, so at most a full channel and one outcome per worker  *)
(* are still to come (service.go:207, 225, 241, 356).  A stopped run has   *)
(* no such bound: the loop may enqueue until it sees the cancellation.     *)
(***************************************************************************)
NearFinal ==
  reply.status = "completed" => seen <= reply.seen + 3 * Cardinality(Workers)

(***************************************************************************)
(* The inductive invariant behind the three: what the reader has is never  *)
(* ahead of the engine, what it replied is never ahead of what it reads.   *)
(***************************************************************************)
Behind ==
  /\ reply.ok <= exp.successful /\ reply.failed <= exp.failed
  /\ reply.seen <= seen
  /\ step \in {"failed", "view"} =>
       reply.ok <= reading.ok /\ reading.ok <= exp.successful
  /\ step = "view" =>
       reply.failed <= reading.failed /\ reading.failed <= exp.failed

SameVerdict ==
  /\ reply.status # "running" => exp.status = reply.status
  /\ step \in {"ok", "failed", "view"} =>
       /\ reading.status # "running" => exp.status = reading.status
       /\ reply.status # "running" => reading.status = reply.status

Owed == tokens + Num(WorkerPCs \ {"recv", "exit"})

StillToCome == reply.status = "completed" =>
                 /\ Closed
                 /\ seen + Owed <= reply.seen + 3 * Cardinality(Workers)

PollInv == Behind /\ SameVerdict /\ StillToCome /\ SkewBounded

-----------------------------------------------------------------------------

(***************************************************************************)
(* Metrics returns "the stored/final result for a finished" experiment     *)
(* (service.go:344-346): a reply that says finished carries final numbers. *)
(***************************************************************************)
FinishedReplyFinal ==
  reply.status # "running" => final # Nil /\ reply = Response(final)
=============================================================================
