------------------------------ MODULE Limiter ------------------------------
(***************************************************************************)
(* The test server's defense (backend/internal/server/ratelimit.go): one   *)
(* token bucket shared by the handler goroutines of all flagged requests.  *)
(*                                                                         *)
(* The code's floats become integers: time passes in ticks, the bucket     *)
(* regains Rate units per tick, one request costs Cost units.  With S      *)
(* ticks to the second the code's rate is Rate * S / Cost requests per     *)
(* second, and a bucket of `rate` tokens is one of Rate * S units.         *)
(***************************************************************************)
EXTENDS Integers

CONSTANTS
  Handlers,  \* handler goroutines
  Rate,      \* units regained per tick
  Cost,      \* units in one token
  Capacity,  \* units in a full bucket
  MaxClock   \* bound on the clock

ASSUME LimiterAssumption ==
  /\ Rate \in Nat \ {0} /\ Cost \in Nat \ {0} /\ Capacity \in Nat \ {0}
  /\ MaxClock \in Nat

VARIABLES
  clock,     \* time.Now()
  tokens,    \* l.tokens, in units
  last,      \* l.last
  handler,   \* what each handler goroutine does: idle, waiting for l.mu,
             \* inside Allow, or writing its answer
  content,   \* what the handler inside Allow read of the bucket
  since,     \* history: the start of some window of time ...
  admitted,  \* ... and the requests admitted by an Allow that read a time in it
  lastAdmit  \* history: the time read by the last Allow that admitted one

bucket  == <<tokens, last>>
history == <<since, admitted, lastAdmit>>
vars    == <<clock, bucket, handler, content, history>>

\* The handlers that hold l.mu.
Inside == {h \in Handlers : handler[h] = "inside"}

\* A full bucket is as good as an admission too long ago to matter.
Init ==
  /\ clock = 0
  /\ tokens = Capacity /\ last = 0
  /\ handler = [h \in Handlers |-> "idle"]
  /\ content = [h \in Handlers |-> 0]
  /\ since = 0 /\ admitted = 0 /\ lastAdmit = -Cost

Tick ==
  /\ clock < MaxClock
  /\ clock' = clock + 1
  /\ UNCHANGED <<bucket, handler, content, history>>

Step(h, from, to) ==
  /\ handler[h] = from
  /\ handler' = [handler EXCEPT ![h] = to]

\* A flagged request calls Allow and waits for the mutex.
Request(h) ==
  /\ Step(h, "idle", "waiting")
  /\ UNCHANGED <<clock, bucket, content, history>>

\* An unflagged request, or any request without a limiter, is served.
Pass(h) ==
  /\ Step(h, "idle", "served")
  /\ UNCHANGED <<clock, bucket, content, history>>

BugRefilled(now) == tokens + Rate * (now - last)

\* The bucket's content at time now.
Refilled(now) == LET level == tokens + Rate * (now - last)
                 IN  IF level > Capacity THEN Capacity ELSE level

\* No mutex.
BugRefill(h) ==
  /\ Step(h, "waiting", "inside")
  /\ tokens' = Refilled(clock) /\ last' = clock
  /\ content' = [content EXCEPT ![h] = Refilled(clock)]
  /\ UNCHANGED <<clock, history>>

\* Allow has the mutex, reads the clock and refills the bucket.
Refill(h) ==
  /\ Inside = {}
  /\ Step(h, "waiting", "inside")
  /\ tokens' = Refilled(clock) /\ last' = clock
  /\ content' = [content EXCEPT ![h] = Refilled(clock)]
  /\ UNCHANGED <<clock, history>>

\* The token is taken before it is known to be there.
BugDeny(h) ==
  /\ content[h] < Cost
  /\ Step(h, "inside", "denied")
  /\ tokens' = content[h] - Cost
  /\ content' = [content EXCEPT ![h] = 0]
  /\ UNCHANGED <<clock, last, history>>

\* It finds less than a token there: 429.
Deny(h) ==
  /\ content[h] < Cost
  /\ Step(h, "inside", "denied")
  /\ content' = [content EXCEPT ![h] = 0]
  /\ UNCHANGED <<clock, bucket, history>>

\* It takes a token: the request is served.
Admit(h) ==
  /\ content[h] >= Cost
  /\ Step(h, "inside", "served")
  /\ tokens' = content[h] - Cost
  /\ content' = [content EXCEPT ![h] = 0]
  /\ admitted' = IF last >= since THEN admitted + 1 ELSE admitted
  /\ lastAdmit' = last
  /\ UNCHANGED <<clock, last, since>>

Respond(h) ==
  /\ handler[h] \in {"served", "denied"}
  /\ handler' = [handler EXCEPT ![h] = "idle"]
  /\ UNCHANGED <<clock, bucket, content, history>>

\* The observer opens a new window, whenever it likes.
Observe ==
  /\ since' = clock /\ admitted' = 0
  /\ UNCHANGED <<clock, bucket, handler, content, lastAdmit>>

Next == \/ Tick \/ Observe
        \/ \E h \in Handlers : Request(h) \/ Pass(h) \/ Refill(h) \/ Admit(h)
                                 \/ Deny(h) \/ Respond(h)

Spec == Init /\ [][Next]_vars

-----------------------------------------------------------------------------

TypeOK ==
  /\ clock \in Nat /\ last \in 0..clock /\ tokens \in 0..Capacity
  /\ handler \in [Handlers -> {"idle", "waiting", "inside", "served", "denied"}]
  /\ content \in [Handlers -> 0..Capacity]
  /\ since \in 0..clock /\ admitted \in Nat
  /\ lastAdmit \in Int /\ lastAdmit <= last

(***************************************************************************)
(* "sustains rate requests/second with bursts up to capacity"              *)
(* (ratelimit.go:35-36), from above: in no window of time are more flagged *)
(* requests admitted than one burst and what the window's length regains.  *)
(* A request belongs to the time that Allow read for it: a handler may be  *)
(* held up between reading the clock and taking the token.                 *)
(***************************************************************************)
WindowBound == Cost * admitted <= Capacity + Rate * (clock - since)

(***************************************************************************)
(* The same from below: a request is denied only when its time is closer   *)
(* to the previous admission's than one token's refill, so that a client   *)
(* at or below the rate is never denied, whatever denied requests did to   *)
(* the bucket in between; or when the bucket is smaller than one token.    *)
(* NewMux makes the capacity the rate (testserver.go:29), so the second    *)
(* happens with a configured rate below one request per second.            *)
(***************************************************************************)
SustainsRate ==
  [][\A h \in Handlers :
       handler[h] = "inside" /\ handler'[h] = "denied"
         => \/ Rate * (last - lastAdmit) < Cost
            \/ Capacity < Cost]_vars

(***************************************************************************)
(* A bucket smaller than one token denies every flagged request for good   *)
(* (ratelimit.go:54), and sustains no rate at all.                         *)
(***************************************************************************)
SmallBucketDenies == Capacity < Cost => admitted = 0 /\ lastAdmit = -Cost
=============================================================================
