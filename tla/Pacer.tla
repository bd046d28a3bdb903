------------------------------- MODULE Pacer -------------------------------
(***************************************************************************)
(* From a posted configuration to the ticks of its run: the allowlist that *)
(* the process reads from its environment (server/allowlist.go), the caps  *)
(* of Config.Validate and TargetBaseURL (experiment/model.go), and the     *)
(* ticker and timer of execute (experiment/service.go), whose interval is  *)
(* an integer division.  TrafficEngine starts where this module ends: its  *)
(* clock counts these ticks.  The outcomes of the run fill the reservoir   *)
(* of Percentiles.                                                         *)
(*                                                                         *)
(* Time is counted in units of 1/Second seconds.  A host is a name with    *)
(* what its spelling may add: capitals, and blanks around it in a list.    *)
(***************************************************************************)
EXTENDS Percentiles

CONSTANTS
  Second,              \* time units in a second (1000000000 in the code)
  MaxDurationSeconds, MaxRequestsPerSec, MaxWorkers,
  Durations, Rates, Pools,   \* the numbers clients post
  Names, Defaults,     \* host names, and those of DefaultAllowedHosts
  Lists                \* the values ALLOWED_TARGETS may have

Blank   == ""
Entries == [name : Names \cup {Blank}, capitals : BOOLEAN, blanks : BOOLEAN]

ASSUME PacerAssumption ==
  /\ Second \in Nat \ {0}
  /\ MaxDurationSeconds \in Nat /\ MaxRequestsPerSec \in Nat /\ MaxWorkers \in Nat
  /\ MaxDurationSeconds * (MaxRequestsPerSec * MaxRequestsPerSec) <= Second
  /\ Durations \subseteq Int /\ Rates \subseteq Int /\ Pools \subseteq Int
  /\ Blank \notin Names /\ Defaults \subseteq Names
  /\ Lists \subseteq SUBSET Entries

VARIABLES
  list,      \* ALLOWED_TARGETS, cut at its commas ({}: unset)
  base,      \* TARGET_BASE_URL, as url.Parse sees it
  cfg,       \* the configuration posted
  phase,     \* "idle", "refused", "running" or "ended"
  elapsed,   \* the time of the ticker's last tick, and of the run's end
  ticks      \* the ticks so far

run == <<elapsed, ticks, size>>
env == <<list, base>>
all == <<env, cfg, phase, run>>

Bases   == [parses : BOOLEAN, scheme : {"http", "https"}, user : BOOLEAN,
            host : [name : Names \cup {Blank}, capitals : BOOLEAN,
                    blanks : {FALSE}]]
Configs == [endpoint : {"test", "slow", "other"}, seconds : Durations,
            rate : Rates, workers : Pools]

-----------------------------------------------------------------------------

Trimmed(h) == [h EXCEPT !.blanks = FALSE]
Lowered(h) == [h EXCEPT !.capitals = FALSE]
Plain(n)   == [name |-> n, capitals |-> FALSE, blanks |-> FALSE]

DefaultAllowedHosts == {Plain(n) : n \in Defaults}

BugAllowedHosts ==
  LET hosts == {Trimmed(h) : h \in {e \in list : e.name # Blank}}
  IN  IF hosts = {} THEN DefaultAllowedHosts ELSE hosts

\* AllowedHostsFromEnv: trimmed, in lower case, blank entries dropped, and
\* the defaults when nothing is left.
AllowedHosts ==
  LET hosts == {Lowered(Trimmed(h)) : h \in {e \in list : e.name # Blank}}
  IN  IF hosts = {} THEN DefaultAllowedHosts ELSE hosts

AllowedTarget(url, hosts) ==
  /\ url.parses /\ url.scheme = "http" /\ ~url.user
  /\ url.host.name # Blank
  /\ Lowered(url.host) \in hosts

Valid(c) ==
  /\ c.endpoint \in {"test", "slow"}
  /\ c.seconds \in 1..MaxDurationSeconds
  /\ c.rate \in 1..MaxRequestsPerSec
  /\ c.workers \in 1..MaxWorkers

\* Coarser time: 1/100 second.
BugInterval(r) == (100 \div r) * (Second \div 100)

\* time.Second / time.Duration(cfg.RequestsPerSecond)
Interval(r) == Second \div r

-----------------------------------------------------------------------------

NoConfig == [endpoint |-> Blank, seconds |-> 0, rate |-> 0, workers |-> 0]

PacerInit ==
  /\ Init
  /\ list \in Lists /\ base \in Bases
  /\ cfg = NoConfig
  /\ phase = "idle" /\ elapsed = 0 /\ ticks = 0

\* Create: Validate, then the target resolved on the server.
Create ==
  /\ phase = "idle"
  /\ cfg' \in Configs
  /\ phase' = IF Valid(cfg') /\ AllowedTarget(base, AllowedHosts)
              THEN "running" ELSE "refused"
  /\ UNCHANGED <<env, run>>

End == cfg.seconds * Second

\* The ticker fires, at the latest at the moment of the timer.
Tick ==
  /\ phase = "running" /\ elapsed + Interval(cfg.rate) <= End
  /\ elapsed' = elapsed + Interval(cfg.rate)
  /\ ticks' = ticks + 1
  /\ UNCHANGED <<env, cfg, phase, size>>

\* The timer fires, before or after a tick of the same moment.
Timer ==
  /\ phase = "running" /\ elapsed + Interval(cfg.rate) >= End
  /\ phase' = "ended" /\ elapsed' = End
  /\ UNCHANGED <<env, cfg, ticks, size>>

\* A request of one of the ticks ends and is recorded.
Outcome ==
  /\ size < ticks /\ Grow
  /\ UNCHANGED <<env, cfg, phase, elapsed, ticks>>

Finished == phase \in {"refused", "ended"} /\ UNCHANGED all

PacerNext == Create \/ Tick \/ Timer \/ Outcome \/ Finished

PacerSpec == PacerInit /\ [][PacerNext]_all

-----------------------------------------------------------------------------

TypeOK ==
  /\ list \in Lists /\ base \in Bases /\ cfg \in Configs \cup {NoConfig}
  /\ phase \in {"idle", "refused", "running", "ended"}
  /\ elapsed \in Nat /\ ticks \in Nat /\ size \in 0..MaxSamples

(***************************************************************************)
(* The allowlist is what the operator named, however it is spelled: a run  *)
(* starts exactly when its target's host is named in ALLOWED_TARGETS, or   *)
(* among the defaults when that names nothing, over plain http and without *)
(* credentials (allowlist.go:21-61, service.go:95-101).                    *)
(***************************************************************************)
NamedHosts == LET named == {h.name : h \in list} \ {Blank}
              IN  IF named = {} THEN Defaults ELSE named

ListHonoured ==
  phase # "idle" /\ Valid(cfg) =>
    (phase # "refused" <=> /\ base.parses /\ base.scheme = "http" /\ ~base.user
                           /\ base.host.name \in NamedHosts)

(***************************************************************************)
(* The truncated interval adds no request: an admitted run has an interval *)
(* a ticker accepts, is never more than one tick ahead of its rate, and    *)
(* ends with the product of rate and duration or, when the last tick and   *)
(* the timer meet, one less (model.go:20-24, service.go:199-205).          *)
(***************************************************************************)
Planned == cfg.seconds * cfg.rate

LoadPlanned ==
  /\ phase = "running" => /\ Interval(cfg.rate) > 0
                          /\ ticks * Second < cfg.rate * elapsed + Second
  /\ phase \in {"running", "ended"} => ticks <= Planned
  /\ phase = "ended" => Planned - 1 <= ticks
=============================================================================
