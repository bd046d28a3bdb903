--------------------------- MODULE LiveViewProofs ---------------------------
(***************************************************************************)
(* Proofs about LiveView for any number of experiments, of calls under way *)
(* and of clicks.                                                          *)
(***************************************************************************)
EXTENDS LiveView, FiniteSetTheorems, TLAPS

(***************************************************************************)
(* A stop button's call was begun with an experiment current, and the page *)
(* always has a current one from the first one on.                         *)
(***************************************************************************)
Chosen ==
  \A c \in Calls :
    call[c] # Nil /\ call[c].stage \in {"stopping", "stopped"} => currentId # Nil

(* No call is Nil, which is no record. *)
LEMMA NilIsNoCall == ASSUME TypeOK, NEW c \in Calls, call[c] # Nil
                     PROVE  call[c] \in CallRecords
  BY DEF TypeOK

(* A call's slot gets a call record or is emptied. *)
LEMMA SlotUpdate ==
  ASSUME TypeOK, NEW c \in Calls, NEW r \in CallRecords \cup {Nil},
         call' = [call EXCEPT ![c] = r]
  PROVE  call' \in [Calls -> CallRecords \cup {Nil}]
  BY DEF TypeOK

(* Every step keeps the types and Chosen. *)
LEMMA TypeStep ==
  ASSUME TypeOK, Chosen, [Next]_vars
  PROVE  TypeOK' /\ Chosen'
<1> USE LiveViewAssumption DEF page
<1>1. CASE UNCHANGED vars
  BY <1>1 DEF vars, TypeOK, Chosen
<1>2. ASSUME NEW id \in Ids, ServerFinish(id) PROVE TypeOK' /\ Chosen'
  BY <1>2 DEF ServerFinish, TypeOK, Chosen
<1>3. CASE ToggleOff
  BY <1>3 DEF ToggleOff, Click, ClearTimer, TypeOK, Chosen
<1>4. ASSUME NEW c \in Calls, ToggleOn(c) PROVE TypeOK' /\ Chosen'
  <2>1. PICK id \in Ids : Begin(c, "start", "resolve", id)
    BY <1>4 DEF ToggleOn
  <2>2. call' = [call EXCEPT ![c] = [kind |-> "start", stage |-> "resolve",
                                     id |-> id, got |-> Nil]]
    BY <2>1 DEF Begin
  <2>3. call' \in [Calls -> CallRecords \cup {Nil}]
    BY <2>2, SlotUpdate DEF CallRecords
  <2> QED
    BY <1>4, <2>2, <2>3 DEF ToggleOn, Click, TypeOK, Chosen
<1>5. ASSUME NEW c \in Calls, StopClick(c) PROVE TypeOK' /\ Chosen'
  <2>1. call' = [call EXCEPT ![c] = [kind |-> "button", stage |-> "stopping",
                                     id |-> currentId, got |-> Nil]]
    BY <1>5 DEF StopClick, Begin
  <2>2. currentId \in Ids
    BY <1>5 DEF StopClick, TypeOK
  <2>3. call' \in [Calls -> CallRecords \cup {Nil}]
    BY <2>1, <2>2, SlotUpdate DEF CallRecords
  <2> QED
    BY <1>5, <2>1, <2>3 DEF StopClick, Click, TypeOK, Chosen
<1>6. ASSUME NEW c \in Calls, IntervalPoll(c) PROVE TypeOK' /\ Chosen'
  <2>1. call' = [call EXCEPT ![c] = [kind |-> "tick", stage |-> "asked",
                                     id |-> currentId, got |-> Nil]]
    BY <1>6 DEF IntervalPoll, Begin
  <2>2. currentId \in Ids
    BY <1>6 DEF IntervalPoll, TypeOK
  <2>3. call' \in [Calls -> CallRecords \cup {Nil}]
    BY <2>1, <2>2, SlotUpdate DEF CallRecords
  <2> QED
    BY <1>6, <2>1, <2>3 DEF IntervalPoll, TypeOK, Chosen
<1>7. ASSUME NEW c \in Calls, Resolve(c) PROVE TypeOK' /\ Chosen'
  <2>1. call[c] \in CallRecords
    BY <1>7, NilIsNoCall DEF Resolve
  <2>2. /\ call' = [call EXCEPT ![c] = [call[c] EXCEPT !.stage = "asked"]]
        /\ currentId' \in Ids
    BY <1>7, <2>1 DEF Resolve, CallRecords
  <2>3. call' \in [Calls -> CallRecords \cup {Nil}]
    BY <2>1, <2>2, SlotUpdate DEF CallRecords
  <2> QED
    BY <1>7, <2>2, <2>3 DEF Resolve, TypeOK, Chosen
<1>8. ASSUME NEW c \in Calls, ResolveFails(c) PROVE TypeOK' /\ Chosen'
  BY <1>8, SlotUpdate DEF ResolveFails, TypeOK, Chosen
<1>9. ASSUME NEW c \in Calls, ServeStop(c) PROVE TypeOK' /\ Chosen'
  <2>1. call[c] \in CallRecords /\ call[c].stage = "stopping"
    BY <1>9, NilIsNoCall DEF ServeStop
  <2>2. \E r \in {[call[c] EXCEPT !.stage = "stopped"], Nil} :
           call' = [call EXCEPT ![c] = r]
    BY <1>9, <2>1 DEF ServeStop
  <2>3. call' \in [Calls -> CallRecords \cup {Nil}]
    BY <2>1, <2>2, SlotUpdate DEF CallRecords
  <2>4. server' \in [Ids -> {"running", "finished"}] /\ currentId # Nil
    BY <1>9, <2>1 DEF ServeStop, TypeOK, Chosen, CallRecords
  <2> QED
    BY <1>9, <2>3, <2>4 DEF ServeStop, TypeOK, Chosen
<1>10. ASSUME NEW c \in Calls, PollAfterStop(c) PROVE TypeOK' /\ Chosen'
  <2>1. call[c] \in CallRecords
    BY <1>10, NilIsNoCall DEF PollAfterStop
  <2>2. call' = [call EXCEPT ![c] = [call[c] EXCEPT !.stage = "asked",
                                                    !.id = currentId]]
    BY <1>10, <2>1 DEF PollAfterStop
  <2>3. currentId \in Ids
    BY <1>10, <2>1 DEF PollAfterStop, TypeOK, Chosen
  <2>4. call' \in [Calls -> CallRecords \cup {Nil}]
    BY <2>1, <2>2, <2>3, SlotUpdate DEF CallRecords
  <2> QED
    BY <1>10, <2>3, <2>4 DEF PollAfterStop, TypeOK, Chosen
<1>11. ASSUME NEW c \in Calls, Serve(c) PROVE TypeOK' /\ Chosen'
  <2>1. call[c] \in CallRecords
    BY <1>11, NilIsNoCall DEF Serve
  <2>2. PICK got \in {server[call[c].id], "error"} :
          call' = [call EXCEPT ![c] = [call[c] EXCEPT !.stage = "answered",
                                                      !.got = got]]
    BY <1>11, <2>1 DEF Serve
  <2>3. got \in {"running", "finished", "error"}
    BY <2>1, <2>2 DEF TypeOK, CallRecords
  <2>4. call' \in [Calls -> CallRecords \cup {Nil}]
    BY <2>1, <2>2, <2>3, SlotUpdate DEF CallRecords
  <2> QED
    BY <1>11, <2>1, <2>2, <2>4 DEF Serve, TypeOK, Chosen, CallRecords
<1>12. ASSUME NEW c \in Calls, EndPoll(c) \/ EndStart(c) PROVE TypeOK' /\ Chosen'
  <2>1. call' = [call EXCEPT ![c] = Nil]
    BY <1>12 DEF EndPoll, EndStart, Answered
  <2>2. call' \in [Calls -> CallRecords \cup {Nil}]
    BY <2>1, SlotUpdate
  <2>3. timer' \in Nat \cup {Nil} /\ alive' \subseteq Nat /\ nextTimer' \in Nat
    <3>1. CASE EndStart(c)
      BY <3>1 DEF EndStart, TypeOK
    <3>2. CASE EndPoll(c) /\ call[c].got # "running"
      BY <3>2 DEF EndPoll, ClearTimer, TypeOK
    <3>3. CASE EndPoll(c) /\ call[c].got = "running"
      BY <3>3 DEF EndPoll, TypeOK
    <3> QED
      BY <1>12, <3>1, <3>2, <3>3
  <2> QED
    BY <1>12, <2>1, <2>2, <2>3 DEF EndPoll, EndStart, TypeOK, Chosen
<1> QED
  BY <1>1, <1>2, <1>3, <1>4, <1>5, <1>6, <1>7, <1>8, <1>9, <1>10, <1>11, <1>12
     DEF Next, Continue, Idle

(* The empty page has its types. *)
LEMMA InitialTypes == Init => TypeOK /\ Chosen
  BY LiveViewAssumption DEF Init, TypeOK, Chosen

(***************************************************************************)
(* The page's variables keep their types: in particular a stop button that *)
(* goes on to poll has an experiment to poll, whatever start, stop or late *)
(* answer came in between.                                                 *)
(***************************************************************************)
THEOREM LiveTypeCorrect == Spec => []TypeOK
<1>1. TypeOK /\ Chosen /\ [Next]_vars => TypeOK' /\ Chosen'
  BY TypeStep
<1> QED
  BY <1>1, InitialTypes, PTL DEF Spec

(* Every step leaves the page with the interval in timer or with none. *)
LEMMA IntervalStep ==
  ASSUME TypeOK, OneInterval, [Next]_vars
  PROVE  OneInterval'
<1> USE LiveViewAssumption DEF OneInterval, page
<1>1. CASE ToggleOff
  BY <1>1 DEF ToggleOff, ClearTimer
<1>2. ASSUME NEW c \in Calls, EndPoll(c) PROVE OneInterval'
  BY <1>2 DEF EndPoll, ClearTimer
<1>3. ASSUME NEW c \in Calls, EndStart(c) PROVE OneInterval'
  BY <1>3 DEF EndStart, TypeOK
<1>4. ASSUME UNCHANGED page PROVE OneInterval'
  BY <1>4
<1> QED
  BY <1>1, <1>2, <1>3, <1>4
     DEF Next, Continue, Idle, vars, ServerFinish, ToggleOn, StopClick,
         IntervalPoll, Resolve, ResolveFails, ServeStop, PollAfterStop, Serve

(***************************************************************************)
(* The page never runs an interval it has forgotten, for any number of     *)
(* overlapping starts, stops and answers.                                  *)
(***************************************************************************)
THEOREM OneIntervalCorrect == Spec => []OneInterval
<1>1. Init => OneInterval
  BY DEF Init, OneInterval
<1>2. TypeOK /\ OneInterval /\ [Next]_vars => OneInterval'
  BY IntervalStep
<1> QED
  BY <1>1, <1>2, LiveTypeCorrect, PTL DEF Spec

(* The starts under way can be counted. *)
LEMMA StartsFinite == IsFiniteSet(Starting) /\ Cardinality(Starting) \in Nat
BY LiveViewAssumption, FS_Subset, FS_CardinalityType DEF Starting

(***************************************************************************)
(* A step adds a start for a click, ends one for an interval, or only      *)
(* leaves starts away.                                                     *)
(***************************************************************************)
LEMMA StartStep ==
  ASSUME TypeOK, [Next]_vars
  PROVE  \/ /\ Starting' \subseteq Starting
            /\ nextTimer' = nextTimer /\ clicks' \in {clicks, clicks + 1}
         \/ /\ \E c \in Calls : Starting' \subseteq Starting \cup {c}
            /\ nextTimer' = nextTimer /\ clicks' = clicks + 1
         \/ /\ \E c \in Starting : Starting' = Starting \ {c}
            /\ nextTimer' = nextTimer + 1 /\ clicks' = clicks
<1> USE LiveViewAssumption DEF page
<1> DEFINE Away == /\ Starting' \subseteq Starting
                   /\ nextTimer' = nextTimer /\ clicks' \in {clicks, clicks + 1}
<1>a. ASSUME NEW c \in Calls, NEW r \in CallRecords \cup {Nil},
             call' = [call EXCEPT ![c] = r],
             r = Nil \/ r.kind # "start" \/ c \in Starting
      PROVE  Starting' \subseteq Starting
  BY <1>a DEF Starting, TypeOK
<1>1. CASE UNCHANGED vars \/ ToggleOff \/ Idle
  BY <1>1 DEF vars, ToggleOff, Click, Idle, Starting
<1>2. ASSUME NEW id \in Ids, ServerFinish(id) PROVE Away
  BY <1>2 DEF ServerFinish, Starting
<1>3. ASSUME NEW c \in Calls, ToggleOn(c)
      PROVE  /\ Starting' \subseteq Starting \cup {c}
             /\ nextTimer' = nextTimer /\ clicks' = clicks + 1
  <2>1. PICK id \in Ids :
          call' = [call EXCEPT ![c] = [kind |-> "start", stage |-> "resolve",
                                       id |-> id, got |-> Nil]]
    BY <1>3 DEF ToggleOn, Begin
  <2> QED
    BY <1>3, <2>1 DEF ToggleOn, Click, Starting, TypeOK
<1>4. ASSUME NEW c \in Calls, StopClick(c) \/ IntervalPoll(c) PROVE Away
  <2>1. PICK kind \in {"button", "tick"}, stage \in {"stopping", "asked"} :
          call' = [call EXCEPT ![c] = [kind |-> kind, stage |-> stage,
                                       id |-> currentId, got |-> Nil]]
    BY <1>4 DEF StopClick, IntervalPoll, Begin
  <2>2. currentId \in Ids
    BY <1>4 DEF StopClick, IntervalPoll, TypeOK
  <2>3. [kind |-> kind, stage |-> stage, id |-> currentId, got |-> Nil]
          \in CallRecords
    BY <2>1, <2>2 DEF CallRecords
  <2>4. Starting' \subseteq Starting
    BY <1>a, <2>1, <2>3
  <2> QED
    BY <1>4, <2>4 DEF StopClick, IntervalPoll, Click
<1>5. ASSUME NEW c \in Calls,
             Resolve(c) \/ ResolveFails(c) \/ ServeStop(c) \/ PollAfterStop(c)
               \/ Serve(c) \/ EndPoll(c)
      PROVE  Away
  <2>1. nextTimer' = nextTimer /\ clicks' = clicks
    BY <1>5 DEF Resolve, ResolveFails, ServeStop, PollAfterStop, Serve, EndPoll
  <2>2. call[c] # Nil /\ call[c] \in CallRecords
    BY <1>5, NilIsNoCall DEF Resolve, ResolveFails, ServeStop, PollAfterStop,
       Serve, EndPoll, Answered
  <2>3. \/ call' = [call EXCEPT ![c] = Nil]
        \/ \E r : r.kind = call[c].kind /\ call' = [call EXCEPT ![c] = r]
    BY <1>5, <2>2 DEF Resolve, ResolveFails, ServeStop, PollAfterStop, Serve,
       EndPoll, Answered, CallRecords
  <2>4. Starting' \subseteq Starting
    BY <2>2, <2>3 DEF Starting, TypeOK
  <2> QED
    BY <2>1, <2>4
<1>6. ASSUME NEW c \in Calls, EndStart(c)
      PROVE  /\ c \in Starting /\ Starting' = Starting \ {c}
             /\ nextTimer' = nextTimer + 1 /\ clicks' = clicks
  BY <1>6 DEF EndStart, Answered, Starting, TypeOK
<1> QED
  BY <1>1, <1>2, <1>3, <1>4, <1>5, <1>6 DEF Next, Continue

(***************************************************************************)
(* The page begins at most one interval for a click of its toggle, however *)
(* the starts overlap.                                                     *)
(***************************************************************************)
THEOREM IntervalsPaidCorrect == Spec => []IntervalsPaid
<1>1. Init => IntervalsPaid
  <2> SUFFICES ASSUME Init PROVE IntervalsPaid
    OBVIOUS
  <2>1. Starting = {}
    BY DEF Init, Starting
  <2> QED
    BY <2>1, FS_EmptySet DEF Init, IntervalsPaid
<1>2. TypeOK /\ IntervalsPaid /\ [Next]_vars => IntervalsPaid'
  <2> SUFFICES ASSUME TypeOK, IntervalsPaid, [Next]_vars
               PROVE  nextTimer' - 1 + Cardinality(Starting') <= clicks'
    BY DEF IntervalsPaid
  <2>1. /\ IsFiniteSet(Starting) /\ Cardinality(Starting) \in Nat
        /\ nextTimer \in Nat /\ clicks \in Nat
        /\ nextTimer - 1 + Cardinality(Starting) <= clicks
    BY StartsFinite DEF TypeOK, IntervalsPaid
  <2>2. CASE /\ Starting' \subseteq Starting
             /\ nextTimer' = nextTimer /\ clicks' \in {clicks, clicks + 1}
    <3>1. /\ Cardinality(Starting') \in Nat
          /\ Cardinality(Starting') <= Cardinality(Starting)
      BY <2>1, <2>2, FS_Subset, FS_CardinalityType
    <3> QED
      BY <2>1, <2>2, <3>1
  <2>3. CASE /\ \E c \in Calls : Starting' \subseteq Starting \cup {c}
             /\ nextTimer' = nextTimer /\ clicks' = clicks + 1
    <3>1. /\ Cardinality(Starting') \in Nat
          /\ Cardinality(Starting') <= Cardinality(Starting) + 1
      <4>1. PICK c \in Calls : Starting' \subseteq Starting \cup {c}
        BY <2>3
      <4>2. /\ IsFiniteSet(Starting \cup {c})
            /\ Cardinality(Starting \cup {c}) \in Nat
            /\ Cardinality(Starting \cup {c}) <= Cardinality(Starting) + 1
        <5>1. /\ IsFiniteSet(Starting \cup {c})
              /\ Cardinality(Starting \cup {c}) =
                   IF c \in Starting THEN Cardinality(Starting)
                                    ELSE Cardinality(Starting) + 1
          BY <2>1, FS_AddElement
        <5> QED
          BY <2>1, <5>1
      <4>3. /\ Cardinality(Starting') \in Nat
            /\ Cardinality(Starting') <= Cardinality(Starting \cup {c})
        BY <4>1, <4>2, FS_Subset, FS_CardinalityType
      <4> QED
        BY <2>1, <4>2, <4>3
    <3> QED
      BY <2>1, <2>3, <3>1
  <2>4. CASE /\ \E c \in Starting : Starting' = Starting \ {c}
             /\ nextTimer' = nextTimer + 1 /\ clicks' = clicks
    <3>1. Cardinality(Starting') = Cardinality(Starting) - 1
      BY <2>1, <2>4, FS_RemoveElement
    <3> QED
      BY <2>1, <2>4, <3>1
  <2> QED
    BY <2>2, <2>3, <2>4, StartStep
<1> QED
  BY <1>1, <1>2, LiveTypeCorrect, PTL DEF Spec

(***************************************************************************)
(* Once every experiment is over the polls run out: each one that ends     *)
(* leaves no interval, but for those answered before, which get no more.   *)
(***************************************************************************)
THEOREM LastPollsCorrect == Spec => LastPolls
<1> USE LiveViewAssumption DEF page
<1>1. TypeOK /\ OneInterval /\ [Next]_vars
      => [Over => /\ Over' /\ Outdated' \subseteq Outdated
                  /\ \A c \in Calls : EndPoll(c) =>
                       alive' = {} \/ c \in Outdated \ Outdated']_vars
  <2> SUFFICES ASSUME TypeOK, OneInterval, Next, Over
               PROVE  /\ Over' /\ Outdated' \subseteq Outdated
                      /\ \A c \in Calls : EndPoll(c) =>
                           alive' = {} \/ c \in Outdated \ Outdated'
    OBVIOUS
  <2>1. ASSUME NEW c \in Calls, EndPoll(c)
        PROVE  alive' = {} \/ c \in Outdated \ Outdated'
    <3>1. CASE call[c].got # "running"
      BY <2>1, <3>1 DEF EndPoll, ClearTimer, OneInterval
    <3>2. CASE call[c].got = "running"
      BY <2>1, <3>2 DEF EndPoll, Answered, Outdated, TypeOK
    <3> QED
      BY <3>1, <3>2
  <2>2. server' = server
    BY DEF Next, Over, ServerFinish, ToggleOff, ToggleOn, StopClick,
       IntervalPoll, Continue, Resolve, ResolveFails, ServeStop, PollAfterStop,
       Serve, EndPoll, EndStart, Idle, vars, TypeOK, CallRecords
  <2>3. Over'
    BY <2>2 DEF Over
  <2>4. ASSUME NEW c \in Calls, NEW r, call' = [call EXCEPT ![c] = r],
               r = Nil \/ r.got # "running" \/ c \in Outdated
        PROVE  Outdated' \subseteq Outdated
    BY <2>4 DEF Outdated, TypeOK
  <2>5. ASSUME UNCHANGED call PROVE Outdated' \subseteq Outdated
    BY <2>5 DEF Outdated
  <2>6. ASSUME NEW c \in Calls,
               ToggleOn(c) \/ StopClick(c) \/ IntervalPoll(c)
        PROVE  Outdated' \subseteq Outdated
    <3>1. PICK kind, stage, id :
            call' = [call EXCEPT ![c] = [kind |-> kind, stage |-> stage,
                                         id |-> id, got |-> Nil]]
      BY <2>6, Zenon DEF ToggleOn, StopClick, IntervalPoll, Begin
    <3>2. [kind |-> kind, stage |-> stage, id |-> id, got |-> Nil].got # "running"
      OBVIOUS
    <3> QED
      BY <2>4, <3>1, <3>2
  <2>7. ASSUME NEW c \in Calls, Resolve(c) \/ PollAfterStop(c)
        PROVE  Outdated' \subseteq Outdated
    <3>1. call[c] # Nil /\ call[c] \in CallRecords
      BY <2>7, NilIsNoCall DEF Resolve, PollAfterStop
    <3>2. PICK r : call' = [call EXCEPT ![c] = r] /\ r.got = call[c].got
      BY <2>7, <3>1 DEF Resolve, PollAfterStop, CallRecords
    <3> QED
      BY <2>4, <3>1, <3>2 DEF Outdated
  <2>8. ASSUME NEW c \in Calls, Serve(c)
        PROVE  Outdated' \subseteq Outdated
    <3>1. call[c] # Nil /\ call[c] \in CallRecords
      BY <2>8, NilIsNoCall DEF Serve
    <3>2. server[call[c].id] = "finished"
      BY <3>1 DEF Over, CallRecords
    <3>3. PICK got \in {server[call[c].id], "error"} :
            call' = [call EXCEPT ![c] = [call[c] EXCEPT !.stage = "answered",
                                                        !.got = got]]
      BY <2>8, <3>1 DEF Serve
    <3>4. [call[c] EXCEPT !.stage = "answered", !.got = got].got # "running"
      BY <3>1, <3>2, <3>3 DEF CallRecords
    <3> QED
      BY <2>4, <3>3, <3>4
  <2>9. ASSUME NEW c \in Calls,
               ResolveFails(c) \/ ServeStop(c) \/ EndPoll(c) \/ EndStart(c)
        PROVE  Outdated' \subseteq Outdated
    <3>1. call' = [call EXCEPT ![c] = Nil]
      <4>1. CASE ServeStop(c)
        <5>1. call[c] \in CallRecords
          BY <4>1, NilIsNoCall DEF ServeStop
        <5>2. server[call[c].id] = "finished"
          BY <5>1 DEF Over, CallRecords
        <5> QED
          BY <4>1, <5>2 DEF ServeStop
      <4> QED
        BY <2>9, <4>1 DEF ResolveFails, EndPoll, EndStart, Answered
    <3> QED
      BY <2>4, <3>1
  <2>10. Outdated' \subseteq Outdated
    BY <2>5, <2>6, <2>7, <2>8, <2>9
       DEF Next, Continue, ServerFinish, ToggleOff, Idle, vars
  <2> QED
    BY <2>1, <2>3, <2>10
<1> QED
  BY <1>1, LiveTypeCorrect, OneIntervalCorrect, PTL DEF Spec, LastPolls
=============================================================================
