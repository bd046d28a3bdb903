----------------------------- MODULE PagesProofs -----------------------------
(***************************************************************************)
(* Proofs about the report page, for any experiments, any number of calls  *)
(* under way, clicks and failures, and about the dashboard's list.         *)
(***************************************************************************)
EXTENDS ReportView, TLAPS

(* The arguments of a call have one place for each of its experiments. *)
LEMMA ArgumentPlaces ==
  ASSUME NEW c, NEW ids \in Arguments(c)
  PROVE  DOMAIN ids = Places(c) /\ \A i \in Places(c) : ids[i] \in Ids
<1>1. CASE c \in Loads
  BY <1>1 DEF Arguments, Places
<1>2. CASE c \notin Loads
  BY <1>2, ReportViewAssumption DEF Arguments, Places
<1> QED
  BY <1>1, <1>2

(* A call has as many requests of each kind as it has experiments. *)
LEMMA HeldPlaces ==
  ASSUME NEW c, NEW open, NEW f \in Held(c, open)
  PROVE  /\ f.ids \in Arguments(c) /\ DOMAIN f.ids = Places(c)
         /\ \A i \in Places(c) : f.ids[i] \in Ids
         /\ f.exp \in [Places(c) -> Stage \cup open]
         /\ f.met \in [Places(c) -> Stage \cup open \cup {Nil}]
         /\ f.since \in [Places(c) -> Stage]
<1>1. /\ f.ids \in Arguments(c)
      /\ f.exp \in [Places(c) -> Stage \cup open]
      /\ f.met \in [Places(c) -> Stage \cup open \cup {Nil}]
      /\ f.since \in [Places(c) -> Stage]
  BY DEF Held
<1> QED
  BY <1>1, ArgumentPlaces

(* A new call asks for everything and remembers what the server had. *)
LEMMA NewCall ==
  ASSUME server \in [Ids -> Stage], NEW c \in Calls, NEW ids \in Arguments(c)
  PROVE  /\ Requests(ids) \in Held(c, Open)
         /\ Requests(ids).ids = ids
         /\ \A i \in DOMAIN ids : /\ Requests(ids).exp[i] = "asked"
                                  /\ Requests(ids).met[i] = "asked"
                                  /\ Requests(ids).since[i] = server[ids[i]]
<1>1. DOMAIN ids = Places(c) /\ \A i \in Places(c) : ids[i] \in Ids
  BY ArgumentPlaces
<1>2. /\ [i \in DOMAIN ids |-> "asked"] \in [Places(c) -> Stage \cup Open]
      /\ [i \in DOMAIN ids |-> "asked"]
           \in [Places(c) -> Stage \cup Open \cup {Nil}]
      /\ [i \in DOMAIN ids |-> server[ids[i]]] \in [Places(c) -> Stage]
  BY <1>1 DEF Open
<1> QED
  BY <1>1, <1>2 DEF Requests, Held

(* An answer fills one place of a call and leaves the rest of it alone. *)
Filled(f, request, i, v) == [f EXCEPT ![request][i] = v]

LEMMA Answered ==
  ASSUME NEW c, NEW f \in Held(c, Open), NEW i \in Places(c),
         NEW request \in {"exp", "met"},
         NEW v \in Stage \cup {Nil}, v \in Stage \/ request = "met"
  PROVE  LET g == Filled(f, request, i, v)
         IN  /\ g \in Held(c, Open)
             /\ g.ids = f.ids /\ g.since = f.since
             /\ \A j \in Places(c) :
                  /\ g.exp[j] = IF request = "exp" /\ j = i THEN v ELSE f.exp[j]
                  /\ g.met[j] = IF request = "met" /\ j = i THEN v ELSE f.met[j]
<1> DEFINE g == Filled(f, request, i, v)
<1>0. g = [f EXCEPT ![request][i] = v]
  BY DEF Filled
<1> SUFFICES /\ g \in Held(c, Open)
             /\ g.ids = f.ids /\ g.since = f.since
             /\ \A j \in Places(c) :
                  /\ g.exp[j] = IF request = "exp" /\ j = i THEN v ELSE f.exp[j]
                  /\ g.met[j] = IF request = "met" /\ j = i THEN v ELSE f.met[j]
  OBVIOUS
<1> HIDE DEF g
<1>1. /\ f.exp \in [Places(c) -> Stage \cup Open]
      /\ f.met \in [Places(c) -> Stage \cup Open \cup {Nil}]
  BY HeldPlaces
<1>2. CASE request = "exp"
  <2>1. /\ g.exp = [f.exp EXCEPT ![i] = v] /\ g.met = f.met
        /\ g.ids = f.ids /\ g.since = f.since
    BY <1>0, <1>2 DEF Held
  <2>2. g.exp \in [Places(c) -> Stage \cup Open]
    BY <1>1, <1>2, <2>1
  <2>3. g \in Held(c, Open)
    BY <1>0, <1>2, <2>2, <2>1 DEF Held
  <2> QED
    BY <1>1, <1>2, <2>1, <2>3
<1>3. CASE request = "met"
  <2>1. /\ g.met = [f.met EXCEPT ![i] = v] /\ g.exp = f.exp
        /\ g.ids = f.ids /\ g.since = f.since
    BY <1>0, <1>3 DEF Held
  <2>2. g.met \in [Places(c) -> Stage \cup Open \cup {Nil}]
    BY <1>1, <1>3, <2>1
  <2>3. g \in Held(c, Open)
    BY <1>0, <1>3, <2>2, <2>1 DEF Held
  <2> QED
    BY <1>1, <1>3, <2>1, <2>3
<1> QED
  BY <1>2, <1>3

(* What is answered in a step: one place of one call, with what the server *)
(* has now, or with null.                                                  *)
Reply(c, request, i, v) ==
  /\ c \in Calls /\ fetch[c] \in Held(c, Open) /\ request \in {"exp", "met"}
  /\ i \in Places(c)
  /\ \/ v = server[fetch[c].ids[i]]
     \/ request = "met" /\ v = Nil
  /\ fetch' = [fetch EXCEPT ![c] = Filled(fetch[c], request, i, v)]
  /\ UNCHANGED <<server, sections, table, note, last, clicks>>
  /\ failed' = failed \/ Fail

LEMMA ServeReplies ==
  ASSUME TypeOK, NEW c \in Calls, NEW i, NEW request \in {"exp", "met"},
         \/ Serve(c, request, i)
         \/ request = "met" /\ WithoutMetrics(c, i)
  PROVE  \E v : Reply(c, request, i, v)
<1>1. fetch[c] \in Held(c, Open) /\ i \in Places(c)
  <2>1. fetch[c] # Nil /\ i \in DOMAIN fetch[c].ids
    BY DEF Serve, WithoutMetrics, Asked
  <2>2. fetch[c] \in Held(c, Open)
    BY <2>1 DEF TypeOK
  <2> QED
    BY <2>1, <2>2, HeldPlaces
<1>2. CASE Serve(c, request, i)
  <2>1. Reply(c, request, i, server[fetch[c].ids[i]])
    BY <1>1, <1>2 DEF Serve, Reply, Filled, page
  <2> QED
    BY <2>1
<1>3. CASE request = "met" /\ WithoutMetrics(c, i)
  <2>1. [fetch EXCEPT ![c].met[i] = Nil] = [fetch EXCEPT ![c] = Filled(fetch[c], "met", i, Nil)]
    BY DEF Filled
  <2>2. Reply(c, request, i, Nil)
    BY <1>1, <1>3, <2>1 DEF WithoutMetrics, Reply, page
  <2> QED
    BY <2>2
<1> QED
  BY <1>2, <1>3

(* The server moves on, and a call fails. *)
Advance(id) == ServerFinish(id) \/ ServerPublish(id)
Rejects(c)  == \E i \in {1, 2} : Reject(c, i)

(* The steps of the page, with the answers as replies. *)
LEMMA Steps ==
  ASSUME TypeOK, Next
  PROVE  \/ \E id \in Ids : Advance(id)
         \/ \E c \in Calls : \/ \E ids \in Arguments(c) : Ask(c, ids)
                             \/ Render(c) \/ Rejects(c)
         \/ \E c, request, i, v : Reply(c, request, i, v)
         \/ \E kind \in {"load", "compare"} : AskNothing(kind)
         \/ UNCHANGED vars
<1>1. ASSUME NEW c \in Calls, Continue(c)
      PROVE  \/ Render(c) \/ Rejects(c)
             \/ \E request, i, v : Reply(c, request, i, v)
  BY <1>1, ServeReplies DEF Continue, Rejects
<1> QED
  BY <1>1 DEF Next, Idle, Advance

(* A reply changes the one call it answers, which stays under way. *)
LEMMA ReplyFills ==
  ASSUME TypeOK, NEW c, NEW request, NEW i, NEW v, Reply(c, request, i, v)
  PROVE  /\ c \in Calls /\ fetch[c] # Nil /\ fetch'[c] # Nil
         /\ fetch[c] \in Held(c, Open) /\ fetch'[c] \in Held(c, Open)
         /\ DOMAIN fetch' = Calls
         /\ \A d \in Calls : d # c => fetch'[d] = fetch[d]
         /\ fetch'[c].ids = fetch[c].ids /\ fetch'[c].since = fetch[c].since
         /\ \A j \in Places(c) :
              /\ \/ fetch'[c].exp[j] = fetch[c].exp[j]
                 \/ fetch'[c].exp[j] = server[fetch[c].ids[j]]
              /\ \/ fetch'[c].met[j] = fetch[c].met[j]
                 \/ fetch'[c].met[j] = Nil
                 \/ fetch'[c].met[j] = server[fetch[c].ids[j]]
         /\ UNCHANGED <<server, sections, table, note, last, clicks>>
<1>1. /\ c \in Calls /\ fetch[c] \in Held(c, Open)
      /\ request \in {"exp", "met"} /\ i \in Places(c)
      /\ v = server[fetch[c].ids[i]] \/ (request = "met" /\ v = Nil)
      /\ fetch' = [fetch EXCEPT ![c] = Filled(fetch[c], request, i, v)]
      /\ UNCHANGED <<server, sections, table, note, last, clicks>>
  BY DEF Reply
<1>2. v \in Stage \cup {Nil} /\ (v \in Stage \/ request = "met")
  <2>1. server[fetch[c].ids[i]] \in Stage
    BY <1>1, HeldPlaces DEF TypeOK
  <2> QED
    BY <1>1, <2>1
<1>3. DOMAIN fetch = Calls
  BY DEF TypeOK
<1>4. /\ DOMAIN fetch' = Calls
      /\ fetch'[c] = Filled(fetch[c], request, i, v)
      /\ \A d \in Calls : d # c => fetch'[d] = fetch[d]
  BY <1>1, <1>3
<1>5. /\ fetch'[c] \in Held(c, Open)
      /\ fetch'[c].ids = fetch[c].ids /\ fetch'[c].since = fetch[c].since
      /\ \A j \in Places(c) :
           /\ fetch'[c].exp[j] = IF request = "exp" /\ j = i THEN v ELSE fetch[c].exp[j]
           /\ fetch'[c].met[j] = IF request = "met" /\ j = i THEN v ELSE fetch[c].met[j]
  <2> DEFINE f == fetch[c]
             g == fetch'[c]
  <2>1. f \in Held(c, Open) /\ g = Filled(f, request, i, v)
    BY <1>1, <1>4
  <2> HIDE DEF f, g
  <2>2. /\ g \in Held(c, Open)
        /\ g.ids = f.ids /\ g.since = f.since
        /\ \A j \in Places(c) :
             /\ g.exp[j] = IF request = "exp" /\ j = i THEN v ELSE f.exp[j]
             /\ g.met[j] = IF request = "met" /\ j = i THEN v ELSE f.met[j]
    BY <1>1, <1>2, <2>1, Answered
  <2> QED
    BY <2>2 DEF f, g
<1>6. fetch[c] # Nil /\ fetch'[c] # Nil
  BY <1>1, <1>5, ReportViewAssumption
<1> QED
  BY <1>1, <1>4, <1>5, <1>6

(* What Ask does to the calls. *)
LEMMA AskStarts ==
  ASSUME TypeOK, NEW c \in Calls, NEW ids \in Arguments(c), Ask(c, ids)
  PROVE  /\ fetch[c] = Nil /\ fetch'[c] # Nil
         /\ fetch'[c] = Requests(ids) /\ fetch'[c] \in Held(c, Open)
         /\ DOMAIN fetch' = Calls
         /\ \A d \in Calls : d # c => fetch'[d] = fetch[d]
         /\ note' = [note EXCEPT ![Kind(c)] = "loading"]
         /\ last' = IF Kind(c) = "load" THEN [id |-> ids[1], alone |-> Loading = {}]
                    ELSE last
         /\ clicks \in 0..MaxClicks => clicks' \in 0..MaxClicks
         /\ UNCHANGED <<server, sections, table, failed>>
<1>1. /\ fetch[c] = Nil /\ fetch' = [fetch EXCEPT ![c] = Requests(ids)]
      /\ note' = [note EXCEPT ![Kind(c)] = "loading"]
      /\ last' = IF Kind(c) = "load" THEN [id |-> ids[1], alone |-> Loading = {}]
                 ELSE last
      /\ UNCHANGED <<server, sections, table, failed>>
      /\ clicks < MaxClicks /\ clicks' = clicks + 1
  BY DEF Ask, Click, Free
<1>2. DOMAIN fetch = Calls /\ server \in [Ids -> Stage]
  BY DEF TypeOK
<1>3. Requests(ids) \in Held(c, Open)
  BY <1>2, NewCall
<1>4. Requests(ids) # Nil
  BY <1>3, ReportViewAssumption
<1>5. clicks \in 0..MaxClicks => clicks' \in 0..MaxClicks
  BY <1>1, ReportViewAssumption
<1> QED
  BY <1>1, <1>2, <1>3, <1>4, <1>5

(* What the end of a call does to the calls. *)
LEMMA CallEnds ==
  ASSUME TypeOK, NEW c \in Calls, Render(c) \/ Rejects(c)
  PROVE  /\ fetch[c] # Nil /\ fetch[c] \in Held(c, Open) /\ fetch'[c] = Nil
         /\ DOMAIN fetch' = Calls
         /\ \A d \in Calls : d # c => fetch'[d] = fetch[d]
         /\ UNCHANGED <<server, last, clicks>>
         /\ failed' = failed \/ Fail
<1>1. /\ fetch[c] # Nil /\ fetch' = [fetch EXCEPT ![c] = Nil]
      /\ UNCHANGED <<server, last, clicks>>
      /\ failed' = failed \/ Fail
  BY DEF Render, Rejects, Reject, Over, Asked
<1>2. DOMAIN fetch = Calls /\ fetch[c] \in Held(c, Open) \cup {Nil}
  BY DEF TypeOK
<1> QED
  BY <1>1, <1>2

(* What is shown comes from a call all of whose answers are there. *)
LEMMA RenderShows ==
  ASSUME TypeOK, NEW c \in Calls, Render(c)
  PROVE  /\ fetch[c] \in Held(c, {})
         /\ \/ /\ c \in Loads /\ sections' = fetch[c] /\ table' = table
               /\ note' = [note EXCEPT !["load"] = "showing"]
            \/ /\ c \in Compares /\ table' = fetch[c] /\ sections' = sections
               /\ note' = [note EXCEPT !["compare"] = "showing"]
<1>1. /\ fetch[c] # Nil
      /\ \A i \in DOMAIN fetch[c].ids :
           fetch[c].exp[i] # "asked" /\ fetch[c].met[i] # "asked"
      /\ IF Kind(c) = "load"
         THEN sections' = fetch[c] /\ UNCHANGED table
         ELSE table' = fetch[c] /\ UNCHANGED sections
      /\ note' = [note EXCEPT ![Kind(c)] = "showing"]
  BY DEF Render
<1>2. fetch[c] \in Held(c, Open)
  BY <1>1 DEF TypeOK
<1>3. /\ fetch[c].exp \in [Places(c) -> Stage \cup Open]
      /\ fetch[c].met \in [Places(c) -> Stage \cup Open \cup {Nil}]
      /\ DOMAIN fetch[c].ids = Places(c)
  BY <1>2, HeldPlaces
<1>4. /\ fetch[c].exp \in [Places(c) -> Stage \cup {}]
      /\ fetch[c].met \in [Places(c) -> Stage \cup {} \cup {Nil}]
  BY <1>1, <1>3 DEF Open
<1>5. fetch[c] \in Held(c, {})
  BY <1>2, <1>4 DEF Held
<1> QED
  BY <1>1, <1>5, Zenon DEF Kind, Calls

-----------------------------------------------------------------------------
(* Types.                                                                  *)

LEMMA TypeStep ==
  ASSUME TypeOK, [Next]_vars
  PROVE  TypeOK'
<1> DEFINE FetchOK == /\ DOMAIN fetch = Calls
                      /\ \A c \in Calls : fetch[c] \in Held(c, Open) \cup {Nil}
           PageOK == /\ \A c \in Loads : sections \in Held(c, {}) \cup {Nil}
                     /\ \A c \in Compares : table \in Held(c, {}) \cup {Nil}
           NoteOK == note \in [{"load", "compare"} ->
                       {"empty", "missing", "loading", "showing", "error"}]
           LastOK == last \in [id : Ids, alone : BOOLEAN] \cup {Nil}
           RestOK == /\ server \in [Ids -> Stage]
                     /\ failed \in 0..Failures /\ clicks \in 0..MaxClicks
<1>a. FetchOK /\ PageOK /\ NoteOK /\ LastOK /\ RestOK
  BY DEF TypeOK
<1> SUFFICES (FetchOK /\ PageOK /\ NoteOK /\ LastOK /\ RestOK)'
  BY DEF TypeOK
<1> USE DEF page
<1>1. CASE UNCHANGED vars
  BY <1>1, <1>a DEF vars
<1>2. ASSUME NEW id \in Ids, Advance(id)
      PROVE  (FetchOK /\ PageOK /\ NoteOK /\ LastOK /\ RestOK)'
  BY <1>2, <1>a DEF Advance, ServerFinish, ServerPublish, Stage
<1>3. ASSUME NEW c \in Calls, NEW ids \in Arguments(c), Ask(c, ids)
      PROVE  (FetchOK /\ PageOK /\ NoteOK /\ LastOK /\ RestOK)'
  <2>1. /\ fetch'[c] \in Held(c, Open) /\ DOMAIN fetch' = Calls
        /\ \A d \in Calls : d # c => fetch'[d] = fetch[d]
        /\ note' = [note EXCEPT ![Kind(c)] = "loading"]
        /\ last' = IF Kind(c) = "load" THEN [id |-> ids[1], alone |-> Loading = {}]
                   ELSE last
        /\ clicks' \in 0..MaxClicks
        /\ UNCHANGED <<server, sections, table, failed>>
    BY <1>3, <1>a, AskStarts
  <2>2. FetchOK'
    BY <2>1, <1>a
  <2>3. NoteOK'
    BY <2>1, <1>a DEF Kind
  <2>4. ids[1] \in Ids
    BY ArgumentPlaces DEF Places
  <2>5. LastOK'
    BY <2>1, <2>4, <1>a
  <2> QED
    BY <2>1, <2>2, <2>3, <2>5, <1>a
<1>4. ASSUME NEW c, NEW request, NEW i, NEW v, Reply(c, request, i, v)
      PROVE  (FetchOK /\ PageOK /\ NoteOK /\ LastOK /\ RestOK)'
  <2>1. /\ c \in Calls /\ fetch'[c] \in Held(c, Open) /\ DOMAIN fetch' = Calls
        /\ \A d \in Calls : d # c => fetch'[d] = fetch[d]
        /\ UNCHANGED <<server, sections, table, note, last, clicks>>
    BY <1>4, ReplyFills
  <2>2. failed' \in 0..Failures
    BY <1>4, <1>a, ReportViewAssumption DEF Reply, Fail
  <2>3. FetchOK'
    BY <2>1, <1>a
  <2> QED
    BY <2>1, <2>2, <2>3, <1>a
<1>5. ASSUME NEW c \in Calls, Render(c) \/ Rejects(c)
      PROVE  (FetchOK /\ PageOK /\ NoteOK /\ LastOK /\ RestOK)'
  <2>1. /\ fetch'[c] = Nil /\ DOMAIN fetch' = Calls
        /\ \A d \in Calls : d # c => fetch'[d] = fetch[d]
        /\ UNCHANGED <<server, last, clicks>>
        /\ failed' = failed \/ Fail
    BY <1>5, CallEnds
  <2>a. failed' \in 0..Failures
    BY <2>1, <1>a, ReportViewAssumption DEF Fail
  <2>2. FetchOK' /\ LastOK' /\ RestOK'
    BY <2>1, <2>a, <1>a
  <2>3. CASE Render(c)
    <3>1. /\ fetch[c] \in Held(c, {})
          /\ \/ /\ c \in Loads /\ sections' = fetch[c] /\ table' = table
                /\ note' = [note EXCEPT !["load"] = "showing"]
             \/ /\ c \in Compares /\ table' = fetch[c] /\ sections' = sections
                /\ note' = [note EXCEPT !["compare"] = "showing"]
      BY <2>3, RenderShows
    <3>2. /\ c \in Loads => \A d \in Loads : Held(d, {}) = Held(c, {})
          /\ c \in Compares => \A d \in Compares : Held(d, {}) = Held(c, {})
      BY ReportViewAssumption DEF Held, Arguments, Places
    <3>3. PageOK'
      BY <3>1, <3>2, <1>a
    <3>4. NoteOK'
      BY <3>1, <1>a
    <3> QED
      BY <2>2, <3>3, <3>4
  <2>4. CASE Rejects(c)
    <3>1. note' = [note EXCEPT ![Kind(c)] = "error"] /\ UNCHANGED <<sections, table>>
      BY <2>4 DEF Rejects, Reject
    <3>2. NoteOK'
      BY <3>1, <1>a DEF Kind
    <3> QED
      BY <2>2, <3>1, <3>2, <1>a
  <2> QED
    BY <1>5, <2>3, <2>4
<1>6. ASSUME NEW kind \in {"load", "compare"}, AskNothing(kind)
      PROVE  (FetchOK /\ PageOK /\ NoteOK /\ LastOK /\ RestOK)'
  <2>1. clicks' \in 0..MaxClicks
    BY <1>6, <1>a, ReportViewAssumption DEF AskNothing, Click
  <2> QED
    BY <1>6, <2>1, <1>a DEF AskNothing
<1> HIDE DEF FetchOK, PageOK, NoteOK, LastOK, RestOK
<1> QED
  BY <1>1, <1>2, <1>3, <1>4, <1>5, <1>6, Steps

(***************************************************************************)
(* The page, the notes, the calls and the bounds keep their types.         *)
(***************************************************************************)
THEOREM ReportViewTypeCorrect == Spec => []TypeOK
<1>1. Init => TypeOK
  BY ReportViewAssumption DEF Init, TypeOK, Stage
<1>2. TypeOK /\ [Next]_vars => TypeOK'
  BY TypeStep
<1> QED
  BY <1>1, <1>2, PTL DEF Spec

-----------------------------------------------------------------------------
(* Nothing older than its question.                                        *)

(* The server never goes back. *)
LEMMA Onward ==
  /\ \A a \in Stage : a \in From[a]
  /\ \A a, b \in Stage : b \in From[a] => From[b] \subseteq From[a]
  BY DEF From, Stage

LEMMA ServerStep ==
  ASSUME TypeOK, [Next]_vars
  PROVE  \A id \in Ids : server[id] \in Stage /\ server'[id] \in From[server[id]]
<1>a. \A id \in Ids : server[id] \in Stage
  BY DEF TypeOK
<1>1. CASE UNCHANGED server
  BY <1>1, <1>a, Onward
<1>2. ASSUME NEW id \in Ids, Advance(id)
      PROVE  \A i \in Ids : server'[i] \in From[server[i]]
  <2>1. \/ server[id] = "running" /\ server'[id] = "ended"
        \/ server[id] = "ended" /\ server'[id] = "final"
    BY <1>2 DEF Advance, ServerFinish, ServerPublish, TypeOK
  <2>2. server'[id] \in From[server[id]]
    BY <2>1 DEF From, Stage
  <2>3. \A i \in Ids : i # id => server'[i] = server[i]
    BY <1>2 DEF Advance, ServerFinish, ServerPublish, TypeOK
  <2> QED
    BY <2>2, <2>3, <1>a, Onward
<1>3. [Next]_vars => UNCHANGED server \/ \E id \in Ids : Advance(id)
  <2>1. Next => UNCHANGED server \/ \E id \in Ids : Advance(id)
    BY Steps, AskStarts, ReplyFills, CallEnds DEF AskNothing, vars
  <2> QED
    BY <2>1 DEF vars
<1> QED
  BY <1>1, <1>2, <1>3, <1>a

(* A fresh call stays fresh while the server moves on. *)
LEMMA FreshKept ==
  ASSUME TypeOK, [Next]_vars, NEW c \in Calls, NEW f \in Held(c, Open), Fresh(f, server)
  PROVE  Fresh(f, server')
<1>1. \A i \in DOMAIN f.ids : f.ids[i] \in Ids /\ f.since[i] \in Stage
  BY HeldPlaces
<1>2. \A i \in DOMAIN f.ids : /\ server[f.ids[i]] \in From[f.since[i]]
                             /\ server[f.ids[i]] \in Stage
                             /\ server'[f.ids[i]] \in From[server[f.ids[i]]]
  BY <1>1, ServerStep DEF Fresh
<1>3. \A i \in DOMAIN f.ids : server'[f.ids[i]] \in From[f.since[i]]
  BY <1>1, <1>2, Onward
<1> QED
  BY <1>3 DEF Fresh

LEMMA FreshStep ==
  ASSUME TypeOK, FreshCalls, [Next]_vars
  PROVE  FreshCalls'
<1> SUFFICES ASSUME NEW d \in Calls, fetch'[d] # Nil
             PROVE  Fresh(fetch'[d], server')
  BY DEF FreshCalls
<1>a. fetch[d] # Nil => Fresh(fetch[d], server') /\ fetch[d] \in Held(d, Open)
  <2> SUFFICES ASSUME fetch[d] # Nil
               PROVE  Fresh(fetch[d], server') /\ fetch[d] \in Held(d, Open)
    OBVIOUS
  <2>1. fetch[d] \in Held(d, Open) /\ Fresh(fetch[d], server)
    BY DEF TypeOK, FreshCalls
  <2> QED
    BY <2>1, FreshKept
<1>1. CASE fetch'[d] = fetch[d]
  BY <1>1, <1>a
<1>2. ASSUME NEW ids \in Arguments(d), Ask(d, ids)
      PROVE  Fresh(fetch'[d], server')
  <2>1. fetch'[d] = Requests(ids)
    BY <1>2, AskStarts
  <2>2. /\ Requests(ids).ids = ids
        /\ \A i \in DOMAIN ids : /\ Requests(ids).exp[i] = "asked"
                                 /\ Requests(ids).met[i] = "asked"
                                 /\ Requests(ids).since[i] = server[ids[i]]
    BY NewCall DEF TypeOK
  <2>3. UNCHANGED server
    BY <1>2 DEF Ask
  <2>4. \A i \in DOMAIN ids : server[ids[i]] \in From[server[ids[i]]]
    <3>1. \A i \in DOMAIN ids : ids[i] \in Ids
      BY ArgumentPlaces
    <3>2. server \in [Ids -> Stage]
      BY DEF TypeOK
    <3> QED
      BY <3>1, <3>2, Onward
  <2> QED
    BY <2>1, <2>2, <2>3, <2>4 DEF Fresh, Open
<1>3. ASSUME NEW request, NEW i, NEW v, Reply(d, request, i, v)
      PROVE  Fresh(fetch'[d], server')
  <2> DEFINE f == fetch[d]
             g == fetch'[d]
  <2>1. /\ f # Nil /\ f \in Held(d, Open) /\ g \in Held(d, Open)
        /\ g.ids = f.ids /\ g.since = f.since
        /\ \A j \in Places(d) :
             /\ g.exp[j] = f.exp[j] \/ g.exp[j] = server[f.ids[j]]
             /\ g.met[j] = f.met[j] \/ g.met[j] = Nil \/ g.met[j] = server[f.ids[j]]
        /\ UNCHANGED server
    BY <1>3, ReplyFills
  <2>2. Fresh(f, server) /\ DOMAIN f.ids = Places(d)
    BY <2>1, HeldPlaces DEF FreshCalls
  <2> HIDE DEF f, g
  <2>3. Fresh(g, server')
    BY <2>1, <2>2 DEF Fresh, Open
  <2> QED
    BY <2>3 DEF g
<1>4. \/ fetch'[d] = fetch[d]
      \/ \E ids \in Arguments(d) : Ask(d, ids)
      \/ \E request, i, v : Reply(d, request, i, v)
  <2>1. CASE UNCHANGED fetch
    BY <2>1
  <2>2. ASSUME NEW c \in Calls, NEW ids \in Arguments(c), Ask(c, ids)
        PROVE  c = d \/ fetch'[d] = fetch[d]
    BY <2>2, AskStarts
  <2>3. ASSUME NEW c, NEW request, NEW i, NEW v, Reply(c, request, i, v)
        PROVE  c = d \/ fetch'[d] = fetch[d]
    BY <2>3, ReplyFills
  <2>4. ASSUME NEW c \in Calls, Render(c) \/ Rejects(c)
        PROVE  fetch'[d] = fetch[d]
    BY <2>4, CallEnds
  <2>5. CASE Next
    BY <2>1, <2>2, <2>3, <2>4, <2>5, Steps DEF Advance, ServerFinish, ServerPublish, AskNothing, vars
  <2> QED
    BY <2>1, <2>5 DEF vars
<1> QED
  BY <1>1, <1>2, <1>3, <1>4

LEMMA NothingOlderStep ==
  ASSUME TypeOK, FreshCalls, NothingOlder, [Next]_vars
  PROVE  NothingOlder'
<1> DEFINE Final(f) == \A i \in DOMAIN f.ids :
             /\ f.exp[i] \in From[f.since[i]]
             /\ f.met[i] \in From[f.since[i]] \cup {Nil}
<1>a. \A f \in {sections, table} \ {Nil} : Final(f)
  BY DEF NothingOlder
<1> SUFFICES \A f \in {sections', table'} \ {Nil} : Final(f)
  BY DEF NothingOlder
<1>1. CASE UNCHANGED <<sections, table>>
  BY <1>1, <1>a
<1>2. ASSUME NEW c \in Calls, Render(c)
      PROVE  \A f \in {sections', table'} \ {Nil} : Final(f)
  <2>1. /\ fetch[c] # Nil /\ fetch[c] \in Held(c, Open)
        /\ \/ sections' = fetch[c] /\ table' = table
           \/ table' = fetch[c] /\ sections' = sections
    BY <1>2, RenderShows, CallEnds
  <2>2. \A i \in DOMAIN fetch[c].ids :
          fetch[c].exp[i] # "asked" /\ fetch[c].met[i] # "asked"
    BY <1>2 DEF Render
  <2>3. Fresh(fetch[c], server)
    BY <2>1 DEF FreshCalls
  <2>4. Final(fetch[c])
    BY <2>2, <2>3 DEF Fresh, Open
  <2> HIDE DEF Final
  <2> QED
    BY <2>1, <2>4, <1>a
<1>3. UNCHANGED <<sections, table>> \/ \E c \in Calls : Render(c)
  <2>1. CASE Next
    BY <2>1, Steps, AskStarts, ReplyFills DEF Advance, ServerFinish, ServerPublish, AskNothing, Rejects, Reject,
       page, vars
  <2> QED
    BY <2>1 DEF vars, page
<1> QED
  BY <1>1, <1>2, <1>3

(***************************************************************************)
(* Nothing on the page is older than the call that put it there, however   *)
(* many calls overlap and in whatever order their answers come.            *)
(***************************************************************************)
THEOREM NothingOlderCorrect == Spec => []NothingOlder
<1>1. Init => FreshCalls /\ NothingOlder
  BY DEF Init, FreshCalls, NothingOlder
<1>2. TypeOK /\ FreshCalls /\ NothingOlder /\ [Next]_vars
        => (FreshCalls /\ NothingOlder)'
  BY FreshStep, NothingOlderStep
<1> QED
  BY <1>1, <1>2, ReportViewTypeCorrect, PTL DEF Spec

-----------------------------------------------------------------------------
(* The experiment asked for last, and the notes.                           *)

LEMMA LastStep ==
  ASSUME TypeOK, OnlyTheLast, LastAskedShown, [Next]_vars
  PROVE  OnlyTheLast' /\ LastAskedShown'
<1>1. CASE UNCHANGED vars
  BY <1>1 DEF vars, page, OnlyTheLast, LastAskedShown, Loading
<1>2. ASSUME NEW id \in Ids, Advance(id)
      PROVE  OnlyTheLast' /\ LastAskedShown'
  BY <1>2 DEF Advance, ServerFinish, ServerPublish, page, OnlyTheLast, LastAskedShown, Loading
<1>3. ASSUME NEW c \in Calls, NEW ids \in Arguments(c), Ask(c, ids)
      PROVE  OnlyTheLast' /\ LastAskedShown'
  <2>1. /\ fetch[c] = Nil /\ fetch'[c] # Nil /\ fetch'[c].ids = ids
        /\ \A d \in Calls : d # c => fetch'[d] = fetch[d]
        /\ note' = [note EXCEPT ![Kind(c)] = "loading"]
        /\ last' = IF Kind(c) = "load" THEN [id |-> ids[1], alone |-> Loading = {}]
                   ELSE last
        /\ UNCHANGED sections
    <3>1. Requests(ids).ids = ids
      BY NewCall DEF TypeOK
    <3> QED
      BY <1>3, <3>1, AskStarts
  <2>2. CASE c \in Loads
    <3>1. ids = <<ids[1]>>
      BY <2>2 DEF Arguments
    <3>2. last'.id = ids[1] /\ (last'.alone <=> Loading = {})
      BY <2>1, <2>2 DEF Kind
    <3>3. c \in Loading' /\ (Loading = {} => Loading' = {c})
      BY <2>1, <2>2 DEF Loading, Calls
    <3> QED
      BY <2>1, <3>1, <3>2, <3>3 DEF OnlyTheLast, LastAskedShown
  <2>3. CASE c \notin Loads
    <3>1. /\ Loading' = Loading /\ last' = last
          /\ \A d \in Loading : fetch'[d] = fetch[d]
      BY <2>1, <2>3 DEF Kind, Loading, Calls
    <3>2. note'.load = note.load
      BY <2>1, <2>3 DEF Kind, TypeOK
    <3> QED
      BY <2>1, <3>1, <3>2 DEF OnlyTheLast, LastAskedShown
  <2> QED
    BY <2>2, <2>3
<1>4. ASSUME NEW c, NEW request, NEW i, NEW v, Reply(c, request, i, v)
      PROVE  OnlyTheLast' /\ LastAskedShown'
  <2>1. /\ c \in Calls /\ fetch[c] # Nil /\ fetch'[c] # Nil
        /\ fetch'[c].ids = fetch[c].ids
        /\ \A d \in Calls : d # c => fetch'[d] = fetch[d]
        /\ UNCHANGED <<sections, note, last>>
    BY <1>4, ReplyFills
  <2>2. /\ Loading' = Loading
        /\ \A d \in Loading : fetch'[d].ids = fetch[d].ids
    BY <2>1 DEF Loading, Calls
  <2> QED
    BY <2>1, <2>2 DEF OnlyTheLast, LastAskedShown
<1>5. ASSUME NEW c \in Calls, Render(c) \/ Rejects(c)
      PROVE  OnlyTheLast' /\ LastAskedShown'
  <2>1. /\ fetch[c] # Nil /\ fetch'[c] = Nil
        /\ \A d \in Calls : d # c => fetch'[d] = fetch[d]
        /\ UNCHANGED last
    BY <1>5, CallEnds
  <2>2. Loading' = Loading \ {c} /\ \A d \in Loading' : fetch'[d] = fetch[d]
    BY <2>1 DEF Loading, Calls
  <2>3. OnlyTheLast'
    BY <2>1, <2>2 DEF OnlyTheLast
  <2>4. CASE c \in Loads
    <3>1. c \in Loading
      BY <2>1, <2>4 DEF Loading
    <3>2. CASE Render(c)
      <4>1. sections' = fetch[c]
        BY <3>2, <2>4 DEF Render, Kind
      <4> QED
        BY <4>1, <3>1, <2>1, <2>3 DEF OnlyTheLast, LastAskedShown
    <3>3. CASE Rejects(c)
      <4>1. note'.load = "error"
        BY <3>3, <2>4 DEF Rejects, Reject, Kind, TypeOK
      <4> QED
        BY <4>1, <2>3 DEF LastAskedShown
    <3> QED
      BY <1>5, <3>2, <3>3
  <2>5. CASE c \notin Loads
    <3>1. Loading' = Loading
      BY <2>2, <2>5 DEF Loading
    <3>2. sections' = sections /\ note'.load = note.load
      BY <1>5, <2>5 DEF Render, Rejects, Reject, Kind, TypeOK
    <3> QED
      BY <3>1, <3>2, <2>1, <2>3 DEF LastAskedShown
  <2> QED
    BY <2>4, <2>5
<1>6. ASSUME NEW kind \in {"load", "compare"}, AskNothing(kind)
      PROVE  OnlyTheLast' /\ LastAskedShown'
  <2>1. UNCHANGED <<sections, fetch, last>>
    BY <1>6 DEF AskNothing
  <2>2. note'.load \in {note.load, "missing"}
    BY <1>6 DEF AskNothing, TypeOK
  <2> QED
    BY <2>1, <2>2 DEF OnlyTheLast, LastAskedShown, Loading
<1> QED
  BY <1>1, <1>2, <1>3, <1>4, <1>5, <1>6, Steps

(***************************************************************************)
(* The page ends with the experiment asked for last, or says why not,      *)
(* unless an older load was under way when it was asked for.               *)
(***************************************************************************)
THEOREM LastAskedShownCorrect == Spec => []LastAskedShown
<1>1. Init => OnlyTheLast /\ LastAskedShown
  BY DEF Init, OnlyTheLast, LastAskedShown
<1>2. TypeOK /\ OnlyTheLast /\ LastAskedShown /\ [Next]_vars
        => (OnlyTheLast /\ LastAskedShown)'
  BY LastStep
<1> QED
  BY <1>1, <1>2, ReportViewTypeCorrect, PTL DEF Spec

LEMMA NotesStep ==
  ASSUME TypeOK, NotesAccounted, [Next]_vars
  PROVE  NotesAccounted'
<1> DEFINE Busy(kind) == \E c \in Calls : Kind(c) = kind /\ fetch[c] # Nil
           BusyNext(kind) == \E c \in Calls : Kind(c) = kind /\ fetch'[c] # Nil
<1>a. /\ note.load = "loading" => Busy("load")
      /\ note.compare = "loading" => Busy("compare")
      /\ note.load = "showing" => sections # Nil
      /\ note.compare = "showing" => table # Nil
      /\ DOMAIN note = {"load", "compare"}
  BY DEF NotesAccounted, TypeOK
<1> SUFFICES /\ note'.load = "loading" => BusyNext("load")
             /\ note'.compare = "loading" => BusyNext("compare")
             /\ note'.load = "showing" => sections' # Nil
             /\ note'.compare = "showing" => table' # Nil
  BY DEF NotesAccounted
<1>1. CASE UNCHANGED <<note, sections, table, fetch>>
  BY <1>1, <1>a
<1>2. ASSUME NEW c \in Calls, NEW ids \in Arguments(c), Ask(c, ids)
      PROVE  /\ note'.load = "loading" => BusyNext("load")
             /\ note'.compare = "loading" => BusyNext("compare")
             /\ note'.load = "showing" => sections' # Nil
             /\ note'.compare = "showing" => table' # Nil
  <2>1. /\ fetch[c] = Nil /\ fetch'[c] # Nil
        /\ \A d \in Calls : d # c => fetch'[d] = fetch[d]
        /\ note' = [note EXCEPT ![Kind(c)] = "loading"]
        /\ UNCHANGED <<sections, table>>
    BY <1>2, AskStarts
  <2>2. /\ \A kind : Busy(kind) => BusyNext(kind)
        /\ BusyNext(Kind(c))
    BY <2>1
  <2>3. Kind(c) \in {"load", "compare"}
    BY DEF Kind
  <2>4. /\ note'.load = IF Kind(c) = "load" THEN "loading" ELSE note.load
        /\ note'.compare = IF Kind(c) = "compare" THEN "loading" ELSE note.compare
    BY <2>1, <2>3, <1>a
  <2> HIDE DEF Busy, BusyNext
  <2> QED
    BY <2>1, <2>2, <2>3, <2>4, <1>a
<1>3. ASSUME NEW c, NEW request, NEW i, NEW v, Reply(c, request, i, v)
      PROVE  /\ note'.load = "loading" => BusyNext("load")
             /\ note'.compare = "loading" => BusyNext("compare")
             /\ note'.load = "showing" => sections' # Nil
             /\ note'.compare = "showing" => table' # Nil
  <2>1. /\ fetch'[c] # Nil
        /\ \A d \in Calls : d # c => fetch'[d] = fetch[d]
        /\ UNCHANGED <<note, sections, table>>
    BY <1>3, ReplyFills
  <2>2. \A kind : Busy(kind) => BusyNext(kind)
    BY <2>1
  <2> HIDE DEF Busy, BusyNext
  <2> QED
    BY <2>1, <2>2, <1>a
<1>4. ASSUME NEW c \in Calls, Render(c) \/ Rejects(c)
      PROVE  /\ note'.load = "loading" => BusyNext("load")
             /\ note'.compare = "loading" => BusyNext("compare")
             /\ note'.load = "showing" => sections' # Nil
             /\ note'.compare = "showing" => table' # Nil
  <2>1. /\ fetch[c] # Nil /\ fetch'[c] = Nil
        /\ \A d \in Calls : d # c => fetch'[d] = fetch[d]
    BY <1>4, CallEnds
  <2>2. Kind(c) \in {"load", "compare"}
    BY DEF Kind
  <2>3. \A kind \in {"load", "compare"} :
          kind # Kind(c) => (Busy(kind) => BusyNext(kind))
    BY <2>1
  <2>4. /\ note'[Kind(c)] # "loading"
        /\ \A kind \in {"load", "compare"} :
             kind # Kind(c) => note'[kind] = note[kind]
    BY <1>4, <1>a, <2>2 DEF Render, Rejects, Reject
  <2>5. /\ note'.load = "showing" => sections' # Nil
        /\ note'.compare = "showing" => table' # Nil
    BY <1>4, <1>a, <2>1, <2>2 DEF Render, Rejects, Reject
  <2> HIDE DEF Busy, BusyNext
  <2> QED
    BY <2>2, <2>3, <2>4, <2>5, <1>a
<1>5. ASSUME NEW kind \in {"load", "compare"}, AskNothing(kind)
      PROVE  /\ note'.load = "loading" => BusyNext("load")
             /\ note'.compare = "loading" => BusyNext("compare")
             /\ note'.load = "showing" => sections' # Nil
             /\ note'.compare = "showing" => table' # Nil
  <2>1. /\ UNCHANGED <<fetch, sections, table>>
        /\ note' = [note EXCEPT ![kind] = "missing"]
    BY <1>5 DEF AskNothing
  <2> QED
    BY <2>1, <1>a
<1> HIDE DEF Busy, BusyNext
<1> QED
  <2>1. CASE Next
    BY <1>1, <1>2, <1>3, <1>4, <1>5, <2>1, Steps DEF Advance, ServerFinish, ServerPublish, vars, page
  <2> QED
    BY <1>1, <2>1 DEF vars, page

(***************************************************************************)
(* A note says Loading only while a call of its kind is under way, and     *)
(* nothing else only when its part of the page is there: what LoadEnds     *)
(* needs besides the answers.                                              *)
(***************************************************************************)
THEOREM NotesAccountedCorrect == Spec => []NotesAccounted
<1>1. Init => NotesAccounted
  BY DEF Init, NotesAccounted
<1>2. TypeOK /\ NotesAccounted /\ [Next]_vars => NotesAccounted'
  BY NotesStep
<1> QED
  BY <1>1, <1>2, ReportViewTypeCorrect, PTL DEF Spec

-----------------------------------------------------------------------------
(* The dashboard, with as many loads, clicks and failures.                 *)

VARIABLES rows, load, stopping

Dash == INSTANCE Dashboard

(***************************************************************************)
(* The list's answers are states of the table: whatever is rendered, and   *)
(* whenever, is something the table can show.                              *)
(***************************************************************************)
THEOREM DashboardTypeCorrect == Dash!Spec => []Dash!TypeOK
<1>a. MaxClicks \in Nat /\ Failures \in Nat
  BY ReportViewAssumption
<1> DEFINE ShownOK == /\ server \in {"none", "running", "finished"}
                       /\ rows \in {"empty", "running", "finished", "failed"}
           LoadOK == load \in [Loads -> {Nil, "asked", "empty", "running",
                                         "finished", "failed"}]
           Counts == failed \in 0..Failures /\ clicks \in 0..MaxClicks
<1>b. Dash!TypeOK <=> ShownOK /\ LoadOK /\ Counts /\ stopping \in BOOLEAN
  BY DEF Dash!TypeOK
<1>1. Dash!Init => Dash!TypeOK
  <2> SUFFICES ASSUME Dash!Init
               PROVE  ShownOK /\ LoadOK /\ Counts /\ stopping \in BOOLEAN
    BY <1>b
  <2>1. ShownOK /\ LoadOK /\ Counts
    BY <1>a DEF Dash!Init
  <2>2. stopping \in BOOLEAN
    BY DEF Dash!Init
  <2> QED
    BY <2>1, <2>2
<1>2. Dash!TypeOK /\ [Dash!Next]_Dash!vars => Dash!TypeOK'
  <2> SUFFICES ASSUME ShownOK, LoadOK, Counts, stopping \in BOOLEAN,
                      [Dash!Next]_Dash!vars
               PROVE  (ShownOK /\ LoadOK /\ Counts /\ stopping \in BOOLEAN)'
    BY Zenon DEF Dash!TypeOK
  <2> USE <1>a DEF Dash!Ask, Dash!Click, Dash!Fail
  <2>1. CASE UNCHANGED Dash!vars
    BY <2>1 DEF Dash!vars
  <2>2. CASE Dash!ServerFinish \/ Dash!StopClick \/ Dash!Idle
    <3>1. (ShownOK /\ LoadOK /\ Counts)'
      BY <2>2 DEF Dash!ServerFinish, Dash!StopClick, Dash!Idle, Dash!vars
    <3>2. stopping' \in BOOLEAN
      BY <2>2 DEF Dash!ServerFinish, Dash!StopClick, Dash!Idle, Dash!vars
    <3> QED
      BY <3>1, <3>2
  <2>3. ASSUME NEW l \in Loads, Dash!Refresh(l)
        PROVE  (ShownOK /\ LoadOK /\ Counts /\ stopping \in BOOLEAN)'
    <3>1. (ShownOK /\ LoadOK /\ Counts)'
      BY <2>3 DEF Dash!Refresh
    <3>2. stopping' \in BOOLEAN
      BY <2>3 DEF Dash!Refresh
    <3> QED
      BY <3>1, <3>2
  <2>4. ASSUME NEW l \in Loads, Dash!AutoRefresh(l)
        PROVE  (ShownOK /\ LoadOK /\ Counts /\ stopping \in BOOLEAN)'
    <3>1. (ShownOK /\ LoadOK /\ Counts)'
      BY <2>4 DEF Dash!AutoRefresh
    <3>2. stopping' \in BOOLEAN
      BY <2>4 DEF Dash!AutoRefresh
    <3> QED
      BY <3>1, <3>2
  <2>5. ASSUME NEW l \in Loads, Dash!Create(l)
        PROVE  (ShownOK /\ LoadOK /\ Counts /\ stopping \in BOOLEAN)'
    <3>1. (ShownOK /\ LoadOK /\ Counts)'
      BY <2>5 DEF Dash!Create
    <3>2. stopping' \in BOOLEAN
      BY <2>5 DEF Dash!Create
    <3> QED
      BY <3>1, <3>2
  <2>6. ASSUME NEW l \in Loads, Dash!StopAnswered(l)
        PROVE  (ShownOK /\ LoadOK /\ Counts /\ stopping \in BOOLEAN)'
    <3>1. (ShownOK /\ LoadOK /\ Counts)'
      BY <2>6 DEF Dash!StopAnswered
    <3>2. stopping' \in BOOLEAN
      BY <2>6 DEF Dash!StopAnswered
    <3> QED
      BY <3>1, <3>2
  <2>7. ASSUME NEW l \in Loads, Dash!Serve(l)
        PROVE  (ShownOK /\ LoadOK /\ Counts /\ stopping \in BOOLEAN)'
    <3>1. (ShownOK /\ LoadOK /\ Counts)'
      BY <2>7 DEF Dash!Serve
    <3>2. stopping' \in BOOLEAN
      BY <2>7 DEF Dash!Serve
    <3> QED
      BY <3>1, <3>2
  <2>8. ASSUME NEW l \in Loads, Dash!Render(l)
        PROVE  (ShownOK /\ LoadOK /\ Counts /\ stopping \in BOOLEAN)'
    <3>1. (ShownOK /\ LoadOK /\ Counts)'
      BY <2>8 DEF Dash!Render
    <3>2. stopping' \in BOOLEAN
      BY <2>8 DEF Dash!Render
    <3> QED
      BY <3>1, <3>2
  <2> HIDE DEF ShownOK, LoadOK, Counts
  <2> QED
    BY <2>1, <2>2, <2>3, <2>4, <2>5, <2>6, <2>7, <2>8 DEF Dash!Next
<1> QED
  BY <1>1, <1>2, PTL DEF Dash!Spec

(***************************************************************************)
(* Behind a finished experiment the old answers run out: no step adds one, *)
(* and the table goes back to running only by rendering one, for any       *)
(* number of loads that overlap.                                           *)
(***************************************************************************)
THEOREM OldAnswersRunOutCorrect == Dash!Spec => Dash!OldAnswersRunOut
<1> DEFINE Promise ==
      server = "finished" =>
        /\ server' = "finished" /\ Dash!Outdated' \subseteq Dash!Outdated
        /\ rows # "running" /\ rows' = "running"
             => Dash!Outdated' # Dash!Outdated
<1>1. Dash!TypeOK /\ [Dash!Next]_Dash!vars => [Promise]_Dash!vars
  <2> SUFFICES ASSUME Dash!TypeOK, Dash!Next, server = "finished"
               PROVE  /\ server' = "finished"
                      /\ Dash!Outdated' \subseteq Dash!Outdated
                      /\ rows # "running" /\ rows' = "running"
                           => Dash!Outdated' # Dash!Outdated
    OBVIOUS
  <2>a. load \in [Loads -> {Nil, "asked", "empty", "running", "finished", "failed"}]
    BY DEF Dash!TypeOK
  <2>b. ASSUME NEW l \in Loads, NEW a, a # "running",
               load' = [load EXCEPT ![l] = a]
        PROVE  Dash!Outdated' = Dash!Outdated \ {l}
    BY <2>a, <2>b DEF Dash!Outdated
  <2>c. ASSUME NEW l \in Loads, Dash!Ask(l)
        PROVE  Dash!Outdated' = Dash!Outdated \ {l}
    BY <2>b, <2>c DEF Dash!Ask
  <2>1. CASE Dash!ServerFinish \/ Dash!StopClick \/ Dash!Idle
    BY <2>1 DEF Dash!ServerFinish, Dash!StopClick, Dash!Idle, Dash!vars,
       Dash!Outdated
  <2>2. ASSUME NEW l \in Loads, Dash!Refresh(l) \/ Dash!AutoRefresh(l)
        PROVE  /\ server' = server /\ rows' = rows
               /\ Dash!Outdated' \subseteq Dash!Outdated
    BY <2>2, <2>c DEF Dash!Refresh, Dash!AutoRefresh
  <2>3. ASSUME NEW l \in Loads PROVE ~Dash!Create(l)
    BY DEF Dash!Create
  <2>4. ASSUME NEW l \in Loads, Dash!StopAnswered(l)
        PROVE  /\ server' = server /\ rows' = rows
               /\ Dash!Outdated' \subseteq Dash!Outdated
    BY <2>4 DEF Dash!StopAnswered, Dash!Fail, Dash!Outdated
  <2>5. ASSUME NEW l \in Loads, Dash!Serve(l)
        PROVE  /\ server' = server /\ rows' = rows
               /\ Dash!Outdated' \subseteq Dash!Outdated
    <3>1. PICK a \in {"finished", "failed"} : load' = [load EXCEPT ![l] = a]
      BY <2>5 DEF Dash!Serve
    <3> QED
      BY <2>5, <2>b, <3>1 DEF Dash!Serve
  <2>6. ASSUME NEW l \in Loads, Dash!Render(l)
        PROVE  /\ server' = server /\ Dash!Outdated' \subseteq Dash!Outdated
               /\ rows' = "running" => Dash!Outdated' # Dash!Outdated
    <3>1. rows' = load[l] /\ load' = [load EXCEPT ![l] = Nil] /\ server' = server
      BY <2>6 DEF Dash!Render
    <3>2. Dash!Outdated' = Dash!Outdated \ {l}
      BY <2>b, <3>1, ReportViewAssumption DEF Stage
    <3>3. rows' = "running" => l \in Dash!Outdated
      BY <3>1 DEF Dash!Outdated
    <3> QED
      BY <3>1, <3>2, <3>3
  <2> QED
    BY <2>1, <2>2, <2>3, <2>4, <2>5, <2>6 DEF Dash!Next
<1> QED
  BY <1>1, DashboardTypeCorrect, PTL DEF Dash!Spec, Dash!OldAnswersRunOut
=============================================================================
