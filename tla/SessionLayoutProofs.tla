------------------------- MODULE SessionLayoutProofs -------------------------
(***************************************************************************)
(* Every step keeps layouts, the graph shown and the layout indicator      *)
(* right, whatever edits, arriving functions, layout tasks and deliveries  *)
(* come between.                                                           *)
(***************************************************************************)
EXTENDS SessionViewProofs, CallTableProofs

(***************************************************************************)
(* What is shown follows the events: cur, which is shown now, is one of    *)
(* Ok when none of the events e is in K, and otherwise the last that is,   *)
(* is in R.                                                                *)
(***************************************************************************)
Follows(e, K, cur, Ok, R) ==
  LET P == {i \in DOMAIN e : e[i] \in K}
  IN  IF P = {} THEN cur \in Ok
      ELSE \E i \in P : (\A j \in P : j <= i) /\ e[i] \in R

(* Events of another kind do not matter. *)
LEMMA FollowsMore ==
  ASSUME NEW E, NEW s \in Seq(E), NEW t \in Seq(E), NEW K, NEW cur, NEW Ok, NEW R,
         \A i \in DOMAIN t : t[i] \notin K, Follows(s, K, cur, Ok, R)
  PROVE  Follows(s \o t, K, cur, Ok, R)
<1> DEFINE P == {i \in DOMAIN s : s[i] \in K}
           Q == {i \in DOMAIN (s \o t) : (s \o t)[i] \in K}
<1>1. \A i \in DOMAIN s : i \in DOMAIN (s \o t) /\ (s \o t)[i] = s[i]
  BY Appending, SMTT(60)
<1>2. \A i \in DOMAIN (s \o t) : i \in DOMAIN s \/ (s \o t)[i] \notin K
  <2> TAKE i \in DOMAIN (s \o t)
  <2>1. i \in DOMAIN s \/ (i - Len(s) \in DOMAIN t /\ i > Len(s))
    BY Appending, Zenon
  <2>2. i - Len(s) \in DOMAIN t => (s \o t)[Len(s) + (i - Len(s))] = t[i - Len(s)]
    BY Appending, SMTT(60)
  <2>3. Len(s) + (i - Len(s)) = i
    BY Appending, SMTT(60)
  <2> QED BY <2>1, <2>2, <2>3, Zenon
<1>3. Q = P
  BY <1>1, <1>2, Zenon
<1>4. \A i \in P : (s \o t)[i] = s[i]
  BY <1>1, Zenon
<1> QED BY <1>3, <1>4, Zenon DEF Follows

(* The last event of the kind decides. *)
LEMMA FollowsLast ==
  ASSUME NEW E, NEW s \in Seq(E), NEW t \in Seq(E), NEW K, NEW cur, NEW Ok, NEW R,
         NEW k \in DOMAIN t, t[k] \in K, t[k] \in R, \A j \in DOMAIN t : t[j] \in K => j <= k
  PROVE  Follows(s \o t, K, cur, Ok, R)
<1> DEFINE Q == {i \in DOMAIN (s \o t) : (s \o t)[i] \in K}
           m == Len(s) + k
<1>1. /\ Len(s) \in Nat /\ Len(t) \in Nat /\ DOMAIN s = 1..Len(s) /\ DOMAIN t = 1..Len(t)
      /\ DOMAIN (s \o t) = 1..(Len(s) + Len(t))
  BY Appending, LenProperties, SMTT(60)
<1>2. m \in DOMAIN (s \o t) /\ (s \o t)[m] = t[k]
  BY Appending, SMTT(60)
<1>3. \A j \in Q : j <= m
  <2> TAKE j \in Q
  <2>1. CASE j \in DOMAIN s
    BY <1>1, <2>1, SMTT(60)
  <2>2. CASE j \notin DOMAIN s
    <3>1. j - Len(s) \in DOMAIN t
      BY <2>2, Appending, Zenon
    <3>2. (s \o t)[Len(s) + (j - Len(s))] = t[j - Len(s)]
      BY <3>1, Appending, SMTT(60)
    <3>3. Len(s) + (j - Len(s)) = j
      BY <1>1, SMTT(60)
    <3>4. t[j - Len(s)] \in K
      BY <3>2, <3>3, Zenon
    <3>5. j - Len(s) <= k
      BY <3>1, <3>4, Zenon
    <3> QED BY <1>1, <3>1, <3>5, SMTT(60)
  <2> QED BY <2>1, <2>2, Zenon
<1>4. m \in Q
  BY <1>2, Zenon
<1> HIDE DEF m
<1> QED BY <1>2, <1>3, <1>4, Zenon DEF Follows

(* The same for one event.                                                 *)
LEMMA FollowsOne ==
  ASSUME NEW E, NEW s \in Seq(E), NEW x \in E, NEW K, NEW cur, NEW Ok, NEW R, x \in K, x \in R
  PROVE  Follows(s \o <<x>>, K, cur, Ok, R)
<1> DEFINE t == <<x>>
<1>1. t \in Seq(E) /\ 1 \in DOMAIN t /\ t[1] = x /\ \A j \in DOMAIN t : j <= 1
  BY SMTT(60)
<1> HIDE DEF t
<1>2. t[1] \in K /\ t[1] \in R /\ \A j \in DOMAIN t : t[j] \in K => j <= 1
  BY <1>1, Zenon
<1>3. Follows(s \o t, K, cur, Ok, R)
  BY <1>1, <1>2, FollowsLast, Zenon
<1> QED BY <1>3, Zenon DEF t

(* Delivering an event does not change what will be shown.                 *)
LEMMA FollowsDelivery ==
  ASSUME NEW e, NEW t, NEW n \in Nat \ {0}, DOMAIN e = 1..n, DOMAIN t = 1..(n - 1),
         \A i \in 1..(n - 1) : t[i] = e[i + 1],
         NEW K, NEW cur, NEW new, NEW Ok, NEW R, Follows(e, K, cur, Ok, R),
         e[1] \in K /\ e[1] \in R => new \in Ok, e[1] \notin K => new = cur
  PROVE  Follows(t, K, new, Ok, R)
<1> DEFINE P == {i \in DOMAIN e : e[i] \in K}
           Q == {i \in DOMAIN t : t[i] \in K}
<1>1. P \subseteq 1..n /\ Q \subseteq 1..(n - 1)
  BY Zenon
<1>2. \A i \in Q : i + 1 \in P
  BY SMTT(60)
<1>3. \A i \in P : i # 1 => i - 1 \in Q
  BY SMTT(60)
<1>4. 1 \in P <=> e[1] \in K
  BY SMTT(60)
<1>5. CASE Q = {}
  <2>1. P \subseteq {1}
    BY <1>3, <1>5, Zenon
  <2>2. new \in Ok
    BY <1>4, <2>1, Zenon DEF Follows
  <2> QED BY <1>5, <2>2, Zenon DEF Follows
<1>6. CASE Q # {}
  <2>1. PICK k \in Q : TRUE
    BY <1>6, Zenon
  <2>2. PICK i \in P : (\A j \in P : j <= i) /\ e[i] \in R
    BY <1>2, <2>1, Zenon DEF Follows
  <2>3. i # 1
    BY <1>1, <1>2, <2>1, <2>2, SMTT(60)
  <2>4. i - 1 \in Q /\ t[i - 1] = e[i]
    BY <1>1, <1>3, <2>3, SMTT(60)
  <2>5. \A j \in Q : j <= i - 1
    <3> TAKE j \in Q
    <3>1. j + 1 <= i
      BY <1>2, <2>2, Zenon
    <3> QED BY <1>1, <3>1, SMTT(60)
  <2> QED BY <1>6, <2>2, <2>4, <2>5, Zenon DEF Follows
<1> QED BY <1>5, <1>6, Zenon

(* The events ViewFresh and IndicatorOff are about.                        *)
NodesOf(u) == {e \in Event(Uuid) : e.to = "insertNode" /\ e.uuid = u}
Saying(text) == {e \in Event(Uuid) : e.text = text}
Lamps == {e \in Event(Uuid) : e.to = "layoutTask"}
LampsOff == {e \in Event(Uuid) : e.uuid = None}

Views(e, u, nodes, text) == Follows(e, NodesOf(u), nodes, {None, text}, Saying(text))
Lamp(e, task) == Follows(e, Lamps, task, {None}, LampsOff)

(* What is posted is typed.                                                *)
LEMMA EventsTyped ==
  /\ TypeOK => events \in Seq(Event(Uuid)) /\ Known \subseteq Uuid /\ None \notin Uuid
  /\ TypeOK' => events' \in Seq(Event(Uuid)) /\ Known' \subseteq Uuid
<1>1. ASSUME TypeOK PROVE events \in Seq(Event(Uuid)) /\ Known \subseteq Uuid /\ None \notin Uuid
  <2>1. events \in Seq(Event(Known)) /\ Known \subseteq Uuid
    BY <1>1, Parts, Zenon DEF TypeTables, Renamed, Known
  <2> QED BY <2>1, MoreEvents, SessionAssumption, Zenon
<1>2. ASSUME TypeOK' PROVE events' \in Seq(Event(Uuid)) /\ Known' \subseteq Uuid
  <2>1. events' \in Seq(Event(Known')) /\ Known' \subseteq Uuid
    BY <1>2, PartsNext, Zenon DEF TypeTables, Renamed, Known
  <2> QED BY <2>1, MoreEvents, Zenon
<1> QED BY <1>1, <1>2, Zenon

(* ViewFresh and IndicatorOff in these terms.                              *)
LEMMA Viewing ==
  ASSUME NEW e \in Seq(Event(Uuid)), NEW u, NEW nodes, NEW text
  PROVE  (LET P == {i \in {j \in DOMAIN e : e[j].to = "insertNode"} : e[i].uuid = u}
          IN  IF P = {} THEN nodes \in {None, text}
              ELSE \E i \in P : (\A j \in P : j <= i) /\ e[i].text = text)
         <=> Views(e, u, nodes, text)
<1> DEFINE P == {i \in {j \in DOMAIN e : e[j].to = "insertNode"} : e[i].uuid = u}
           Q == {i \in DOMAIN e : e[i] \in NodesOf(u)}
<1>1. \A i \in DOMAIN e : e[i] \in Event(Uuid)
  <2> HIDE DEF Event
  <2> QED BY SMTT(60)
<1> HIDE DEF Event
<1>2. P = Q
  BY <1>1, Zenon DEF NodesOf
<1>3. \A i \in DOMAIN e : e[i].text = text <=> e[i] \in Saying(text)
  BY <1>1, Zenon DEF Saying
<1>4. \A i \in P : i \in DOMAIN e
  BY Zenon
<1> HIDE DEF P
<1> QED BY <1>2, <1>3, <1>4, Zenon DEF Views, Follows, P

(* The same for the indicator.                                             *)
LEMMA Lighting ==
  ASSUME NEW e \in Seq(Event(Uuid)), NEW task
  PROVE  (LET P == {i \in DOMAIN e : e[i].to = "layoutTask"}
          IN  IF P = {} THEN task = None
              ELSE \E i \in P : (\A j \in P : j <= i) /\ e[i].uuid = None)
         <=> Lamp(e, task)
<1> DEFINE P == {i \in DOMAIN e : e[i].to = "layoutTask"}
           Q == {i \in DOMAIN e : e[i] \in Lamps}
<1>1. \A i \in DOMAIN e : e[i] \in Event(Uuid)
  <2> HIDE DEF Event
  <2> QED BY SMTT(60)
<1> HIDE DEF Event
<1>2. P = Q
  BY <1>1, Zenon DEF Lamps
<1>3. \A i \in DOMAIN e : e[i].uuid = None <=> e[i] \in LampsOff
  BY <1>1, Zenon DEF LampsOff
<1>4. \A i \in P : i \in DOMAIN e
  BY Zenon
<1>5. task \in {None} <=> task = None
  BY Zenon
<1> HIDE DEF P
<1> QED BY <1>2, <1>3, <1>4, <1>5, Zenon DEF Lamp, Follows, P

(* What a session shows, conjunct by conjunct. *)
LEMMA Shown ==
  ASSUME TypeOK
  PROVE  /\ ViewFresh <=>
              (gui.uuid # None /\ gui.uuid \notin raced /\ sent =>
                 Views(events, gui.uuid, gui.nodes, Render(functions, comments, values, gui.uuid)))
         /\ IndicatorOff <=> (tasks = <<>> => Lamp(events, gui.layoutTask))
<1>1. events \in Seq(Event(Uuid))
  BY EventsTyped, Zenon
<1> HIDE DEF Event
<1>2. ViewFresh <=>
        (gui.uuid # None /\ gui.uuid \notin raced /\ sent =>
           Views(events, gui.uuid, gui.nodes, Render(functions, comments, values, gui.uuid)))
  <2> DEFINE text == Render(functions, comments, values, gui.uuid)
             P == {i \in {j \in DOMAIN events : events[j].to = "insertNode"} : events[i].uuid = gui.uuid}
  <2>1. ViewFresh <=>
          (gui.uuid # None /\ gui.uuid \notin raced /\ sent =>
             IF P = {} THEN gui.nodes \in {None, text}
             ELSE \E i \in P : (\A j \in P : j <= i) /\ events[i].text = text)
    BY Zenon DEF ViewFresh, Text, Posted
  <2>2. (IF P = {} THEN gui.nodes \in {None, text}
         ELSE \E i \in P : (\A j \in P : j <= i) /\ events[i].text = text)
        <=> Views(events, gui.uuid, gui.nodes, text)
    BY <1>1, Viewing, Zenon
  <2> QED BY <2>1, <2>2, Zenon
<1>3. IndicatorOff <=> (tasks = <<>> => Lamp(events, gui.layoutTask))
  BY <1>1, Lighting, Zenon DEF IndicatorOff, Posted
<1> QED BY <1>2, <1>3, Zenon

(* The same in the next state. *)
LEMMA ShownNext ==
  ASSUME TypeOK'
  PROVE  /\ ViewFresh' <=>
              (gui'.uuid # None /\ gui'.uuid \notin raced' /\ sent' =>
                 Views(events', gui'.uuid, gui'.nodes, Render(functions', comments', values', gui'.uuid)))
         /\ IndicatorOff' <=> (tasks' = <<>> => Lamp(events', gui'.layoutTask))
<1>1. events' \in Seq(Event(Uuid))
  BY EventsTyped, Zenon
<1> HIDE DEF Event
<1>2. ViewFresh' <=>
        (gui'.uuid # None /\ gui'.uuid \notin raced' /\ sent' =>
           Views(events', gui'.uuid, gui'.nodes, Render(functions', comments', values', gui'.uuid)))
  <2> DEFINE text == Render(functions', comments', values', gui'.uuid)
             P == {i \in {j \in DOMAIN events' : events'[j].to = "insertNode"} : events'[i].uuid = gui'.uuid}
  <2>1. ViewFresh' <=>
          (gui'.uuid # None /\ gui'.uuid \notin raced' /\ sent' =>
             IF P = {} THEN gui'.nodes \in {None, text}
             ELSE \E i \in P : (\A j \in P : j <= i) /\ events'[i].text = text)
    BY Zenon DEF ViewFresh, Text, Posted
  <2>2. (IF P = {} THEN gui'.nodes \in {None, text}
         ELSE \E i \in P : (\A j \in P : j <= i) /\ events'[i].text = text)
        <=> Views(events', gui'.uuid, gui'.nodes, text)
    BY <1>1, Viewing, Zenon
  <2> QED BY <2>1, <2>2, Zenon
<1>3. IndicatorOff' <=> (tasks' = <<>> => Lamp(events', gui'.layoutTask))
  <2> DEFINE P == {i \in DOMAIN events' : events'[i].to = "layoutTask"}
  <2>1. IndicatorOff' <=>
          (tasks' = <<>> =>
             IF P = {} THEN gui'.layoutTask = None
             ELSE \E i \in P : (\A j \in P : j <= i) /\ events'[i].uuid = None)
    BY Zenon DEF IndicatorOff, Posted
  <2>2. (IF P = {} THEN gui'.layoutTask = None
         ELSE \E i \in P : (\A j \in P : j <= i) /\ events'[i].uuid = None)
        <=> Lamp(events', gui'.layoutTask)
    BY <1>1, Lighting, Zenon
  <2> QED BY <2>1, <2>2, Zenon
<1> QED BY <1>2, <1>3, Zenon

(***************************************************************************)
(* update_control_flow_nodes for the functions S keeps what is drawn right *)
(* when S has every function whose text changes, but for those excused.    *)
(***************************************************************************)
LEMMA FreshRefresh ==
  ASSUME TypeOK, TypeOK', LayoutsFresh, TasksFresh, ViewFresh, subscribed = {gui.uuid} \ {None},
         NEW S, NEW excused, Known \subseteq Known',
         \A u \in Known : Text(u)' # Text(u) => u \in S \/ u \in excused,
         layouts' = RefreshedLayouts(S, functions', comments', values'),
         UNCHANGED <<tasks, gui, sent>>, NoteRace(excused),
         NEW nodes \in Listings(NodeEvents(S, functions', comments', values')),
         NEW rest \in Seq(Event(Uuid)), \A i \in DOMAIN rest : rest[i].to # "insertNode",
         events' = events \o nodes \o rest
  PROVE  LayoutsFresh' /\ TasksFresh' /\ ViewFresh'
<1> DEFINE text(u) == Render(functions', comments', values', u)
<1>1. \A u : Text(u)' = text(u)
  BY Zenon DEF Text
<1>2. \A u \in Known : u \notin raced' =>
        \/ text(u) = Text(u) /\ u \notin raced
        \/ text(u) # Text(u) /\ u \in S /\ ~InFlight(u)
  <2>1. \A u \in Known : u \in DOMAIN functions'
    BY Zenon DEF Known
  <2>2. raced' = {u \in DOMAIN functions' :
                    IF u \in Known /\ Text(u) # Text(u)'
                      THEN InFlight(u) \/ u \in excused
                      ELSE u \in raced}
    BY Zenon DEF NoteRace
  <2> HIDE DEF InFlight, Known, text, Text
  <2> QED BY <1>1, <2>1, <2>2, Zenon
<1>3. LayoutsFresh'
  <2> SUFFICES ASSUME NEW u \in DOMAIN layouts', u \notin raced'
               PROVE  layouts'[u] = text(u)
    BY <1>1, Zenon DEF LayoutsFresh
  <2>1. CASE u \in S
    BY <2>1, Zenon DEF RefreshedLayouts
  <2>2. CASE u \notin S
    <3>1. u \in DOMAIN layouts /\ layouts'[u] = layouts[u] /\ u \in Known
      BY <2>2, Parts, Zenon DEF RefreshedLayouts, TypeLayouts
    <3>2. text(u) = Text(u) /\ u \notin raced
      BY <1>2, <2>2, <3>1, Zenon
    <3> QED BY <3>1, <3>2, Zenon DEF LayoutsFresh
  <2> QED BY <2>1, <2>2, Zenon
<1>4. TasksFresh'
  <2> SUFFICES ASSUME NEW i \in DOMAIN tasks, tasks[i].uuid \notin raced'
               PROVE  tasks[i].text = text(tasks[i].uuid)
    BY <1>1, Zenon DEF TasksFresh
  <2>1. tasks[i].uuid \in Known /\ InFlight(tasks[i].uuid)
    BY TaskFields, Zenon DEF InFlight
  <2>2. text(tasks[i].uuid) = Text(tasks[i].uuid) /\ tasks[i].uuid \notin raced
    BY <1>2, <2>1, Zenon
  <2> QED BY <2>2, Zenon DEF TasksFresh
<1>5. ViewFresh'
  <2> SUFFICES ASSUME gui.uuid # None, gui.uuid \notin raced', sent
               PROVE  Views(events', gui.uuid, gui.nodes, text(gui.uuid))
    BY ShownNext, Zenon
  <2> DEFINE u == gui.uuid
             K == NodesOf(u)
  <2>1. u \in Known /\ u \in subscribed
    BY GuiFields, Zenon
  <2>2. events \in Seq(Event(Uuid)) /\ nodes \in Seq(Event(Uuid))
    <3>1. Renamed(functions') /\ comments' \in [Line -> Comment \cup {None}] /\ values' \in [Uuid -> Value \cup {None}]
      BY PartsNext, Zenon DEF TypeTables, TypeEdits
    <3>2. subscribed \subseteq DOMAIN functions' /\ DOMAIN functions' \subseteq Uuid
      BY <2>1, EventsTyped, Zenon DEF Known
    <3>3. nodes \in Seq(Event(DOMAIN functions'))
      BY <3>1, <3>2, NodesPosted, Zenon
    <3> QED BY <3>2, <3>3, EventsTyped, MoreEvents, Zenon
  <2>3. Views(events \o nodes, u, gui.nodes, text(u))
    <3>1. CASE u \in S
      <4>1. NodeEvent(u, text(u)) \in NodeEvents(S, functions', comments', values')
        BY <2>1, <3>1, Zenon DEF NodeEvents
      <4>2. PICK k \in DOMAIN nodes : nodes[k] = NodeEvent(u, text(u))
        BY <4>1, Listed, SMTT(60)
      <4>3. \A i \in DOMAIN nodes : nodes[i] \in K => nodes[i] = NodeEvent(u, text(u))
        <5> TAKE i \in DOMAIN nodes
        <5>1. nodes[i] \in NodeEvents(S, functions', comments', values')
          BY Listed, SMTT(60)
        <5>2. PICK v \in S \cap subscribed : nodes[i] = NodeEvent(v, text(v))
          BY <5>1, Zenon DEF NodeEvents
        <5>3. nodes[i].uuid = v
          BY <5>2, SMTT(60) DEF NodeEvent
        <5> QED BY <5>2, <5>3, Zenon DEF NodesOf
      <4>4. \A j \in DOMAIN nodes : nodes[j] \in K => j = k
        BY <4>2, <4>3, Listed, Zenon
      <4>5. nodes[k] \in Event(Uuid) /\ k \in Nat
        BY <2>2, SMTT(60)
      <4>6. nodes[k] \in K /\ nodes[k] \in Saying(text(u))
        BY <4>2, <4>5, SMTT(60) DEF NodeEvent, NodesOf, Saying
      <4>7. \A j \in DOMAIN nodes : nodes[j] \in K => j <= k
        BY <4>4, <4>5, SMTT(60)
      <4> HIDE DEF K, text, u, Event
      <4> QED BY <2>2, <4>6, <4>7, FollowsLast, Zenon DEF Views, K
    <3>2. CASE u \notin S
      <4>1. text(u) = Text(u) /\ u \notin raced
        BY <1>2, <2>1, <3>2, Zenon
      <4>2. Views(events, u, gui.nodes, text(u))
        BY <4>1, Shown, Zenon DEF Text
      <4>3. \A i \in DOMAIN nodes : nodes[i] \notin K
        <5> TAKE i \in DOMAIN nodes
        <5>1. nodes[i] \in NodeEvents(S, functions', comments', values')
          BY Listed, SMTT(60)
        <5>2. PICK v \in S \cap subscribed : nodes[i] = NodeEvent(v, text(v))
          BY <5>1, Zenon DEF NodeEvents
        <5>3. nodes[i].uuid = v
          BY <5>2, SMTT(60) DEF NodeEvent
        <5> QED BY <3>2, <5>3, Zenon DEF NodesOf
      <4> HIDE DEF K, text, u, Event
      <4> QED BY <2>2, <4>2, <4>3, FollowsMore, Zenon DEF Views, K
    <3> QED BY <3>1, <3>2, Zenon
  <2>4. \A i \in DOMAIN rest : rest[i] \notin K
    BY Zenon DEF NodesOf
  <2>5. events \o nodes \in Seq(Event(Uuid)) /\ events' = (events \o nodes) \o rest
    <3> HIDE DEF Event
    <3> QED BY <2>2, ConcatProperties, Zenon
  <2> HIDE DEF K, text, u, Event
  <2>6. Views((events \o nodes) \o rest, u, gui.nodes, text(u))
    BY <2>3, <2>4, <2>5, FollowsMore, Zenon DEF Views, K
  <2> QED BY <2>5, <2>6, Zenon DEF u
<1> QED BY <1>3, <1>4, <1>5, Zenon

(* A text changes only with what it shows.                                 *)
LEMMA TextKept ==
  ASSUME UNCHANGED <<functions, comments, values>>
  PROVE  \A u : Text(u)' = Text(u)
<1>1. functions' = functions /\ comments' = comments /\ values' = values
  BY Zenon
<1> QED BY <1>1, Zenon DEF Text

(* The graph shown stays right while other events are posted. *)
LEMMA ViewKept ==
  ASSUME TypeOK, TypeOK', ViewFresh, UNCHANGED <<functions, comments, values, raced, sent>>,
         gui'.uuid = gui.uuid, gui'.nodes = gui.nodes,
         NEW t \in Seq(Event(Uuid)), \A i \in DOMAIN t : t[i].to # "insertNode", events' = events \o t
  PROVE  ViewFresh'
<1> DEFINE text == Render(functions, comments, values, gui.uuid)
<1> SUFFICES ASSUME gui.uuid # None, gui.uuid \notin raced, sent
             PROVE  Views(events', gui.uuid, gui.nodes, text)
  BY ShownNext, Zenon
<1>1. Views(events, gui.uuid, gui.nodes, text)
  BY Shown, Zenon
<1>2. \A i \in DOMAIN t : t[i] \notin NodesOf(gui.uuid)
  BY Zenon DEF NodesOf
<1>3. events \in Seq(Event(Uuid))
  BY EventsTyped, Zenon
<1> HIDE DEF Event, text
<1> QED BY <1>1, <1>2, <1>3, FollowsMore, Zenon DEF Views

(* The indicator stays right while other events are posted. *)
LEMMA LampKept ==
  ASSUME TypeOK, TypeOK', IndicatorOff, tasks' = <<>> => tasks = <<>>,
         gui'.layoutTask = gui.layoutTask,
         NEW t \in Seq(Event(Uuid)), \A i \in DOMAIN t : t[i].to # "layoutTask", events' = events \o t
  PROVE  IndicatorOff'
<1> SUFFICES ASSUME tasks = <<>>
             PROVE  Lamp(events', gui.layoutTask)
  BY ShownNext, Zenon
<1>1. Lamp(events, gui.layoutTask)
  BY Shown, Zenon
<1>2. \A i \in DOMAIN t : t[i] \notin Lamps
  BY Zenon DEF Lamps
<1>3. events \in Seq(Event(Uuid))
  BY EventsTyped, Zenon
<1> HIDE DEF Event
<1> QED BY <1>1, <1>2, <1>3, FollowsMore, Zenon DEF Lamp

(* One event is posted or none.                                            *)
LEMMA PostedOne ==
  ASSUME TypeOK
  PROVE  /\ events = events \o <<>> /\ <<>> \in Seq(Event(Uuid)) /\ DOMAIN <<>> = {}
         /\ \A e \in Event(Uuid) : /\ Append(events, e) = events \o <<e>> /\ <<e>> \in Seq(Event(Uuid))
                                   /\ DOMAIN <<e>> = {1} /\ <<e>>[1] = e
<1>1. events \in Seq(Event(Uuid))
  BY EventsTyped, Zenon
<1> HIDE DEF Event
<1>2. events = events \o <<>> /\ <<>> \in Seq(Event(Uuid)) /\ DOMAIN <<>> = {}
  BY <1>1, ConcatEmptySeq, SMTT(60)
<1>3. ASSUME NEW e \in Event(Uuid)
      PROVE  /\ Append(events, e) = events \o <<e>> /\ <<e>> \in Seq(Event(Uuid))
             /\ DOMAIN <<e>> = {1} /\ <<e>>[1] = e
  BY <1>1, AppendIsConcat, SMTT(60)
<1> QED BY <1>2, <1>3, Zenon

(* The bookkeeping stays right when what it is about is left alone.        *)
LEMMA BooksKept ==
  ASSUME Bookkeeping, UNCHANGED <<functions, by_entry, unresolved_calls, resolved_calls, opened, arriving,
                                  subscribed, undo_stack>>, gui'.uuid = gui.uuid
  PROVE  Bookkeeping'
<1>1. opened' # "project" => CallsBooked'
  <2> HAVE opened' # "project"
  <2>1. CallsBooked
    BY Zenon DEF Bookkeeping
  <2>2. Known' = Known
    BY Zenon DEF Known
  <2> QED BY <2>1, <2>2, BookedAnyway, Zenon
<1>2. /\ opened' = "project" => arriving' = {}
      /\ subscribed' = {gui'.uuid} \ {None}
      /\ \A i \in DOMAIN undo_stack' :
           undo_stack'[i].kind = "value" => undo_stack'[i].key = undo_stack'[i].function
  BY Zenon DEF Bookkeeping
<1> QED BY <1>1, <1>2, Zenon DEF Bookkeeping

(* Tasks that keep their texts stay right. *)
LEMMA TasksKept ==
  ASSUME TypeOK, TasksFresh, UNCHANGED <<functions, comments, values, raced>>,
         \A j \in DOMAIN tasks' : /\ j \in DOMAIN tasks
                                  /\ tasks'[j].uuid = tasks[j].uuid /\ tasks'[j].text = tasks[j].text
  PROVE  TasksFresh'
<1>1. \A u : Text(u)' = Text(u)
  BY TextKept, Zenon
<1> SUFFICES ASSUME NEW j \in DOMAIN tasks', tasks'[j].uuid \notin raced
             PROVE  tasks'[j].text = Text(tasks[j].uuid)
  BY <1>1, Zenon DEF TasksFresh, Text
<1> QED BY Zenon DEF TasksFresh

(* Layouts that are left alone stay right. *)
LEMMA LayoutsKept ==
  ASSUME LayoutsFresh, UNCHANGED <<functions, comments, values, raced, layouts>>
  PROVE  LayoutsFresh'
BY TextKept, Zenon DEF LayoutsFresh

(* A task that moves on keeps its function and its text. *)
LEMMA TaskMoved ==
  ASSUME TypeOK, NEW i \in DOMAIN tasks, NEW at, tasks' = [tasks EXCEPT ![i].at = at]
  PROVE  /\ DOMAIN tasks' = DOMAIN tasks /\ tasks' # <<>>
         /\ \A j \in DOMAIN tasks : tasks'[j].uuid = tasks[j].uuid /\ tasks'[j].text = tasks[j].text
<1>1. DOMAIN tasks' = DOMAIN tasks /\ \A j \in DOMAIN tasks \ {i} : tasks'[j] = tasks[j]
  BY Zenon
<1>2. tasks'[i] = [tasks[i] EXCEPT !.at = at]
  BY Zenon
<1>3. tasks[i] \in Task(tasks[i].uuid)
  BY Parts, Zenon DEF TypeTasks
<1>4. tasks'[i].uuid = tasks[i].uuid /\ tasks'[i].text = tasks[i].text
  BY <1>2, <1>3, Zenon DEF Task
<1>5. tasks' # <<>>
  BY <1>1, SMTT(60)
<1> QED BY <1>1, <1>4, <1>5, Zenon

(***************************************************************************)
(* A step of a layout task: what it stores and sends is the text of its    *)
(* function unless a change was missed, and its end turns the indicator    *)
(* off.                                                                    *)
(***************************************************************************)
LEMMA FreshTask ==
  ASSUME TypeOK, TypeOK', LayoutInv, NEW i \in DOMAIN tasks, RunTask(i)
  PROVE  LayoutInv'
<1> USE DEF LayoutInv
<1>1. UNCHANGED <<functions, by_entry, unresolved_calls, resolved_calls, opened, arriving, comments, values,
                  undo_stack, subscribed, gui, raced>>
  BY Zenon DEF RunTask, StartTask, StoreLayout, SendNodes, SendEdges, EndTask, tableVars, coreVars
<1>2. Bookkeeping' /\ gui'.uuid = gui.uuid /\ gui'.nodes = gui.nodes /\ gui'.layoutTask = gui.layoutTask
  BY <1>1, BooksKept, Zenon
<1>3. tasks[i].uuid \in Known /\ tasks[i].text \in NodeText(tasks[i].uuid) /\ Known \subseteq Uuid /\ None \notin Uuid
  BY TaskFields, EventsTyped, Zenon
<1>4. CASE StartTask(i) \/ StoreLayout(i) \/ SendNodes(i) \/ SendEdges(i)
  <2>1. \E at : tasks' = [tasks EXCEPT ![i].at = at]
    BY <1>4, Zenon DEF StartTask, StoreLayout, SendNodes, SendEdges
  <2>2. /\ DOMAIN tasks' = DOMAIN tasks /\ tasks' # <<>>
        /\ \A j \in DOMAIN tasks : tasks'[j].uuid = tasks[j].uuid /\ tasks'[j].text = tasks[j].text
    BY <2>1, TaskMoved, Zenon
  <2>3. TasksFresh'
    BY <1>1, <2>2, TasksKept, Zenon
  <2>4. IndicatorOff'
    BY <2>2, ShownNext, Zenon
  <2>5. CASE StartTask(i) \/ StoreLayout(i)
    <3>1. UNCHANGED <<events, sent>>
      BY <2>5, Zenon DEF StartTask, StoreLayout
    <3>2. ViewFresh'
      BY <1>1, <1>2, <3>1, PostedOne, ViewKept, Zenon
    <3>3. LayoutsFresh'
      <4>1. CASE StartTask(i)
        BY <1>1, <4>1, LayoutsKept, Zenon DEF StartTask, coreVars
      <4>2. CASE StoreLayout(i)
        <5>1. layouts' = Put(layouts, tasks[i].uuid, tasks[i].text)
          BY <4>2, Zenon DEF StoreLayout
        <5>2. \A u : Text(u)' = Text(u)
          BY <1>1, TextKept, Zenon
        <5>3. \A u \in DOMAIN layouts' : u \notin raced => layouts'[u] = Text(u)
          BY <5>1, Zenon DEF Put, LayoutsFresh, TasksFresh
        <5> QED BY <1>1, <5>2, <5>3, Zenon DEF LayoutsFresh
      <4> QED BY <2>5, <4>1, <4>2, Zenon
    <3> QED BY <1>2, <2>3, <2>4, <3>2, <3>3, Zenon
  <2>6. CASE SendEdges(i)
    <3>1. UNCHANGED <<layouts, sent>> /\ events' = Append(events, EdgesEvent(tasks[i].uuid))
      BY <2>6, Zenon DEF SendEdges, coreVars
    <3>2. EdgesEvent(tasks[i].uuid) \in Event(Uuid) /\ EdgesEvent(tasks[i].uuid).to = "insertEdges"
      BY <1>3, Events, Zenon DEF EdgesEvent
    <3>3. ViewFresh'
      BY <1>1, <1>2, <3>1, <3>2, PostedOne, ViewKept, Zenon
    <3>4. LayoutsFresh'
      BY <1>1, <3>1, LayoutsKept, Zenon
    <3> QED BY <1>2, <2>3, <2>4, <3>3, <3>4, Zenon
  <2>7. CASE SendNodes(i)
    <3> DEFINE e == NodeEvent(tasks[i].uuid, tasks[i].text)
    <3>1. /\ UNCHANGED layouts /\ events' = Append(events, e)
          /\ sent' = (sent \/ tasks[i].uuid = gui.uuid)
      BY <2>7, Zenon DEF SendNodes, coreVars
    <3>2. e \in Event(Uuid) /\ e.to = "insertNode" /\ e.uuid = tasks[i].uuid /\ e.text = tasks[i].text
      BY <1>3, Events, Zenon DEF NodeEvent
    <3>3. LayoutsFresh'
      BY <1>1, <3>1, LayoutsKept, Zenon
    <3>4. ViewFresh'
      <4> HIDE DEF e
      <4> DEFINE u == gui.uuid
                 text == Render(functions, comments, values, gui.uuid)
      <4> SUFFICES ASSUME u # None, u \notin raced, sent'
                   PROVE  Views(events', u, gui.nodes, text)
        BY <1>1, ShownNext, Zenon
      <4>1. events \in Seq(Event(Uuid)) /\ events' = events \o <<e>> /\ <<e>> \in Seq(Event(Uuid))
            /\ DOMAIN <<e>> = {1} /\ <<e>>[1] = e
        BY <3>1, <3>2, PostedOne, EventsTyped, Zenon
      <4>2. CASE tasks[i].uuid = u
        <5>1. e.text = text
          BY <3>2, <4>2, Zenon DEF TasksFresh, Text
        <5>2. e \in NodesOf(u) /\ e \in Saying(text)
          BY <3>2, <4>2, <5>1, Zenon DEF NodesOf, Saying
        <5> HIDE DEF Event, text, u
        <5> QED BY <3>2, <4>1, <5>2, FollowsOne, Zenon DEF Views
      <4>3. CASE tasks[i].uuid # u
        <5>1. sent
          BY <3>1, <4>3, Zenon
        <5>2. Views(events, u, gui.nodes, text)
          BY <5>1, Shown, Zenon
        <5>3. e \notin NodesOf(u)
          BY <3>2, <4>3, Zenon DEF NodesOf
        <5> HIDE DEF Event, text, u
        <5> QED BY <4>1, <5>2, <5>3, FollowsMore, Zenon DEF Views
      <4> QED BY <4>2, <4>3, Zenon
    <3> QED BY <1>2, <2>3, <2>4, <3>3, <3>4, Zenon
  <2> QED BY <1>4, <2>5, <2>6, <2>7, Zenon
<1>5. CASE EndTask(i)
  <2> DEFINE e == LayoutEvent(None)
  <2>1. /\ UNCHANGED <<layouts, sent>> /\ events' = Append(events, e)
        /\ tasks' = [j \in DOMAIN tasks \ {i} |-> tasks[j]]
    BY <1>5, Zenon DEF EndTask, coreVars
  <2>2. e \in Event(Uuid) /\ e.to = "layoutTask" /\ e.uuid = None
    BY Zenon DEF LayoutEvent, Event
  <2>3. TasksFresh'
    BY <1>1, <2>1, TasksKept, Zenon
  <2>4. LayoutsFresh'
    BY <1>1, <2>1, LayoutsKept, Zenon
  <2> HIDE DEF e
  <2>5. ViewFresh'
    BY <1>1, <1>2, <2>1, <2>2, PostedOne, ViewKept, Zenon
  <2>6. IndicatorOff'
    <3>1. events \in Seq(Event(Uuid)) /\ events' = events \o <<e>> /\ <<e>> \in Seq(Event(Uuid))
          /\ DOMAIN <<e>> = {1} /\ <<e>>[1] = e
      BY <2>1, <2>2, PostedOne, EventsTyped, Zenon
    <3>2. e \in Lamps /\ e \in LampsOff
      BY <2>2, Zenon DEF Lamps, LampsOff
    <3> HIDE DEF Event
    <3>3. Lamp(events', gui'.layoutTask)
      BY <2>2, <3>1, <3>2, FollowsOne, Zenon DEF Lamp
    <3> QED BY <3>3, ShownNext, Zenon
  <2> QED BY <1>2, <2>3, <2>4, <2>5, <2>6, Zenon
<1> QED BY <1>4, <1>5, Zenon DEF RunTask

(* Delivering an event: the last node posted for the function shown is     *)
(* the one that stays, and so is the last update of the indicator.         *)
LEMMA FreshDeliver ==
  ASSUME TypeOK, TypeOK', LayoutInv, Deliver
  PROVE  LayoutInv'
<1> USE DEF LayoutInv
<1>1. UNCHANGED <<functions, by_entry, unresolved_calls, resolved_calls, opened, arriving, comments, values,
                  undo_stack, subscribed, layouts, tasks, sent, raced>>
  BY Zenon DEF Deliver, tableVars, coreVars, taskVars
<1>2. /\ Len(events) \in Nat \ {0} /\ DOMAIN events = 1..Len(events)
      /\ events[1] \in Event(Known) /\ gui' = Delivered(events[1])
      /\ DOMAIN events' = 1..(Len(events) - 1)
      /\ \A i \in 1..(Len(events) - 1) : events'[i] = events[i + 1]
  BY Delivery, Zenon
<1> DEFINE e == events[1]
<1>3. e \in Event(Uuid)
  <2>1. events \in Seq(Event(Uuid))
    BY EventsTyped, Zenon
  <2> HIDE DEF Event
  <2> QED BY <1>2, <2>1, SMTT(60)
<1>4. /\ gui'.uuid = gui.uuid
      /\ gui'.nodes = IF e.to = "insertNode" /\ e.uuid = gui.uuid THEN e.text ELSE gui.nodes
      /\ gui'.layoutTask = IF e.to = "layoutTask" THEN e.uuid ELSE gui.layoutTask
  BY <1>2, DeliveredFields, Zenon
<1>5. Bookkeeping'
  BY <1>1, <1>4, BooksKept, Zenon
<1>6. LayoutsFresh' /\ TasksFresh'
  BY <1>1, LayoutsKept, TasksKept, Zenon
<1>7. ViewFresh'
  <2> DEFINE u == gui.uuid
             text == Render(functions, comments, values, gui.uuid)
  <2> SUFFICES ASSUME u # None, u \notin raced, sent
               PROVE  Views(events', u, gui'.nodes, text)
    BY <1>1, <1>4, ShownNext, Zenon
  <2>1. Views(events, u, gui.nodes, text)
    BY Shown, Zenon
  <2>2. e \in NodesOf(u) /\ e \in Saying(text) => gui'.nodes \in {None, text}
    BY <1>4, Zenon DEF NodesOf, Saying
  <2>3. e \notin NodesOf(u) => gui'.nodes = gui.nodes
    BY <1>3, <1>4, Zenon DEF NodesOf
  <2> HIDE DEF text, u
  <2> QED BY <1>2, <2>1, <2>2, <2>3, FollowsDelivery, Zenon DEF Views
<1>8. IndicatorOff'
  <2> SUFFICES ASSUME tasks = <<>>
               PROVE  Lamp(events', gui'.layoutTask)
    BY <1>1, ShownNext, Zenon
  <2>1. Lamp(events, gui.layoutTask)
    BY Shown, Zenon
  <2>2. e \in Lamps /\ e \in LampsOff => gui'.layoutTask \in {None}
    BY <1>4, Zenon DEF Lamps, LampsOff
  <2>3. e \notin Lamps => gui'.layoutTask = gui.layoutTask
    BY <1>3, <1>4, Zenon DEF Lamps
  <2> QED BY <1>2, <2>1, <2>2, <2>3, FollowsDelivery, Zenon DEF Lamp
<1> QED BY <1>5, <1>6, <1>7, <1>8, Zenon

(* Selecting a function or a preview: the new task gets the text there is. *)
LEMMA FreshSelect ==
  ASSUME TypeOK, TypeOK', LayoutInv, NEW u \in Known, Select(u) \/ RequestPreview(u)
  PROVE  LayoutInv'
<1> USE DEF LayoutInv
<1>1. /\ UNCHANGED <<functions, by_entry, unresolved_calls, resolved_calls, opened, arriving, comments, values,
                     undo_stack, layouts, raced>>
      /\ \E edges : GetFunction(u, edges)
  BY Zenon DEF Select, RequestPreview, tableVars, coreVars
<1>2. PICK edges : GetFunction(u, edges)
  BY <1>1, Zenon
<1> DEFINE task == [uuid |-> u, cached |-> u \in DOMAIN layouts,
                    text |-> IF u \in DOMAIN layouts THEN layouts[u] ELSE Text(u),
                    edges |-> edges, at |-> "queued"]
<1>3. /\ tasks' = [i \in {j \in DOMAIN tasks : tasks[j].at # "queued"} \cup {acts + 1} |->
                     IF i = acts + 1 THEN task ELSE tasks[i]]
      /\ events' = Append(events, LayoutEvent(u))
  BY <1>2, Zenon DEF GetFunction
<1>4. LayoutsFresh'
  BY <1>1, LayoutsKept, Zenon
<1>5. TasksFresh'
  <2>1. task.uuid = u /\ (u \notin raced => task.text = Text(u))
    BY Zenon DEF LayoutsFresh
  <2> HIDE DEF task
  <2>2. \A i \in DOMAIN tasks' : tasks'[i] = task \/ (i \in DOMAIN tasks /\ tasks'[i] = tasks[i])
    BY <1>3, Zenon
  <2> SUFFICES ASSUME NEW i \in DOMAIN tasks', tasks'[i].uuid \notin raced
               PROVE  tasks'[i].text = Render(functions, comments, values, tasks'[i].uuid)
    BY <1>1, Zenon DEF TasksFresh, Text
  <2>3. tasks'[i].text = Text(tasks'[i].uuid)
    BY <2>1, <2>2, Zenon DEF TasksFresh
  <2> QED BY <2>3, Zenon DEF Text
<1>6. IndicatorOff'
  <2>1. acts + 1 \in DOMAIN tasks'
    BY <1>3, Zenon
  <2>2. tasks' # <<>>
    BY <2>1, SMTT(60)
  <2> QED BY <2>2, ShownNext, Zenon
<1>7. LayoutEvent(u) \in Event(Uuid) /\ LayoutEvent(u).to = "layoutTask" /\ u # None
  BY EventsTyped, Events, Zenon DEF LayoutEvent
<1>8. gui \in Gui
  BY Parts, Zenon DEF TypeGui
<1>9. CASE Select(u)
  <2>1. /\ subscribed' = (subscribed \ {gui.uuid}) \cup {u} /\ sent' = FALSE
        /\ gui' = [gui EXCEPT !.uuid = u, !.nodes = None, !.edges = FALSE]
    BY <1>9, Zenon DEF Select
  <2>2. gui'.uuid = u
    BY <1>8, <2>1, Zenon DEF Gui
  <2>3. ViewFresh'
    BY <2>1, ShownNext, Zenon
  <2>4. subscribed' = {gui'.uuid} \ {None}
    BY <1>7, <2>1, <2>2, Zenon DEF Bookkeeping
  <2>5. opened' # "project" => CallsBooked'
    <3> HAVE opened' # "project"
    <3>1. CallsBooked /\ Known' = Known
      BY <1>1, Zenon DEF Bookkeeping, Known
    <3> QED BY <1>1, <3>1, BookedAnyway, Zenon
  <2>6. Bookkeeping'
    BY <1>1, <2>4, <2>5, Zenon DEF Bookkeeping
  <2> QED BY <1>4, <1>5, <1>6, <2>3, <2>6, Zenon
<1>10. CASE RequestPreview(u)
  <2>1. UNCHANGED <<subscribed, sent>> /\ gui' = [gui EXCEPT !.preview = u, !.previewNode = None]
    BY <1>10, Zenon DEF RequestPreview
  <2>2. gui'.uuid = gui.uuid /\ gui'.nodes = gui.nodes
    BY <1>8, <2>1, Zenon DEF Gui
  <2>3. Bookkeeping'
    BY <1>1, <2>1, <2>2, BooksKept, Zenon
  <2>4. ViewFresh'
    BY <1>1, <1>3, <1>7, <2>1, <2>2, PostedOne, ViewKept, Zenon
  <2> QED BY <1>4, <1>5, <1>6, <2>3, <2>4, Zenon
<1> QED BY <1>9, <1>10, Zenon

(* Opening a binary or a project: nothing is drawn yet. *)
LEMMA FreshOpen ==
  ASSUME TypeOK, TypeOK', LayoutInv, OpenBinary \/ OpenProject
  PROVE  LayoutInv'
<1> USE DEF LayoutInv
<1>1. UNCHANGED <<by_entry, unresolved_calls, resolved_calls, comments, values, undo_stack, layouts, subscribed,
                  tasks, gui, raced, sent>>
  BY Zenon DEF OpenBinary, OpenProject, tableVars, coreVars, taskVars
<1>2. Known = {} /\ arriving = {}
  BY Parts, Zenon DEF OpenBinary, OpenProject, TypeTables
<1>3. DOMAIN layouts = {} /\ DOMAIN tasks = {} /\ gui.uuid = None
  BY <1>2, Parts, TaskFields, GuiFields, Zenon DEF TypeLayouts
<1>4. LayoutsFresh' /\ TasksFresh'
  BY <1>1, <1>3, Zenon DEF LayoutsFresh, TasksFresh
<1>5. ViewFresh'
  BY <1>1, <1>3, ShownNext, Zenon
<1>6. \E t \in Seq(Event(Uuid)) : (\A i \in DOMAIN t : t[i].to # "layoutTask") /\ events' = events \o t
  <2>1. CASE OpenBinary
    BY <2>1, PostedOne, Zenon DEF OpenBinary
  <2>2. CASE OpenProject
    <3> DEFINE T == {SidebarEvent(v, Func[v].name) : v \in Uuid}
    <3>1. PICK t \in Listings(T) : events' = events \o t
      BY <2>2, Zenon DEF OpenProject
    <3>2. \A x \in T : x \in Event(Uuid) /\ x.to = "sidebar"
      <4>1. \A v \in Uuid : Func[v].name \in Names
        BY Zenon DEF Names
      <4>2. \A v \in Uuid : SidebarEvent(v, Func[v].name) \in Event(Uuid)
        BY <4>1, Events, Zenon
      <4>3. \A v \in Uuid : SidebarEvent(v, Func[v].name).to = "sidebar"
        BY Zenon DEF SidebarEvent
      <4> HIDE DEF Event
      <4> QED BY <4>2, <4>3, Zenon
    <3> HIDE DEF T, Event
    <3>3. t \in Seq(T) /\ T \subseteq Event(Uuid)
      BY <3>2, Listed, Zenon
    <3>4. t \in Seq(Event(Uuid)) /\ \A i \in DOMAIN t : t[i] \in T
      BY <3>3, SeqMonotonic, SMTT(60)
    <3> QED BY <3>1, <3>2, <3>4, Zenon
  <2> QED BY <2>1, <2>2, Zenon
<1>7. IndicatorOff'
  BY <1>1, <1>6, LampKept, Zenon
<1>8. Bookkeeping'
  <2>1. CASE OpenBinary
    <3>1. opened = "no" /\ opened' = "binary" /\ UNCHANGED functions
      BY <2>1, Zenon DEF OpenBinary, tableVars
    <3>2. CallsBooked /\ Known' = Known
      BY <3>1, Zenon DEF Bookkeeping, Known
    <3>3. CallsBooked'
      BY <1>1, <3>1, <3>2, BookedAnyway, Zenon
    <3> QED BY <1>1, <3>1, <3>3, Zenon DEF Bookkeeping
  <2>2. CASE OpenProject
    <3>1. opened' = "project" /\ UNCHANGED arriving
      BY <2>2, Zenon DEF OpenProject
    <3> QED BY <1>1, <1>2, <3>1, Zenon DEF Bookkeeping
  <2> QED BY <2>1, <2>2, Zenon
<1> QED BY <1>4, <1>5, <1>7, <1>8, Zenon

(* Posting a function to the sidebar draws nothing. *)
LEMMA FreshPost ==
  ASSUME TypeOK, TypeOK', LayoutInv, PostFunction
  PROVE  LayoutInv'
<1> USE DEF LayoutInv
<1>1. /\ UNCHANGED <<functions, by_entry, unresolved_calls, resolved_calls, opened, arriving, comments, values,
                     undo_stack, layouts, subscribed, tasks, gui, raced, sent>>
      /\ events' = Append(events, SidebarEvent(posting, Func[posting].name)) /\ posting # None
  BY Zenon DEF PostFunction, tableVars, coreVars, taskVars
<1> DEFINE e == SidebarEvent(posting, Func[posting].name)
<1>2. e \in Event(Uuid) /\ e.to = "sidebar"
  <2>1. posting \in Uuid /\ Func[posting].name \in Names
    BY <1>1, Parts, Zenon DEF TypeTables, Renamed, Known, Names
  <2> QED BY <2>1, Events, Zenon DEF SidebarEvent
<1> HIDE DEF e
<1>3. LayoutsFresh' /\ TasksFresh' /\ Bookkeeping'
  BY <1>1, LayoutsKept, TasksKept, BooksKept, Zenon
<1>4. /\ events' = events \o <<e>> /\ <<e>> \in Seq(Event(Uuid)) /\ \A i \in DOMAIN <<e>> : <<e>>[i] = e
  BY <1>1, <1>2, PostedOne, Zenon DEF e
<1>5. ViewFresh'
  BY <1>1, <1>2, <1>4, ViewKept, Zenon
<1>6. IndicatorOff'
  BY <1>1, <1>2, <1>4, LampKept, Zenon
<1> QED BY <1>3, <1>5, <1>6, Zenon

(* A text is the same when the lines, the value and the names are.         *)
LEMMA RenderSame ==
  ASSUME NEW fs, NEW gs, NEW cm, NEW dm, NEW vs, NEW ws, NEW u,
         gs[u].lines = fs[u].lines, gs[u].calls = fs[u].calls,
         \A l \in fs[u].lines : dm[l] = cm[l], ws[u] = vs[u],
         \A a \in fs[u].calls : \A v :
           /\ (v \in DOMAIN gs /\ gs[v].start = ConstAddr[a]) <=> (v \in DOMAIN fs /\ fs[v].start = ConstAddr[a])
           /\ v \in DOMAIN fs /\ fs[v].start = ConstAddr[a] => gs[v].name = fs[v].name
  PROVE  Render(gs, dm, ws, u) = Render(fs, cm, vs, u)
<1> DEFINE callees(h, a) == {<<v, h[v].name>> : v \in {w \in DOMAIN h : h[w].start = ConstAddr[a]}}
<1>1. \A a \in fs[u].calls : callees(gs, a) = callees(fs, a)
  <2> TAKE a \in fs[u].calls
  <2> DEFINE V == {w \in DOMAIN fs : fs[w].start = ConstAddr[a]}
  <2>1. {w \in DOMAIN gs : gs[w].start = ConstAddr[a]} = V
    BY Zenon
  <2>2. \A v \in V : <<v, gs[v].name>> = <<v, fs[v].name>>
    BY Zenon
  <2> HIDE DEF V
  <2>3. {<<v, gs[v].name>> : v \in V} = {<<v, fs[v].name>> : v \in V}
    BY <2>2, SMTT(60)
  <2> QED BY <2>1, <2>3, Zenon DEF V
<1>2. [a \in gs[u].calls |-> callees(gs, a)] = [a \in fs[u].calls |-> callees(fs, a)]
  <2> HIDE DEF callees
  <2> QED BY <1>1, Zenon
<1>3. [l \in gs[u].lines |-> dm[l]] = [l \in fs[u].lines |-> cm[l]]
  BY Zenon
<1> QED BY <1>2, <1>3, Zenon DEF Render

(* A function starts where the disassembler found it. *)
LEMMA Starts ==
  ASSUME TypeOK, NEW u \in Known
  PROVE  /\ u \in Uuid /\ functions[u].start = Func[u].start /\ functions[u].start \in Addr
         /\ functions[u].start # NoAddr
         /\ \A v \in Known : functions[v].start = functions[u].start => v = u
<1>1. \A v \in Known : v \in Uuid /\ functions[v].start = Func[v].start
  BY Parts, SessionAssumption, SMTT(60) DEF TypeTables, Renamed, Known
<1> QED BY <1>1, SessionAssumption, AddrAssumption, SMTT(60)

(***************************************************************************)
(* A function arrives: whoever calls it waits in unresolved_calls, so      *)
(* new_function refreshes every graph that shows its name from now on.     *)
(***************************************************************************)
LEMMA FreshArrive ==
  ASSUME TypeOK, TypeOK', LayoutInv, NEW u \in arriving, Arrive(u)
  PROVE  LayoutInv'
<1> USE DEF LayoutInv
<1> DEFINE S == Refreshed(u, Func[u])
<1>1. /\ NewFunction(u, Func[u])
      /\ layouts' = RefreshedLayouts(S, functions', comments, values)
      /\ UNCHANGED <<opened, comments, values, undo_stack, subscribed, tasks, gui, sent>>
      /\ arriving' = arriving \ {u} /\ NoteRace({})
  BY Zenon DEF Arrive, taskVars
<1>2. PICK nodes \in Listings(NodeEvents(S, functions', comments, values)) : events' = events \o nodes
  BY Zenon DEF Arrive
<1>3. u \in Uuid \ Known /\ opened # "project"
  BY Parts, Zenon DEF TypeTables, Bookkeeping
<1>4. CallsBooked /\ functions' = Put(functions, u, Func[u])
  BY <1>1, <1>3, Zenon DEF Bookkeeping, NewFunction
<1>5. Func[u].start \in Addr /\ Func[u].start # NoAddr /\ Func[u].calls \subseteq Rvalue
  BY <1>3, SessionAssumption, AddrAssumption, SMTT(60)
<1>6. CallsBooked'
  BY <1>1, <1>3, <1>4, <1>5, Starts, Booking, Zenon
<1>7. StartsAt(Func[u].start) = {}
  BY <1>3, Starts, SessionAssumption, SMTT(60) DEF StartsAt
<1>8. \A v \in Known : Text(v)' # Text(v) => v \in S
  <2> SUFFICES ASSUME NEW v \in Known, v \notin S
               PROVE  Render(functions', comments, values, v) = Render(functions, comments, values, v)
    BY <1>1, Zenon DEF Text
  <2>1. DOMAIN functions' = Known \cup {u} /\ functions'[u] = Func[u]
    BY <1>4, Zenon DEF Put, Known
  <2>2. \A w \in Known : functions'[w] = functions[w]
    BY <1>3, <1>4, Zenon DEF Put, Known
  <2>3. \A a \in functions[v].calls : ConstAddr[a] # Func[u].start
    BY <1>4, <1>5, <1>7, WaitersRefreshed, Zenon
  <2>4. \A a \in functions[v].calls : \A w :
          /\ (w \in DOMAIN functions' /\ functions'[w].start = ConstAddr[a])
               <=> (w \in DOMAIN functions /\ functions[w].start = ConstAddr[a])
          /\ w \in DOMAIN functions /\ functions[w].start = ConstAddr[a] => functions'[w].name = functions[w].name
    BY <1>3, <2>1, <2>2, <2>3, Zenon DEF Known
  <2> QED BY <2>2, <2>4, RenderSame, SMTT(60)
<1>9. Known \subseteq Known'
  BY <1>4, Zenon DEF Put, Known
<1> HIDE DEF S
<1>10. events' = events \o nodes \o <<>> /\ <<>> \in Seq(Event(Uuid))
       /\ nodes \in Seq(Event(Uuid)) /\ \A i \in DOMAIN nodes : nodes[i].to = "insertNode"
  <2>1. Renamed(functions') /\ subscribed \subseteq DOMAIN functions' /\ DOMAIN functions' \subseteq Uuid
        /\ comments \in [Line -> Comment \cup {None}] /\ values \in [Uuid -> Value \cup {None}]
    BY <1>1, PartsNext, EventsTyped, Zenon DEF TypeTables, TypeLayouts, TypeEdits, Known
  <2>2. nodes \in Seq(Event(DOMAIN functions')) /\ \A i \in DOMAIN nodes : nodes[i].to = "insertNode"
    BY <2>1, NodesPosted, SMTT(60)
  <2>3. nodes \in Seq(Event(Uuid)) /\ events \in Seq(Event(Uuid))
    BY <2>1, <2>2, MoreEvents, EventsTyped, Zenon
  <2> HIDE DEF Event
  <2>4. (events \o nodes) \o <<>> = events \o nodes
    BY <2>3, ConcatProperties, ConcatEmptySeq, Zenon
  <2> QED BY <1>2, <2>2, <2>3, <2>4, SMTT(60)
<1>11. subscribed = {gui.uuid} \ {None}
  BY Zenon DEF Bookkeeping
<1>12. LayoutsFresh' /\ TasksFresh' /\ ViewFresh'
  <2>1. nodes \in Listings(NodeEvents(S, functions', comments', values'))
        /\ layouts' = RefreshedLayouts(S, functions', comments', values')
    BY <1>1, <1>2, Zenon
  <2>2. \A i \in DOMAIN <<>> : <<>>[i].to # "insertNode"
    BY SMTT(60)
  <2> HIDE DEF Event
  <2> QED BY <1>1, <1>8, <1>9, <1>10, <1>11, <2>1, <2>2, FreshRefresh, Zenon
<1>13. IndicatorOff'
  BY <1>1, <1>2, <1>10, LampKept, Zenon
<1>14. Bookkeeping'
  BY <1>1, <1>3, <1>6, Zenon DEF Bookkeeping
<1> QED BY <1>12, <1>13, <1>14, Zenon

(***************************************************************************)
(* An edit or its undoing: a value changes the text of its function only,  *)
(* and resolved_calls leads from a function to every graph that shows its  *)
(* name.  Comments on shared lines and renames in a project are excused.   *)
(***************************************************************************)
LEMMA FreshPerform ==
  ASSUME TypeOK, TypeOK', LayoutInv, NEW act \in Edit, act.key \in KeysOf(act.kind),
         act.kind = "value" => act.key = act.function,
         NEW val \in DataOf(act.kind), NEW flags \in Flags, Perform(act, val, flags)
  PROVE  /\ LayoutsFresh' /\ TasksFresh' /\ ViewFresh' /\ IndicatorOff'
         /\ opened' # "project" => CallsBooked'
<1> USE DEF LayoutInv
<1> DEFINE S == IF act.kind = "rename" THEN Callers(act.key) ELSE {act.function}
           excused == {u \in Known : \/ act.kind = "comment" /\ u # act.function
                                     \/ act.kind = "rename" /\ opened = "project"}
<1>1. /\ functions' = IF act.kind = "rename" THEN [functions EXCEPT ![act.key].name = val] ELSE functions
      /\ comments' = IF act.kind = "comment" THEN [comments EXCEPT ![act.key] = val] ELSE comments
      /\ values' = IF act.kind = "value" THEN [values EXCEPT ![act.key] = val] ELSE values
      /\ layouts' = RefreshedLayouts(S, functions', comments', values')
      /\ UNCHANGED <<by_entry, unresolved_calls, resolved_calls, opened, tasks, gui, sent>>
  BY Zenon DEF Perform, taskVars
<1>2. NoteRace(excused)
  BY Zenon DEF Perform
<1>3. PICK nodes \in Listings(NodeEvents(S, functions', comments', values')) :
        events' = events \o nodes \o Titles(act, val) \o <<flags>>
  BY Zenon DEF Perform
<1>4. act.kind \in {"comment", "rename", "value"} /\ Known' = Known
  BY EditFields, Changed, Zenon
<1>5. \A u \in Known : /\ functions'[u].start = functions[u].start /\ functions'[u].calls = functions[u].calls
                       /\ functions'[u].lines = functions[u].lines
                       /\ (act.kind = "rename" => act.key # u) => functions'[u].name = functions[u].name
  <2> SUFFICES ASSUME NEW u \in Known
               PROVE  /\ functions'[u].start = functions[u].start /\ functions'[u].calls = functions[u].calls
                      /\ functions'[u].lines = functions[u].lines
                      /\ (act.kind = "rename" => act.key # u) => functions'[u].name = functions[u].name
    BY Zenon
  <2>1. CASE act.kind = "rename" /\ act.key = u
    <3>1. PICK n \in Names : functions[u] = [Func[u] EXCEPT !.name = n]
      BY Parts, Zenon DEF TypeTables, Renamed, Known
    <3>2. functions'[u] = [functions[u] EXCEPT !.name = val] /\ u \in Uuid
      BY <1>1, <2>1, Parts, Zenon DEF Known, TypeTables, Renamed
    <3> QED BY <2>1, <3>1, <3>2, SessionAssumption, SMTT(60)
  <2>2. CASE ~(act.kind = "rename" /\ act.key = u)
    BY <1>1, <2>2, Zenon DEF Known
  <2> QED BY <2>1, <2>2, Zenon
<1>6. \A u \in Known : Text(u)' # Text(u) => u \in S \/ u \in excused
  <2> SUFFICES ASSUME NEW u \in Known, u \notin S, u \notin excused
               PROVE  Render(functions', comments', values', u) = Render(functions, comments, values, u)
    BY Zenon DEF Text
  <2>1. u \in Uuid /\ DOMAIN functions' = DOMAIN functions
    BY <1>4, Starts, Zenon DEF Known
  <2>2. CASE act.kind = "comment"
    BY <2>2, Zenon
  <2>3. CASE act.kind = "value"
    <3>1. functions' = functions /\ comments' = comments /\ u # act.key
      BY <1>1, <2>3, Zenon
    <3>2. values'[u] = values[u]
      BY <1>1, <2>1, <2>3, <3>1, Changed, SMTT(60)
    <3> QED BY <3>1, <3>2, RenderSame, SMTT(60)
  <2>4. CASE act.kind = "rename"
    <3>1. comments' = comments /\ values' = values /\ opened # "project" /\ act.key \in Known
      BY <1>1, <2>4, Zenon DEF KeysOf
    <3>2. CallsBooked
      BY <3>1, Zenon DEF Bookkeeping
    <3>3. \A a \in functions[u].calls : ConstAddr[a] # functions[act.key].start
      <4> SUFFICES ASSUME NEW a \in functions[u].calls, ConstAddr[a] = functions[act.key].start
                   PROVE  FALSE
        BY Zenon
      <4>1. <<act.key, <<u, a>>>> \in resolved_calls
        BY <3>1, <3>2, Starts, CallersFound, Zenon
      <4>2. u \in Callers(act.key)
        BY <4>1, SMTT(60) DEF Callers
      <4> QED BY <2>4, <4>2, Zenon
    <3>4. \A a \in functions[u].calls : \A w :
            /\ (w \in DOMAIN functions' /\ functions'[w].start = ConstAddr[a])
                 <=> (w \in DOMAIN functions /\ functions[w].start = ConstAddr[a])
            /\ w \in DOMAIN functions /\ functions[w].start = ConstAddr[a] => functions'[w].name = functions[w].name
      BY <1>5, <2>1, <3>3, Zenon DEF Known
    <3> QED BY <1>5, <3>1, <3>4, RenderSame, SMTT(60)
  <2> QED BY <1>4, <2>2, <2>3, <2>4, Zenon
<1> HIDE DEF S, excused
<1> DEFINE rest == Titles(act, val) \o <<flags>>
<1>7. /\ events' = (events \o nodes) \o rest /\ rest \in Seq(Event(Uuid)) /\ nodes \in Seq(Event(Uuid))
      /\ \A i \in DOMAIN nodes : nodes[i].to = "insertNode"
      /\ \A i \in DOMAIN rest : rest[i].to \in {"sidebar", "undoRedo"}
  <2>1. Renamed(functions') /\ subscribed \subseteq DOMAIN functions' /\ DOMAIN functions' \subseteq Uuid
        /\ comments' \in [Line -> Comment \cup {None}] /\ values' \in [Uuid -> Value \cup {None}]
    BY <1>4, Parts, PartsNext, EventsTyped, Zenon DEF TypeTables, TypeLayouts, TypeEdits, Known
  <2>2. nodes \in Seq(Event(DOMAIN functions')) /\ \A i \in DOMAIN nodes : nodes[i].to = "insertNode"
    BY <2>1, NodesPosted, SMTT(60)
  <2>3. nodes \in Seq(Event(Uuid)) /\ events \in Seq(Event(Uuid)) /\ Known \subseteq Uuid
    BY <2>1, <2>2, MoreEvents, EventsTyped, Zenon
  <2>4. Titles(act, val) \in Seq(Event(Uuid)) /\ \A i \in DOMAIN Titles(act, val) : Titles(act, val)[i].to = "sidebar"
    <3>1. CASE act.kind = "rename"
      <4>1. act.key \in Uuid /\ val \in Names
        BY <2>3, <3>1, Zenon DEF KeysOf, DataOf
      <4> DEFINE x == SidebarEvent(act.key, val)
      <4>2. x \in Event(Uuid) /\ x.to = "sidebar"
        BY <4>1, Events, Zenon DEF SidebarEvent
      <4> HIDE DEF x, Event
      <4>3. Titles(act, val) = <<x>>
        BY <3>1, Zenon DEF Titles, x
      <4> QED BY <4>2, <4>3, SMTT(60)
    <3>2. CASE act.kind # "rename"
      BY <3>2, SMTT(60) DEF Titles
    <3> QED BY <3>1, <3>2, Zenon
  <2>5. flags \in Event(Uuid) /\ flags.to = "undoRedo"
    BY Zenon DEF Flags, Event
  <2> HIDE DEF Event
  <2>6. <<flags>> \in Seq(Event(Uuid)) /\ DOMAIN <<flags>> = {1} /\ <<flags>>[1] = flags
    BY <2>5, SMTT(60)
  <2> DEFINE t == Titles(act, val)
             f == <<flags>>
  <2>7. /\ t \in Seq(Event(Uuid)) /\ f \in Seq(Event(Uuid)) /\ events' = events \o nodes \o t \o f
        /\ rest = t \o f
        /\ \A i \in DOMAIN t : t[i].to = "sidebar"
        /\ \A i \in DOMAIN f : f[i].to = "undoRedo"
    BY <1>3, <2>4, <2>5, <2>6, Zenon
  <2> HIDE DEF t, f, rest
  <2>8. events \o nodes \in Seq(Event(Uuid)) /\ rest \in Seq(Event(Uuid))
    BY <2>3, <2>7, ConcatProperties, Zenon
  <2>9. events' = (events \o nodes) \o rest
    <3> HIDE DEF t, f, rest
    <3> DEFINE E == Seq(Event(Uuid))
               front == events \o nodes
    <3>1. \A a, b, c \in E : (a \o b) \o c = a \o (b \o c)
      <4> TAKE a, b, c \in E
      <4> QED BY ConcatAssociative, SMTT(60)
    <3>2. front \in E /\ t \in E /\ f \in E /\ events' = (front \o t) \o f /\ rest = t \o f
      BY <2>7, <2>8, Zenon
    <3> HIDE DEF E, front
    <3>3. (front \o t) \o f = front \o (t \o f)
      BY <3>1, <3>2, Zenon
    <3>4. events' = front \o rest
      BY <3>2, <3>3, Zenon
    <3> QED BY <3>4, Zenon DEF front
  <2>10. \A i \in DOMAIN rest : rest[i].to \in {"sidebar", "undoRedo"}
    <3> TAKE i \in DOMAIN rest
    <3>1. /\ DOMAIN rest = 1..(Len(t) + Len(f)) /\ Len(t) \in Nat /\ Len(f) \in Nat
          /\ DOMAIN t = 1..Len(t) /\ DOMAIN f = 1..Len(f)
      BY <2>7, Appending, LenProperties, SMTT(60)
    <3>2. i \in DOMAIN t \/ (i - Len(t) \in DOMAIN f /\ Len(t) + (i - Len(t)) = i)
      BY <3>1, SMTT(60)
    <3>3. /\ \A j \in DOMAIN t : (t \o f)[j] = t[j]
          /\ \A j \in DOMAIN f : (t \o f)[Len(t) + j] = f[j]
      BY <2>7, Appending, SMTT(60)
    <3> QED BY <2>7, <3>2, <3>3, SMTT(60)
  <2> QED BY <2>2, <2>3, <2>8, <2>9, <2>10, Zenon
<1> HIDE DEF rest, Event
<1>8. subscribed = {gui.uuid} \ {None}
  BY Zenon DEF Bookkeeping
<1>9. LayoutsFresh' /\ TasksFresh' /\ ViewFresh'
  <2>1. \A i \in DOMAIN rest : rest[i].to # "insertNode"
    BY <1>7, Zenon
  <2>2. Known \subseteq Known'
    BY <1>4, Zenon
  <2> QED BY <1>1, <1>2, <1>6, <1>7, <1>8, <2>1, <2>2, FreshRefresh, Zenon
<1>10. IndicatorOff'
  <2>1. events \in Seq(Event(Uuid))
    BY EventsTyped, Zenon
  <2>2. nodes \o rest \in Seq(Event(Uuid)) /\ events' = events \o (nodes \o rest)
    BY <1>7, <2>1, ConcatProperties, ConcatAssociative, SMTT(60)
  <2>3. \A i \in DOMAIN (nodes \o rest) : (nodes \o rest)[i].to # "layoutTask"
    <3> TAKE i \in DOMAIN (nodes \o rest)
    <3>1. /\ DOMAIN (nodes \o rest) = 1..(Len(nodes) + Len(rest)) /\ Len(nodes) \in Nat /\ Len(rest) \in Nat
          /\ DOMAIN nodes = 1..Len(nodes) /\ DOMAIN rest = 1..Len(rest)
      BY <1>7, Appending, LenProperties, SMTT(60)
    <3>2. i \in DOMAIN nodes \/ (i - Len(nodes) \in DOMAIN rest /\ Len(nodes) + (i - Len(nodes)) = i)
      BY <3>1, SMTT(60)
    <3>3. /\ \A j \in DOMAIN nodes : (nodes \o rest)[j] = nodes[j]
          /\ \A j \in DOMAIN rest : (nodes \o rest)[Len(nodes) + j] = rest[j]
      BY <1>7, Appending, SMTT(60)
    <3> QED BY <1>7, <3>2, <3>3, Zenon
  <2> QED BY <1>1, <2>2, <2>3, LampKept, Zenon
<1>11. opened' # "project" => CallsBooked'
  BY <1>1, <1>4, <1>5, BookedAnyway, Zenon DEF Bookkeeping
<1> QED BY <1>9, <1>10, <1>11, Zenon

(* push_action: what it draws, and what undo finds later. *)
LEMMA FreshPush ==
  ASSUME TypeOK, TypeOK', LayoutInv, NEW act, EditOf(act), PushAction(act)
  PROVE  LayoutInv'
<1>1. /\ act \in Edit /\ act.key \in KeysOf(act.kind) /\ act.after \in DataOf(act.kind)
      /\ act.kind = "value" => act.key = act.function
  BY EditFields, Zenon DEF EditOf
<1>2. UndoEvent(TRUE, FALSE) \in Flags
  BY Zenon DEF UndoEvent, Flags
<1>3. Perform(act, act.after, UndoEvent(TRUE, FALSE))
  BY Zenon DEF PushAction
<1>4. /\ LayoutsFresh' /\ TasksFresh' /\ ViewFresh' /\ IndicatorOff'
      /\ opened' # "project" => CallsBooked'
  BY <1>1, <1>2, <1>3, FreshPerform, Zenon
<1>5. UNCHANGED <<opened, arriving, subscribed, gui>>
  BY <1>3, Zenon DEF Perform, taskVars
<1>6. \A i \in DOMAIN undo_stack' :
        undo_stack'[i].kind = "value" => undo_stack'[i].key = undo_stack'[i].function
  <2>1. undo_stack_top \in 0..Len(undo_stack) /\ DOMAIN undo_stack = 1..Len(undo_stack) /\ Len(undo_stack) \in Nat
    BY Parts, LenProperties, Zenon DEF TypeEdits
  <2>2. /\ DOMAIN undo_stack' = 1..(undo_stack_top + 1)
        /\ \A i \in 1..undo_stack_top : undo_stack'[i] = undo_stack[i]
        /\ undo_stack'[undo_stack_top + 1] = act
    BY <1>1, Pushed, Zenon DEF PushAction
  <2>3. \A i \in DOMAIN undo_stack' :
          undo_stack'[i] = act \/ \E j \in DOMAIN undo_stack : undo_stack'[i] = undo_stack[j]
    <3> TAKE i \in DOMAIN undo_stack'
    <3>1. i = undo_stack_top + 1 \/ (i \in 1..undo_stack_top /\ i \in DOMAIN undo_stack)
      BY <2>1, <2>2, SMTT(60)
    <3> QED BY <2>2, <3>1, Zenon
  <2> QED BY <1>1, <2>3, Zenon DEF LayoutInv, Bookkeeping
<1> QED BY <1>4, <1>5, <1>6, Zenon DEF LayoutInv, Bookkeeping

(* undo and redo: the edit on the stack knows the function it changes. *)
LEMMA FreshUndo ==
  ASSUME TypeOK, TypeOK', LayoutInv, Undo \/ Redo
  PROVE  LayoutInv'
<1>1. /\ undo_stack \in Seq(Edit) /\ undo_stack_top \in 0..Len(undo_stack)
      /\ DOMAIN undo_stack = 1..Len(undo_stack) /\ Len(undo_stack) \in Nat
      /\ \A i \in DOMAIN undo_stack : undo_stack[i].key \in KeysOf(undo_stack[i].kind)
  BY Parts, LenProperties, Zenon DEF TypeEdits
<1>2. \E i \in DOMAIN undo_stack, flags \in Flags :
        Perform(undo_stack[i], undo_stack[i].before, flags) \/ Perform(undo_stack[i], undo_stack[i].after, flags)
  <2>1. CASE Undo
    <3> DEFINE flags == UndoEvent(undo_stack_top - 1 # 0, TRUE)
    <3>1. flags \in Flags
      BY Zenon DEF UndoEvent, Flags
    <3> HIDE DEF flags
    <3>2. Perform(undo_stack[undo_stack_top], undo_stack[undo_stack_top].before, flags)
      BY <2>1, Zenon DEF Undo, flags
    <3>3. undo_stack_top \in DOMAIN undo_stack
      BY <1>1, <2>1, SMTT(60) DEF Undo
    <3> QED BY <3>1, <3>2, <3>3, Zenon
  <2>2. CASE Redo
    <3> DEFINE flags == UndoEvent(TRUE, undo_stack_top + 1 < Len(undo_stack))
    <3>1. flags \in Flags
      BY SMTT(60) DEF UndoEvent, Flags
    <3> HIDE DEF flags
    <3>2. Perform(undo_stack[undo_stack_top + 1], undo_stack[undo_stack_top + 1].after, flags)
      BY <2>2, Zenon DEF Redo, flags
    <3>3. undo_stack_top + 1 \in DOMAIN undo_stack
      BY <1>1, <2>2, SMTT(60) DEF Redo
    <3> QED BY <3>1, <3>2, <3>3, Zenon
  <2> QED BY <2>1, <2>2, Zenon
<1>3. PICK i \in DOMAIN undo_stack, flags \in Flags :
        Perform(undo_stack[i], undo_stack[i].before, flags) \/ Perform(undo_stack[i], undo_stack[i].after, flags)
  BY <1>2, Zenon
<1> DEFINE act == undo_stack[i]
<1>4. act \in Edit /\ act.key \in KeysOf(act.kind) /\ (act.kind = "value" => act.key = act.function)
  BY <1>1, SMTT(60) DEF LayoutInv, Bookkeeping
<1>5. act.before \in DataOf(act.kind) /\ act.after \in DataOf(act.kind)
  BY <1>4, EditFields, Zenon
<1> HIDE DEF act
<1>6. \E val \in DataOf(act.kind) : Perform(act, val, flags)
  BY <1>3, <1>5, Zenon DEF act
<1>7. /\ LayoutsFresh' /\ TasksFresh' /\ ViewFresh' /\ IndicatorOff'
      /\ opened' # "project" => CallsBooked'
  BY <1>4, <1>6, FreshPerform, Zenon
<1>8. UNCHANGED <<opened, arriving, subscribed, gui, undo_stack>>
  BY <1>6, Zenon DEF Perform, taskVars, Undo, Redo
<1> QED BY <1>7, <1>8, Zenon DEF LayoutInv, Bookkeeping

(* The edits of the user. *)
LEMMA FreshEdit ==
  ASSUME TypeOK, TypeOK', LayoutInv, CommentOn \/ RenameFunction \/ SetValueFor
  PROVE  LayoutInv'
<1>1. \E act : EditOf(act) /\ PushAction(act)
  BY CommentEdits, RenameEdits, ValueEdits, Zenon
<1> QED BY <1>1, FreshPush, Zenon

(* Every step keeps what is drawn fresh. *)
LEMMA FreshStep ==
  ASSUME TypeOK, TypeOK', LayoutInv, [Next]_vars
  PROVE  LayoutInv'
<1>1. CASE UNCHANGED vars
  <2>1. UNCHANGED <<functions, by_entry, unresolved_calls, resolved_calls, opened, arriving, comments, values,
                    undo_stack, layouts, subscribed, tasks, sent, events, gui, raced>>
    BY <1>1, Zenon DEF vars, tableVars, coreVars, taskVars
  <2>2. events' = events \o <<>> /\ <<>> \in Seq(Event(Uuid)) /\ DOMAIN <<>> = {}
    BY <2>1, PostedOne, Zenon
  <2>3. ViewFresh' /\ IndicatorOff'
    BY <2>1, <2>2, ViewKept, LampKept, Zenon DEF LayoutInv
  <2> QED BY <2>1, <2>3, LayoutsKept, TasksKept, BooksKept, Zenon DEF LayoutInv
<1> QED BY <1>1, FreshEdit, FreshUndo, FreshOpen, FreshSelect, FreshPost, FreshArrive, FreshTask, FreshDeliver, Zenon
        DEF Next, User, Disassembler

(* Nothing is drawn at first. *)
LEMMA FreshInit == Init => LayoutInv
<1> SUFFICES ASSUME Init PROVE LayoutInv
  BY Zenon
<1>1. CallsBooked
  BY SMTT(60) DEF Init, EmptyTable, CallsBooked, IndexRight, Known
<1>2. IndicatorOff
  <2>1. Posted("layoutTask") = {} /\ gui.layoutTask = None
    BY SMTT(60) DEF Init, Posted
  <2> QED BY <2>1, Zenon DEF IndicatorOff
<1>3. LayoutsFresh /\ TasksFresh /\ ViewFresh
  BY SMTT(60) DEF Init, LayoutsFresh, TasksFresh, ViewFresh
<1>4. Bookkeeping
  BY <1>1, SMTT(60) DEF Init, Bookkeeping
<1> QED BY <1>1, <1>2, <1>3, <1>4, Zenon DEF LayoutInv
=============================================================================
