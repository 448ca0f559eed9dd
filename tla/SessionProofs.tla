---------------------------- MODULE SessionProofs ----------------------------
(***************************************************************************)
(* Proofs about a session of the graphical interface, for any number of    *)
(* functions, edits and events on their way.                               *)
(***************************************************************************)
EXTENDS SessionLayoutProofs

(* The state before anything is opened is typed. *)
LEMMA TypeInit == Init => TypeOK
<1> SUFFICES ASSUME Init PROVE TypeOK
  BY Zenon
<1>1. TypeTables
  BY SMTT(60) DEF Init, EmptyTable, TypeTables, Renamed, Known
<1>2. TypeEdits
  BY SMTT(60) DEF Init, TypeEdits
<1>3. TypeLayouts /\ raced \subseteq Known /\ sent \in BOOLEAN
  <2>1. TypeLayouts /\ raced \subseteq Known
    BY SMTT(60) DEF Init, TypeLayouts
  <2>2. sent \in BOOLEAN
    BY Zenon DEF Init
  <2> QED BY <2>1, <2>2, Zenon
<1>4. TypeTasks
  BY SessionAssumption, SMTT(60) DEF Init, TypeTasks
<1>5. TypeGui
  <2>1. <<>> \in [{} -> Names] /\ {} \in SUBSET Known
    BY SMTT(60)
  <2>2. gui.sidebar \in UNION {[S -> Names] : S \in SUBSET Known}
    BY <2>1, Zenon DEF Init
  <2> QED BY <2>2, Zenon DEF Init, TypeGui, Gui
<1>6. events \in Seq(Event(Known))
  BY SMTT(60) DEF Init
<1> QED BY <1>1, <1>2, <1>3, <1>4, <1>5, <1>6, Parts, SMTT(60)

(* Doing or undoing an edit keeps the types. *)
LEMMA TypePerform ==
  ASSUME TypeOK, UserActs, NEW act \in Edit, act.key \in KeysOf(act.kind),
         NEW val \in DataOf(act.kind), NEW flags \in Flags, Perform(act, val, flags),
         undo_stack' \in Seq(Edit), undo_stack_top' \in 0..Len(undo_stack'),
         \A i \in DOMAIN undo_stack' : undo_stack'[i].key \in KeysOf(undo_stack'[i].kind)
  PROVE  TypeOK'
<1>1. /\ Known' = Known /\ TypeTables' /\ TypeLayouts' /\ raced' \subseteq Known'
      /\ comments' \in [Line -> Comment \cup {None}]
      /\ values' \in [Uuid -> Value \cup {None}]
  BY Performed, Zenon DEF Flags
<1>2. PICK n \in Seq(Event(Known)) :
        /\ Titles(act, val) \in Seq(Event(Known))
        /\ events' = events \o n \o Titles(act, val) \o <<flags>>
  BY Performed, Zenon DEF Flags
<1>3. flags \in Event(Known)
  BY Zenon DEF Flags, Event
<1>4. events \in Seq(Event(Known))
  BY Parts, Zenon
<1>5. events' \in Seq(Event(Known'))
  <2> HIDE DEF Event
  <2> QED BY <1>1, <1>2, <1>3, <1>4, PostedTogether, SMTT(60)
<1>6. TypeEdits'
  <2> SUFFICES ASSUME NEW i \in DOMAIN undo_stack'
               PROVE  (undo_stack'[i].key \in KeysOf(undo_stack'[i].kind)) =>
                        undo_stack'[i].key \in
                          CASE undo_stack'[i].kind = "comment" -> Line
                            [] undo_stack'[i].kind = "rename" -> Known'
                            [] undo_stack'[i].kind = "value" -> Uuid
    BY <1>1, Zenon DEF TypeEdits, KeysOf
  <2> QED BY <1>1, Zenon DEF KeysOf
<1>7. TypeTasks'
  BY <1>1, Parts, SessionAssumption, SMTT(60) DEF Perform, taskVars, UserActs, TypeTasks, Task
<1>8. TypeGui'
  BY <1>1, PartsKept, Zenon DEF Perform
<1>9. sent' \in BOOLEAN
  BY Parts, Zenon DEF Perform, taskVars
<1> QED BY <1>1, <1>5, <1>6, <1>7, <1>8, <1>9, PartsNext, Zenon

(* push_action keeps the types. *)
LEMMA TypePush ==
  ASSUME TypeOK, UserActs, NEW act, EditOf(act), PushAction(act)
  PROVE  TypeOK'
<1>1. act \in Edit /\ act.key \in KeysOf(act.kind) /\ act.after \in DataOf(act.kind)
  BY EditFields, Zenon DEF EditOf
<1>2. UndoEvent(TRUE, FALSE) \in Flags
  BY Zenon DEF UndoEvent, Flags
<1>3. Perform(act, act.after, UndoEvent(TRUE, FALSE))
  BY Zenon DEF PushAction
<1>4. undo_stack_top \in Nat
  BY Parts, SMTT(60) DEF TypeEdits
<1>5. /\ undo_stack' \in Seq(Edit) /\ Len(undo_stack') = undo_stack_top + 1
      /\ DOMAIN undo_stack' = 1..(undo_stack_top + 1)
      /\ \A i \in 1..undo_stack_top : undo_stack'[i] = undo_stack[i]
      /\ undo_stack'[undo_stack_top + 1] = act
      /\ undo_stack_top' = undo_stack_top + 1
  BY <1>1, Pushed, Zenon DEF PushAction
<1>6. \A i \in DOMAIN undo_stack' : undo_stack'[i].key \in KeysOf(undo_stack'[i].kind)
  <2>1. \A i \in 1..undo_stack_top : undo_stack[i].key \in KeysOf(undo_stack[i].kind)
    BY Parts, LenProperties, SMTT(60) DEF TypeEdits
  <2>2. \A i \in 1..(undo_stack_top + 1) : i \in 1..undo_stack_top \/ i = undo_stack_top + 1
    BY <1>4, SMTT(60)
  <2> QED BY <1>1, <1>5, <2>1, <2>2, Zenon
<1>7. undo_stack_top' \in 0..Len(undo_stack')
  BY <1>4, <1>5, SMTT(60)
<1> QED BY <1>1, <1>2, <1>3, <1>5, <1>6, <1>7, TypePerform, Zenon

(* undo keeps the types. *)
LEMMA TypeUndo ==
  ASSUME TypeOK, Undo
  PROVE  TypeOK'
<1>1. /\ undo_stack \in Seq(Edit) /\ undo_stack_top \in 1..Len(undo_stack)
      /\ DOMAIN undo_stack = 1..Len(undo_stack) /\ Len(undo_stack) \in Nat
      /\ \A i \in DOMAIN undo_stack : undo_stack[i].key \in KeysOf(undo_stack[i].kind)
  BY Parts, LenProperties, SMTT(60) DEF TypeEdits, Undo
<1> DEFINE act == undo_stack[undo_stack_top]
<1>2. act \in Edit /\ act.key \in KeysOf(act.kind)
  BY <1>1, SMTT(60)
<1>3. act.before \in DataOf(act.kind)
  BY <1>2, EditFields, Zenon
<1> HIDE DEF act
<1> DEFINE flags == UndoEvent(undo_stack_top - 1 # 0, TRUE)
<1>4. flags \in Flags
  BY Zenon DEF UndoEvent, Flags
<1> HIDE DEF flags
<1>5. Perform(act, act.before, flags) /\ UserActs /\ undo_stack_top' = undo_stack_top - 1 /\ undo_stack' = undo_stack
  BY Zenon DEF Undo, act, flags
<1> QED BY <1>1, <1>2, <1>3, <1>4, <1>5, TypePerform, SMTT(60)

(* redo keeps the types. *)
LEMMA TypeRedo ==
  ASSUME TypeOK, Redo
  PROVE  TypeOK'
<1>1. /\ undo_stack \in Seq(Edit) /\ undo_stack_top \in 0..(Len(undo_stack) - 1)
      /\ DOMAIN undo_stack = 1..Len(undo_stack) /\ Len(undo_stack) \in Nat
      /\ \A i \in DOMAIN undo_stack : undo_stack[i].key \in KeysOf(undo_stack[i].kind)
  BY Parts, LenProperties, SMTT(60) DEF TypeEdits, Redo
<1> DEFINE act == undo_stack[undo_stack_top + 1]
<1>2. act \in Edit /\ act.key \in KeysOf(act.kind)
  BY <1>1, SMTT(60)
<1>3. act.after \in DataOf(act.kind)
  BY <1>2, EditFields, Zenon
<1> HIDE DEF act
<1> DEFINE flags == UndoEvent(TRUE, undo_stack_top + 1 < Len(undo_stack))
<1>4. flags \in Flags
  BY SMTT(60) DEF UndoEvent, Flags
<1> HIDE DEF flags
<1>5. Perform(act, act.after, flags) /\ UserActs /\ undo_stack_top' = undo_stack_top + 1 /\ undo_stack' = undo_stack
  BY Zenon DEF Redo, act, flags
<1> QED BY <1>1, <1>2, <1>3, <1>4, <1>5, TypePerform, SMTT(60)

(* A posted event keeps the queue typed.                                   *)
LEMMA Post ==
  ASSUME TypeOK, NEW e \in Event(Known')
  PROVE  Known \subseteq Known' => Append(events, e) \in Seq(Event(Known'))
<1> SUFFICES ASSUME Known \subseteq Known'
             PROVE  Append(events, e) \in Seq(Event(Known'))
  BY Zenon
<1>1. events \in Seq(Event(Known'))
  BY PartsKept, Zenon
<1> HIDE DEF Event
<1> QED BY <1>1, AppendProperties, Zenon

(* open_program keeps the types. *)
LEMMA TypeOpen ==
  ASSUME TypeOK, OpenBinary \/ OpenProject
  PROVE  TypeOK'
<1>1. CASE OpenBinary
  <2>1. UNCHANGED <<functions, posting, comments, values, layouts, undo_stack, undo_stack_top,
                    subscribed, tasks, events, gui, acts, raced, sent>> /\ Known' = Known
    BY <1>1, Zenon DEF OpenBinary, tableVars, coreVars, taskVars, Known
  <2>2. TypeTables'
    BY <1>1, <2>1, Parts, Zenon DEF OpenBinary, TypeTables, Renamed, Known
  <2> QED BY <2>1, <2>2, PartsKept, PartsNext, Zenon
<1>2. CASE OpenProject
  <2>1. /\ UNCHANGED <<arriving, posting, comments, values, layouts, undo_stack, undo_stack_top,
                       subscribed, tasks, gui, acts, raced, sent>>
        /\ functions' = Func /\ Known' = Uuid /\ opened = "no" /\ opened' = "project"
    BY <1>2, Zenon DEF OpenProject, coreVars, taskVars, Known, Uuid
  <2>2. Known \subseteq Known' /\ arriving = {} /\ posting \in Known \cup {None}
    BY <2>1, Parts, Zenon DEF TypeTables, Renamed, Known
  <2>3. \A u \in Uuid : Func[u].name \in Names /\ Func[u] = [Func[u] EXCEPT !.name = Func[u].name]
    BY SessionAssumption, Zenon DEF Names
  <2>4. TypeTables'
    <3>1. DOMAIN functions' = Uuid /\ \A u \in Uuid : \E n \in Names : functions'[u] = [Func[u] EXCEPT !.name = n]
      BY <2>1, <2>3, Zenon DEF Uuid
    <3>2. Renamed(functions')
      BY <3>1, Zenon DEF Renamed
    <3> QED BY <2>1, <2>2, <3>2, Zenon DEF TypeTables
  <2>5. events' \in Seq(Event(Known'))
    <3> DEFINE T == {SidebarEvent(u, Func[u].name) : u \in Uuid}
    <3>1. T \subseteq Event(Known')
      <4>1. \A u \in Uuid : SidebarEvent(u, Func[u].name) \in Event(Uuid)
        BY <2>3, Events, Zenon
      <4> HIDE DEF Event
      <4> QED BY <2>1, <4>1, Zenon
    <3>2. PICK t \in Listings(T) : events' = events \o t
      BY <1>2, Zenon DEF OpenProject
    <3> HIDE DEF T, Event
    <3>3. t \in Seq(Event(Known'))
      BY <3>1, Listed, SeqMonotonic, Zenon
    <3>4. events \in Seq(Event(Known'))
      BY <2>2, PartsKept, Zenon
    <3> QED BY <3>2, <3>3, <3>4, ConcatProperties, Zenon
  <2> QED BY <2>1, <2>2, <2>4, <2>5, PartsKept, PartsNext, Zenon
<1> QED BY <1>1, <1>2, Zenon

(* Booking a function that arrives keeps the types. *)
LEMMA TypeArrive ==
  ASSUME TypeOK, NEW u \in arriving, Arrive(u)
  PROVE  TypeOK'
<1> DEFINE S == Refreshed(u, Func[u])
<1>1. /\ functions' = Put(functions, u, Func[u]) /\ arriving' = arriving \ {u} /\ posting' = u
      /\ layouts' = RefreshedLayouts(S, functions', comments, values)
      /\ \E nodes \in Listings(NodeEvents(S, functions', comments, values)) :
           events' = events \o nodes
      /\ UNCHANGED <<opened, comments, values, undo_stack, undo_stack_top, subscribed, tasks, gui, acts, sent>>
  BY Zenon DEF Arrive, NewFunction, taskVars
<1>2. Known' = Known \cup {u} /\ u \in Uuid \ Known /\ opened # "no"
  BY <1>1, Parts, Zenon DEF Put, Known, TypeTables
<1>3. Renamed(functions')
  <2>1. \A v \in Known : functions'[v] = functions[v]
    BY <1>1, <1>2, Zenon DEF Put, Known
  <2>2. functions'[u] = Func[u]
    BY <1>1, Zenon DEF Put
  <2>3. Func[u].name \in Names /\ Func[u] = [Func[u] EXCEPT !.name = Func[u].name]
    BY <1>2, SessionAssumption, Zenon DEF Names
  <2>4. \E n \in Names : Func[u] = [Func[u] EXCEPT !.name = n]
    BY <2>3, Zenon
  <2> QED BY <1>2, <2>1, <2>2, <2>4, Parts, SMTT(60) DEF Renamed, TypeTables, Known
<1>4. TypeTables'
  BY <1>1, <1>2, <1>3, Parts, Zenon DEF TypeTables
<1>5. /\ comments \in [Line -> Comment \cup {None}] /\ values \in [Uuid -> Value \cup {None}]
      /\ subscribed \subseteq DOMAIN functions' /\ DOMAIN layouts \subseteq DOMAIN functions'
      /\ \A v \in DOMAIN layouts : layouts[v] \in NodeText(v)
  BY <1>2, Parts, Zenon DEF TypeEdits, TypeLayouts, Known
<1> HIDE DEF S
<1>6. TypeLayouts'
  BY <1>1, <1>3, <1>5, LayoutsTyped, Zenon DEF TypeLayouts, Known
<1>7. PICK t \in Listings(NodeEvents(S, functions', comments, values)) : events' = events \o t
  BY <1>1, Zenon
<1>8. events' \in Seq(Event(Known'))
  <2>1. t \in Seq(Event(Known'))
    BY <1>3, <1>5, NodesPosted, Zenon DEF Known
  <2>2. events \in Seq(Event(Known'))
    BY <1>2, PartsKept, Zenon
  <2> HIDE DEF Event
  <2> QED BY <1>7, <2>1, <2>2, ConcatProperties, Zenon
<1>9. raced' \subseteq Known'
  BY Zenon DEF Arrive, NoteRace, Known
<1> QED BY <1>1, <1>2, <1>4, <1>6, <1>8, <1>9, PartsKept, PartsNext, Zenon

(* Posting a function to the sidebar keeps the types. *)
LEMMA TypePost ==
  ASSUME TypeOK, PostFunction
  PROVE  TypeOK'
<1>1. /\ UNCHANGED <<functions, opened, arriving, comments, values, layouts, undo_stack, undo_stack_top,
                     subscribed, tasks, gui, acts, raced, sent>>
      /\ Known' = Known /\ posting \in Known /\ posting' = None
      /\ events' = Append(events, SidebarEvent(posting, Func[posting].name))
  BY Parts, Zenon DEF PostFunction, tableVars, coreVars, taskVars, Known, TypeTables
<1>2. SidebarEvent(posting, Func[posting].name) \in Event(Known')
  BY <1>1, Parts, Zenon DEF SidebarEvent, Event, Names, TypeTables, Renamed, Known
<1>3. TypeTables'
  BY <1>1, Parts, Zenon DEF TypeTables, Renamed
<1> QED BY <1>1, <1>2, <1>3, Post, PartsKept, PartsNext, Zenon

(* get_function with its layout task keeps the types. *)
LEMMA TypeGetFunction ==
  ASSUME TypeOK, UserActs, NEW u \in Known, NEW edges \in BOOLEAN, GetFunction(u, edges),
         UNCHANGED functions
  PROVE  TypeTasks' /\ events' \in Seq(Event(Known'))
<1>1. Known' = Known
  BY Zenon DEF Known
<1>2. Text(u) \in NodeText(u)
  BY RenderTyped, Parts, Zenon DEF Text, TypeTables, TypeEdits, Known
<1> DEFINE task == [uuid |-> u, cached |-> u \in DOMAIN layouts,
                    text |-> IF u \in DOMAIN layouts THEN layouts[u] ELSE Text(u),
                    edges |-> edges, at |-> "queued"]
<1>3. task \in Task(u) /\ task.uuid = u
  <2>1. (IF u \in DOMAIN layouts THEN layouts[u] ELSE Text(u)) \in NodeText(u)
    BY <1>2, Parts, Zenon DEF TypeLayouts
  <2> HIDE DEF NodeText
  <2> QED BY <2>1, SMTT(60) DEF Task
<1>4. tasks' = [i \in {j \in DOMAIN tasks : tasks[j].at # "queued"} \cup {acts + 1} |->
                  IF i = acts + 1 THEN task ELSE tasks[i]]
  BY Zenon DEF GetFunction
<1> HIDE DEF task
<1>5. acts \in 0..MaxActs /\ DOMAIN tasks \subseteq 1..acts /\ acts' = acts + 1 /\ acts < MaxActs /\ MaxActs \in Nat
  BY Parts, SessionAssumption, Zenon DEF TypeTasks, UserActs
<1>6. acts' \in 0..MaxActs /\ DOMAIN tasks' \subseteq 1..acts'
  BY <1>4, <1>5, SMTT(60)
<1>7. \A i \in DOMAIN tasks' : tasks'[i] \in Task(tasks'[i].uuid)
  BY <1>3, <1>4, Parts, Zenon DEF TypeTasks
<1>8. TypeTasks'
  BY <1>1, <1>6, <1>7, Zenon DEF TypeTasks, Task
<1>9. events' \in Seq(Event(Known'))
  BY <1>1, Events, Post, Zenon DEF GetFunction
<1> QED BY <1>8, <1>9, Zenon

(* Selecting a function or a preview keeps the types. *)
LEMMA TypeSelect ==
  ASSUME TypeOK, NEW u \in Known, Select(u) \/ RequestPreview(u)
  PROVE  TypeOK'
<1>1. /\ UNCHANGED <<functions, opened, arriving, posting, comments, values, layouts, undo_stack,
                     undo_stack_top, raced>>
      /\ Known' = Known /\ TypeTables'
  BY Parts, Zenon DEF Select, RequestPreview, tableVars, coreVars, Known, TypeTables, Renamed
<1>2. subscribed' \subseteq subscribed \cup {u}
  BY Zenon DEF Select, RequestPreview
<1>3. TypeLayouts'
  BY <1>1, <1>2, Parts, Zenon DEF TypeLayouts
<1>4. TypeTasks' /\ events' \in Seq(Event(Known'))
  BY <1>1, TypeGetFunction, Zenon DEF Select, RequestPreview
<1>5. TypeGui'
  <2>1. gui \in Gui /\ (gui.nodes # None => gui.uuid # None) /\ u # None
    BY Parts, SessionAssumption, Zenon DEF TypeGui, TypeTables, Renamed, Known
  <2>2. gui' \in Gui /\ (gui'.nodes # None => gui'.uuid # None)
    <3>1. CASE Select(u)
      <4>1. gui' = [gui EXCEPT !.uuid = u, !.nodes = None, !.edges = FALSE]
        BY <3>1, Zenon DEF Select
      <4> QED BY <2>1, <4>1, Zenon DEF Gui
    <3>2. CASE RequestPreview(u)
      <4>1. gui' = [gui EXCEPT !.preview = u, !.previewNode = None]
        BY <3>2, Zenon DEF RequestPreview
      <4> QED BY <2>1, <4>1, Zenon DEF Gui
    <3> QED BY <3>1, <3>2, Zenon
  <2>3. Gui' = Gui
    BY <1>1, Zenon DEF Gui
  <2> QED BY <2>2, <2>3, Zenon DEF TypeGui
<1>6. sent' \in BOOLEAN
  BY Parts, Zenon DEF Select, RequestPreview
<1> QED BY <1>1, <1>3, <1>4, <1>5, <1>6, PartsKept, PartsNext, Zenon

(* A task that moves on keeps the types of the tasks. *)
LEMMA TypeMoved ==
  ASSUME TypeOK, NEW i \in DOMAIN tasks, NEW at \in {"queued", "layout", "nodes", "edges", "done"},
         tasks' = [tasks EXCEPT ![i].at = at], UNCHANGED <<functions, acts>>
  PROVE  TypeTasks'
<1>1. DOMAIN tasks' = DOMAIN tasks /\ \A j \in DOMAIN tasks \ {i} : tasks'[j] = tasks[j]
  BY Zenon
<1>2. tasks'[i] = [tasks[i] EXCEPT !.at = at]
  BY Zenon
<1>3. tasks'[i] \in Task(tasks'[i].uuid)
  BY <1>2, TaskFields, Zenon
<1>4. \A j \in DOMAIN tasks' : tasks'[j] \in Task(tasks'[j].uuid)
  BY <1>1, <1>3, Parts, Zenon DEF TypeTasks
<1>5. Known' = Known
  BY Zenon DEF Known
<1>6. \A j \in DOMAIN tasks' : tasks'[j] \in Task(tasks[j].uuid)'
  <2> TAKE j \in DOMAIN tasks'
  <2>1. tasks'[j] \in Task(tasks'[j].uuid)
    BY <1>4, Zenon
  <2> QED BY <1>5, <2>1, Zenon DEF Task
<1>7. acts' \in 0..MaxActs /\ DOMAIN tasks' \subseteq 1..acts'
  BY <1>1, Parts, Zenon DEF TypeTasks
<1> QED BY <1>6, <1>7, Zenon DEF TypeTasks

(* Every step of a layout task keeps the types. *)
LEMMA TypeRunTask ==
  ASSUME TypeOK, NEW i \in DOMAIN tasks, RunTask(i)
  PROVE  TypeOK'
<1>1. /\ UNCHANGED <<functions, opened, arriving, posting, comments, values, undo_stack,
                     undo_stack_top, subscribed, gui, acts, raced>>
      /\ Known' = Known
  BY Zenon DEF RunTask, StartTask, StoreLayout, SendNodes, SendEdges, EndTask, tableVars, coreVars, Known
<1>2. TypeTables' /\ TypeEdits' /\ TypeGui' /\ raced' \subseteq Known' /\ sent' \in BOOLEAN
  <2>1. sent \in BOOLEAN
    BY Parts, Zenon
  <2>2. sent' \in BOOLEAN
    BY <2>1, Zenon DEF RunTask, StartTask, StoreLayout, SendNodes, SendEdges, EndTask
  <2> QED BY <1>1, <2>2, Parts, PartsKept, Zenon DEF TypeTables, Renamed
<1>3. tasks[i].uuid \in Known /\ tasks[i].text \in NodeText(tasks[i].uuid)
  BY TaskFields, Zenon
<1>4. CASE StartTask(i)
  <2>1. PICK at \in {"nodes", "layout"} : tasks' = [tasks EXCEPT ![i].at = at]
    BY <1>4, Zenon DEF StartTask
  <2>2. TypeTasks'
    BY <1>1, <2>1, TypeMoved, Zenon
  <2>3. UNCHANGED <<layouts, events>>
    BY <1>4, Zenon DEF StartTask, coreVars
  <2> QED BY <1>1, <1>2, <2>2, <2>3, PartsKept, PartsNext, Zenon
<1>5. CASE StoreLayout(i)
  <2>1. tasks' = [tasks EXCEPT ![i].at = "nodes"] /\ UNCHANGED events
    BY <1>5, Zenon DEF StoreLayout
  <2>2. TypeTasks'
    BY <1>1, <2>1, TypeMoved, Zenon
  <2>3. TypeLayouts'
    <3> HIDE DEF NodeText
    <3> QED BY <1>1, <1>3, <1>5, Parts, Zenon DEF StoreLayout, Put, TypeLayouts
  <2> QED BY <1>1, <1>2, <2>1, <2>2, <2>3, PartsKept, PartsNext, Zenon
<1>6. CASE SendNodes(i)
  <2>1. PICK at \in {"edges", "done"} : tasks' = [tasks EXCEPT ![i].at = at]
    BY <1>6, Zenon DEF SendNodes
  <2>2. TypeTasks'
    BY <1>1, <2>1, TypeMoved, Zenon
  <2>3. UNCHANGED layouts /\ events' = Append(events, NodeEvent(tasks[i].uuid, tasks[i].text))
    BY <1>6, Zenon DEF SendNodes, coreVars
  <2>4. events' \in Seq(Event(Known'))
    BY <1>1, <1>3, <2>3, Events, Post, Zenon
  <2> QED BY <1>1, <1>2, <2>2, <2>3, <2>4, PartsKept, PartsNext, Zenon
<1>7. CASE SendEdges(i)
  <2>1. tasks' = [tasks EXCEPT ![i].at = "done"]
    BY <1>7, Zenon DEF SendEdges
  <2>2. TypeTasks'
    BY <1>1, <2>1, TypeMoved, Zenon
  <2>3. UNCHANGED layouts /\ events' = Append(events, EdgesEvent(tasks[i].uuid))
    BY <1>7, Zenon DEF SendEdges, coreVars
  <2>4. events' \in Seq(Event(Known'))
    BY <1>1, <1>3, <2>3, Events, Post, Zenon
  <2> QED BY <1>1, <1>2, <2>2, <2>3, <2>4, PartsKept, PartsNext, Zenon
<1>8. CASE EndTask(i)
  <2>1. /\ UNCHANGED layouts /\ events' = Append(events, LayoutEvent(None))
        /\ tasks' = [j \in DOMAIN tasks \ {i} |-> tasks[j]]
    BY <1>8, Zenon DEF EndTask, coreVars
  <2>2. TypeTasks'
    BY <1>1, <2>1, Parts, Zenon DEF TypeTasks, Task
  <2>3. LayoutEvent(None) \in Event(Known')
    BY Zenon DEF LayoutEvent, Event
  <2>4. events' \in Seq(Event(Known'))
    BY <1>1, <2>1, <2>3, Post, Zenon
  <2> QED BY <1>1, <1>2, <2>1, <2>2, <2>4, PartsKept, PartsNext, Zenon
<1> QED BY <1>4, <1>5, <1>6, <1>7, <1>8, Zenon DEF RunTask

(* Delivering an event keeps the types. *)
LEMMA TypeDeliver ==
  ASSUME TypeOK, Deliver
  PROVE  TypeOK'
<1>1. /\ UNCHANGED <<functions, opened, arriving, posting, comments, values, layouts, undo_stack,
                     undo_stack_top, subscribed, tasks, acts, raced, sent>>
      /\ Known' = Known
  BY Zenon DEF Deliver, tableVars, coreVars, taskVars, Known
<1>2. events' \in Seq(Event(Known')) /\ gui' \in Gui /\ (gui'.nodes # None => gui'.uuid # None)
  BY <1>1, Delivery, DeliveredFields, Zenon
<1>3. TypeGui'
  BY <1>1, <1>2, Zenon DEF TypeGui, Gui
<1>4. TypeTables'
  BY <1>1, Parts, Zenon DEF TypeTables, Renamed
<1> QED BY <1>1, <1>2, <1>3, <1>4, PartsKept, PartsNext, Zenon

(* Every step keeps the types. *)
LEMMA TypeStep ==
  ASSUME TypeOK, [Next]_vars
  PROVE  TypeOK'
<1>1. CASE User
  <2>1. CASE CommentOn \/ RenameFunction \/ SetValueFor
    BY <2>1, CommentEdits, RenameEdits, ValueEdits, TypePush, Zenon
  <2> QED BY <1>1, <2>1, TypeOpen, TypeUndo, TypeRedo, TypeSelect, Zenon DEF User
<1>2. CASE Disassembler
  BY <1>2, TypePost, TypeArrive, Zenon DEF Disassembler
<1>3. CASE \E i \in DOMAIN tasks : RunTask(i)
  BY <1>3, TypeRunTask, Zenon
<1>4. CASE Deliver
  BY <1>4, TypeDeliver, Zenon
<1>5. CASE UNCHANGED vars
  <2>1. /\ UNCHANGED <<functions, opened, arriving, posting, comments, values, layouts, undo_stack,
                       undo_stack_top, subscribed, tasks, events, gui, acts, raced, sent>>
        /\ Known' = Known
    BY <1>5, Zenon DEF vars, tableVars, coreVars, taskVars, Known
  <2>2. TypeTables'
    BY <2>1, Parts, Zenon DEF TypeTables, Renamed
  <2> QED BY <2>1, <2>2, PartsKept, PartsNext, Zenon
<1> QED BY <1>1, <1>2, <1>3, <1>4, <1>5, Zenon DEF Next
-----------------------------------------------------------------------------
(* AfterEdits for a given stack.                                           *)
After(s, n, kind, key, val) ==
  LET hits == {i \in 1..n : s[i].kind = kind /\ s[i].key = key}
  IN  \/ hits = {} /\ val = Initially(kind, key)
      \/ \E i \in hits : (\A j \in hits : j <= i) /\ val = s[i].after

(* UndoHistory conjunct by conjunct. *)
LEMMA History ==
  UndoHistory <=>
    /\ \A i \in DOMAIN undo_stack :
         After(undo_stack, i - 1, undo_stack[i].kind, undo_stack[i].key, undo_stack[i].before)
    /\ \A l \in Line : After(undo_stack, undo_stack_top, "comment", l, comments[l])
    /\ \A u \in Known : After(undo_stack, undo_stack_top, "rename", u, functions[u].name)
    /\ \A u \in Uuid : After(undo_stack, undo_stack_top, "value", u, values[u])
BY Zenon DEF UndoHistory, AfterEdits, After

(* The same in the next state. *)
LEMMA HistoryNext ==
  UndoHistory' <=>
    /\ \A i \in DOMAIN undo_stack' :
         After(undo_stack', i - 1, undo_stack'[i].kind, undo_stack'[i].key, undo_stack'[i].before)
    /\ \A l \in Line : After(undo_stack', undo_stack_top', "comment", l, comments'[l])
    /\ \A u \in Known' : After(undo_stack', undo_stack_top', "rename", u, functions'[u].name)
    /\ \A u \in Uuid : After(undo_stack', undo_stack_top', "value", u, values'[u])
BY Zenon DEF UndoHistory, AfterEdits, After

(* Only the edits below n count.                                           *)
LEMMA AfterSame ==
  ASSUME NEW s, NEW t, NEW n \in Nat, \A i \in 1..n : s[i] = t[i],
         NEW kind, NEW key, NEW val, After(s, n, kind, key, val)
  PROVE  After(t, n, kind, key, val)
<1>1. {i \in 1..n : s[i].kind = kind /\ s[i].key = key} = {i \in 1..n : t[i].kind = kind /\ t[i].key = key}
  BY Zenon
<1> QED BY <1>1, Zenon DEF After

(* An edit sets the value of its key and no other.                         *)
LEMMA AfterHit ==
  ASSUME NEW s, NEW n \in Nat
  PROVE  After(s, n + 1, s[n + 1].kind, s[n + 1].key, s[n + 1].after)
<1> DEFINE hits == {i \in 1..(n + 1) : s[i].kind = s[n + 1].kind /\ s[i].key = s[n + 1].key}
<1>1. n + 1 \in hits /\ \A j \in hits : j <= n + 1
  BY SMTT(60)
<1> QED BY <1>1, Zenon DEF After

(* An edit of something else leaves what the edits below it leave. *)
LEMMA AfterMiss ==
  ASSUME NEW s, NEW n \in Nat, NEW kind, NEW key, NEW val, s[n + 1].kind # kind \/ s[n + 1].key # key
  PROVE  After(s, n, kind, key, val) <=> After(s, n + 1, kind, key, val)
<1>1. {i \in 1..n : s[i].kind = kind /\ s[i].key = key} = {i \in 1..(n + 1) : s[i].kind = kind /\ s[i].key = key}
  <2>1. \A i \in 1..(n + 1) : i \in 1..n \/ i = n + 1
    BY SMTT(60)
  <2>2. \A i \in 1..n : i \in 1..(n + 1)
    BY SMTT(60)
  <2> QED BY <2>1, <2>2, Zenon
<1> QED BY <1>1, Zenon DEF After

(* The state follows the history if the edited key does and others stay.   *)
LEMMA HistoryMoved ==
  ASSUME TypeOK, UndoHistory, NEW act \in Edit, act.key \in KeysOf(act.kind), NEW val, NEW flags,
         Perform(act, val, flags),
         After(undo_stack', undo_stack_top', act.kind, act.key, val),
         \A kind, key, v : /\ act.kind # kind \/ act.key # key
                           /\ After(undo_stack, undo_stack_top, kind, key, v)
                           => After(undo_stack', undo_stack_top', kind, key, v)
  PROVE  /\ \A l \in Line : After(undo_stack', undo_stack_top', "comment", l, comments'[l])
         /\ \A u \in Known' : After(undo_stack', undo_stack_top', "rename", u, functions'[u].name)
         /\ \A u \in Uuid : After(undo_stack', undo_stack_top', "value", u, values'[u])
<1> HIDE DEF After
<1>1. \A l \in Line : After(undo_stack', undo_stack_top', "comment", l, comments'[l])
  <2> TAKE l \in Line
  <2>1. CASE act.kind = "comment" /\ act.key = l
    BY <2>1, Changed, SMTT(60)
  <2>2. CASE ~(act.kind = "comment" /\ act.key = l)
    <3>1. comments'[l] = comments[l] /\ After(undo_stack, undo_stack_top, "comment", l, comments[l])
      BY <2>2, Changed, History, SMTT(60)
    <3> QED BY <2>2, <3>1, Zenon
  <2> QED BY <2>1, <2>2, Zenon
<1>2. \A u \in Known' : After(undo_stack', undo_stack_top', "rename", u, functions'[u].name)
  <2> TAKE u \in Known'
  <2>1. u \in Known
    BY Changed, Zenon
  <2>2. CASE act.kind = "rename" /\ act.key = u
    BY <2>1, <2>2, Changed, SMTT(60)
  <2>3. CASE ~(act.kind = "rename" /\ act.key = u)
    <3>1. functions'[u].name = functions[u].name /\ After(undo_stack, undo_stack_top, "rename", u, functions[u].name)
      BY <2>1, <2>3, Changed, History, SMTT(60)
    <3> QED BY <2>3, <3>1, Zenon
  <2> QED BY <2>2, <2>3, Zenon
<1>3. \A u \in Uuid : After(undo_stack', undo_stack_top', "value", u, values'[u])
  <2> TAKE u \in Uuid
  <2>1. CASE act.kind = "value" /\ act.key = u
    BY <2>1, Changed, Zenon
  <2>2. CASE ~(act.kind = "value" /\ act.key = u)
    <3>1. values'[u] = values[u] /\ After(undo_stack, undo_stack_top, "value", u, values[u])
      BY <2>2, Changed, History, SMTT(60)
    <3> QED BY <2>2, <3>1, Zenon
  <2> QED BY <2>1, <2>2, Zenon
<1> QED BY <1>1, <1>2, <1>3, Zenon

(* push_action keeps the history. *)
LEMMA HistoryPush ==
  ASSUME TypeOK, UndoHistory, NEW act, EditOf(act), PushAction(act)
  PROVE  UndoHistory'
<1> DEFINE top == undo_stack_top
<1>1. act \in Edit /\ act.key \in KeysOf(act.kind) /\ act.kind \in {"comment", "rename", "value"}
  BY EditFields, Zenon DEF EditOf
<1>2. /\ DOMAIN undo_stack' = 1..(top + 1) /\ \A i \in 1..top : undo_stack[i] = undo_stack'[i]
      /\ undo_stack'[top + 1] = act /\ undo_stack_top' = top + 1
  BY <1>1, Pushed, Zenon DEF PushAction
<1>3. top \in Nat /\ 1..top \subseteq DOMAIN undo_stack
  BY Parts, LenProperties, SMTT(60) DEF TypeEdits
<1>4. After(undo_stack, top, act.kind, act.key, act.before)
  BY <1>1, History, Zenon DEF EditOf, KeysOf, Now
<1>5. \A n \in 0..top : \A i \in 1..n : undo_stack[i] = undo_stack'[i]
  BY <1>2, <1>3, SMTT(60)
<1>6. ASSUME NEW i \in DOMAIN undo_stack'
      PROVE  After(undo_stack', i - 1, undo_stack'[i].kind, undo_stack'[i].key, undo_stack'[i].before)
  <2>1. CASE i = top + 1
    <3>1. After(undo_stack', top, act.kind, act.key, act.before)
      BY <1>2, <1>3, <1>4, AfterSame, Zenon
    <3> HIDE DEF After
    <3> QED BY <1>2, <1>3, <2>1, <3>1, SMTT(60)
  <2>2. CASE i # top + 1
    <3>1. i \in 1..top /\ i - 1 \in 0..top /\ undo_stack'[i] = undo_stack[i]
      BY <1>2, <1>3, <2>2, SMTT(60)
    <3>2. After(undo_stack, i - 1, undo_stack[i].kind, undo_stack[i].key, undo_stack[i].before)
      BY <1>3, <3>1, History, Zenon
    <3>3. After(undo_stack', i - 1, undo_stack[i].kind, undo_stack[i].key, undo_stack[i].before)
      BY <1>5, <3>1, <3>2, AfterSame, SMTT(60)
    <3> HIDE DEF After
    <3> QED BY <3>1, <3>3, Zenon
  <2> QED BY <2>1, <2>2, Zenon
<1>7. After(undo_stack', undo_stack_top', act.kind, act.key, act.after)
  <2>1. After(undo_stack', top + 1, undo_stack'[top + 1].kind, undo_stack'[top + 1].key, undo_stack'[top + 1].after)
    BY <1>3, AfterHit, Zenon
  <2> HIDE DEF After
  <2> QED BY <1>2, <2>1, Zenon
<1>8. ASSUME NEW kind, NEW key, NEW v, act.kind # kind \/ act.key # key, After(undo_stack, top, kind, key, v)
      PROVE  After(undo_stack', undo_stack_top', kind, key, v)
  <2>1. After(undo_stack', top, kind, key, v)
    BY <1>2, <1>3, <1>8, AfterSame, Zenon
  <2>2. After(undo_stack', top + 1, kind, key, v)
    BY <1>2, <1>3, <1>8, <2>1, AfterMiss, Zenon
  <2> HIDE DEF After
  <2> QED BY <1>2, <2>2, Zenon
<1>9. Perform(act, act.after, UndoEvent(TRUE, FALSE))
  BY Zenon DEF PushAction
<1> HIDE DEF After
<1> QED BY <1>1, <1>6, <1>7, <1>8, <1>9, HistoryMoved, HistoryNext, Zenon

(* undo and redo move along the history. *)
LEMMA HistoryUndo ==
  ASSUME TypeOK, UndoHistory, Undo \/ Redo
  PROVE  UndoHistory'
<1>1. /\ undo_stack \in Seq(Edit) /\ undo_stack_top \in 0..Len(undo_stack) /\ undo_stack' = undo_stack
      /\ DOMAIN undo_stack = 1..Len(undo_stack) /\ Len(undo_stack) \in Nat
      /\ \A i \in DOMAIN undo_stack : undo_stack[i].key \in KeysOf(undo_stack[i].kind)
  BY Parts, LenProperties, Zenon DEF TypeEdits, Undo, Redo
<1>2. \A i \in DOMAIN undo_stack' :
        After(undo_stack', i - 1, undo_stack'[i].kind, undo_stack'[i].key, undo_stack'[i].before)
  BY <1>1, History, Zenon
<1> HIDE DEF After
<1>3. CASE Undo
  <2> DEFINE n == undo_stack_top - 1
             act == undo_stack[undo_stack_top]
  <2>1. n \in Nat /\ n + 1 = undo_stack_top /\ undo_stack_top \in DOMAIN undo_stack /\ undo_stack_top' = n
    BY <1>1, <1>3, SMTT(60) DEF Undo
  <2>2. act \in Edit /\ act.key \in KeysOf(act.kind)
    BY <1>1, <2>1, SMTT(60)
  <2>3. Perform(act, act.before, UndoEvent(undo_stack_top - 1 # 0, TRUE))
    BY <1>3, Zenon DEF Undo
  <2>4. After(undo_stack, n, act.kind, act.key, act.before)
    BY <2>1, History, Zenon
  <2>5. \A kind, key, v : /\ act.kind # kind \/ act.key # key
                          /\ After(undo_stack, undo_stack_top, kind, key, v)
                          => After(undo_stack, n, kind, key, v)
    BY <2>1, AfterMiss, SMTT(60)
  <2> HIDE DEF act, n
  <2> QED BY <1>1, <1>2, <2>1, <2>2, <2>3, <2>4, <2>5, HistoryMoved, HistoryNext, Zenon
<1>4. CASE Redo
  <2> DEFINE n == undo_stack_top
             act == undo_stack[undo_stack_top + 1]
  <2>1. n \in Nat /\ n + 1 \in DOMAIN undo_stack /\ undo_stack_top' = n + 1
    BY <1>1, <1>4, SMTT(60) DEF Redo
  <2>2. act \in Edit /\ act.key \in KeysOf(act.kind)
    BY <1>1, <2>1, SMTT(60)
  <2>3. Perform(act, act.after, UndoEvent(TRUE, undo_stack_top + 1 < Len(undo_stack)))
    BY <1>4, Zenon DEF Redo
  <2>4. After(undo_stack, n + 1, act.kind, act.key, act.after)
    BY <2>1, AfterHit, Zenon
  <2>5. \A kind, key, v : /\ act.kind # kind \/ act.key # key
                          /\ After(undo_stack, undo_stack_top, kind, key, v)
                          => After(undo_stack, n + 1, kind, key, v)
    BY <2>1, AfterMiss, Zenon
  <2> HIDE DEF act
  <2> QED BY <1>1, <1>2, <2>1, <2>2, <2>3, <2>4, <2>5, HistoryMoved, HistoryNext, Zenon
<1> QED BY <1>3, <1>4, Zenon

(* A function that arrives has its own name and no history.                *)
LEMMA HistoryGrows ==
  ASSUME TypeOK, UndoHistory, UNCHANGED <<comments, values, undo_stack, undo_stack_top>>,
         Known \subseteq Known', Known' \subseteq Uuid,
         \A u \in Known : functions'[u].name = functions[u].name,
         \A u \in Known' \ Known : functions'[u] = Func[u]
  PROVE  UndoHistory'
<1>1. /\ undo_stack \in Seq(Edit) /\ undo_stack_top \in 0..Len(undo_stack)
      /\ DOMAIN undo_stack = 1..Len(undo_stack) /\ Len(undo_stack) \in Nat
      /\ \A i \in DOMAIN undo_stack : undo_stack[i].key \in KeysOf(undo_stack[i].kind)
  BY Parts, LenProperties, Zenon DEF TypeEdits
<1>2. ASSUME NEW u \in Known' \ Known
      PROVE  After(undo_stack, undo_stack_top, "rename", u, Func[u].name)
  <2>1. ASSUME NEW i \in 1..undo_stack_top, undo_stack[i].kind = "rename", undo_stack[i].key = u
        PROVE  FALSE
    BY <1>1, <2>1, SMTT(60) DEF KeysOf
  <2> QED BY <2>1, Zenon DEF After, Initially
<1> HIDE DEF After
<1> QED BY <1>2, History, HistoryNext, Zenon

(* Every step keeps the history. *)
LEMMA HistoryStep ==
  ASSUME TypeOK, UndoHistory, [Next]_vars
  PROVE  UndoHistory'
<1>1. CASE CommentOn \/ RenameFunction \/ SetValueFor
  BY <1>1, CommentEdits, RenameEdits, ValueEdits, HistoryPush, Zenon
<1>2. CASE Undo \/ Redo
  BY <1>2, HistoryUndo, Zenon
<1>3. CASE OpenProject
  <2>1. Known = {} /\ Known' = Uuid /\ functions' = Func
    BY <1>3, Parts, Zenon DEF OpenProject, TypeTables, Known, Uuid
  <2> QED BY <1>3, <2>1, HistoryGrows, Zenon DEF OpenProject, coreVars
<1>4. ASSUME NEW u \in arriving, Arrive(u)
      PROVE  UndoHistory'
  <2>1. functions' = Put(functions, u, Func[u]) /\ u \in Uuid \ Known /\ Known \subseteq Uuid
    BY <1>4, Parts, Zenon DEF Arrive, NewFunction, TypeTables, Renamed, Known
  <2>2. Known' = Known \cup {u} /\ functions'[u] = Func[u] /\ \A v \in Known : functions'[v] = functions[v]
    BY <2>1, Zenon DEF Put, Known
  <2> QED BY <1>4, <2>1, <2>2, HistoryGrows, Zenon DEF Arrive
<1>5. CASE UNCHANGED <<functions, comments, values, undo_stack, undo_stack_top>>
  BY <1>5, HistoryGrows, Parts, Zenon DEF Known, TypeTables, Renamed
<1>6. ASSUME OpenBinary \/ PostFunction \/ Deliver \/ UNCHANGED vars
               \/ (\E u \in Known : Select(u) \/ RequestPreview(u)) \/ \E i \in DOMAIN tasks : RunTask(i)
      PROVE  UNCHANGED <<functions, comments, values, undo_stack, undo_stack_top>>
  BY <1>6, Zenon DEF OpenBinary, PostFunction, Deliver, Select, RequestPreview, RunTask, StartTask, StoreLayout,
       SendNodes, SendEdges, EndTask, vars, tableVars, coreVars
<1> QED BY <1>1, <1>2, <1>3, <1>4, <1>5, <1>6, SMTT(60) DEF Next, User, Disassembler

LEMMA InvInit == Init => IInv
<1> SUFFICES ASSUME Init PROVE IInv
  BY Zenon
<1>1. TypeOK
  BY TypeInit, Zenon
<1>2. UndoHistory
  BY SMTT(60) DEF Init, EmptyTable, Known, UndoHistory, AfterEdits, Initially
<1>3. SidebarFollowsNames /\ PostingUntouched
  BY SMTT(60) DEF Init, EmptyTable, Known, SidebarFollowsNames, PostingUntouched
<1>4. MenuFollowsStack
  <2>1. Posted("undoRedo") = {} /\ gui.canUndo = FALSE /\ gui.canRedo = FALSE
    BY SMTT(60) DEF Init, Posted
  <2>2. (undo_stack_top # 0) = FALSE /\ (undo_stack_top < Len(undo_stack)) = FALSE
    BY SMTT(60) DEF Init
  <2> QED BY <2>1, <2>2, Zenon DEF MenuFollowsStack
<1> QED BY <1>1, <1>2, <1>3, <1>4, Zenon DEF IInv

(***************************************************************************)
(* The inductive invariant holds in every session: whatever the user does, *)
(* however functions, layout tasks and events interleave with it.          *)
(***************************************************************************)
THEOREM Invariance == Spec => []IInv
<1>1. IInv /\ [Next]_vars => IInv'
  <2> SUFFICES ASSUME IInv, [Next]_vars PROVE IInv'
    BY Zenon
  <2>1. TypeOK'
    BY TypeStep, Zenon DEF IInv
  <2>2. UndoHistory'
    BY HistoryStep, Zenon DEF IInv
  <2> QED BY <2>1, <2>2, FollowsStep, Zenon DEF IInv
<1> QED BY <1>1, InvInit, PTL DEF Spec

(***************************************************************************)
(* Undo, redo and new edits (Panopticon::undo, redo, push_action) move     *)
(* through one history, for any number of functions and edits.             *)
(***************************************************************************)
THEOREM OneHistory == Spec => []UndoHistory
<1>1. IInv => UndoHistory
  BY Zenon DEF IInv
<1> QED BY <1>1, Invariance, PTL

(***************************************************************************)
(* The last update of canUndo and canRedo that is posted                   *)
(* (Qt::send_undo_redo_update) tells whether undo and redo would be        *)
(* accepted.                                                               *)
(***************************************************************************)
THEOREM MenuIsRight == Spec => []MenuFollowsStack
<1>1. IInv => MenuFollowsStack
  BY Zenon DEF IInv
<1> QED BY <1>1, Invariance, PTL

(***************************************************************************)
(* The last title posted to the sidebar (Qt::update_sidebar) is the name   *)
(* the function has, although the disassembly thread posts what it         *)
(* received and not what the session holds.                                *)
(***************************************************************************)
THEOREM SidebarIsRight == Spec => []SidebarFollowsNames
<1>1. IInv => SidebarFollowsNames
  BY Zenon DEF IInv
<1> QED BY <1>1, Invariance, PTL

(***************************************************************************)
(* What the layouts, the tasks and the graph show is right between any two *)
(* steps of the user, the disassembler, the pool and the GUI thread.       *)
(***************************************************************************)
THEOREM LayoutInvariance == Spec => []LayoutInv
<1>1. TypeOK /\ TypeOK' /\ LayoutInv /\ [Next]_vars => LayoutInv'
  BY FreshStep, Zenon
<1>2. IInv => TypeOK
  BY Zenon DEF IInv
<1> QED BY <1>1, <1>2, FreshInit, Invariance, PTL DEF Spec

(***************************************************************************)
(* The layout kept for a function (Panopticon::control_flow_layouts) shows *)
(* its comments, value and callees as they are, unless one of them changed *)
(* in a way `raced' names.                                                 *)
(***************************************************************************)
THEOREM LayoutsAreFresh == Spec => []LayoutsFresh
<1>1. LayoutInv => LayoutsFresh
  BY Zenon DEF LayoutInv
<1> QED BY <1>1, LayoutInvariance, PTL

(***************************************************************************)
(* The same for the graph the user looks at, once its layout task has sent *)
(* the nodes and the posted updates (Qt::send_function_node) are           *)
(* delivered.                                                              *)
(***************************************************************************)
THEOREM ViewIsFresh == Spec => []ViewFresh
<1>1. LayoutInv => ViewFresh
  BY Zenon DEF LayoutInv
<1> QED BY <1>1, LayoutInvariance, PTL

(***************************************************************************)
(* The layout indicator (Qt::send_layout_task) goes off once every task    *)
(* has ended, however many tasks were started and cancelled.               *)
(***************************************************************************)
THEOREM IndicatorGoesOff == Spec => []IndicatorOff
<1>1. LayoutInv => IndicatorOff
  BY Zenon DEF LayoutInv
<1> QED BY <1>1, LayoutInvariance, PTL

(***************************************************************************)
(* Every variable of a session keeps its type: the tables, the edits, the  *)
(* layouts, the tasks, the posted events and what the interface shows.     *)
(***************************************************************************)
THEOREM TypeCorrect == Spec => []TypeOK
<1>1. IInv => TypeOK
  BY Zenon DEF IInv
<1> QED BY <1>1, Invariance, PTL

=============================================================================
