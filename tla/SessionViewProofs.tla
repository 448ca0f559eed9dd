-------------------------- MODULE SessionViewProofs --------------------------
(***************************************************************************)
(* What the proofs about a session share: events that are posted and       *)
(* delivered, the parts of the type invariant, what an edit does.  Then    *)
(* that every step keeps what the menu and the sidebar will show once the  *)
(* events on their way are delivered.                                      *)
(***************************************************************************)
EXTENDS Session, TLAPS, SequenceTheorems

(* A set of events is posted completely, each of them once.                *)
LEMMA Listed ==
  ASSUME NEW S, NEW s \in Listings(S)
  PROVE  /\ s \in Seq(S)
         /\ \A x \in S : \E i \in DOMAIN s : s[i] = x
         /\ \A i, j \in DOMAIN s : s[i] = s[j] => i = j
<1>1. PICK n \in 0..Cardinality(Uuid) : s \in Bijection(1..n, S)
  BY Zenon DEF Listings
<1>2. n \in Nat
  BY SessionAssumption, SMTT(60)
<1>3. /\ s \in [1..n -> S] /\ IsInjective(s)
      /\ \A x \in S : \E i \in 1..n : s[i] = x
  BY <1>1, Zenon DEF Bijection, Injection, Surjection
<1>4. s \in Seq(S) /\ DOMAIN s = 1..n
  BY <1>2, <1>3, SeqDef, SMTT(60)
<1> QED BY <1>3, <1>4, Zenon DEF IsInjective

(* Posting puts events behind those that wait.                             *)
LEMMA Appending ==
  ASSUME NEW E, NEW s \in Seq(E), NEW t \in Seq(E)
  PROVE  /\ s \o t \in Seq(E)
         /\ DOMAIN s = 1..Len(s) /\ Len(s) \in Nat /\ Len(t) \in Nat
         /\ DOMAIN (s \o t) = 1..(Len(s) + Len(t))
         /\ \A i \in DOMAIN s : i \in DOMAIN (s \o t) /\ (s \o t)[i] = s[i]
         /\ \A i \in DOMAIN t : Len(s) + i \in DOMAIN (s \o t) /\ (s \o t)[Len(s) + i] = t[i]
         /\ \A i \in DOMAIN (s \o t) : i \in DOMAIN s \/ (i - Len(s) \in DOMAIN t /\ i > Len(s))
<1>1. /\ s \o t \in Seq(E) /\ Len(s \o t) = Len(s) + Len(t)
      /\ \A i \in 1..(Len(s) + Len(t)) : (s \o t)[i] = IF i <= Len(s) THEN s[i] ELSE t[i - Len(s)]
  BY ConcatProperties, Zenon
<1>2. /\ DOMAIN s = 1..Len(s) /\ DOMAIN t = 1..Len(t) /\ Len(s) \in Nat /\ Len(t) \in Nat
      /\ DOMAIN (s \o t) = 1..(Len(s) + Len(t))
  BY <1>1, LenProperties, Zenon
<1> QED BY <1>1, <1>2, SMTT(60)

(* Functions that differ from what the disassembler made in the name.      *)
Renamed(fs) ==
  /\ DOMAIN fs \subseteq Uuid
  /\ \A u \in DOMAIN fs : \E n \in Names : fs[u] = [Func[u] EXCEPT !.name = n]

(* Renaming changes the name and nothing else.                             *)
LEMMA RenamedFields ==
  ASSUME NEW fs, Renamed(fs), NEW u \in DOMAIN fs
  PROVE  /\ u \in Uuid /\ fs[u].name \in Names /\ fs[u].lines = Func[u].lines
         /\ fs[u].calls = Func[u].calls /\ Func[u].lines \subseteq Line
BY SessionAssumption, SMTT(60) DEF Renamed

(* The last name given counts.                                             *)
LEMMA RenamedAgain ==
  ASSUME NEW u \in Uuid, NEW n, NEW m
  PROVE  [[Func[u] EXCEPT !.name = n] EXCEPT !.name = m] = [Func[u] EXCEPT !.name = m]
BY SessionAssumption, Zenon

(* The text of a node has its type.                                        *)
LEMMA RenderTyped ==
  ASSUME NEW fs, Renamed(fs), NEW cm \in [Line -> Comment \cup {None}],
         NEW vs \in [Uuid -> Value \cup {None}], NEW u \in DOMAIN fs
  PROVE  Render(fs, cm, vs, u) \in NodeText(u)
<1>1. /\ u \in Uuid /\ fs[u].lines = Func[u].lines /\ fs[u].calls = Func[u].calls
      /\ Func[u].lines \subseteq Line
  BY RenamedFields, Zenon
<1>2. \A v \in DOMAIN fs : v \in Uuid /\ fs[v].name \in Names
  BY RenamedFields, Zenon
<1>3. [l \in fs[u].lines |-> cm[l]] \in [Func[u].lines -> Comment \cup {None}]
  BY <1>1, Zenon
<1>4. [a \in fs[u].calls |-> {<<v, fs[v].name>> : v \in {w \in DOMAIN fs : fs[w].start = ConstAddr[a]}}]
        \in [Func[u].calls -> SUBSET (Uuid \X Names)]
  BY <1>1, <1>2, SMTT(60)
<1> QED BY <1>1, <1>3, <1>4, Zenon DEF Render, NodeText

(* What is posted about a function is an event about it.                   *)
LEMMA Events ==
  ASSUME NEW K, NEW u \in K
  PROVE  /\ \A n \in Names : SidebarEvent(u, n) \in Event(K)
         /\ \A text \in NodeText(u) : NodeEvent(u, text) \in Event(K)
         /\ EdgesEvent(u) \in Event(K) /\ LayoutEvent(u) \in Event(K)
<1>1. \A n \in Names : SidebarEvent(u, n) \in [to : {"sidebar"}, uuid : K, name : Names]
  BY Zenon DEF SidebarEvent
<1>2. \A text \in NodeText(u) : NodeEvent(u, text) \in [to : {"insertNode"}, uuid : {u}, text : NodeText(u)]
  BY Zenon DEF NodeEvent
<1>3. EdgesEvent(u) \in [to : {"insertEdges"}, uuid : K] /\ LayoutEvent(u) \in [to : {"layoutTask"}, uuid : K \cup {None}]
  BY Zenon DEF EdgesEvent, LayoutEvent
<1> HIDE DEF NodeText
<1> QED BY <1>1, <1>2, <1>3, Zenon DEF Event

(* Events stay typed when more functions are known.                        *)
LEMMA MoreEvents ==
  ASSUME NEW S, NEW T, S \subseteq T, NEW s \in Seq(Event(S))
  PROVE  s \in Seq(Event(T))
<1>1. Event(S) \subseteq Event(T)
  BY SMTT(60) DEF Event
<1> HIDE DEF Event
<1> QED BY <1>1, SeqMonotonic, Zenon

(* update_control_flow_nodes posts nodes of functions that are shown.      *)
LEMMA NodesPosted ==
  ASSUME NEW fs, Renamed(fs), NEW cm \in [Line -> Comment \cup {None}],
         NEW vs \in [Uuid -> Value \cup {None}], subscribed \subseteq DOMAIN fs, NEW S,
         NEW s \in Listings(NodeEvents(S, fs, cm, vs))
  PROVE  s \in Seq(Event(DOMAIN fs)) /\ \A i \in DOMAIN s : s[i].to = "insertNode"
<1> DEFINE T == NodeEvents(S, fs, cm, vs)
<1>1. ASSUME NEW x \in T
      PROVE  x \in Event(DOMAIN fs) /\ x.to = "insertNode"
  <2>1. PICK u \in S \cap subscribed : x = NodeEvent(u, Render(fs, cm, vs, u))
    BY Zenon DEF NodeEvents
  <2>2. u \in DOMAIN fs /\ Render(fs, cm, vs, u) \in NodeText(u)
    BY RenderTyped, Zenon
  <2> QED BY <2>1, <2>2, SMTT(60) DEF NodeEvent, Event
<1> HIDE DEF T
<1>2. s \in Seq(T)
  BY Listed, Zenon DEF T
<1>3. T \subseteq Event(DOMAIN fs)
  BY <1>1, Zenon
<1>4. s \in Seq(Event(DOMAIN fs))
  <2> HIDE DEF Event
  <2> QED BY <1>2, <1>3, SeqMonotonic, Zenon
<1> QED BY <1>1, <1>2, <1>4, SMTT(60)

(* Refreshing keeps the layouts typed.                                     *)
LEMMA LayoutsTyped ==
  ASSUME NEW fs, Renamed(fs), NEW cm \in [Line -> Comment \cup {None}],
         NEW vs \in [Uuid -> Value \cup {None}], subscribed \subseteq DOMAIN fs, NEW S,
         DOMAIN layouts \subseteq DOMAIN fs, \A u \in DOMAIN layouts : layouts[u] \in NodeText(u)
  PROVE  LET ls == RefreshedLayouts(S, fs, cm, vs)
         IN  DOMAIN ls \subseteq DOMAIN fs /\ \A u \in DOMAIN ls : ls[u] \in NodeText(u)
<1> HIDE DEF NodeText
<1> QED BY RenderTyped, Zenon DEF RefreshedLayouts

(* The parts of the type invariant.                                        *)
TypeTables ==
  /\ opened \in {"no", "binary", "project"}
  /\ opened = "no" => Known = {} /\ arriving = {}
  /\ Renamed(functions)
  /\ arriving \subseteq Uuid \ Known /\ posting \in Known \cup {None}

TypeEdits ==
  /\ comments \in [Line -> Comment \cup {None}]
  /\ values \in [Uuid -> Value \cup {None}]
  /\ undo_stack \in Seq(Edit) /\ undo_stack_top \in 0..Len(undo_stack)
  /\ \A i \in DOMAIN undo_stack : undo_stack[i].key \in KeysOf(undo_stack[i].kind)

TypeLayouts ==
  /\ DOMAIN layouts \subseteq Known
  /\ \A u \in DOMAIN layouts : layouts[u] \in NodeText(u)
  /\ subscribed \subseteq Known

Task(u) ==
  [uuid : Known, cached : BOOLEAN, text : NodeText(u), edges : BOOLEAN,
   at : {"queued", "layout", "nodes", "edges", "done"}]

TypeTasks ==
  /\ acts \in 0..MaxActs /\ DOMAIN tasks \subseteq 1..acts
  /\ \A i \in DOMAIN tasks : tasks[i] \in Task(tasks[i].uuid)

TypeGui == gui \in Gui /\ (gui.nodes # None => gui.uuid # None)

(* The type invariant conjunct by conjunct, for the steps that keep most of it. *)
LEMMA Parts ==
  TypeOK <=> /\ TypeTables /\ TypeEdits /\ TypeLayouts /\ TypeTasks /\ TypeGui
             /\ events \in Seq(Event(Known)) /\ raced \subseteq Known /\ sent \in BOOLEAN
BY Zenon DEF TypeOK, TypeTables, TypeEdits, TypeLayouts, TypeTasks, TypeGui, Renamed, Known, Task

(* The same in the next state. *)
LEMMA PartsNext ==
  TypeOK' <=> /\ TypeTables' /\ TypeEdits' /\ TypeLayouts' /\ TypeTasks' /\ TypeGui'
              /\ events' \in Seq(Event(Known')) /\ raced' \subseteq Known' /\ sent' \in BOOLEAN
BY Zenon DEF TypeOK, TypeTables, TypeEdits, TypeLayouts, TypeTasks, TypeGui, Renamed, Known, Task

(* An edit has the fields of its kind. *)
LEMMA EditFields ==
  ASSUME NEW act \in Edit
  PROVE  /\ act.kind \in {"comment", "rename", "value"}
         /\ act.key \in Line \cup Uuid /\ act.function \in Uuid
         /\ act.before \in DataOf(act.kind) /\ act.after \in DataOf(act.kind)
BY SMTT(60) DEF Edit

(* Functions are never forgotten: what is left alone stays typed.          *)
LEMMA PartsKept ==
  ASSUME TypeOK, Known \subseteq Known'
  PROVE  /\ UNCHANGED <<comments, values, undo_stack, undo_stack_top>> => TypeEdits'
         /\ UNCHANGED <<layouts, subscribed>> => TypeLayouts'
         /\ UNCHANGED <<acts, tasks>> => TypeTasks'
         /\ UNCHANGED gui => TypeGui'
         /\ UNCHANGED raced => (raced \subseteq Known)'
         /\ UNCHANGED sent => sent' \in BOOLEAN
         /\ events \in Seq(Event(Known'))
<1> USE Parts
<1>1. UNCHANGED <<comments, values, undo_stack, undo_stack_top>> => TypeEdits'
  <2> SUFFICES ASSUME UNCHANGED <<comments, values, undo_stack, undo_stack_top>>, NEW i \in DOMAIN undo_stack
               PROVE  undo_stack[i].key \in KeysOf(undo_stack[i].kind)'
    BY Zenon DEF TypeEdits
  <2>1. undo_stack[i].key \in KeysOf(undo_stack[i].kind) /\ undo_stack[i] \in Edit
    BY SMTT(60) DEF TypeEdits
  <2>2. undo_stack[i].kind \in {"comment", "rename", "value"}
    BY <2>1, EditFields, Zenon
  <2> QED BY <2>1, <2>2, Zenon DEF KeysOf
<1>2. UNCHANGED <<layouts, subscribed>> => TypeLayouts'
  BY Zenon DEF TypeLayouts
<1>3. UNCHANGED <<acts, tasks>> => TypeTasks'
  <2> HIDE DEF NodeText
  <2> QED BY Zenon DEF TypeTasks, Task
<1>4. UNCHANGED gui => TypeGui'
  <2> DEFINE W(K) == UNION {[S -> Names] : S \in SUBSET K}
  <2>1. W(Known) \subseteq W(Known')
    BY Zenon
  <2> HIDE DEF W
  <2>2. Gui \subseteq Gui'
    BY <2>1, Zenon DEF Gui, W
  <2> QED BY <2>2, Zenon DEF TypeGui
<1>5. events \in Seq(Event(Known'))
  BY MoreEvents, Zenon
<1> QED BY <1>1, <1>2, <1>3, <1>4, <1>5, Zenon

(* Where the events an edit posts end up.                                  *)
LEMMA PostedTogether ==
  ASSUME NEW E, NEW s \in Seq(E), NEW n \in Seq(E), NEW t \in Seq(E), NEW x \in E
  PROVE  LET e == s \o n \o t \o <<x>>
         IN  /\ e \in Seq(E)
             /\ Len(s) \in Nat /\ Len(n) \in Nat /\ Len(t) \in Nat
             /\ DOMAIN s = 1..Len(s)
             /\ DOMAIN e = 1..(Len(s) + Len(n) + Len(t) + 1)
             /\ \A i \in 1..Len(s) : e[i] = s[i]
             /\ \A i \in 1..Len(n) : e[Len(s) + i] = n[i]
             /\ \A i \in 1..Len(t) : e[Len(s) + Len(n) + i] = t[i]
             /\ e[Len(s) + Len(n) + Len(t) + 1] = x
<1>1. <<x>> \in Seq(E) /\ Len(<<x>>) = 1 /\ <<x>>[1] = x
  BY SMTT(60)
<1>2. /\ s \o n \in Seq(E) /\ Len(s \o n) = Len(s) + Len(n) /\ Len(s) \in Nat /\ Len(n) \in Nat
      /\ DOMAIN s = 1..Len(s)
      /\ \A i \in 1..Len(s) : (s \o n)[i] = s[i]
      /\ \A i \in 1..Len(n) : (s \o n)[Len(s) + i] = n[i]
  BY Appending, LenProperties, SMTT(60)
<1> DEFINE sn == s \o n
<1> HIDE DEF sn
<1>3. /\ sn \o t \in Seq(E) /\ Len(sn \o t) = Len(sn) + Len(t) /\ Len(t) \in Nat
      /\ \A i \in 1..Len(sn) : (sn \o t)[i] = sn[i]
      /\ \A i \in 1..Len(t) : (sn \o t)[Len(sn) + i] = t[i]
  BY <1>2, Appending, LenProperties, SMTT(60) DEF sn
<1> DEFINE snt == sn \o t
<1> HIDE DEF snt
<1>4. /\ snt \o <<x>> \in Seq(E) /\ DOMAIN (snt \o <<x>>) = 1..(Len(snt) + 1)
      /\ \A i \in 1..Len(snt) : (snt \o <<x>>)[i] = snt[i]
      /\ (snt \o <<x>>)[Len(snt) + 1] = x
  BY <1>1, <1>3, Appending, LenProperties, SMTT(60) DEF snt
<1> DEFINE e == snt \o <<x>>
<1> HIDE DEF e
<1>5. /\ e \in Seq(E)
      /\ DOMAIN e = 1..(Len(s) + Len(n) + Len(t) + 1)
      /\ \A i \in 1..Len(s) : e[i] = s[i]
      /\ \A i \in 1..Len(n) : e[Len(s) + i] = n[i]
      /\ \A i \in 1..Len(t) : e[Len(s) + Len(n) + i] = t[i]
      /\ e[Len(s) + Len(n) + Len(t) + 1] = x
  BY <1>2, <1>3, <1>4, SMTT(60) DEF sn, snt, e
<1> QED BY <1>2, <1>3, <1>5, Zenon DEF sn, snt, e

(* Undoing, redoing and editing keep everything typed and post the flags   *)
(* last, a new title before them and nothing but nodes before that.        *)
LEMMA Performed ==
  ASSUME TypeOK, NEW act \in Edit, act.key \in KeysOf(act.kind), NEW val \in DataOf(act.kind),
         NEW flags \in [to : {"undoRedo"}, undo : BOOLEAN, redo : BOOLEAN],
         Perform(act, val, flags)
  PROVE  /\ Known' = Known /\ TypeTables'
         /\ comments' \in [Line -> Comment \cup {None}]
         /\ values' \in [Uuid -> Value \cup {None}]
         /\ TypeLayouts' /\ raced' \subseteq Known'
         /\ \E n \in Seq(Event(Known)) :
              /\ \A i \in DOMAIN n : n[i].to = "insertNode"
              /\ Titles(act, val) \in Seq(Event(Known))
              /\ events' = events \o n \o Titles(act, val) \o <<flags>>
<1> USE Parts
<1> DEFINE fs == IF act.kind = "rename" THEN [functions EXCEPT ![act.key].name = val] ELSE functions
           cm == IF act.kind = "comment" THEN [comments EXCEPT ![act.key] = val] ELSE comments
           vs == IF act.kind = "value" THEN [values EXCEPT ![act.key] = val] ELSE values
           S  == IF act.kind = "rename" THEN Callers(act.key) ELSE {act.function}
<1>1. /\ functions' = fs /\ comments' = cm /\ values' = vs
      /\ layouts' = RefreshedLayouts(S, fs, cm, vs)
      /\ \E nodes \in Listings(NodeEvents(S, fs, cm, vs)) :
           events' = events \o nodes \o Titles(act, val) \o <<flags>>
      /\ UNCHANGED <<opened, arriving, posting, subscribed>>
  BY Zenon DEF Perform, taskVars
<1>2. raced' \subseteq DOMAIN functions'
  BY Zenon DEF Perform, NoteRace
<1>3. act.kind \in {"comment", "rename", "value"}
  BY EditFields, Zenon
<1>4. Renamed(fs) /\ DOMAIN fs = Known
  <2>1. CASE act.kind # "rename"
    BY <2>1, Zenon DEF TypeTables, Known
  <2>2. CASE act.kind = "rename"
    <3>1. act.key \in Known /\ val \in Names
      BY <2>2, Zenon DEF KeysOf, DataOf
    <3>2. fs = [functions EXCEPT ![act.key].name = val]
      BY <2>2, Zenon
    <3>3. PICK old \in Names : functions[act.key] = [Func[act.key] EXCEPT !.name = old]
      BY <3>1, Zenon DEF TypeTables, Renamed, Known
    <3>4. DOMAIN fs = Known /\ \A u \in Known \ {act.key} : fs[u] = functions[u]
      BY <3>2, Zenon DEF Known
    <3>5. fs[act.key] = [functions[act.key] EXCEPT !.name = val]
      BY <3>1, <3>2, Zenon DEF Known
    <3>6. fs[act.key] = [Func[act.key] EXCEPT !.name = val]
      <4>1. act.key \in Uuid
        BY <3>1, Zenon DEF TypeTables, Renamed, Known
      <4> QED BY <3>3, <3>5, <4>1, RenamedAgain, Zenon
    <3> HIDE DEF fs
    <3>7. ASSUME NEW u \in Known
          PROVE  \E n \in Names : fs[u] = [Func[u] EXCEPT !.name = n]
      <4>1. CASE u = act.key
        BY <4>1, <3>1, <3>6, Zenon
      <4>2. CASE u # act.key
        BY <4>2, <3>4, Zenon DEF TypeTables, Renamed, Known
      <4> QED BY <4>1, <4>2, Zenon
    <3>8. Known \subseteq Uuid
      BY Zenon DEF TypeTables, Renamed, Known
    <3> QED BY <3>4, <3>7, <3>8, Zenon DEF Renamed
  <2> QED BY <2>1, <2>2, Zenon
<1>5. cm \in [Line -> Comment \cup {None}]
  BY <1>3, Zenon DEF TypeEdits, KeysOf, DataOf
<1>6. vs \in [Uuid -> Value \cup {None}]
  BY <1>3, Zenon DEF TypeEdits, KeysOf, DataOf
<1>7. Titles(act, val) \in Seq(Event(Known))
  <2>1. CASE act.kind = "rename"
    <3>1. act.key \in Known /\ val \in Names
      BY <2>1, Zenon DEF KeysOf, DataOf
    <3>2. SidebarEvent(act.key, val) \in Event(Known)
      BY <3>1, Zenon DEF SidebarEvent, Event
    <3> QED BY <2>1, <3>2, SMTT(60) DEF Titles
  <2>2. CASE act.kind # "rename"
    BY <2>2, SMTT(60) DEF Titles
  <2> QED BY <2>1, <2>2, Zenon
<1> HIDE DEF fs, cm, vs, S
<1>8. Known' = Known /\ TypeTables'
  BY <1>1, <1>4, Zenon DEF TypeTables, Known, Renamed
<1>9. TypeLayouts'
  BY <1>1, <1>4, <1>5, <1>6, <1>8, LayoutsTyped, Zenon DEF TypeLayouts, Known
<1>10. PICK n \in Listings(NodeEvents(S, fs, cm, vs)) :
         events' = events \o n \o Titles(act, val) \o <<flags>>
  BY <1>1, Zenon
<1>11. n \in Seq(Event(Known)) /\ \A i \in DOMAIN n : n[i].to = "insertNode"
  BY <1>4, <1>5, <1>6, NodesPosted, SMTT(60) DEF TypeLayouts
<1> QED BY <1>1, <1>2, <1>5, <1>6, <1>7, <1>8, <1>9, <1>10, <1>11, Zenon DEF Known

(* What an edit of this kind and key finds now.                            *)
Now(kind, key) ==
  CASE kind = "comment" -> comments[key]
    [] kind = "rename"  -> functions[key].name
    [] kind = "value"   -> values[key]

(* An edit that the user may do remembers what it replaces.                *)
EditOf(act) ==
  /\ act \in Edit /\ act.key \in KeysOf(act.kind)
  /\ act.before = Now(act.kind, act.key)
  /\ act.kind = "rename" => act.key \in DOMAIN gui.sidebar
  /\ act.kind = "value" => act.key = act.function

(* The interface shows typed nodes and lists known functions.              *)
LEMMA GuiFields ==
  ASSUME TypeOK
  PROVE  /\ gui.uuid \in Known \cup {None} /\ gui.preview \in Known \cup {None}
         /\ gui.nodes # None => gui.uuid \in Known /\ \E u \in Uuid : gui.nodes \in NodeText(u)
         /\ DOMAIN gui.sidebar \subseteq Known
         /\ \A u \in DOMAIN gui.sidebar : gui.sidebar[u] \in Names
<1>1. gui \in Gui /\ (gui.nodes # None => gui.uuid # None)
  BY Parts, Zenon DEF TypeGui
<1>2. /\ gui.uuid \in Known \cup {None} /\ gui.preview \in Known \cup {None}
      /\ gui.nodes \in {None} \cup UNION {NodeText(u) : u \in Uuid}
      /\ gui.sidebar \in UNION {[S -> Names] : S \in SUBSET Known}
  BY <1>1, Zenon DEF Gui
<1> QED BY <1>1, <1>2, Zenon

(* comment_on makes an edit that is typed. *)
LEMMA CommentEdits ==
  ASSUME TypeOK, CommentOn
  PROVE  UserActs /\ \E act : EditOf(act) /\ PushAction(act)
<1>1. PICK l \in DOMAIN gui.nodes.comment, c \in Comment :
        \E u \in {v \in Known : l \in functions[v].lines} :
          PushAction([kind |-> "comment", key |-> l, function |-> u,
                      before |-> comments[l], after |-> c])
  BY Zenon DEF CommentOn
<1>2. PICK u \in Known :
        PushAction([kind |-> "comment", key |-> l, function |-> u,
                    before |-> comments[l], after |-> c])
  BY <1>1, Zenon
<1> DEFINE act == [kind |-> "comment", key |-> l, function |-> u,
                   before |-> comments[l], after |-> c]
<1>3. l \in Line /\ u \in Uuid
  <2>1. PICK v \in Uuid : gui.nodes \in NodeText(v)
    BY GuiFields, Zenon DEF CommentOn
  <2>2. DOMAIN gui.nodes.comment = Func[v].lines
    BY <2>1, Zenon DEF NodeText
  <2> QED BY <2>2, SessionAssumption, Parts, Zenon DEF TypeTables, Renamed, Known
<1>4. comments[l] \in Comment \cup {None} /\ c \in Comment \cup {None}
  BY <1>3, Parts, Zenon DEF TypeEdits
<1>5. act \in Edit
  BY <1>3, <1>4, SMTT(60) DEF Edit, DataOf
<1>6. /\ act.key \in KeysOf(act.kind) /\ act.before = Now(act.kind, act.key)
      /\ act.kind # "rename" /\ act.kind # "value"
  BY <1>3, Zenon DEF KeysOf, Now
<1> QED BY <1>2, <1>5, <1>6, Zenon DEF EditOf, CommentOn

(* rename_function makes an edit that is typed. *)
LEMMA RenameEdits ==
  ASSUME TypeOK, RenameFunction
  PROVE  UserActs /\ \E act : EditOf(act) /\ PushAction(act)
<1>1. PICK u \in DOMAIN gui.sidebar, n \in NewName :
        PushAction([kind |-> "rename", key |-> u, function |-> u,
                    before |-> functions[u].name, after |-> n])
  BY Zenon DEF RenameFunction
<1> DEFINE act == [kind |-> "rename", key |-> u, function |-> u,
                   before |-> functions[u].name, after |-> n]
<1>2. u \in Known
  BY GuiFields, Zenon
<1>3. u \in Uuid /\ functions[u].name \in Names /\ n \in Names
  BY <1>2, RenamedFields, Parts, Zenon DEF TypeTables, Known, Names
<1>4. act \in Edit
  BY <1>3, SMTT(60) DEF Edit, DataOf
<1>5. /\ act.key \in KeysOf(act.kind) /\ act.before = Now(act.kind, act.key)
      /\ act.key \in DOMAIN gui.sidebar /\ act.kind # "value"
  BY <1>2, Zenon DEF KeysOf, Now
<1> QED BY <1>1, <1>4, <1>5, Zenon DEF EditOf, RenameFunction

(* set_value_for makes an edit that is typed. *)
LEMMA ValueEdits ==
  ASSUME TypeOK, SetValueFor
  PROVE  UserActs /\ \E act : EditOf(act) /\ PushAction(act)
<1>1. PICK v \in Value \cup {None} :
        PushAction([kind |-> "value", key |-> gui.uuid, function |-> gui.uuid,
                    before |-> values[gui.uuid], after |-> v])
  BY Zenon DEF SetValueFor
<1> DEFINE act == [kind |-> "value", key |-> gui.uuid, function |-> gui.uuid,
                   before |-> values[gui.uuid], after |-> v]
<1>2. gui.uuid \in Uuid
  BY GuiFields, Parts, Zenon DEF SetValueFor, TypeTables, Renamed, Known
<1>3. values[gui.uuid] \in Value \cup {None}
  BY <1>2, Parts, Zenon DEF TypeEdits
<1>4. act \in Edit
  BY <1>2, <1>3, SMTT(60) DEF Edit, DataOf
<1>5. /\ act.key \in KeysOf(act.kind) /\ act.before = Now(act.kind, act.key)
      /\ act.kind # "rename" /\ act.key = act.function
  BY <1>2, Zenon DEF KeysOf, Now
<1> QED BY <1>1, <1>4, <1>5, Zenon DEF EditOf, SetValueFor

(* The edits below the top stay, what was undone is dropped.               *)
LEMMA Pushed ==
  ASSUME TypeOK, NEW act \in Edit
  PROVE  LET s == Append(SubSeq(undo_stack, 1, undo_stack_top), act)
         IN  /\ s \in Seq(Edit) /\ Len(s) = undo_stack_top + 1 /\ DOMAIN s = 1..(undo_stack_top + 1)
             /\ \A i \in 1..undo_stack_top : s[i] = undo_stack[i]
             /\ s[undo_stack_top + 1] = act
<1>1. undo_stack \in Seq(Edit) /\ undo_stack_top \in 0..Len(undo_stack) /\ Len(undo_stack) \in Nat
  BY Parts, LenProperties, Zenon DEF TypeEdits
<1> DEFINE b == SubSeq(undo_stack, 1, undo_stack_top)
<1>2. /\ b \in Seq(Edit) /\ Len(b) = undo_stack_top
      /\ \A i \in 1..undo_stack_top : b[i] = undo_stack[i]
  <2> HIDE DEF Edit
  <2> QED BY <1>1, SMTT(60)
<1> HIDE DEF b, Edit
<1>3. /\ Append(b, act) \in Seq(Edit) /\ Len(Append(b, act)) = undo_stack_top + 1
      /\ \A i \in 1..undo_stack_top : Append(b, act)[i] = b[i]
      /\ Append(b, act)[undo_stack_top + 1] = act
  BY <1>1, <1>2, AppendProperties, SMTT(60)
<1>4. DOMAIN Append(b, act) = 1..(undo_stack_top + 1)
  BY <1>3, LenProperties, Zenon
<1> QED BY <1>2, <1>3, <1>4, Zenon DEF b

(* One lemma for the steps of each actor: the type invariant is kept.      *)
Flags == [to : {"undoRedo"}, undo : BOOLEAN, redo : BOOLEAN]

(* A layout task has the fields of its type. *)
LEMMA TaskFields ==
  ASSUME TypeOK, NEW i \in DOMAIN tasks
  PROVE  /\ tasks[i].uuid \in Known /\ tasks[i].text \in NodeText(tasks[i].uuid)
         /\ \A at \in {"queued", "layout", "nodes", "edges", "done"} :
              /\ [tasks[i] EXCEPT !.at = at] \in Task(tasks[i].uuid)
              /\ [tasks[i] EXCEPT !.at = at].uuid = tasks[i].uuid
<1>1. tasks[i] \in Task(tasks[i].uuid)
  BY Parts, Zenon DEF TypeTasks
<1> HIDE DEF NodeText
<1> QED BY <1>1, Zenon DEF Task

(* The first event, and where the others are once it is delivered.         *)
LEMMA Delivery ==
  ASSUME TypeOK, Deliver
  PROVE  /\ Len(events) \in Nat \ {0} /\ DOMAIN events = 1..Len(events)
         /\ events[1] \in Event(Known) /\ gui' = Delivered(events[1])
         /\ events' \in Seq(Event(Known)) /\ DOMAIN events' = 1..(Len(events) - 1)
         /\ \A i \in 1..(Len(events) - 1) : events'[i] = events[i + 1]
<1>1. events \in Seq(Event(Known)) /\ events # <<>> /\ gui' = Delivered(Head(events)) /\ events' = Tail(events)
  BY Parts, Zenon DEF Deliver
<1> HIDE DEF Event
<1>2. Len(events) \in Nat \ {0} /\ DOMAIN events = 1..Len(events) /\ Head(events) = events[1]
  BY <1>1, EmptySeq, LenProperties, HeadTailProperties, SMTT(60)
<1>3. /\ Tail(events) \in Seq(Event(Known)) /\ Len(Tail(events)) = Len(events) - 1
      /\ \A i \in 1..(Len(events) - 1) : Tail(events)[i] = events[i + 1]
  BY <1>1, HeadTailProperties, Zenon
<1> QED BY <1>1, <1>2, <1>3, LenProperties, SMTT(60)

(* Each event changes its part of the interface.                           *)
LEMMA DeliveredFields ==
  ASSUME TypeOK, NEW e \in Event(Known)
  PROVE  /\ Delivered(e) \in Gui
         /\ Delivered(e).nodes # None => Delivered(e).uuid # None
         /\ Delivered(e).sidebar = IF e.to = "sidebar" THEN Put(gui.sidebar, e.uuid, e.name) ELSE gui.sidebar
         /\ Delivered(e).canUndo = IF e.to = "undoRedo" THEN e.undo ELSE gui.canUndo
         /\ Delivered(e).canRedo = IF e.to = "undoRedo" THEN e.redo ELSE gui.canRedo
         /\ Delivered(e).uuid = gui.uuid
         /\ Delivered(e).nodes = IF e.to = "insertNode" /\ e.uuid = gui.uuid THEN e.text ELSE gui.nodes
         /\ Delivered(e).layoutTask = IF e.to = "layoutTask" THEN e.uuid ELSE gui.layoutTask
<1>1. gui \in Gui /\ (gui.nodes # None => gui.uuid # None) /\ Known \subseteq Uuid /\ None \notin Uuid
  BY Parts, SessionAssumption, Zenon DEF TypeGui, TypeTables, Renamed, Known
<1> DEFINE texts == {None} \cup UNION {NodeText(u) : u \in Uuid}
<1>2. gui \in [uuid : Known \cup {None}, nodes : texts, edges : BOOLEAN,
               preview : Known \cup {None}, previewNode : texts, layoutTask : Known \cup {None},
               sidebar : UNION {[S -> Names] : S \in SUBSET Known},
               canUndo : BOOLEAN, canRedo : BOOLEAN]
  BY <1>1, Zenon DEF Gui
<1>3. CASE \E u \in Known : e \in [to : {"insertNode"}, uuid : {u}, text : NodeText(u)]
  <2>1. e.to = "insertNode" /\ e.uuid \in Known /\ e.text \in texts
    BY <1>1, <1>3, Zenon
  <2>2. Delivered(e) = InsertNode(e)
    BY <2>1, Zenon DEF Delivered
  <2> HIDE DEF texts
  <2> DEFINE n == IF e.uuid = gui.uuid THEN e.text ELSE gui.nodes
             p == IF gui.preview = e.uuid /\ ~(e.uuid = gui.uuid /\ gui.nodes # None)
                    THEN e.text ELSE gui.previewNode
  <2>3. Delivered(e) = [gui EXCEPT !.nodes = n, !.previewNode = p]
    BY <2>2, Zenon DEF InsertNode
  <2>4. n \in texts /\ p \in texts /\ (n # None => gui.nodes # None \/ e.uuid = gui.uuid)
    BY <1>2, <2>1, Zenon
  <2> HIDE DEF n, p
  <2>5. Delivered(e) \in Gui
    BY <1>2, <2>3, <2>4, Zenon DEF Gui, texts
  <2>6. Delivered(e).nodes = IF e.uuid = gui.uuid THEN e.text ELSE gui.nodes
    BY <1>2, <2>3, Zenon DEF n
  <2> QED BY <1>1, <1>2, <2>1, <2>3, <2>4, <2>5, <2>6, Zenon
<1>4. CASE e \in [to : {"insertEdges"}, uuid : Known]
  <2>1. e.to = "insertEdges" /\ Delivered(e) = [gui EXCEPT !.edges = @ \/ e.uuid = gui.uuid]
    BY <1>4, Zenon DEF Delivered
  <2>2. PICK b \in BOOLEAN : Delivered(e) = [gui EXCEPT !.edges = b]
    BY <2>1, Zenon
  <2>3. Delivered(e) \in Gui
    BY <1>2, <2>2, Zenon DEF Gui
  <2> QED BY <1>1, <1>2, <2>1, <2>2, <2>3, Zenon
<1>5. CASE e \in [to : {"sidebar"}, uuid : Known, name : Names]
  <2>1. e.to = "sidebar" /\ Delivered(e) = [gui EXCEPT !.sidebar = Put(@, e.uuid, e.name)]
    BY <1>5, Zenon DEF Delivered
  <2>2. Put(gui.sidebar, e.uuid, e.name) \in UNION {[S -> Names] : S \in SUBSET Known}
    <3>1. PICK S \in SUBSET Known : gui.sidebar \in [S -> Names]
      BY <1>2, Zenon
    <3>2. Put(gui.sidebar, e.uuid, e.name) \in [S \cup {e.uuid} -> Names] /\ S \cup {e.uuid} \in SUBSET Known
      BY <1>5, <3>1, Zenon DEF Put
    <3> QED BY <3>2, Zenon
  <2> DEFINE p == Put(gui.sidebar, e.uuid, e.name)
  <2>3. Delivered(e) = [gui EXCEPT !.sidebar = p]
    BY <1>2, <2>1, Zenon
  <2> HIDE DEF p
  <2>4. Delivered(e) \in Gui
    BY <1>2, <2>2, <2>3, Zenon DEF Gui, p
  <2>5. Delivered(e).sidebar = p
    BY <1>2, <2>3, Zenon
  <2>6. /\ Delivered(e).nodes = gui.nodes /\ Delivered(e).uuid = gui.uuid
        /\ Delivered(e).canUndo = gui.canUndo /\ Delivered(e).canRedo = gui.canRedo
        /\ Delivered(e).layoutTask = gui.layoutTask
    BY <1>2, <2>3, Zenon
  <2> QED BY <1>1, <2>1, <2>4, <2>5, <2>6, Zenon DEF p
<1>6. CASE e \in [to : {"layoutTask"}, uuid : Known \cup {None}]
  <2>1. e.to = "layoutTask" /\ Delivered(e) = [gui EXCEPT !.layoutTask = e.uuid]
    BY <1>6, Zenon DEF Delivered
  <2>2. Delivered(e) \in Gui
    BY <1>2, <1>6, <2>1, Zenon DEF Gui
  <2> QED BY <1>1, <1>2, <2>1, <2>2, Zenon
<1>7. CASE e \in [to : {"undoRedo"}, undo : BOOLEAN, redo : BOOLEAN]
  <2>1. e.to = "undoRedo" /\ Delivered(e) = [gui EXCEPT !.canUndo = e.undo, !.canRedo = e.redo]
    BY <1>7, Zenon DEF Delivered
  <2>2. Delivered(e) \in Gui
    BY <1>2, <1>7, <2>1, Zenon DEF Gui
  <2> QED BY <1>1, <1>2, <2>1, <2>2, Zenon
<1> QED BY <1>3, <1>4, <1>5, <1>6, <1>7, Zenon DEF Event

(* What an edit, done or undone, changes.                                  *)
LEMMA Changed ==
  ASSUME TypeOK, NEW act \in Edit, act.key \in KeysOf(act.kind), NEW val, NEW flags,
         Perform(act, val, flags)
  PROVE  /\ \A l \in Line : comments'[l] = IF act.kind = "comment" /\ act.key = l THEN val ELSE comments[l]
         /\ \A u \in Known : functions'[u].name =
              IF act.kind = "rename" /\ act.key = u THEN val ELSE functions[u].name
         /\ \A u \in Uuid : values'[u] = IF act.kind = "value" /\ act.key = u THEN val ELSE values[u]
         /\ Known' = Known
<1>1. /\ functions' = IF act.kind = "rename" THEN [functions EXCEPT ![act.key].name = val] ELSE functions
      /\ comments' = IF act.kind = "comment" THEN [comments EXCEPT ![act.key] = val] ELSE comments
      /\ values' = IF act.kind = "value" THEN [values EXCEPT ![act.key] = val] ELSE values
  BY Zenon DEF Perform
<1>2. comments \in [Line -> Comment \cup {None}] /\ values \in [Uuid -> Value \cup {None}]
  BY Parts, Zenon DEF TypeEdits
<1>3. \A u \in Known : functions'[u].name =
        IF act.kind = "rename" /\ act.key = u THEN val ELSE functions[u].name
  <2> SUFFICES ASSUME NEW u \in Known
               PROVE  functions'[u].name = IF act.kind = "rename" /\ act.key = u THEN val ELSE functions[u].name
    BY Zenon
  <2>1. CASE act.kind = "rename" /\ act.key = u
    <3>1. PICK n \in Names : functions[u] = [Func[u] EXCEPT !.name = n]
      BY Parts, Zenon DEF TypeTables, Renamed, Known
    <3>2. functions'[u] = [functions[u] EXCEPT !.name = val] /\ u \in Uuid
      BY <1>1, <2>1, Parts, Zenon DEF Known, TypeTables, Renamed
    <3>3. functions'[u] = [Func[u] EXCEPT !.name = val]
      BY <3>1, <3>2, RenamedAgain, Zenon
    <3> QED BY <2>1, <3>2, <3>3, SessionAssumption, SMTT(60)
  <2>2. CASE ~(act.kind = "rename" /\ act.key = u)
    BY <1>1, <2>2, Zenon DEF Known
  <2> QED BY <2>1, <2>2, Zenon
<1>4. Known' = Known
  BY <1>1, Zenon DEF Known
<1>5. \A l \in Line : comments'[l] = IF act.kind = "comment" /\ act.key = l THEN val ELSE comments[l]
  BY <1>1, <1>2, Zenon
<1>6. \A u \in Uuid : values'[u] = IF act.kind = "value" /\ act.key = u THEN val ELSE values[u]
  BY <1>1, <1>2, Zenon
<1> QED BY <1>3, <1>4, <1>5, <1>6, Zenon
-----------------------------------------------------------------------------
(* MenuFollowsStack and SidebarFollowsNames for given events.              *)
Menu(e, canUndo, canRedo, undo, redo) ==
  LET P == {i \in DOMAIN e : e[i].to = "undoRedo"}
  IN  IF P = {} THEN canUndo = undo /\ canRedo = redo
      ELSE \E i \in P : (\A j \in P : j <= i) /\ e[i].undo = undo /\ e[i].redo = redo

Title(e, sidebar, u, name) ==
  LET P == {i \in DOMAIN e : e[i].to = "sidebar" /\ e[i].uuid = u}
  IN  IF P = {} THEN u \in DOMAIN sidebar /\ sidebar[u] = name
      ELSE \E i \in P : (\A j \in P : j <= i) /\ e[i].name = name

(* What the menu and the sidebar follow, conjunct by conjunct. *)
LEMMA Following ==
  /\ MenuFollowsStack <=>
       Menu(events, gui.canUndo, gui.canRedo, undo_stack_top # 0, undo_stack_top < Len(undo_stack))
  /\ SidebarFollowsNames <=>
       \A u \in Known \ {posting} : Title(events, gui.sidebar, u, functions[u].name)
<1>1. MenuFollowsStack <=>
        Menu(events, gui.canUndo, gui.canRedo, undo_stack_top # 0, undo_stack_top < Len(undo_stack))
  BY Zenon DEF MenuFollowsStack, Posted, Menu
<1>2. SidebarFollowsNames <=>
        \A u \in Known \ {posting} : Title(events, gui.sidebar, u, functions[u].name)
  BY Zenon DEF SidebarFollowsNames, Title
<1> QED BY <1>1, <1>2, Zenon

(* The same in the next state. *)
LEMMA FollowingNext ==
  /\ MenuFollowsStack' <=>
       Menu(events', gui'.canUndo, gui'.canRedo, undo_stack_top' # 0, undo_stack_top' < Len(undo_stack'))
  /\ SidebarFollowsNames' <=>
       \A u \in Known' \ {posting'} : Title(events', gui'.sidebar, u, functions'[u].name)
<1>1. MenuFollowsStack' <=>
        Menu(events', gui'.canUndo, gui'.canRedo, undo_stack_top' # 0, undo_stack_top' < Len(undo_stack'))
  BY Zenon DEF MenuFollowsStack, Posted, Menu
<1>2. SidebarFollowsNames' <=>
        \A u \in Known' \ {posting'} : Title(events', gui'.sidebar, u, functions'[u].name)
  BY Zenon DEF SidebarFollowsNames, Title
<1> QED BY <1>1, <1>2, Zenon

(* What is posted comes behind what was posted before. *)
LEMMA Appended ==
  ASSUME NEW E, NEW s \in Seq(E), NEW t \in Seq(E)
  PROVE  /\ \A i \in DOMAIN s : i \in DOMAIN (s \o t) /\ (s \o t)[i] = s[i]
         /\ \A i \in DOMAIN (s \o t) :
              i \in DOMAIN s \/ (i - Len(s) \in DOMAIN t /\ (s \o t)[i] = t[i - Len(s)])
<1>1. Len(s) \in Nat /\ DOMAIN (s \o t) = 1..(Len(s) + Len(t)) /\ Len(t) \in Nat
  BY Appending, SMTT(60)
<1>2. /\ \A i \in DOMAIN s : i \in DOMAIN (s \o t) /\ (s \o t)[i] = s[i]
      /\ \A i \in DOMAIN t : (s \o t)[Len(s) + i] = t[i]
      /\ \A i \in DOMAIN (s \o t) : i \in DOMAIN s \/ i - Len(s) \in DOMAIN t
  BY Appending, SMTT(60)
<1>3. \A i \in DOMAIN (s \o t) : Len(s) + (i - Len(s)) = i
  BY <1>1, SMTT(60)
<1> QED BY <1>2, <1>3, Zenon

(* No title of a function among two lists of events, none among both.      *)
LEMMA NoTitle ==
  ASSUME NEW E, NEW s \in Seq(E), NEW t \in Seq(E), NEW u,
         \A i \in DOMAIN s : s[i].to = "sidebar" => s[i].uuid # u,
         \A i \in DOMAIN t : t[i].to = "sidebar" => t[i].uuid # u
  PROVE  \A i \in DOMAIN (s \o t) : (s \o t)[i].to = "sidebar" => (s \o t)[i].uuid # u
<1> SUFFICES ASSUME NEW i \in DOMAIN (s \o t)
             PROVE  (s \o t)[i].to = "sidebar" => (s \o t)[i].uuid # u
  BY Zenon
<1> DEFINE r == s \o t
<1>0. /\ \A j \in DOMAIN s : r[j] = s[j]
      /\ \A j \in DOMAIN r : j \in DOMAIN s \/ (j - Len(s) \in DOMAIN t /\ r[j] = t[j - Len(s)])
  BY Appended, ZenonT(60)
<1> HIDE DEF r
<1>1. \/ i \in DOMAIN s /\ r[i] = s[i]
      \/ i - Len(s) \in DOMAIN t /\ r[i] = t[i - Len(s)]
  BY <1>0, ZenonT(60) DEF r
<1>2. CASE i \in DOMAIN s /\ r[i] = s[i]
  BY <1>2, Zenon DEF r
<1>3. CASE i - Len(s) \in DOMAIN t /\ r[i] = t[i - Len(s)]
  BY <1>3, Zenon DEF r
<1> QED BY <1>1, <1>2, <1>3, Zenon

(* Events for others do not matter.                                        *)
LEMMA MenuBefore ==
  ASSUME NEW E, NEW s \in Seq(E), NEW t \in Seq(E), \A i \in DOMAIN t : t[i].to # "undoRedo",
         NEW canUndo, NEW canRedo, NEW undo, NEW redo, Menu(s, canUndo, canRedo, undo, redo)
  PROVE  Menu(s \o t, canUndo, canRedo, undo, redo)
<1>1. {i \in DOMAIN (s \o t) : (s \o t)[i].to = "undoRedo"} = {i \in DOMAIN s : s[i].to = "undoRedo"}
  BY Appended, SMTT(60)
<1>2. \A i \in DOMAIN s : (s \o t)[i] = s[i]
  BY Appending, SMTT(60)
<1> QED BY <1>1, <1>2, Zenon DEF Menu

(* Events that are no titles do not change what the sidebar will show. *)
LEMMA TitleBefore ==
  ASSUME NEW E, NEW s \in Seq(E), NEW t \in Seq(E), NEW u,
         \A i \in DOMAIN t : t[i].to = "sidebar" => t[i].uuid # u,
         NEW sidebar, NEW name, Title(s, sidebar, u, name)
  PROVE  Title(s \o t, sidebar, u, name)
<1>1. {i \in DOMAIN (s \o t) : (s \o t)[i].to = "sidebar" /\ (s \o t)[i].uuid = u}
        = {i \in DOMAIN s : s[i].to = "sidebar" /\ s[i].uuid = u}
  BY Appended, SMTT(60)
<1>2. \A i \in DOMAIN s : (s \o t)[i] = s[i]
  BY Appending, SMTT(60)
<1> QED BY <1>1, <1>2, Zenon DEF Title

(* The last event counts.                                                  *)
LEMMA MenuLast ==
  ASSUME NEW E, NEW s \in Seq(E), NEW x \in E, x.to = "undoRedo", NEW canUndo, NEW canRedo
  PROVE  Menu(s \o <<x>>, canUndo, canRedo, x.undo, x.redo)
<1>1. <<x>> \in Seq(E) /\ Len(<<x>>) = 1 /\ <<x>>[1] = x /\ DOMAIN <<x>> = 1..1
  BY SMTT(60)
<1>2. Len(s) \in Nat /\ DOMAIN (s \o <<x>>) = 1..(Len(s) + 1) /\ (s \o <<x>>)[Len(s) + 1] = x
  BY <1>1, Appending, SMTT(60)
<1>3. \A i \in 1..(Len(s) + 1) : i <= Len(s) + 1
  BY <1>2, SMTT(60)
<1>4. Len(s) + 1 \in {i \in DOMAIN (s \o <<x>>) : (s \o <<x>>)[i].to = "undoRedo"}
  BY <1>2, SMTT(60)
<1> QED BY <1>2, <1>3, <1>4, Zenon DEF Menu

(* The last title posted is what the sidebar will show. *)
LEMMA TitleLast ==
  ASSUME NEW E, NEW s \in Seq(E), NEW x \in E, x.to = "sidebar", NEW sidebar
  PROVE  Title(s \o <<x>>, sidebar, x.uuid, x.name)
<1>1. <<x>> \in Seq(E) /\ Len(<<x>>) = 1 /\ <<x>>[1] = x /\ DOMAIN <<x>> = 1..1
  BY SMTT(60)
<1>2. Len(s) \in Nat /\ DOMAIN (s \o <<x>>) = 1..(Len(s) + 1) /\ (s \o <<x>>)[Len(s) + 1] = x
  BY <1>1, Appending, SMTT(60)
<1>3. \A i \in 1..(Len(s) + 1) : i <= Len(s) + 1
  BY <1>2, SMTT(60)
<1>4. Len(s) + 1 \in {i \in DOMAIN (s \o <<x>>) : (s \o <<x>>)[i].to = "sidebar" /\ (s \o <<x>>)[i].uuid = x.uuid}
  BY <1>2, SMTT(60)
<1> QED BY <1>2, <1>3, <1>4, Zenon DEF Title

(* The first event has its effect when it is delivered.                    *)
LEMMA MenuDelivered ==
  ASSUME NEW e, NEW t, NEW n \in Nat \ {0}, DOMAIN e = 1..n, DOMAIN t = 1..(n - 1),
         \A i \in 1..(n - 1) : t[i] = e[i + 1],
         NEW canUndo, NEW canRedo, NEW undo, NEW redo, Menu(e, canUndo, canRedo, undo, redo)
  PROVE  Menu(t, IF e[1].to = "undoRedo" THEN e[1].undo ELSE canUndo,
                 IF e[1].to = "undoRedo" THEN e[1].redo ELSE canRedo, undo, redo)
<1> DEFINE P == {i \in DOMAIN e : e[i].to = "undoRedo"}
           Q == {i \in DOMAIN t : t[i].to = "undoRedo"}
<1>1. P \subseteq 1..n /\ Q \subseteq 1..(n - 1)
  BY Zenon
<1>2. \A i \in Q : i + 1 \in P
  BY SMTT(60)
<1>3. \A i \in P : i # 1 => i - 1 \in Q
  BY SMTT(60)
<1>4. 1 \in P <=> e[1].to = "undoRedo"
  BY SMTT(60)
<1>5. CASE Q = {}
  <2>1. P \subseteq {1}
    BY <1>3, <1>5, Zenon
  <2>2. CASE 1 \in P
    <3>1. e[1].undo = undo /\ e[1].redo = redo
      BY <2>1, <2>2, Zenon DEF Menu
    <3> QED BY <1>4, <1>5, <2>2, <3>1, Zenon DEF Menu
  <2>3. CASE 1 \notin P
    BY <1>4, <1>5, <2>1, <2>3, Zenon DEF Menu
  <2> QED BY <2>2, <2>3, Zenon
<1>6. CASE Q # {}
  <2>1. PICK k \in Q : TRUE
    BY <1>6, Zenon
  <2>2. PICK i \in P : (\A j \in P : j <= i) /\ e[i].undo = undo /\ e[i].redo = redo
    BY <1>2, <2>1, Zenon DEF Menu
  <2>3. i # 1
    BY <1>1, <1>2, <2>1, <2>2, SMTT(60)
  <2>4. i - 1 \in Q /\ t[i - 1] = e[i]
    BY <1>1, <1>3, <2>3, SMTT(60)
  <2>5. \A j \in Q : j <= i - 1
    <3> TAKE j \in Q
    <3>1. j + 1 <= i
      BY <1>2, <2>2, Zenon
    <3> QED BY <1>1, <3>1, SMTT(60)
  <2> QED BY <1>6, <2>2, <2>4, <2>5, Zenon DEF Menu
<1> QED BY <1>5, <1>6, Zenon

(* Delivering an event does not change what the sidebar will show. *)
LEMMA TitleDelivered ==
  ASSUME NEW e, NEW t, NEW n \in Nat \ {0}, DOMAIN e = 1..n, DOMAIN t = 1..(n - 1),
         \A i \in 1..(n - 1) : t[i] = e[i + 1],
         NEW sidebar, NEW u, NEW name, Title(e, sidebar, u, name)
  PROVE  Title(t, IF e[1].to = "sidebar" THEN Put(sidebar, e[1].uuid, e[1].name) ELSE sidebar, u, name)
<1> DEFINE P == {i \in DOMAIN e : e[i].to = "sidebar" /\ e[i].uuid = u}
           Q == {i \in DOMAIN t : t[i].to = "sidebar" /\ t[i].uuid = u}
           new == IF e[1].to = "sidebar" THEN Put(sidebar, e[1].uuid, e[1].name) ELSE sidebar
<1>1. P \subseteq 1..n /\ Q \subseteq 1..(n - 1)
  BY Zenon
<1>2. \A i \in Q : i + 1 \in P
  BY SMTT(60)
<1>3. \A i \in P : i # 1 => i - 1 \in Q
  BY SMTT(60)
<1>4. 1 \in P <=> (e[1].to = "sidebar" /\ e[1].uuid = u)
  BY SMTT(60)
<1>5. CASE Q = {}
  <2>1. P \subseteq {1}
    BY <1>3, <1>5, Zenon
  <2>2. CASE 1 \in P
    <3>1. e[1].name = name
      BY <2>1, <2>2, Zenon DEF Title
    <3>2. u \in DOMAIN new /\ new[u] = name
      BY <1>4, <2>2, <3>1, Zenon DEF Put
    <3> QED BY <1>5, <3>2, Zenon DEF Title
  <2>3. CASE 1 \notin P
    <3>1. u \in DOMAIN sidebar /\ sidebar[u] = name
      BY <2>1, <2>3, Zenon DEF Title
    <3>2. u \in DOMAIN new /\ new[u] = name
      BY <1>4, <2>3, <3>1, Zenon DEF Put
    <3> QED BY <1>5, <3>2, Zenon DEF Title
  <2> QED BY <2>2, <2>3, Zenon
<1>6. CASE Q # {}
  <2>1. PICK k \in Q : TRUE
    BY <1>6, Zenon
  <2>2. PICK i \in P : (\A j \in P : j <= i) /\ e[i].name = name
    BY <1>2, <2>1, Zenon DEF Title
  <2>3. i # 1
    BY <1>1, <1>2, <2>1, <2>2, SMTT(60)
  <2>4. i - 1 \in Q /\ t[i - 1] = e[i]
    BY <1>1, <1>3, <2>3, SMTT(60)
  <2>5. \A j \in Q : j <= i - 1
    <3> TAKE j \in Q
    <3>1. j + 1 <= i
      BY <1>2, <2>2, Zenon
    <3> QED BY <1>1, <3>1, SMTT(60)
  <2> QED BY <1>6, <2>2, <2>4, <2>5, Zenon DEF Title
<1> QED BY <1>5, <1>6, Zenon

(* No edit on the stack renames a function that is still to be posted.     *)
LEMMA NotPosting ==
  ASSUME TypeOK, PostingUntouched, NEW act,
         act.kind = "rename" => act.key \in DOMAIN gui.sidebar \/ \E i \in DOMAIN undo_stack : act = undo_stack[i]
  PROVE  posting # None /\ act.kind = "rename" => act.key # posting
BY Zenon DEF PostingUntouched

(* An edit and its undoing post what the menu and the sidebar need. *)
LEMMA FollowsPerform ==
  ASSUME TypeOK, SidebarFollowsNames, PostingUntouched,
         NEW act \in Edit, act.key \in KeysOf(act.kind),
         NEW val \in DataOf(act.kind), NEW flags \in Flags, Perform(act, val, flags),
         flags.undo = (undo_stack_top' # 0), flags.redo = (undo_stack_top' < Len(undo_stack')),
         posting # None /\ act.kind = "rename" => act.key # posting,
         \A i \in DOMAIN undo_stack' : undo_stack'[i] = act \/ \E j \in DOMAIN undo_stack : undo_stack'[i] = undo_stack[j]
  PROVE  MenuFollowsStack' /\ SidebarFollowsNames' /\ PostingUntouched'
<1> DEFINE E == Event(Known)
<1>1. PICK n \in Seq(E) :
        /\ \A i \in DOMAIN n : n[i].to = "insertNode"
        /\ Titles(act, val) \in Seq(E)
        /\ events' = events \o n \o Titles(act, val) \o <<flags>>
  BY Performed, Zenon DEF Flags
<1>2. events \in Seq(E) /\ flags \in E /\ flags.to = "undoRedo" /\ posting \in Known \cup {None}
  BY Parts, Zenon DEF Flags, Event, TypeTables
<1>3. Known' = Known /\ UNCHANGED <<gui, posting>>
  BY Performed, Zenon DEF Flags, Perform
<1>4. \A u \in Known : functions'[u].name =
        IF act.kind = "rename" /\ act.key = u THEN val ELSE functions[u].name
  BY Changed, Zenon
<1> HIDE DEF E
<1> DEFINE s1 == events \o n
           s2 == s1 \o Titles(act, val)
           t  == <<flags>>
<1>5. t \in Seq(E) /\ DOMAIN t = 1..1 /\ t[1] = flags
  BY <1>2, SMTT(60)
<1>6. s1 \in Seq(E) /\ s2 \in Seq(E) /\ events' = s2 \o t
  BY <1>1, <1>2, ConcatProperties, Zenon
<1>7. MenuFollowsStack'
  <2> HIDE DEF s1, s2
  <2>1. Menu(s2 \o <<flags>>, gui.canUndo, gui.canRedo, flags.undo, flags.redo)
    BY <1>2, <1>6, MenuLast, Zenon
  <2> HIDE DEF Menu
  <2> QED BY <1>3, <1>6, <2>1, FollowingNext, Zenon
<1>8. SidebarFollowsNames'
  <2> SUFFICES ASSUME NEW u \in Known \ {posting}
               PROVE  Title(events', gui.sidebar, u, functions'[u].name)
    BY <1>3, FollowingNext, Zenon
  <2>1. Title(s1, gui.sidebar, u, functions[u].name)
    <3>1. Title(events, gui.sidebar, u, functions[u].name)
      BY Following, Zenon
    <3> QED BY <1>1, <1>2, <3>1, TitleBefore, Zenon
  <2>2. Title(s2, gui.sidebar, u, functions'[u].name)
    <3> HIDE DEF s1
    <3>1. CASE act.kind = "rename" /\ act.key = u
      <4> DEFINE x == SidebarEvent(u, val)
      <4>1. Titles(act, val) = <<x>> /\ x.to = "sidebar" /\ x.uuid = u /\ x.name = val
        BY <3>1, Zenon DEF Titles, SidebarEvent
      <4>2. x \in E
        BY <3>1, Events, Zenon DEF E, DataOf
      <4> HIDE DEF x
      <4>3. Title(s1 \o <<x>>, gui.sidebar, x.uuid, x.name)
        BY <1>6, <4>1, <4>2, TitleLast, Zenon
      <4> HIDE DEF Title
      <4> QED BY <1>4, <3>1, <4>1, <4>3, Zenon
    <3>2. CASE act.kind = "rename" /\ act.key # u
      <4>1. functions'[u].name = functions[u].name
        BY <1>4, <3>2, Zenon
      <4>2. \A i \in DOMAIN Titles(act, val) : Titles(act, val)[i].uuid = act.key
        BY <3>2, SMTT(60) DEF Titles, SidebarEvent
      <4> QED BY <1>1, <1>6, <2>1, <3>2, <4>1, <4>2, TitleBefore, Zenon
    <3>3. CASE act.kind # "rename"
      <4>1. functions'[u].name = functions[u].name /\ DOMAIN Titles(act, val) = {}
        BY <1>4, <3>3, SMTT(60) DEF Titles
      <4> QED BY <1>1, <1>6, <2>1, <4>1, TitleBefore, Zenon
    <3> QED BY <3>1, <3>2, <3>3, Zenon
  <2>3. \A i \in DOMAIN t : t[i].to # "sidebar"
    BY <1>2, <1>5, SMTT(60)
  <2> HIDE DEF s2, t
  <2>4. Title(s2 \o t, gui.sidebar, u, functions'[u].name)
    BY <1>5, <1>6, <2>2, <2>3, TitleBefore, Zenon
  <2> QED BY <1>6, <2>4, Zenon
<1>9. PostingUntouched'
  <2> SUFFICES ASSUME posting # None
               PROVE  /\ functions'[posting].name = Func[posting].name
                      /\ posting \notin DOMAIN gui.sidebar
                      /\ \A i \in DOMAIN events' : events'[i].to = "sidebar" => events'[i].uuid # posting
                      /\ \A i \in DOMAIN undo_stack' : undo_stack'[i].kind = "rename" => undo_stack'[i].key # posting
    BY <1>3, Zenon DEF PostingUntouched, Posted
  <2>1. /\ functions[posting].name = Func[posting].name
        /\ posting \notin DOMAIN gui.sidebar
        /\ \A i \in DOMAIN events : events[i].to = "sidebar" => events[i].uuid # posting
        /\ \A i \in DOMAIN undo_stack : undo_stack[i].kind = "rename" => undo_stack[i].key # posting
    BY Zenon DEF PostingUntouched, Posted
  <2>2. functions'[posting].name = Func[posting].name
    BY <1>2, <1>4, <2>1, Zenon
  <2>3. \A i \in DOMAIN undo_stack' : undo_stack'[i].kind = "rename" => undo_stack'[i].key # posting
    BY <2>1, Zenon
  <2>4. \A i \in DOMAIN events' : events'[i].to = "sidebar" => events'[i].uuid # posting
    <3>1. \A i \in DOMAIN s1 : s1[i].to = "sidebar" => s1[i].uuid # posting
      BY <1>1, <1>2, <2>1, NoTitle, SMTT(60)
    <3>2. \A i \in DOMAIN Titles(act, val) : Titles(act, val)[i].to = "sidebar" => Titles(act, val)[i].uuid # posting
      BY SMTT(60) DEF Titles, SidebarEvent
    <3> HIDE DEF s1
    <3>3. \A i \in DOMAIN s2 : s2[i].to = "sidebar" => s2[i].uuid # posting
      BY <1>1, <1>6, <3>1, <3>2, NoTitle, SMTT(60)
    <3> HIDE DEF s2
    <3>4. \A i \in DOMAIN t : t[i].to = "sidebar" => t[i].uuid # posting
      BY <1>2, <1>5, SMTT(60)
    <3> HIDE DEF t
    <3>5. \A i \in DOMAIN (s2 \o t) : (s2 \o t)[i].to = "sidebar" => (s2 \o t)[i].uuid # posting
      BY <1>5, <1>6, <3>3, <3>4, NoTitle, Zenon
    <3> QED BY <1>6, <3>5, Zenon
  <2> QED BY <2>1, <2>2, <2>3, <2>4, Zenon
<1> QED BY <1>7, <1>8, <1>9, Zenon

(* Events about nodes, edges and tasks leave menu and titles alone.        *)
LEMMA FollowsOthers ==
  ASSUME TypeOK, MenuFollowsStack, SidebarFollowsNames, PostingUntouched,
         NEW t \in Seq(Event(Known')), events' = events \o t,
         \A i \in DOMAIN t : t[i].to \notin {"undoRedo", "sidebar"},
         Known \subseteq Known', UNCHANGED <<undo_stack, undo_stack_top>>,
         gui'.sidebar = gui.sidebar, gui'.canUndo = gui.canUndo, gui'.canRedo = gui.canRedo,
         \A u \in Known : functions'[u].name = functions[u].name,
         Known' \ {posting'} \subseteq Known \ {posting}
  PROVE  /\ MenuFollowsStack' /\ SidebarFollowsNames'
         /\ posting' = posting => PostingUntouched'
<1> DEFINE E == Event(Known')
<1>1. events \in Seq(E) /\ t \in Seq(E)
  BY PartsKept, Zenon
<1> HIDE DEF E
<1>2. Menu(events, gui.canUndo, gui.canRedo, undo_stack_top # 0, undo_stack_top < Len(undo_stack))
  BY Following, Zenon
<1>3. Menu(events', gui.canUndo, gui.canRedo, undo_stack_top # 0, undo_stack_top < Len(undo_stack))
  BY <1>1, <1>2, MenuBefore, Zenon
<1>4. MenuFollowsStack'
  <2> HIDE DEF Menu
  <2> QED BY <1>3, FollowingNext, Zenon
<1>5. SidebarFollowsNames'
  <2> SUFFICES ASSUME NEW u \in Known' \ {posting'}
               PROVE  Title(events', gui'.sidebar, u, functions'[u].name)
    BY FollowingNext, Zenon
  <2>1. Title(events, gui.sidebar, u, functions[u].name) /\ functions'[u].name = functions[u].name
    BY Following, Zenon
  <2>2. Title(events', gui.sidebar, u, functions[u].name)
    BY <1>1, <2>1, TitleBefore, Zenon
  <2> HIDE DEF Title
  <2> QED BY <2>1, <2>2, Zenon
<1>6. ASSUME posting' = posting, posting # None
      PROVE  PostingUntouched'
  <2>1. posting \in Known
    BY <1>6, Parts, Zenon DEF TypeTables
  <2>2. \A i \in DOMAIN events : events[i].to = "sidebar" => events[i].uuid # posting
    BY <1>6, Zenon DEF PostingUntouched, Posted
  <2>3. \A i \in DOMAIN events' : events'[i].to = "sidebar" => events'[i].uuid # posting
    BY <1>1, <2>2, Appended, SMTT(60)
  <2> QED BY <1>6, <2>1, <2>3, Zenon DEF PostingUntouched, Posted
<1>7. ASSUME posting' = posting, posting = None
      PROVE  PostingUntouched'
  BY <1>7, Zenon DEF PostingUntouched
<1> QED BY <1>4, <1>5, <1>6, <1>7, Zenon

(* The same for a single event or none.                                    *)
LEMMA FollowsOther ==
  ASSUME TypeOK, MenuFollowsStack, SidebarFollowsNames, PostingUntouched,
         NEW e \in Event(Known), e.to \notin {"undoRedo", "sidebar"},
         events' = events \/ events' = Append(events, e),
         UNCHANGED <<functions, posting, undo_stack, undo_stack_top>>,
         gui'.sidebar = gui.sidebar, gui'.canUndo = gui.canUndo, gui'.canRedo = gui.canRedo
  PROVE  MenuFollowsStack' /\ SidebarFollowsNames' /\ PostingUntouched'
<1>1. Known' = Known /\ events \in Seq(Event(Known))
  BY Parts, Zenon DEF Known
<1> HIDE DEF Event
<1>2. PICK t \in Seq(Event(Known')) : events' = events \o t /\ \A i \in DOMAIN t : t[i].to \notin {"undoRedo", "sidebar"}
  <2>1. CASE events' = events
    <3>1. <<>> \in Seq(Event(Known')) /\ DOMAIN <<>> = {} /\ events \o <<>> = events
      BY <1>1, ConcatEmptySeq, SMTT(60)
    <3> QED BY <2>1, <3>1, Zenon
  <2>2. CASE events' = Append(events, e)
    <3>1. Append(events, e) = events \o <<e>>
      BY <1>1, AppendIsConcat, Zenon
    <3> DEFINE t == <<e>>
    <3>2. t \in Seq(Event(Known')) /\ \A i \in DOMAIN t : t[i].to \notin {"undoRedo", "sidebar"}
      BY <1>1, SMTT(60)
    <3>3. events' = events \o t
      BY <2>2, <3>1, Zenon
    <3> HIDE DEF t
    <3> QED BY <3>2, <3>3, Zenon
  <2> QED BY <2>1, <2>2, Zenon
<1> QED BY <1>1, <1>2, FollowsOthers, Zenon

(* A layout task does not touch the menu and the sidebar. *)
LEMMA FollowsTask ==
  ASSUME TypeOK, MenuFollowsStack, SidebarFollowsNames, PostingUntouched,
         NEW i \in DOMAIN tasks, RunTask(i)
  PROVE  MenuFollowsStack' /\ SidebarFollowsNames' /\ PostingUntouched'
<1>1. UNCHANGED <<functions, posting, undo_stack, undo_stack_top, gui>>
  BY Zenon DEF RunTask, StartTask, StoreLayout, SendNodes, SendEdges, EndTask, tableVars, coreVars
<1>2. tasks[i].uuid \in Known /\ tasks[i].text \in NodeText(tasks[i].uuid)
  BY TaskFields, Zenon
<1>3. \E e \in Event(Known) : e.to \notin {"undoRedo", "sidebar"} /\ (events' = events \/ events' = Append(events, e))
  <2>1. LayoutEvent(None) \in Event(Known) /\ LayoutEvent(None).to = "layoutTask"
    BY Zenon DEF LayoutEvent, Event
  <2>2. CASE StartTask(i) \/ StoreLayout(i) \/ EndTask(i)
    BY <2>1, <2>2, Zenon DEF StartTask, StoreLayout, EndTask
  <2>3. CASE SendNodes(i)
    <3>1. NodeEvent(tasks[i].uuid, tasks[i].text) \in Event(Known) /\ NodeEvent(tasks[i].uuid, tasks[i].text).to = "insertNode"
      BY <1>2, Events, Zenon DEF NodeEvent
    <3> QED BY <2>3, <3>1, Zenon DEF SendNodes
  <2>4. CASE SendEdges(i)
    <3>1. EdgesEvent(tasks[i].uuid) \in Event(Known) /\ EdgesEvent(tasks[i].uuid).to = "insertEdges"
      BY <1>2, Events, Zenon DEF EdgesEvent
    <3> QED BY <2>4, <3>1, Zenon DEF SendEdges
  <2> QED BY <2>2, <2>3, <2>4, Zenon DEF RunTask
<1> QED BY <1>1, <1>3, FollowsOther, Zenon

(* Selecting a function does not touch the menu and the sidebar. *)
LEMMA FollowsSelect ==
  ASSUME TypeOK, MenuFollowsStack, SidebarFollowsNames, PostingUntouched,
         NEW u \in Known, Select(u) \/ RequestPreview(u)
  PROVE  MenuFollowsStack' /\ SidebarFollowsNames' /\ PostingUntouched'
<1>1. UNCHANGED <<functions, posting, undo_stack, undo_stack_top>> /\ events' = Append(events, LayoutEvent(u))
  BY Zenon DEF Select, RequestPreview, GetFunction, tableVars, coreVars
<1>2. LayoutEvent(u) \in Event(Known) /\ LayoutEvent(u).to = "layoutTask"
  BY Events, Zenon DEF LayoutEvent
<1>3. gui'.sidebar = gui.sidebar /\ gui'.canUndo = gui.canUndo /\ gui'.canRedo = gui.canRedo
  <2>1. gui \in Gui
    BY Parts, Zenon DEF TypeGui
  <2>2. CASE Select(u)
    BY <2>1, <2>2, Zenon DEF Select, Gui
  <2>3. CASE RequestPreview(u)
    BY <2>1, <2>3, Zenon DEF RequestPreview, Gui
  <2> QED BY <2>2, <2>3, Zenon
<1> QED BY <1>1, <1>2, <1>3, FollowsOther, Zenon

(* A function that arrives is not in the sidebar until it is posted. *)
LEMMA FollowsArrive ==
  ASSUME TypeOK, MenuFollowsStack, SidebarFollowsNames, PostingUntouched,
         NEW u \in arriving, Arrive(u), TypeOK'
  PROVE  MenuFollowsStack' /\ SidebarFollowsNames' /\ PostingUntouched'
<1> DEFINE T == NodeEvents(Refreshed(u, Func[u]), functions', comments, values)
<1>0. PICK t \in Listings(T) : events' = events \o t
  BY Zenon DEF Arrive
<1>1. /\ events' = events \o t /\ posting = None /\ posting' = u
      /\ UNCHANGED <<undo_stack, undo_stack_top, gui, comments, values, subscribed>>
      /\ functions' = Put(functions, u, Func[u])
  BY <1>0, Zenon DEF Arrive, NewFunction, taskVars
<1>2. u \in Uuid \ Known /\ Known' = Known \cup {u} /\ None \notin Known
  BY <1>1, Parts, SessionAssumption, Zenon DEF Put, Known, TypeTables, Renamed
<1>3. functions'[u] = Func[u] /\ \A v \in Known : functions'[v] = functions[v]
  BY <1>1, <1>2, Zenon DEF Put, Known
<1>4. t \in Seq(Event(Known')) /\ \A i \in DOMAIN t : t[i].to = "insertNode"
  <2>1. Renamed(functions')
    BY PartsNext, Zenon DEF TypeTables
  <2>2. /\ subscribed \subseteq DOMAIN functions' /\ comments \in [Line -> Comment \cup {None}]
        /\ values \in [Uuid -> Value \cup {None}]
    BY <1>2, Parts, Zenon DEF TypeLayouts, TypeEdits, Known
  <2> QED BY <2>1, <2>2, NodesPosted, SMTT(60) DEF Known
<1> HIDE DEF T
<1>5. MenuFollowsStack' /\ SidebarFollowsNames'
  BY <1>1, <1>2, <1>3, <1>4, FollowsOthers, Zenon
<1>6. \A i \in DOMAIN events : events[i].to = "sidebar" => events[i].uuid \in Known
  <2>1. \A i \in DOMAIN events : events[i] \in Event(Known)
    <3>1. events \in Seq(Event(Known))
      BY Parts, Zenon
    <3> HIDE DEF Event
    <3> QED BY <3>1, SMTT(60)
  <2>2. \A e \in Event(Known) : e.to = "sidebar" => e.uuid \in Known
    BY SMTT(60) DEF Event
  <2> QED BY <2>1, <2>2, Zenon
<1>7. \A i \in DOMAIN events' : events'[i].to = "sidebar" => events'[i].uuid # u
  <2>1. events \in Seq(Event(Known'))
    BY <1>2, PartsKept, Zenon
  <2> HIDE DEF Event
  <2> QED BY <1>1, <1>2, <1>4, <1>6, <2>1, Appended, SMTT(60)
<1>8. u \notin DOMAIN gui.sidebar
  BY <1>2, GuiFields, Zenon
<1>9. \A i \in DOMAIN undo_stack : undo_stack[i].kind = "rename" => undo_stack[i].key # u
  BY <1>2, Parts, Zenon DEF TypeEdits, KeysOf
<1> QED BY <1>1, <1>3, <1>5, <1>7, <1>8, <1>9, Zenon DEF PostingUntouched, Posted

(* Posting a function puts it into the sidebar under its name. *)
LEMMA FollowsPost ==
  ASSUME TypeOK, MenuFollowsStack, SidebarFollowsNames, PostingUntouched, PostFunction
  PROVE  MenuFollowsStack' /\ SidebarFollowsNames' /\ PostingUntouched'
<1> DEFINE E == Event(Known)
           x == SidebarEvent(posting, Func[posting].name)
           t == <<x>>
<1>1. /\ UNCHANGED <<functions, undo_stack, undo_stack_top, gui>> /\ Known' = Known
      /\ posting \in Known /\ posting' = None /\ posting # None /\ events' = Append(events, x)
  BY Parts, Zenon DEF PostFunction, tableVars, coreVars, Known, TypeTables
<1>2. x.to = "sidebar" /\ x.uuid = posting /\ x.name = Func[posting].name /\ x \in E
  <2>1. Func[posting].name \in Names
    BY <1>1, Parts, Zenon DEF Names, TypeTables, Renamed, Known
  <2> QED BY <1>1, <2>1, Events, Zenon DEF SidebarEvent
<1>3. events \in Seq(E) /\ functions[posting].name = Func[posting].name
  BY <1>1, Parts, Zenon DEF PostingUntouched
<1> HIDE DEF E, x
<1>4. t \in Seq(E) /\ DOMAIN t = 1..1 /\ t[1] = x
  BY <1>2, SMTT(60)
<1>5. events' = events \o t
  BY <1>1, <1>2, <1>3, AppendIsConcat, Zenon
<1>6. Menu(events, gui.canUndo, gui.canRedo, undo_stack_top # 0, undo_stack_top < Len(undo_stack))
  BY Following, Zenon
<1>7. \A i \in DOMAIN t : t[i].to # "undoRedo" /\ t[i].uuid = posting
  BY <1>2, <1>4, SMTT(60)
<1>8. Menu(events', gui.canUndo, gui.canRedo, undo_stack_top # 0, undo_stack_top < Len(undo_stack))
  <2> HIDE DEF t
  <2> QED BY <1>3, <1>4, <1>5, <1>6, <1>7, MenuBefore, Zenon
<1>9. MenuFollowsStack'
  <2> HIDE DEF Menu
  <2> QED BY <1>1, <1>8, FollowingNext, Zenon
<1>10. SidebarFollowsNames'
  <2> SUFFICES ASSUME NEW u \in Known
               PROVE  Title(events', gui.sidebar, u, functions[u].name)
    BY <1>1, FollowingNext, Zenon
  <2>1. CASE u = posting
    <3>1. Title(events \o <<x>>, gui.sidebar, x.uuid, x.name)
      BY <1>2, <1>3, TitleLast, Zenon
    <3> HIDE DEF Title
    <3> QED BY <1>2, <1>3, <1>5, <2>1, <3>1, Zenon
  <2>2. CASE u # posting
    <3>1. Title(events, gui.sidebar, u, functions[u].name)
      BY <2>2, Following, Zenon
    <3> HIDE DEF t
    <3> QED BY <1>3, <1>4, <1>5, <1>7, <2>2, <3>1, TitleBefore, Zenon
  <2> QED BY <2>1, <2>2, Zenon
<1> QED BY <1>1, <1>9, <1>10, Zenon DEF PostingUntouched

(* A project that is opened lists every function under its name.           *)
LEMMA FollowsOpen ==
  ASSUME TypeOK, MenuFollowsStack, SidebarFollowsNames, PostingUntouched, OpenProject
  PROVE  MenuFollowsStack' /\ SidebarFollowsNames' /\ PostingUntouched'
<1> DEFINE T == {SidebarEvent(u, Func[u].name) : u \in Uuid}
           E == Event(Uuid)
<1>0. PICK t \in Listings(T) : events' = events \o t
  BY Zenon DEF OpenProject
<1>1. /\ UNCHANGED <<undo_stack, undo_stack_top, gui, posting>> /\ functions' = Func /\ Known' = Uuid
      /\ events' = events \o t /\ Known = {}
  BY <1>0, Parts, Zenon DEF OpenProject, coreVars, Known, Uuid, TypeTables
<1>2. posting = None
  BY <1>1, Parts, Zenon DEF TypeTables
<1>3. \A x \in T : x.to = "sidebar" /\ x.uuid \in Uuid /\ x = SidebarEvent(x.uuid, Func[x.uuid].name)
  BY SMTT(60) DEF SidebarEvent
<1>4. \A u \in Uuid : SidebarEvent(u, Func[u].name) \in E
  BY Events, Zenon DEF Names
<1> HIDE DEF E
<1>6. T \subseteq E
  BY <1>4, Zenon
<1> HIDE DEF T
<1>7. /\ t \in Seq(T)
      /\ \A x \in T : \E i \in DOMAIN t : t[i] = x
      /\ \A i, j \in DOMAIN t : t[i] = t[j] => i = j
  BY Listed, Zenon
<1>8. t \in Seq(E) /\ events \in Seq(E) /\ \A i \in DOMAIN t : t[i] \in T
  <2>1. events \in Seq(Event(Known))
    BY Parts, Zenon
  <2>2. events \in Seq(E)
    BY <1>1, <2>1, MoreEvents, Zenon DEF E
  <2> QED BY <1>6, <1>7, <2>2, SeqMonotonic, SMTT(60)
<1>9. MenuFollowsStack'
  <2>1. Menu(events, gui.canUndo, gui.canRedo, undo_stack_top # 0, undo_stack_top < Len(undo_stack))
    BY Following, Zenon
  <2>2. Menu(events', gui.canUndo, gui.canRedo, undo_stack_top # 0, undo_stack_top < Len(undo_stack))
    BY <1>1, <1>3, <1>8, <2>1, MenuBefore, Zenon
  <2> HIDE DEF Menu
  <2> QED BY <1>1, <2>2, FollowingNext, Zenon
<1>10. SidebarFollowsNames'
  <2> SUFFICES ASSUME NEW u \in Uuid
               PROVE  Title(events', gui.sidebar, u, Func[u].name)
    BY <1>1, FollowingNext, Zenon
  <2> DEFINE x == SidebarEvent(u, Func[u].name)
             P == {i \in DOMAIN events' : events'[i].to = "sidebar" /\ events'[i].uuid = u}
             n == Len(events)
  <2>1. x \in T /\ x.to = "sidebar" /\ x.uuid = u /\ x.name = Func[u].name
    BY Zenon DEF T, SidebarEvent
  <2>2. PICK k \in DOMAIN t : t[k] = x
    BY <1>7, <2>1, Zenon
  <2>3. /\ n \in Nat /\ DOMAIN events = 1..n /\ DOMAIN t \subseteq Nat \ {0}
        /\ n + k \in DOMAIN events' /\ events'[n + k] = x
    <3>1. DOMAIN t = 1..Len(t) /\ Len(t) \in Nat
      BY <1>8, LenProperties, Zenon
    <3> QED BY <1>1, <1>8, <2>2, <3>1, Appending, SMTT(60)
  <2>4. ASSUME NEW j \in P
        PROVE  j <= n + k
    <3>1. j \in DOMAIN events \/ (j - n \in DOMAIN t /\ events'[j] = t[j - n])
      BY <1>1, <1>8, Appended, SMTT(60)
    <3>2. CASE j \in DOMAIN events
      BY <2>3, <3>2, SMTT(60)
    <3>3. CASE j - n \in DOMAIN t /\ events'[j] = t[j - n]
      <4>1. t[j - n] \in T /\ t[j - n].uuid = u
        BY <1>8, <3>3, Zenon
      <4>2. t[j - n] = x
        BY <1>3, <4>1, Zenon
      <4>3. j - n = k
        BY <1>7, <2>2, <3>3, <4>2, Zenon
      <4>4. j \in Nat
        BY <1>1, <1>8, <2>4, Appending, SMTT(60)
      <4> QED BY <2>3, <4>3, <4>4, SMTT(60)
    <3> QED BY <3>1, <3>2, <3>3, Zenon
  <2> HIDE DEF x
  <2>5. n + k \in P /\ events'[n + k].name = Func[u].name
    BY <2>1, <2>3, Zenon
  <2> QED BY <2>4, <2>5, Zenon DEF Title
<1> QED BY <1>1, <1>2, <1>9, <1>10, Zenon DEF PostingUntouched

(* Delivering an event keeps what the menu and the sidebar will show. *)
LEMMA FollowsDeliver ==
  ASSUME TypeOK, MenuFollowsStack, SidebarFollowsNames, PostingUntouched, Deliver
  PROVE  MenuFollowsStack' /\ SidebarFollowsNames' /\ PostingUntouched'
<1> DEFINE e == events[1]
<1>1. UNCHANGED <<functions, posting, undo_stack, undo_stack_top>> /\ Known' = Known
  BY Zenon DEF Deliver, tableVars, coreVars, Known
<1>2. /\ Len(events) \in Nat \ {0} /\ DOMAIN events = 1..Len(events) /\ e \in Event(Known)
      /\ DOMAIN events' = 1..(Len(events) - 1) /\ \A i \in 1..(Len(events) - 1) : events'[i] = events[i + 1]
  BY Delivery, Zenon
<1>3. /\ gui'.sidebar = IF e.to = "sidebar" THEN Put(gui.sidebar, e.uuid, e.name) ELSE gui.sidebar
      /\ gui'.canUndo = IF e.to = "undoRedo" THEN e.undo ELSE gui.canUndo
      /\ gui'.canRedo = IF e.to = "undoRedo" THEN e.redo ELSE gui.canRedo
  BY Delivery, DeliveredFields, SMTT(60)
<1>4. MenuFollowsStack'
  <2>1. Menu(events, gui.canUndo, gui.canRedo, undo_stack_top # 0, undo_stack_top < Len(undo_stack))
    BY Following, Zenon
  <2>2. Menu(events', IF e.to = "undoRedo" THEN e.undo ELSE gui.canUndo,
                      IF e.to = "undoRedo" THEN e.redo ELSE gui.canRedo,
             undo_stack_top # 0, undo_stack_top < Len(undo_stack))
    BY <1>2, <2>1, MenuDelivered, Zenon
  <2> HIDE DEF Menu
  <2> QED BY <1>1, <1>3, <2>2, FollowingNext, Zenon
<1>5. SidebarFollowsNames'
  <2> SUFFICES ASSUME NEW u \in Known \ {posting}
               PROVE  Title(events', gui'.sidebar, u, functions[u].name)
    BY <1>1, FollowingNext, Zenon
  <2>1. Title(events, gui.sidebar, u, functions[u].name)
    BY Following, Zenon
  <2>2. Title(events', IF e.to = "sidebar" THEN Put(gui.sidebar, e.uuid, e.name) ELSE gui.sidebar,
              u, functions[u].name)
    BY <1>2, <2>1, TitleDelivered, Zenon
  <2> HIDE DEF Title
  <2> QED BY <1>3, <2>2, Zenon
<1>6. ASSUME posting # None
      PROVE  PostingUntouched'
  <2>1. \A i \in DOMAIN events : events[i].to = "sidebar" => events[i].uuid # posting
    BY <1>6, Zenon DEF PostingUntouched, Posted
  <2>2. \A i \in DOMAIN events' : events'[i].to = "sidebar" => events'[i].uuid # posting
    BY <1>2, <2>1, SMTT(60)
  <2>3. posting \notin DOMAIN gui'.sidebar
    BY <1>2, <1>3, <1>6, <2>1, SMTT(60) DEF Put, PostingUntouched
  <2> QED BY <1>1, <1>6, <2>2, <2>3, Zenon DEF PostingUntouched, Posted
<1> QED BY <1>1, <1>4, <1>5, <1>6, Zenon DEF PostingUntouched

(* push_action posts that undo is possible and redo is not. *)
LEMMA FollowsPush ==
  ASSUME TypeOK, SidebarFollowsNames, PostingUntouched, NEW act, EditOf(act), PushAction(act)
  PROVE  MenuFollowsStack' /\ SidebarFollowsNames' /\ PostingUntouched'
<1> DEFINE flags == UndoEvent(TRUE, FALSE)
<1>1. act \in Edit /\ act.key \in KeysOf(act.kind) /\ act.after \in DataOf(act.kind)
  BY EditFields, Zenon DEF EditOf
<1>2. flags \in Flags /\ flags.undo = TRUE /\ flags.redo = FALSE
  BY Zenon DEF UndoEvent, Flags
<1>3. Perform(act, act.after, flags)
  BY Zenon DEF PushAction
<1>4. undo_stack_top \in Nat /\ 1..undo_stack_top \subseteq DOMAIN undo_stack
  BY Parts, LenProperties, SMTT(60) DEF TypeEdits
<1>5. /\ Len(undo_stack') = undo_stack_top + 1 /\ DOMAIN undo_stack' = 1..(undo_stack_top + 1)
      /\ \A i \in 1..undo_stack_top : undo_stack'[i] = undo_stack[i]
      /\ undo_stack'[undo_stack_top + 1] = act
      /\ undo_stack_top' = undo_stack_top + 1
  BY <1>1, Pushed, Zenon DEF PushAction
<1> HIDE DEF flags
<1>6. flags.undo = (undo_stack_top' # 0) /\ flags.redo = (undo_stack_top' < Len(undo_stack'))
  <2>1. (undo_stack_top' # 0) = TRUE /\ (undo_stack_top' < Len(undo_stack')) = FALSE
    BY <1>4, <1>5, SMTT(60)
  <2> QED BY <1>2, <2>1, Zenon
<1>7. posting # None /\ act.kind = "rename" => act.key # posting
  BY NotPosting, Zenon DEF EditOf
<1>8. \A i \in DOMAIN undo_stack' : undo_stack'[i] = act \/ \E j \in DOMAIN undo_stack : undo_stack'[i] = undo_stack[j]
  <2>1. \A i \in 1..(undo_stack_top + 1) : i \in 1..undo_stack_top \/ i = undo_stack_top + 1
    BY <1>4, SMTT(60)
  <2> QED BY <1>4, <1>5, <2>1, Zenon
<1> QED BY <1>1, <1>2, <1>3, <1>6, <1>7, <1>8, FollowsPerform, Zenon

LEMMA FollowsUndo ==
  ASSUME TypeOK, SidebarFollowsNames, PostingUntouched, Undo \/ Redo
  PROVE  MenuFollowsStack' /\ SidebarFollowsNames' /\ PostingUntouched'
<1>1. /\ undo_stack \in Seq(Edit) /\ undo_stack_top \in 0..Len(undo_stack) /\ undo_stack' = undo_stack
      /\ DOMAIN undo_stack = 1..Len(undo_stack) /\ Len(undo_stack) \in Nat
      /\ \A i \in DOMAIN undo_stack : undo_stack[i].key \in KeysOf(undo_stack[i].kind)
  BY Parts, LenProperties, Zenon DEF TypeEdits, Undo, Redo
<1>2. PICK k \in DOMAIN undo_stack : \E val \in DataOf(undo_stack[k].kind), flags \in Flags :
        /\ Perform(undo_stack[k], val, flags)
        /\ flags.undo = (undo_stack_top' # 0) /\ flags.redo = (undo_stack_top' < Len(undo_stack'))
  <2>1. CASE Undo
    <3> DEFINE flags == UndoEvent(undo_stack_top - 1 # 0, TRUE)
               act == undo_stack[undo_stack_top]
    <3>1. undo_stack_top # 0 /\ undo_stack_top' = undo_stack_top - 1 /\ Perform(act, act.before, flags)
      BY <2>1, Zenon DEF Undo
    <3>2. undo_stack_top \in DOMAIN undo_stack /\ (undo_stack_top' < Len(undo_stack')) = TRUE
      BY <1>1, <3>1, SMTT(60)
    <3>3. flags \in Flags /\ flags.undo = (undo_stack_top - 1 # 0) /\ flags.redo = TRUE
      BY Zenon DEF Flags, UndoEvent
    <3> HIDE DEF flags
    <3>4. flags.undo = (undo_stack_top' # 0) /\ flags.redo = (undo_stack_top' < Len(undo_stack'))
      BY <3>1, <3>2, <3>3, Zenon
    <3>5. act.before \in DataOf(act.kind)
      BY <1>1, <3>2, EditFields, SMTT(60)
    <3> QED BY <3>1, <3>2, <3>3, <3>4, <3>5, Zenon
  <2>2. CASE Redo
    <3> DEFINE flags == UndoEvent(TRUE, undo_stack_top + 1 < Len(undo_stack))
               act == undo_stack[undo_stack_top + 1]
    <3>1. undo_stack_top < Len(undo_stack) /\ undo_stack_top' = undo_stack_top + 1 /\ Perform(act, act.after, flags)
      BY <2>2, Zenon DEF Redo
    <3>2. undo_stack_top + 1 \in DOMAIN undo_stack /\ (undo_stack_top' # 0) = TRUE
      BY <1>1, <3>1, SMTT(60)
    <3>3. flags \in Flags /\ flags.undo = TRUE /\ flags.redo = (undo_stack_top + 1 < Len(undo_stack))
      BY SMTT(60) DEF Flags, UndoEvent
    <3> HIDE DEF flags
    <3>4. flags.undo = (undo_stack_top' # 0) /\ flags.redo = (undo_stack_top' < Len(undo_stack'))
      BY <1>1, <3>1, <3>2, <3>3, Zenon
    <3>5. act.after \in DataOf(act.kind)
      BY <1>1, <3>2, EditFields, SMTT(60)
    <3> QED BY <3>1, <3>2, <3>3, <3>4, <3>5, Zenon
  <2> QED BY <2>1, <2>2, Zenon
<1> DEFINE act == undo_stack[k]
<1>3. act \in Edit /\ act.key \in KeysOf(act.kind)
  BY <1>1, SMTT(60)
<1>4. posting # None /\ act.kind = "rename" => act.key # posting
  BY NotPosting, Zenon
<1>5. \A i \in DOMAIN undo_stack' : \E j \in DOMAIN undo_stack : undo_stack'[i] = undo_stack[j]
  BY <1>1, Zenon
<1> QED BY <1>2, <1>3, <1>4, <1>5, FollowsPerform, Zenon

LEMMA FollowsStep ==
  ASSUME IInv, TypeOK', [Next]_vars
  PROVE  MenuFollowsStack' /\ SidebarFollowsNames' /\ PostingUntouched'
<1> USE DEF IInv
<1>1. CASE CommentOn \/ RenameFunction \/ SetValueFor
  BY <1>1, CommentEdits, RenameEdits, ValueEdits, FollowsPush, Zenon
<1>2. CASE Undo \/ Redo
  BY <1>2, FollowsUndo, Zenon
<1>3. CASE OpenBinary \/ UNCHANGED vars
  <2>1. UNCHANGED <<functions, posting, undo_stack, undo_stack_top, events, gui>>
    BY <1>3, Zenon DEF OpenBinary, vars, tableVars, coreVars
  <2>2. LayoutEvent(None) \in Event(Known) /\ LayoutEvent(None).to = "layoutTask"
    BY Zenon DEF LayoutEvent, Event
  <2> QED BY <2>1, <2>2, FollowsOther, Zenon
<1> QED BY <1>1, <1>2, <1>3, FollowsOpen, FollowsSelect, FollowsPost, FollowsArrive, FollowsTask, FollowsDeliver, Zenon
        DEF Next, User, Disassembler

=============================================================================
