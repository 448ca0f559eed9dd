------------------------------- MODULE Session -------------------------------
(***************************************************************************)
(* A session of the graphical interface: the state behind the PANOPTICON   *)
(* mutex (qt/src/singleton.rs), the edits and their undo stack             *)
(* (qt/src/action.rs), the layout tasks on the thread pool (qt/src/qt.rs)  *)
(* and the objects of the GUI thread (glue/ext/lib/src).                   *)
(*                                                                         *)
(* Threads: the GUI thread calls the session and delivers posted events in *)
(* the order they were posted; the disassembly thread adds functions; pool *)
(* threads run layout tasks.  Whatever runs under the mutex is one step.   *)
(*                                                                         *)
(* A function is drawn as one node.  Its text shows the comments on its    *)
(* lines, the values computed for it and the names of the functions it     *)
(* calls that are known.  Positions, edges and formatting are left out,    *)
(* except whether the edges have arrived.                                  *)
(***************************************************************************)
EXTENDS CallTable, FiniteSets, Functions

CONSTANTS
  Func,         \* UUID -> function as the disassembler makes it
  Line,         \* addresses of lines that may be commented on
  Comment,      \* comments a user may write
  NewName,      \* names a user may give
  Value,        \* values a user may set for a variable of a function
  None,         \* no comment, no value, no UUID, no text
  Openings,     \* what the user may open: a binary, a project
  MaxActs,      \* bound: how often the user does something
  MaxLag        \* bound: nothing is posted while more events are waiting

Uuid == DOMAIN Func

ASSUME SessionAssumption ==
  /\ Func \in [Uuid -> [start : Addr, name : Name, calls : SUBSET Rvalue, lines : SUBSET Line]]
  /\ \A u, v \in Uuid : Func[u].start = Func[v].start => u = v
  /\ Cardinality(Uuid) \in Nat /\ MaxActs \in Nat
  /\ None \notin Comment \cup Value \cup Uuid

VARIABLES
  opened,          \* what open_program got: nothing yet, a binary, a project
  arriving,        \* functions the pipeline has yet to send
  posting,         \* function received but not yet posted to the sidebar
  comments,        \* control_flow_comments
  values,          \* control_flow_values
  layouts,         \* control_flow_layouts
  undo_stack,
  undo_stack_top,
  subscribed,      \* SUBSCRIBED_FUNCTIONS
  tasks,           \* layout tasks that are not over, by the act that asked
  events,          \* posted to the GUI thread and not yet delivered
  gui,             \* QControlFlowGraph, QSidebar and QPanopticon
  acts,            \* how often the user has done something
  raced,           \* history: functions whose last change may be missed
  sent             \* history: the graph shown was sent since it was selected

coreVars == <<comments, values, layouts, undo_stack, undo_stack_top>>
taskVars == <<subscribed, tasks, sent>>
vars == <<tableVars, opened, arriving, posting, coreVars, taskVars, events, gui, acts, raced>>

(* ControlFlowLayout::get_basic_block_line for all lines of the node. *)
Render(fs, cm, vs, u) ==
  [comment |-> [l \in fs[u].lines |-> cm[l]],
   value   |-> vs[u],
   callees |-> [a \in fs[u].calls |->
                  {<<v, fs[v].name>> : v \in {w \in DOMAIN fs : fs[w].start = ConstAddr[a]}}]]

Text(u) == Render(functions, comments, values, u)

Init ==
  /\ EmptyTable
  /\ opened = "no" /\ arriving = {} /\ posting = None
  /\ comments = [l \in Line |-> None]
  /\ values = [u \in Uuid |-> None]
  /\ layouts = <<>>
  /\ undo_stack = <<>> /\ undo_stack_top = 0
  /\ subscribed = {} /\ tasks = <<>> /\ sent = FALSE /\ acts = 0
  /\ events = <<>>
  /\ gui = [uuid |-> None, nodes |-> None, edges |-> FALSE,
            preview |-> None, previewNode |-> None, layoutTask |-> None,
            sidebar |-> <<>>, canUndo |-> FALSE, canRedo |-> FALSE]
  /\ raced = {}

NodeEvent(u, text)  == [to |-> "insertNode", uuid |-> u, text |-> text]
EdgesEvent(u)       == [to |-> "insertEdges", uuid |-> u]
SidebarEvent(u, n)  == [to |-> "sidebar", uuid |-> u, name |-> n]
LayoutEvent(u)      == [to |-> "layoutTask", uuid |-> u]
UndoEvent(undo, redo) == [to |-> "undoRedo", undo |-> undo, redo |-> redo]

(***************************************************************************)
(* update_control_flow_nodes for the functions S, with the functions,      *)
(* comments and values as they are about to be.  A layout that exists is   *)
(* brought up to date; a subscribed function gets one if it has none and   *)
(* its nodes are posted.                                                   *)
(***************************************************************************)
RefreshedLayouts_OnlyShown(S, fs, cm, vs) ==
  [u \in DOMAIN layouts \cup (S \cap subscribed) |->
     IF u \in S \cap subscribed THEN Render(fs, cm, vs, u) ELSE layouts[u]]

RefreshedLayouts(S, fs, cm, vs) ==
  [u \in DOMAIN layouts \cup (S \cap subscribed) |->
     IF u \in S THEN Render(fs, cm, vs, u) ELSE layouts[u]]

NodeEvents(S, fs, cm, vs) ==
  {NodeEvent(u, Render(fs, cm, vs, u)) : u \in S \cap subscribed}

(* The orders in which events about different functions may be posted. *)
Listings(S) == UNION {Bijection(1..n, S) : n \in 0..Cardinality(Uuid)}

InFlight(u) == \E i \in DOMAIN tasks : tasks[i].uuid = u

(***************************************************************************)
(* History: the text of a function changes while a layout task holds an    *)
(* older copy of it, or for a reason (excused) nothing is refreshed for.   *)
(***************************************************************************)
NoteRace(excused) ==
  raced' = {u \in DOMAIN functions' :
              IF u \in Known /\ Text(u) # Text(u)'
                THEN InFlight(u) \/ u \in excused
                ELSE u \in raced}
-----------------------------------------------------------------------------
MayPost == Len(events) <= MaxLag

UserActs == MayPost /\ acts < MaxActs /\ acts' = acts + 1

(* open_program with a binary: the pipeline is started. *)
OpenBinary ==
  /\ opened = "no" /\ "binary" \in Openings
  /\ opened' = "binary"
  /\ arriving' = Uuid
  /\ UNCHANGED <<tableVars, posting, coreVars, taskVars, events, gui, acts, raced>>

(* open_program with a saved session: only `functions' is filled. *)
OpenProject ==
  /\ opened = "no" /\ "project" \in Openings
  /\ opened' = "project"
  /\ functions' = Func
  /\ \E titles \in Listings({SidebarEvent(u, Func[u].name) : u \in Uuid}) :
       events' = events \o titles
  /\ UNCHANGED <<by_entry, unresolved_calls, resolved_calls, arriving, posting,
                 coreVars, taskVars, gui, acts, raced>>

(* The disassembly thread: PANOPTICON.lock().new_function(func.clone()) *)
Arrive(u) ==
  /\ MayPost /\ u \in arriving /\ posting = None
  /\ arriving' = arriving \ {u}
  /\ posting' = u
  /\ NewFunction(u, Func[u])
  /\ LET S == Refreshed(u, Func[u])
     IN  /\ layouts' = RefreshedLayouts(S, functions', comments, values)
         /\ \E nodes \in Listings(NodeEvents(S, functions', comments, values)) :
              events' = events \o nodes
  /\ UNCHANGED <<opened, comments, values, undo_stack, undo_stack_top, taskVars, gui, acts>>
  /\ NoteRace({})

(* Qt::update_sidebar(&[func]) with the function as it was received. *)
PostFunction ==
  /\ MayPost /\ posting # None
  /\ events' = Append(events, SidebarEvent(posting, Func[posting].name))
  /\ posting' = None
  /\ UNCHANGED <<tableVars, opened, arriving, coreVars, taskVars, gui, acts, raced>>
-----------------------------------------------------------------------------
Callers(u) == {p[2][1] : p \in {q \in resolved_calls : q[1] = u}}

(* A rename also posts the function's title, as it is now. *)
Titles_After(act, val) ==
  IF act.kind = "rename" THEN <<SidebarEvent(act.key, act.after)>> ELSE <<>>

Titles(act, val) ==
  IF act.kind = "rename" THEN <<SidebarEvent(act.key, val)>> ELSE <<>>

(***************************************************************************)
(* Action::redo (val is the edit's `after') and Action::undo (`before').   *)
(* flags is the undo/redo update posted in the end.                        *)
(***************************************************************************)
Perform(act, val, flags) ==
  LET fs == IF act.kind = "rename" THEN [functions EXCEPT ![act.key].name = val]
                                   ELSE functions
      cm == IF act.kind = "comment" THEN [comments EXCEPT ![act.key] = val] ELSE comments
      vs == IF act.kind = "value" THEN [values EXCEPT ![act.key] = val] ELSE values
      S  == IF act.kind = "rename" THEN Callers(act.key) ELSE {act.function}
  IN  /\ functions' = fs
      /\ comments' = cm
      /\ values' = vs
      /\ layouts' = RefreshedLayouts(S, fs, cm, vs)
      /\ \E nodes \in Listings(NodeEvents(S, fs, cm, vs)) :
           events' = events \o nodes \o Titles(act, val) \o <<flags>>
      /\ NoteRace({u \in Known : \/ act.kind = "comment" /\ u # act.function
                                 \/ act.kind = "rename" /\ opened = "project"})
      /\ UNCHANGED <<by_entry, unresolved_calls, resolved_calls, opened, arriving,
                     posting, taskVars, gui>>

(* What was undone before is kept. *)
PushAction_KeepsUndone(act) ==
  /\ Perform(act, act.after, UndoEvent(TRUE, FALSE))
  /\ undo_stack' = Append(undo_stack, act)
  /\ undo_stack_top' = undo_stack_top + 1

(* push_action: the edit is done, what was undone before is forgotten. *)
PushAction(act) ==
  /\ Perform(act, act.after, UndoEvent(TRUE, FALSE))
  /\ undo_stack' = Append(SubSeq(undo_stack, 1, undo_stack_top), act)
  /\ undo_stack_top' = undo_stack_top + 1

(* comment_on: a line of the graph shown; any function that has the line. *)
CommentOn ==
  /\ UserActs /\ gui.nodes # None
  /\ \E l \in DOMAIN gui.nodes.comment, c \in Comment :
     \E u \in {v \in Known : l \in functions[v].lines} :
       PushAction([kind |-> "comment", key |-> l, function |-> u,
                   before |-> comments[l], after |-> c])

(* rename_function: an item of the sidebar gets another title. *)
RenameFunction ==
  /\ UserActs
  /\ \E u \in DOMAIN gui.sidebar : \E n \in NewName \ {gui.sidebar[u]} :
       PushAction([kind |-> "rename", key |-> u, function |-> u,
                   before |-> functions[u].name, after |-> n])

(* set_value_for: a variable of the graph shown gets a value or loses it. *)
SetValueFor ==
  /\ UserActs /\ gui.nodes # None
  /\ \E v \in IF Value = {} THEN {} ELSE Value \cup {None} :
       PushAction([kind |-> "value", key |-> gui.uuid, function |-> gui.uuid,
                   before |-> values[gui.uuid], after |-> v])

(***************************************************************************)
(* The menu item is enabled by the last update delivered; the stack may    *)
(* have changed since, and then the call is refused.                       *)
(***************************************************************************)
Undo_Blind ==
  /\ UserActs /\ gui.canUndo /\ undo_stack_top # 0
  /\ LET act == undo_stack[undo_stack_top]
     IN  Perform(act, act.before, UndoEvent(TRUE, TRUE))
  /\ undo_stack_top' = undo_stack_top - 1
  /\ UNCHANGED undo_stack

Undo ==
  /\ UserActs /\ gui.canUndo /\ undo_stack_top # 0
  /\ LET act == undo_stack[undo_stack_top]
     IN  Perform(act, act.before, UndoEvent(undo_stack_top - 1 # 0, TRUE))
  /\ undo_stack_top' = undo_stack_top - 1
  /\ UNCHANGED undo_stack

Redo ==
  /\ UserActs /\ gui.canRedo /\ undo_stack_top < Len(undo_stack)
  /\ LET act == undo_stack[undo_stack_top + 1]
     IN  Perform(act, act.after,
                 UndoEvent(TRUE, undo_stack_top + 1 < Len(undo_stack)))
  /\ undo_stack_top' = undo_stack_top + 1
  /\ UNCHANGED undo_stack
-----------------------------------------------------------------------------
(***************************************************************************)
(* Qt::get_function: the task gets a copy of the layout, or of what it     *)
(* needs to make one, and replaces the task in LAYOUT_TASK.  Dropping that *)
(* one cancels it if no pool thread has started it.                        *)
(***************************************************************************)
GetFunction_KeepsOld(u, edges) ==
  LET task == [uuid |-> u, cached |-> u \in DOMAIN layouts,
               text |-> IF u \in DOMAIN layouts THEN layouts[u] ELSE Text(u),
               edges |-> edges, at |-> "queued"]
      busy == \E j \in DOMAIN tasks : tasks[j].at = "queued"
  IN  /\ tasks' = IF busy THEN tasks ELSE Put(tasks, acts + 1, task)
      /\ events' = Append(events, LayoutEvent(u))

GetFunction(u, edges) ==
  LET task == [uuid |-> u, cached |-> u \in DOMAIN layouts,
               text |-> IF u \in DOMAIN layouts THEN layouts[u] ELSE Text(u),
               edges |-> edges, at |-> "queued"]
  IN  /\ tasks' = [i \in {j \in DOMAIN tasks : tasks[j].at # "queued"} \cup {acts + 1} |->
                     IF i = acts + 1 THEN task ELSE tasks[i]]
      /\ events' = Append(events, LayoutEvent(u))

ShownCallees ==
  IF gui.nodes = None THEN {}
  ELSE {p[1] : p \in UNION {gui.nodes.callees[a] : a \in DOMAIN gui.nodes.callees}}

(* QControlFlowGraph::setUuid *)
Select(u) ==
  /\ UserActs
  /\ u \in DOMAIN gui.sidebar \cup ShownCallees \cup ({gui.preview} \ {None})
  /\ u # gui.uuid
  /\ gui' = [gui EXCEPT !.uuid = u, !.nodes = None, !.edges = FALSE]
  /\ subscribed' = (subscribed \ {gui.uuid}) \cup {u}
  /\ sent' = FALSE
  /\ GetFunction(u, TRUE)
  /\ UNCHANGED <<tableVars, opened, arriving, posting, coreVars, raced>>

(* QControlFlowGraph::requestPreview *)
RequestPreview(u) ==
  /\ UserActs /\ u \in ShownCallees
  /\ u # gui.preview
  /\ gui' = [gui EXCEPT !.preview = u, !.previewNode = None]
  /\ GetFunction(u, FALSE)
  /\ UNCHANGED <<tableVars, opened, arriving, posting, coreVars, subscribed, sent, raced>>

(* A pool thread starts the task. *)
StartTask(i) ==
  /\ tasks[i].at = "queued"
  /\ tasks' = [tasks EXCEPT ![i].at = IF tasks[i].cached THEN "nodes" ELSE "layout"]
  /\ UNCHANGED <<tableVars, opened, arriving, posting, coreVars, subscribed, sent,
                 events, gui, acts, raced>>

(* The layout is made from the copy and put into control_flow_layouts. *)
StoreLayout(i) ==
  /\ tasks[i].at = "layout"
  /\ layouts' = Put(layouts, tasks[i].uuid, tasks[i].text)
  /\ tasks' = [tasks EXCEPT ![i].at = "nodes"]
  /\ UNCHANGED <<tableVars, opened, arriving, posting, comments, values,
                 undo_stack, undo_stack_top, subscribed, sent, events, gui, acts, raced>>

SendNodes(i) ==
  /\ MayPost /\ tasks[i].at = "nodes"
  /\ events' = Append(events, NodeEvent(tasks[i].uuid, tasks[i].text))
  /\ tasks' = [tasks EXCEPT ![i].at = IF tasks[i].edges THEN "edges" ELSE "done"]
  /\ sent' = (sent \/ tasks[i].uuid = gui.uuid)
  /\ UNCHANGED <<tableVars, opened, arriving, posting, coreVars, subscribed,
                 gui, acts, raced>>

SendEdges(i) ==
  /\ MayPost /\ tasks[i].at = "edges"
  /\ events' = Append(events, EdgesEvent(tasks[i].uuid))
  /\ tasks' = [tasks EXCEPT ![i].at = "done"]
  /\ UNCHANGED <<tableVars, opened, arriving, posting, coreVars, subscribed, sent,
                 gui, acts, raced>>

(* .then(send_layout_task("")) *)
EndTask_Silent(i) ==
  /\ MayPost /\ tasks[i].at = "done"
  /\ events' = IF \A j \in DOMAIN tasks : j <= i THEN events ELSE Append(events, LayoutEvent(None))
  /\ tasks' = [j \in DOMAIN tasks \ {i} |-> tasks[j]]
  /\ UNCHANGED <<tableVars, opened, arriving, posting, coreVars, subscribed, sent,
                 gui, acts, raced>>

EndTask(i) ==
  /\ MayPost /\ tasks[i].at = "done"
  /\ events' = Append(events, LayoutEvent(None))
  /\ tasks' = [j \in DOMAIN tasks \ {i} |-> tasks[j]]
  /\ UNCHANGED <<tableVars, opened, arriving, posting, coreVars, subscribed, sent,
                 gui, acts, raced>>

RunTask(i) == StartTask(i) \/ StoreLayout(i) \/ SendNodes(i) \/ SendEdges(i) \/ EndTask(i)
-----------------------------------------------------------------------------
(***************************************************************************)
(* The GUI thread takes a posted event.  insertNode replaces the node if   *)
(* the graph has it, and only otherwise looks at the preview.              *)
(***************************************************************************)
InsertNode_Any(e) ==
  [gui EXCEPT !.nodes = e.text,
              !.previewNode = IF gui.preview = e.uuid THEN e.text ELSE @]

InsertNode(e) ==
  [gui EXCEPT
     !.nodes = IF e.uuid = gui.uuid THEN e.text ELSE @,
     !.previewNode = IF /\ gui.preview = e.uuid
                        /\ ~(e.uuid = gui.uuid /\ gui.nodes # None)
                       THEN e.text ELSE @]

Delivered(e) ==
  CASE e.to = "insertNode"  -> InsertNode(e)
    [] e.to = "insertEdges" -> [gui EXCEPT !.edges = @ \/ e.uuid = gui.uuid]
    [] e.to = "sidebar"     -> [gui EXCEPT !.sidebar = Put(@, e.uuid, e.name)]
    [] e.to = "layoutTask"  -> [gui EXCEPT !.layoutTask = e.uuid]
    [] e.to = "undoRedo"    -> [gui EXCEPT !.canUndo = e.undo, !.canRedo = e.redo]

Deliver ==
  /\ events # <<>>
  /\ gui' = Delivered(Head(events))
  /\ events' = Tail(events)
  /\ UNCHANGED <<tableVars, opened, arriving, posting, coreVars, taskVars, acts, raced>>

User ==
  \/ OpenBinary \/ OpenProject
  \/ CommentOn \/ RenameFunction \/ SetValueFor \/ Undo \/ Redo
  \/ \E u \in Known : Select(u) \/ RequestPreview(u)

Disassembler == PostFunction \/ \E u \in arriving : Arrive(u)

Next ==
  \/ User
  \/ Disassembler
  \/ \E i \in DOMAIN tasks : RunTask(i)
  \/ Deliver

(* The threads run on and the GUI thread delivers what was posted. *)
Fairness ==
  /\ WF_vars(Disassembler)
  /\ \A i \in 1..MaxActs : WF_vars(i \in DOMAIN tasks /\ RunTask(i))
  /\ WF_vars(Deliver)

Spec == Init /\ [][Next]_vars /\ Fairness
-----------------------------------------------------------------------------
Names == NewName \cup {Func[u].name : u \in Uuid}

(* The text a node of function u may have. *)
NodeText(u) ==
  [comment : [Func[u].lines -> Comment \cup {None}],
   value   : Value \cup {None},
   callees : [Func[u].calls -> SUBSET (Uuid \X Names)]]

(* The events about functions S. *)
Event(S) ==
  (UNION {[to : {"insertNode"}, uuid : {u}, text : NodeText(u)] : u \in S})
    \cup [to : {"insertEdges"}, uuid : S]
    \cup [to : {"sidebar"}, uuid : S, name : Names]
    \cup [to : {"layoutTask"}, uuid : S \cup {None}]
    \cup [to : {"undoRedo"}, undo : BOOLEAN, redo : BOOLEAN]

(* What an edit of this kind may leave. *)
DataOf(kind) ==
  CASE kind = "comment" -> Comment \cup {None}
    [] kind = "rename"  -> Names
    [] kind = "value"   -> Value \cup {None}

Edit ==
  UNION {[kind : {k}, key : Line \cup Uuid, function : Uuid, before : DataOf(k), after : DataOf(k)] :
           k \in {"comment", "rename", "value"}}

(* What an edit of this kind may be about. *)
KeysOf(kind) ==
  CASE kind = "comment" -> Line [] kind = "rename" -> Known [] kind = "value" -> Uuid

Gui ==
  LET texts == {None} \cup UNION {NodeText(u) : u \in Uuid}
  IN  [uuid : Known \cup {None}, nodes : texts, edges : BOOLEAN,
       preview : Known \cup {None}, previewNode : texts, layoutTask : Known \cup {None},
       sidebar : UNION {[S -> Names] : S \in SUBSET Known},
       canUndo : BOOLEAN, canRedo : BOOLEAN]

(* Every variable keeps its type; what the undo stack, tasks, events and   *)
(* the interface refer to is known.                                        *)
TypeOK ==
  /\ opened \in {"no", "binary", "project"}
  /\ opened = "no" => Known = {} /\ arriving = {}
  /\ Known \subseteq Uuid
  /\ \A u \in Known : \E n \in Names : functions[u] = [Func[u] EXCEPT !.name = n]
  /\ arriving \subseteq Uuid \ Known /\ posting \in Known \cup {None}
  /\ comments \in [Line -> Comment \cup {None}]
  /\ values \in [Uuid -> Value \cup {None}]
  /\ DOMAIN layouts \subseteq Known
  /\ \A u \in DOMAIN layouts : layouts[u] \in NodeText(u)
  /\ undo_stack \in Seq(Edit) /\ undo_stack_top \in 0..Len(undo_stack)
  /\ \A i \in DOMAIN undo_stack : undo_stack[i].key \in KeysOf(undo_stack[i].kind)
  /\ subscribed \subseteq Known
  /\ acts \in 0..MaxActs /\ DOMAIN tasks \subseteq 1..acts
  /\ \A i \in DOMAIN tasks :
       tasks[i] \in [uuid : Known, cached : BOOLEAN, text : NodeText(tasks[i].uuid),
                    edges : BOOLEAN, at : {"queued", "layout", "nodes", "edges", "done"}]
  /\ events \in Seq(Event(Known))
  /\ gui \in Gui /\ (gui.nodes # None => gui.uuid # None)
  /\ raced \subseteq Known /\ sent \in BOOLEAN

(* What an edit of this kind and key finds before any edit. *)
Initially(kind, key) == IF kind = "rename" THEN Func[key].name ELSE None

(* The first n edits of the undo stack leave val. *)
AfterEdits(n, kind, key, val) ==
  LET hits == {i \in 1..n : undo_stack[i].kind = kind /\ undo_stack[i].key = key}
  IN  \/ hits = {} /\ val = Initially(kind, key)
      \/ \E i \in hits : (\A j \in hits : j <= i) /\ val = undo_stack[i].after

(***************************************************************************)
(* Undo and redo move through one history: comments, names and values are  *)
(* always what the edits below undo_stack_top make of the initial state,   *)
(* and each edit remembers the value it replaced.  In particular the       *)
(* debug assertions of Action::undo and Action::redo hold whenever the     *)
(* user undoes, redoes and edits, in any order, while functions arrive.    *)
(***************************************************************************)
UndoHistory ==
  /\ \A i \in DOMAIN undo_stack :
       AfterEdits(i - 1, undo_stack[i].kind, undo_stack[i].key, undo_stack[i].before)
  /\ \A l \in Line : AfterEdits(undo_stack_top, "comment", l, comments[l])
  /\ \A u \in Known : AfterEdits(undo_stack_top, "rename", u, functions[u].name)
  /\ \A u \in Uuid : AfterEdits(undo_stack_top, "value", u, values[u])

(* The positions of posted events to this receiver. *)
Posted(to) == {i \in DOMAIN events : events[i].to = to}

(***************************************************************************)
(* The menu is right once what was posted is delivered: the last update of *)
(* canUndo and canRedo tells whether undo and redo would be accepted.      *)
(***************************************************************************)
MenuFollowsStack ==
  LET P == Posted("undoRedo")
      right(undo, redo) ==
        /\ undo = (undo_stack_top # 0)
        /\ redo = (undo_stack_top < Len(undo_stack))
  IN  IF P = {} THEN right(gui.canUndo, gui.canRedo)
      ELSE \E i \in P : (\A j \in P : j <= i) /\ right(events[i].undo, events[i].redo)

(***************************************************************************)
(* The sidebar is right once what was posted is delivered: every function  *)
(* that was posted ends up there under the name it has.                    *)
(***************************************************************************)
SidebarFollowsNames ==
  \A u \in Known \ {posting} :
    LET P == {i \in DOMAIN events : events[i].to = "sidebar" /\ events[i].uuid = u}
    IN  IF P = {} THEN u \in DOMAIN gui.sidebar /\ gui.sidebar[u] = functions[u].name
        ELSE \E i \in P : (\A j \in P : j <= i) /\ events[i].name = functions[u].name

(* A function that is not posted yet cannot have been renamed. *)
PostingUntouched ==
  posting # None =>
    /\ functions[posting].name = Func[posting].name
    /\ posting \notin DOMAIN gui.sidebar
    /\ \A i \in Posted("sidebar") : events[i].uuid # posting
    /\ \A i \in DOMAIN undo_stack : undo_stack[i].kind = "rename" => undo_stack[i].key # posting

(***************************************************************************)
(* The inductive invariant: what the history, the menu and the sidebar     *)
(* rest on, between any two steps of the user, the disassembler, the pool  *)
(* and the GUI thread.                                                     *)
(***************************************************************************)
IInv ==
  TypeOK /\ UndoHistory /\ MenuFollowsStack /\ SidebarFollowsNames /\ PostingUntouched

(***************************************************************************)
(* A graph goes stale in the ways history variable `raced' names and in no *)
(* other: unless its last change came while a layout task for it was on    *)
(* its way, or was a comment kept under another function that shares the   *)
(* line, or a rename in a session opened from a project, the layout kept   *)
(* for a function is up to date.                                           *)
(***************************************************************************)
LayoutsFresh == \A u \in DOMAIN layouts \ raced : layouts[u] = Text(u)

(***************************************************************************)
(* The same for the graph that is shown, once what was posted is           *)
(* delivered.  Until its own layout task has sent it the graph may show    *)
(* nodes posted before it was selected, and it keeps them when a preview   *)
(* is requested then, which cancels the task.                              *)
(***************************************************************************)
ViewFresh ==
  LET u == gui.uuid
      P == {i \in Posted("insertNode") : events[i].uuid = u}
  IN  u # None /\ u \notin raced /\ sent =>
        IF P = {} THEN gui.nodes \in {None, Text(u)}
        ELSE \E i \in P : (\A j \in P : j <= i) /\ events[i].text = Text(u)

(***************************************************************************)
(* When no task is left the layout indicator goes off: the last update of  *)
(* it that was posted, however many tasks were started and cancelled.      *)
(***************************************************************************)
IndicatorOff ==
  LET P == Posted("layoutTask")
  IN  tasks = <<>> =>
        IF P = {} THEN gui.layoutTask = None
        ELSE \E i \in P : (\A j \in P : j <= i) /\ events[i].uuid = None

(* A layout task works on the text the function has. *)
TasksFresh ==
  \A i \in DOMAIN tasks : tasks[i].uuid \notin raced => tasks[i].text = Text(tasks[i].uuid)

(***************************************************************************)
(* What freshness rests on: the tables of calls tell who shows a name, an  *)
(* edit knows the function it changes, and what is shown is subscribed to. *)
(***************************************************************************)
Bookkeeping ==
  /\ opened # "project" => CallsBooked
  /\ opened = "project" => arriving = {}
  /\ subscribed = {gui.uuid} \ {None}
  /\ \A i \in DOMAIN undo_stack : undo_stack[i].kind = "value" => undo_stack[i].key = undo_stack[i].function

LayoutInv == LayoutsFresh /\ TasksFresh /\ ViewFresh /\ IndicatorOff /\ Bookkeeping

(* A function that is selected is drawn unless another one is selected. *)
GraphAppears == \A u \in Uuid : gui.uuid = u ~> (gui.uuid # u \/ gui.nodes # None)

=============================================================================
