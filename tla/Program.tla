------------------------------- MODULE Program -------------------------------
(***************************************************************************)
(* The call graph of a program and the operations on it                    *)
(* (core/src/program.rs).  A vertex is labelled with a CallTarget: a       *)
(* disassembled function, a function that is known but not disassembled,   *)
(* or the name of an imported function.                                    *)
(*                                                                         *)
(* A vertex descriptor doubles as the UUID of its label: every label is    *)
(* created with a UUID of its own and keeps its vertex for life.  The      *)
(* vertices a single call of insert adds are told apart by the second      *)
(* component of the descriptor; the first is never reused.                 *)
(***************************************************************************)
EXTENDS Binary

CONSTANTS
  NoUuid,     \* stands for a UUID drawn with Uuid::new_v4
  Self        \* marks the vertex of the function passed to insert

ASSUME ProgramAssumption ==
  /\ Self \notin Rvalue
  /\ NoUuid \notin Nat \X (Rvalue \cup {Self})

VARIABLES
  label,        \* vertex -> CallTarget
  edges,        \* set of <<caller, callee>>
  next_vertex   \* AdjacencyList::next_vertex

programVars == <<label, edges, next_vertex>>

Vertex == Nat \X (Rvalue \cup {Self})

Concrete(start, name) ==
  [kind |-> "Concrete", start |-> start, name |-> name, aliases |-> <<>>,
   plt |-> NoAddr]

ConcreteTarget ==
  [kind : {"Concrete"}, start : Addr, name : Name, aliases : Seq(Name),
   plt : Addr \cup {NoAddr}]

CallTarget == ConcreteTarget \cup TodoTarget \cup SymbolicTarget

IsConcrete(ct) == ct.kind = "Concrete"

FunctionsAt(entry) ==
  {v \in DOMAIN label : IsConcrete(label[v]) /\ label[v].start = entry}

(* What the inner loop of insert accepts as the callee of a call to a. *)
IsCalleeOf(ct, a) ==
  \/ ct.kind = "Concrete" /\ ct.start = ConstAddr[a]
  \/ ct.kind = "Todo" /\ ct.rvalue = a

-----------------------------------------------------------------------------
(***************************************************************************)
(* Program::insert.  `f' replaces the label that has its UUID or gets a    *)
(* new vertex.  Each call of f then gets an edge to some vertex that       *)
(* already stands for the callee, or to a new Todo.  Vertices are visited  *)
(* in the order of a HashMap, so any match may be the one that is found.   *)
(* A Todo added for one call can only match calls to the same Rvalue, so   *)
(* the loop over the calls is done at once.                                *)
(***************************************************************************)
Insert_NoSelf(f, uuid, calls) ==
  LET vx      == IF uuid \in DOMAIN label THEN uuid ELSE <<next_vertex, Self>>
      placed  == [v \in DOMAIN label \cup {vx} |-> IF v = vx THEN f ELSE label[v]]
      Found(a) == {w \in DOMAIN label : IsCalleeOf(label[w], a)}
      fresh   == {a \in calls : Found(a) = {}}
  IN  \E callee \in [calls \ fresh -> DOMAIN placed] :
        /\ \A a \in calls \ fresh : callee[a] \in Found(a)
        /\ label' = [v \in DOMAIN placed \cup ({next_vertex} \X fresh) |->
                       IF v \in DOMAIN placed THEN placed[v] ELSE Todo(v[2], NoName)]
        /\ edges' = edges \cup {<<vx, callee[a]>> : a \in calls \ fresh}
        /\ next_vertex' = next_vertex + 1

Insert(f, uuid, calls) ==
  LET vx       == IF uuid \in DOMAIN label THEN uuid ELSE <<next_vertex, Self>>
      placed   == [v \in DOMAIN label \cup {vx} |-> IF v = vx THEN f ELSE label[v]]
      Found(a) == {w \in DOMAIN placed : IsCalleeOf(placed[w], a)}
      fresh    == {a \in calls : Found(a) = {}}
  IN  \E callee \in [calls \ fresh -> DOMAIN placed] :
        /\ \A a \in calls \ fresh : callee[a] \in Found(a)
        /\ label' = [v \in DOMAIN placed \cup ({next_vertex} \X fresh) |->
                       IF v \in DOMAIN placed THEN placed[v] ELSE Todo(v[2], NoName)]
        /\ edges' = edges \cup {<<vx, callee[a]>> : a \in calls \ fresh}
                          \cup {<<vx, <<next_vertex, a>>>> : a \in fresh}
        /\ next_vertex' = next_vertex + 1

(***************************************************************************)
(* Program::find_function_mut by entry followed by Function::add_alias.    *)
(* The caller unwraps the result of the search; with no function at entry  *)
(* the action is disabled.                                                 *)
(***************************************************************************)
AddAlias(entry, name) ==
  /\ \E v \in FunctionsAt(entry) :
       label' = [label EXCEPT ![v].aliases = Append(@, name)]
  /\ UNCHANGED <<edges, next_vertex>>

(* Function::set_plt: the canonical name becomes an alias. *)
SetPlt_Replaces(f, slot) == [f EXCEPT !.name = <<"plt", slot>>, !.plt = slot]

SetPlt(f, slot) ==
  [f EXCEPT !.aliases = Append(@, f.name), !.name = <<"plt", slot>>, !.plt = slot]

(***************************************************************************)
(* Program::update_plt.  load[e] is the address the function at e loads    *)
(* from when it consists of exactly two statements of which the last is a  *)
(* load from a constant address, and NoAddr for any other function.        *)
(***************************************************************************)
UpdatePlt(load, imports) ==
  /\ label' = [v \in DOMAIN label |->
                 IF IsConcrete(label[v]) /\ load[label[v].start] \in imports
                   THEN SetPlt(label[v], load[label[v].start])
                   ELSE label[v]]
  /\ UNCHANGED <<edges, next_vertex>>

=============================================================================
