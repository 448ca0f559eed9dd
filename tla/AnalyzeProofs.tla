---------------------------- MODULE AnalyzeProofs ----------------------------
(***************************************************************************)
(* Proofs about the parallel analysis, for any pool of workers and any     *)
(* binary.                                                                 *)
(***************************************************************************)
EXTENDS Analyze, TLAPS, FiniteSetTheorems

-----------------------------------------------------------------------------
(* Types of what the actions build from the input. *)

(* A function as Function::new builds it is a well-formed call target. *)
LEMMA ConcreteType ==
  ASSUME NEW t \in Task
  PROVE  Concrete(t.entry, FunctionName(t)) \in ConcreteTarget
BY SMTT(60) DEF Concrete, ConcreteTarget, FunctionName, DefaultName, Name, Task

(* The Todo that insert adds for a call is a well-formed call target. *)
LEMMA TodoType ==
  ASSUME NEW a \in Rvalue
  PROVE  Todo(a, NoName) \in TodoTarget
BY Zenon DEF Todo, TodoTarget

(* The call addresses of a function are addresses. *)
LEMMA CallAddressesType ==
  ASSUME NEW b, NEW e
  PROVE  CallAddresses(b, e) \subseteq Addr
BY Zenon DEF CallAddresses

(***************************************************************************)
(* What Program::insert does to the call graph, with the loops and the     *)
(* order of the vertices gone: f ends up at one vertex vx, its old one if  *)
(* its UUID is known, every other vertex keeps its label, new vertices are *)
(* Todos for calls of f, new edges start at vx and lead to callees of f,   *)
(* and no callee is left without an edge.                                  *)
(***************************************************************************)
InsertedAt(vx, f, uuid, calls) ==
  /\ vx \in DOMAIN label'
  /\ label'[vx] = f
  /\ uuid \in DOMAIN label => vx = uuid
  /\ uuid \notin DOMAIN label => vx \notin DOMAIN label
  /\ DOMAIN label \subseteq DOMAIN label'
  /\ \A v \in DOMAIN label : v # vx => label'[v] = label[v]
  /\ \A v \in DOMAIN label' : v \notin DOMAIN label /\ v # vx =>
       \E a \in calls : label'[v] = Todo(a, NoName)
  /\ edges \subseteq edges'
  /\ \A e \in edges' \ edges :
       \E w \in DOMAIN label', a \in calls :
         e = <<vx, w>> /\ IsCalleeOf(label'[w], a)
  /\ \A a \in calls : \E w \in DOMAIN label' :
       <<vx, w>> \in edges' /\ IsCalleeOf(label'[w], a)

(* insert behaves as InsertedAt says. *)
LEMMA InsertEffect ==
  ASSUME NEW f \in ConcreteTarget, NEW uuid, NEW calls \in SUBSET Rvalue,
         DOMAIN label \subseteq Vertex, label \in [DOMAIN label -> CallTarget],
         next_vertex \in Nat, FreshVertices, Insert(f, uuid, calls)
  PROVE  /\ \E vx \in Vertex \cup {uuid} : InsertedAt(vx, f, uuid, calls)
         /\ DOMAIN label' \subseteq Vertex
         /\ label' \in [DOMAIN label' -> CallTarget]
         /\ next_vertex' \in Nat
         /\ FreshVertices'
<1> DEFINE vx == IF uuid \in DOMAIN label THEN uuid ELSE <<next_vertex, Self>>
           placed == [v \in DOMAIN label \cup {vx} |-> IF v = vx THEN f ELSE label[v]]
           Found(a) == {w \in DOMAIN placed : IsCalleeOf(placed[w], a)}
           fresh == {a \in calls : Found(a) = {}}
<1>1. PICK callee \in [calls \ fresh -> DOMAIN placed] :
        /\ \A a \in calls \ fresh : callee[a] \in Found(a)
        /\ label' = [v \in DOMAIN placed \cup ({next_vertex} \X fresh) |->
                       IF v \in DOMAIN placed THEN placed[v] ELSE Todo(v[2], NoName)]
        /\ edges' = edges \cup {<<vx, callee[a]>> : a \in calls \ fresh}
                          \cup {<<vx, <<next_vertex, a>>>> : a \in fresh}
        /\ next_vertex' = next_vertex + 1
  BY ZenonT(60) DEF Insert
<1>2. vx \in Vertex
  BY Zenon DEF Vertex
<1>3. /\ DOMAIN placed = DOMAIN label \cup {vx}
      /\ placed[vx] = f
      /\ \A v \in DOMAIN label : v # vx => placed[v] = label[v]
  BY Zenon
<1>4. /\ DOMAIN label' = DOMAIN placed \cup ({next_vertex} \X fresh)
      /\ \A v \in DOMAIN placed : label'[v] = placed[v]
  BY <1>1, ZenonT(60)
<1> HIDE DEF placed, vx
<1>5. \A a \in fresh : /\ <<next_vertex, a>> \notin DOMAIN placed
                       /\ <<next_vertex, a>> \in DOMAIN label'
                       /\ label'[<<next_vertex, a>>] = Todo(a, NoName)
  <2> SUFFICES ASSUME NEW a \in fresh
               PROVE  /\ <<next_vertex, a>> \notin DOMAIN placed
                      /\ <<next_vertex, a>> \in DOMAIN label'
                      /\ label'[<<next_vertex, a>>] = Todo(a, NoName)
    BY Zenon
  <2>1. <<next_vertex, a>> \notin DOMAIN label
    BY SMTT(60) DEF FreshVertices
  <2>2. <<next_vertex, a>> # vx
    BY <2>1, ProgramAssumption, AddrAssumption, Zenon DEF vx
  <2>3. <<next_vertex, a>> \notin DOMAIN placed
    BY <1>3, <2>1, <2>2, Zenon
  <2>4. <<next_vertex, a>> \in {next_vertex} \X fresh
    BY Zenon
  <2> QED
    BY <1>1, <1>4, <2>3, <2>4, Zenon
<1>6. \A v \in DOMAIN label' : v \notin DOMAIN placed =>
        \E a \in fresh : v = <<next_vertex, a>>
  BY <1>4, SMTT(60)
<1> HIDE DEF fresh
<1>7. fresh \subseteq calls
  BY Zenon DEF fresh
<1>8. \A a \in fresh : IsCalleeOf(Todo(a, NoName), a)
  BY Zenon DEF IsCalleeOf, Todo
<1>9. \A a \in calls \ fresh : callee[a] \in DOMAIN label' /\ IsCalleeOf(label'[callee[a]], a)
  BY <1>1, <1>4, Zenon
<1>10. InsertedAt(vx, f, uuid, calls)
  <2>1. vx \in DOMAIN label' /\ label'[vx] = f
    BY <1>3, <1>4, Zenon
  <2>2. /\ uuid \in DOMAIN label => vx = uuid
        /\ uuid \notin DOMAIN label => vx \notin DOMAIN label
    BY SMTT(60) DEF vx, FreshVertices
  <2>3. /\ DOMAIN label \subseteq DOMAIN label'
        /\ \A v \in DOMAIN label : v # vx => label'[v] = label[v]
    BY <1>3, <1>4, Zenon
  <2>4. \A v \in DOMAIN label' : v \notin DOMAIN label /\ v # vx =>
          \E a \in calls : label'[v] = Todo(a, NoName)
    BY <1>3, <1>5, <1>6, <1>7, Zenon
  <2>5. edges \subseteq edges'
    BY <1>1, Zenon
  <2>6. ASSUME NEW e \in edges' \ edges
        PROVE  \E w \in DOMAIN label', a \in calls :
                 e = <<vx, w>> /\ IsCalleeOf(label'[w], a)
    <3>1. CASE \E a \in calls \ fresh : e = <<vx, callee[a]>>
      BY <3>1, <1>9, Zenon
    <3>2. CASE \E a \in fresh : e = <<vx, <<next_vertex, a>>>>
      BY <3>2, <1>5, <1>7, <1>8, SMTT(60)
    <3> QED
      BY <1>1, <2>6, <3>1, <3>2, ZenonT(60)
  <2>7. ASSUME NEW a \in calls
        PROVE  \E w \in DOMAIN label' : <<vx, w>> \in edges' /\ IsCalleeOf(label'[w], a)
    <3>1. CASE a \in fresh
      <4>1. <<vx, <<next_vertex, a>>>> \in edges'
        BY <3>1, <1>1, Zenon
      <4> QED
        BY <3>1, <4>1, <1>5, <1>8, Zenon
    <3>2. CASE a \notin fresh
      BY <3>2, <1>1, <1>9, ZenonT(60)
    <3> QED
      BY <3>1, <3>2, ZenonT(60)
  <2> QED
    BY <2>1, <2>2, <2>3, <2>4, <2>5, <2>6, <2>7, SMTT(60) DEF InsertedAt
<1>11. DOMAIN label' \subseteq Vertex
  BY <1>2, <1>3, <1>4, <1>7, Zenon DEF Vertex
<1>12. label' \in [DOMAIN label' -> CallTarget]
  <2>1. \A v \in DOMAIN placed : label'[v] \in CallTarget
    BY <1>3, <1>4, Zenon DEF CallTarget
  <2>2. \A v \in DOMAIN label' : v \notin DOMAIN placed => label'[v] \in CallTarget
    BY <1>5, <1>6, <1>7, TodoType, SMTT(60) DEF CallTarget
  <2> QED
    BY <2>1, <2>2, <1>1, SMTT(60)
<1>13. FreshVertices'
  <2>1. \A v \in DOMAIN placed : v[1] < next_vertex + 1
    BY <1>3, SMTT(60) DEF FreshVertices, vx, Vertex
  <2> QED
    BY <2>1, <1>1, <1>4, <1>6, SMTT(60) DEF FreshVertices
<1> QED
  BY <1>1, <1>2, <1>10, <1>11, <1>12, <1>13, SMTT(60)

(***************************************************************************)
(* A step that leaves the shape of the call graph alone: it may add names  *)
(* to functions and nothing else.                                          *)
(***************************************************************************)
SameShape ==
  /\ DOMAIN label' = DOMAIN label
  /\ label' \in [DOMAIN label -> CallTarget]
  /\ \A v \in DOMAIN label :
       IF IsConcrete(label[v])
         THEN IsConcrete(label'[v]) /\ label'[v].start = label[v].start
         ELSE label'[v] = label[v]
  /\ edges' = edges
  /\ next_vertex' = next_vertex

(* A call target is a function, a Todo or a symbolic reference. *)
LEMMA ConcreteKind ==
  ASSUME NEW ct \in CallTarget
  PROVE  IsConcrete(ct) <=> ct \in ConcreteTarget
BY Zenon DEF CallTarget, ConcreteTarget, TodoTarget, SymbolicTarget, IsConcrete

(* Adding an alias leaves the shape of the call graph alone. *)
LEMMA AliasShape ==
  ASSUME NEW entry, NEW name \in Name,
         label \in [DOMAIN label -> CallTarget], AddAlias(entry, name)
  PROVE  SameShape
<1>1. PICK v \in FunctionsAt(entry) :
        label' = [label EXCEPT ![v].aliases = Append(@, name)]
  BY ZenonT(60) DEF AddAlias
<1>2. v \in DOMAIN label /\ IsConcrete(label[v]) /\ label[v] \in ConcreteTarget
  BY ConcreteKind, Zenon DEF FunctionsAt
<1>3. Append(label[v].aliases, name) \in Seq(Name)
  BY <1>2, SMTT(60) DEF ConcreteTarget
<1>4. /\ DOMAIN label' = DOMAIN label
      /\ label'[v] = [label[v] EXCEPT !.aliases = Append(label[v].aliases, name)]
      /\ \A u \in DOMAIN label : u # v => label'[u] = label[u]
  BY <1>1, <1>2, Zenon
<1>5. label'[v] \in ConcreteTarget /\ label'[v].start = label[v].start
  BY <1>2, <1>3, <1>4, ZenonT(60) DEF ConcreteTarget
<1>6. label'[v] \in CallTarget /\ IsConcrete(label'[v])
  BY <1>5, ConcreteKind, Zenon DEF CallTarget
<1>7. label' \in [DOMAIN label -> CallTarget]
  BY <1>1, <1>4, <1>6, ZenonT(60)
<1> QED
  BY <1>2, <1>4, <1>5, <1>6, <1>7, ZenonT(60) DEF SameShape, AddAlias

(* Naming the stubs leaves the shape of the call graph alone. *)
LEMMA PltShape ==
  ASSUME NEW load, NEW imports \in SUBSET Addr,
         label \in [DOMAIN label -> CallTarget], UpdatePlt(load, imports)
  PROVE  SameShape
<1> DEFINE stub(v) == IsConcrete(label[v]) /\ load[label[v].start] \in imports
<1>1. /\ DOMAIN label' = DOMAIN label
      /\ label' = [v \in DOMAIN label |-> IF stub(v) THEN SetPlt(label[v], load[label[v].start])
                                                    ELSE label[v]]
  BY Zenon DEF UpdatePlt
<1>2. ASSUME NEW v \in DOMAIN label, stub(v)
      PROVE  /\ SetPlt(label[v], load[label[v].start]) \in ConcreteTarget
             /\ SetPlt(label[v], load[label[v].start]).start = label[v].start
  <2>1. label[v] \in ConcreteTarget
    BY <1>2, ConcreteKind, Zenon
  <2>2. load[label[v].start] \in Addr
    BY <1>2, Zenon
  <2>3. Append(label[v].aliases, label[v].name) \in Seq(Name)
    BY <2>1, SMTT(60) DEF ConcreteTarget
  <2>4. <<"plt", load[label[v].start]>> \in Name
    BY <2>2, Zenon DEF Name
  <2> QED
    BY <2>1, <2>2, <2>3, <2>4, ZenonT(60) DEF SetPlt, ConcreteTarget
<1>3. ASSUME NEW v \in DOMAIN label
      PROVE  /\ label'[v] \in CallTarget
             /\ IF IsConcrete(label[v])
                  THEN IsConcrete(label'[v]) /\ label'[v].start = label[v].start
                  ELSE label'[v] = label[v]
  <2>1. CASE stub(v)
    BY <2>1, <1>1, <1>2, ConcreteKind, Zenon DEF CallTarget
  <2>2. CASE ~stub(v)
    BY <2>2, <1>1, Zenon
  <2> QED
    BY <2>1, <2>2, Zenon
<1>4. label' \in [DOMAIN label -> CallTarget]
  BY <1>1, <1>3, Zenon
<1> QED
  BY <1>1, <1>3, <1>4, Zenon DEF SameShape, UpdatePlt

(* The name a function gets is a name. *)
LEMMA FunctionNameType ==
  ASSUME NEW t \in Task
  PROVE  FunctionName(t) \in Name
BY Zenon DEF FunctionName, DefaultName, Name, Task

-----------------------------------------------------------------------------
(* The input is a binary. *)
LEMMA BinaryTyped ==
  ASSUME TypeOK
  PROVE  binary \in BinaryType
BY BinariesAssumption, Zenon DEF TypeOK

(* Types are preserved. *)
LEMMA TypeStep ==
  TypeOK /\ WellFormed /\ [Next]_vars => TypeOK' /\ WellFormed'
<1> SUFFICES ASSUME TypeOK, WellFormed, [Next]_vars
             PROVE  TypeOK' /\ WellFormed'
  BY Zenon
<1> USE DEF TypeOK, WellFormed
<1>0. NoTask \notin Task
  BY ProgramAssumption, AddrAssumption, Zenon DEF NoTask, Task
<1>1. ASSUME NEW w \in Worker, Take(w)
      PROVE  TypeOK' /\ WellFormed'
  BY <1>1, Zenon DEF Take, programVars, FreshVertices
<1>2. ASSUME NEW w \in Worker, Lock(w)
      PROVE  TypeOK' /\ WellFormed'
  BY <1>2, SMTT(60) DEF Lock, Release, programVars, sharedVars, FreshVertices
<1>3. ASSUME NEW w \in Worker, Disassemble(w)
      PROVE  TypeOK' /\ WellFormed'
  BY <1>3, CallAddressesType, Zenon DEF Disassemble, programVars, FreshVertices
<1>4. ASSUME NEW w \in Worker, Fail(w)
      PROVE  TypeOK' /\ WellFormed'
  <2>1. /\ attempts' = [attempts EXCEPT ![task[w].entry] = "Err"]
        /\ failures' = failures + 1
    BY <1>4, Zenon DEF Fail
  <2>3. attempts' \in [Addr -> {"absent", "Ok", "Err"}]
    BY <2>1, ZenonT(60)
  <2>4. failures' \in Nat
    BY <2>1, SMTT(60)
  <2>2. /\ pc' \in [Worker -> {"idle", "lock", "disassemble", "insert", "alias"}]
        /\ task' \in [Worker -> Task \cup {NoTask}]
        /\ \A u \in Worker : pc'[u] # "idle" => task'[u] \in Task
    BY <1>4, Zenon DEF Fail, Release
  <2> QED
    BY <1>4, <2>2, <2>3, <2>4, Zenon DEF Fail, programVars, FreshVertices
<1>5. ASSUME NEW w \in Worker, InsertFunction(w)
      PROVE  TypeOK' /\ WellFormed'
  <2> DEFINE f == Concrete(task[w].entry, FunctionName(task[w]))
             calls == binary.calls[task[w].entry]
  <2>1. task[w] \in Task /\ task[w].entry \in Addr
    BY <1>5, Zenon DEF InsertFunction, Task
  <2>2. f \in ConcreteTarget /\ calls \in SUBSET Rvalue
    BY <2>1, ConcreteType, BinaryTyped, Zenon DEF BinaryType
  <2>3. Insert(f, task[w].uuid, calls)
    BY <1>5, Zenon DEF InsertFunction
  <2> HIDE DEF f, calls
  <2>4. PICK vx : InsertedAt(vx, f, task[w].uuid, calls)
    BY <2>2, <2>3, InsertEffect, Zenon
  <2>5. /\ DOMAIN label' \subseteq Vertex
        /\ label' \in [DOMAIN label' -> CallTarget]
        /\ next_vertex' \in Nat
        /\ FreshVertices'
    BY <2>2, <2>3, InsertEffect, Zenon
  <2>6. edges' \subseteq (DOMAIN label') \X (DOMAIN label')
    BY <2>4, SMTT(60) DEF InsertedAt
  <2>7. /\ attempts' \in [Addr -> {"absent", "Ok", "Err"}]
        /\ pc' \in [Worker -> {"idle", "lock", "disassemble", "insert", "alias"}]
        /\ task' \in [Worker -> Task \cup {NoTask}]
        /\ \A u \in Worker : pc'[u] # "idle" => task'[u] \in Task
    BY <1>5, <2>1, Zenon DEF InsertFunction, Release
  <2> QED
    BY <1>5, <2>5, <2>6, <2>7, Zenon DEF InsertFunction
<1>6. ASSUME NEW w \in Worker, Alias(w)
      PROVE  TypeOK' /\ WellFormed'
  <2>1. task[w] \in Task
    BY <1>6, Zenon DEF Alias
  <2>2. SameShape
    BY <1>6, <2>1, AliasShape, FunctionNameType, Zenon DEF Alias
  <2> QED
    BY <1>6, <2>2, Zenon DEF Alias, Release, sharedVars, SameShape, FreshVertices
<1>7. CASE NextWave
  <2>1. \A e \in targets : [entry |-> e, name |-> NoName, uuid |-> NoUuid] \in Task
    BY Zenon DEF Task
  <2>2. pending' \subseteq Task
    BY <1>7, <2>1, Zenon DEF NextWave
  <2> QED
    BY <1>7, <2>2, Zenon DEF NextWave, programVars, FreshVertices
<1>8. CASE Finish
  <2>1. SameShape
    BY <1>8, PltShape, BinaryTyped, Zenon DEF Finish, BinaryType
  <2> QED
    BY <1>8, <2>1, Zenon DEF Finish, SameShape, FreshVertices
<1>9. CASE UNCHANGED vars
  BY <1>9, Zenon DEF vars, programVars, sharedVars, FreshVertices
<1> QED
  BY <1>1, <1>2, <1>3, <1>4, <1>5, <1>6, <1>7, <1>8, <1>9, Zenon DEF Next, Step, Returned

(* The initial state is well-typed. *)
LEMMA TypeInit == Init => TypeOK /\ WellFormed
<1> SUFFICES ASSUME Init
             PROVE  TypeOK /\ WellFormed
  BY Zenon
<1>1. binary \in BinaryType
  BY BinariesAssumption, Zenon DEF Init
<1>2. binary.symbols \in Seq(TodoTarget \cup SymbolicTarget)
  BY <1>1, Zenon DEF BinaryType
<1>3. \A i \in DOMAIN binary.symbols :
        /\ binary.symbols[i] \in CallTarget
        /\ i \in Nat /\ i <= Len(binary.symbols)
  BY <1>2, SMTT(60) DEF CallTarget
<1>4. /\ DOMAIN label = (DOMAIN binary.symbols) \X {Self}
      /\ \A v \in DOMAIN label : label[v] = binary.symbols[v[1]] /\ v[1] \in DOMAIN binary.symbols
      /\ label = [v \in DOMAIN label |-> label[v]]
  BY Zenon DEF Init, LoadedGraph
<1>5. DOMAIN label \subseteq Vertex
  BY <1>3, <1>4, Zenon DEF Vertex
<1>6. label \in [DOMAIN label -> CallTarget]
  BY <1>3, <1>4, Zenon
<1>7. Len(binary.symbols) \in Nat
  BY <1>2, SMTT(60)
<1>8. FreshVertices
  BY <1>3, <1>4, <1>7, SMTT(60) DEF FreshVertices, Init
<1>9. pending \subseteq Task
  <2>1. ASSUME NEW v \in DOMAIN label, label[v].kind = "Todo", ConstAddr[label[v].rvalue] # NoAddr
        PROVE  [entry |-> ConstAddr[label[v].rvalue], name |-> label[v].name, uuid |-> v] \in Task
    <3>1. label[v] \in TodoTarget
      BY <1>6, <2>1, Zenon DEF CallTarget, ConcreteTarget, TodoTarget, SymbolicTarget
    <3>2. label[v].rvalue \in Rvalue /\ label[v].name \in Name \cup {NoName}
      BY <3>1, Zenon DEF TodoTarget
    <3>3. ConstAddr[label[v].rvalue] \in Addr
      BY <2>1, <3>2, ProgramAssumption, AddrAssumption, Zenon
    <3> QED
      BY <1>5, <3>2, <3>3, Zenon DEF Task
  <2> QED
    BY <2>1, Zenon DEF Init, FirstWave
<1> QED
  BY <1>5, <1>6, <1>7, <1>8, <1>9, SMTT(60) DEF Init, TypeOK, WellFormed

(* Every variable of the parallel analysis keeps its type. *)
THEOREM TypeCorrect == Spec => []TypeOK
<1>1. Spec => [](TypeOK /\ WellFormed)
  BY TypeInit, TypeStep, PTL DEF Spec
<1> QED
  BY <1>1, PTL

-----------------------------------------------------------------------------
(* No two workers are inside an upsert for the same entry. *)
LEMMA LockingStep ==
  TypeOK /\ WellFormed /\ Locking /\ [Next]_vars => Locking'
<1> SUFFICES ASSUME TypeOK, WellFormed, Locking, [Next]_vars
             PROVE  Locking'
  BY Zenon
<1>0. /\ pc \in [Worker -> {"idle", "lock", "disassemble", "insert", "alias"}]
      /\ task \in [Worker -> Task \cup {NoTask}]
      /\ attempts \in [Addr -> {"absent", "Ok", "Err"}]
      /\ \A w \in Worker : pc[w] # "idle" => task[w].entry \in Addr
  BY Zenon DEF TypeOK, WellFormed, Task
<1> USE DEF Locking, Holds
<1>1. ASSUME NEW w \in Worker, Take(w)
      PROVE  Locking'
  BY <1>0, <1>1, SMTT(60) DEF Take
<1>2. ASSUME NEW w \in Worker, Lock(w)
      PROVE  Locking'
  <2>1. /\ binary' = binary /\ attempts' = attempts /\ targets' = targets
        /\ \A u \in Worker : u # w => pc'[u] = pc[u] /\ task'[u] = task[u]
    BY <1>0, <1>2, Zenon DEF Lock, Release, sharedVars
  <2>2. CASE pc'[w] = "idle"
    BY <1>0, <2>1, <2>2, SMTT(60)
  <2>3. CASE task'[w] = task[w] /\ pc'[w] = "disassemble" /\ attempts[task[w].entry] = "absent"
    BY <1>0, <1>2, <2>1, <2>3, SMTT(60) DEF Lock
  <2>4. CASE task'[w] = task[w] /\ pc'[w] = "alias" /\ attempts[task[w].entry] = "Ok"
    BY <1>0, <1>2, <2>1, <2>4, SMTT(60) DEF Lock
  <2> QED
    BY <1>0, <1>2, <2>2, <2>3, <2>4, SMTT(60) DEF Lock, Release
<1>3. ASSUME NEW w \in Worker, Disassemble(w)
      PROVE  Locking'
  <2>1. /\ binary' = binary /\ attempts' = attempts /\ task' = task
        /\ targets' = targets \cup CallAddresses(binary, task[w].entry)
        /\ pc[w] = "disassemble" /\ pc'[w] = "insert"
        /\ task[w].entry \in binary.decodes
        /\ \A u \in Worker : u # w => pc'[u] = pc[u]
    BY <1>0, <1>3, Zenon DEF Disassemble
  <2> QED
    BY <1>0, <2>1, SMTT(60)
<1>4. ASSUME NEW w \in Worker, Fail(w) \/ InsertFunction(w)
      PROVE  Locking'
  <2>1. /\ binary' = binary /\ targets' = targets
        /\ pc[w] \in {"disassemble", "insert"} /\ pc'[w] = "idle"
        /\ \A u \in Worker : u # w => pc'[u] = pc[u] /\ task'[u] = task[u]
        /\ \A e \in Addr : e # task[w].entry => attempts'[e] = attempts[e]
    BY <1>0, <1>4, Zenon DEF Fail, InsertFunction, Release
  <2> QED
    BY <1>0, <2>1, SMTT(60)
<1>6. ASSUME NEW w \in Worker, Alias(w)
      PROVE  Locking'
  <2>1. /\ binary' = binary /\ attempts' = attempts /\ targets' = targets
        /\ pc'[w] = "idle"
        /\ \A u \in Worker : u # w => pc'[u] = pc[u] /\ task'[u] = task[u]
    BY <1>0, <1>6, Zenon DEF Alias, Release, sharedVars
  <2> QED
    BY <1>0, <2>1, SMTT(60)
<1>7. CASE NextWave
  BY <1>0, <1>7, Zenon DEF NextWave, WaveDone
<1>8. CASE Finish
  BY <1>8, Zenon DEF Finish
<1>9. CASE UNCHANGED vars
  BY <1>9, Zenon DEF vars, sharedVars
<1> QED
  BY <1>1, <1>2, <1>3, <1>4, <1>6, <1>7, <1>8, <1>9, SMTT(60) DEF Next, Step, Returned

-----------------------------------------------------------------------------
(***************************************************************************)
(* The vertex a worker's function is inserted at is new, or is the Todo    *)
(* the worker's item came from: no function is overwritten.                *)
(***************************************************************************)
Placed(w, vx) ==
  /\ InsertedAt(vx, Concrete(task[w].entry, FunctionName(task[w])), task[w].uuid,
                binary.calls[task[w].entry])
  /\ vx \in DOMAIN label =>
       label[vx].kind = "Todo" /\ ConstAddr[label[vx].rvalue] = task[w].entry
  /\ label'[vx] \in ConcreteTarget /\ label'[vx].start = task[w].entry

(* insert places a function as Placed says. *)
LEMMA PlacedInsert ==
  ASSUME TypeOK, WellFormed, Locking, Recorded,
         NEW w \in Worker, InsertFunction(w)
  PROVE  /\ \E vx \in DOMAIN label' : Placed(w, vx)
         /\ task[w] \in Task /\ task[w].entry \in Addr
         /\ attempts[task[w].entry] = "absent"
<1> DEFINE f == Concrete(task[w].entry, FunctionName(task[w]))
           calls == binary.calls[task[w].entry]
<1>1. /\ task[w] \in Task /\ task[w].entry \in Addr
      /\ attempts[task[w].entry] = "absent"
      /\ pc[w] = "insert"
  BY SMTT(60) DEF InsertFunction, WellFormed, Locking, Task
<1>2. f \in ConcreteTarget /\ calls \in SUBSET Rvalue
  BY <1>1, ConcreteType, BinaryTyped, Zenon DEF BinaryType
<1>3. Insert(f, task[w].uuid, calls)
  BY Zenon DEF InsertFunction
<1>4. f.start = task[w].entry
  BY Zenon DEF Concrete
<1> HIDE DEF f, calls
<1>5. PICK vx : InsertedAt(vx, f, task[w].uuid, calls)
  BY <1>2, <1>3, InsertEffect, Zenon DEF TypeOK, WellFormed
<1>6. OwnVertex(task[w])
  BY <1>1, Zenon DEF Recorded, Items
<1>7. FunctionsAt(task[w].entry) = {}
  BY <1>1, Zenon DEF Recorded
<1>8. ASSUME vx \in DOMAIN label
      PROVE  label[vx].kind = "Todo" /\ ConstAddr[label[vx].rvalue] = task[w].entry
  <2>1. task[w].uuid \in DOMAIN label /\ vx = task[w].uuid
    BY <1>5, <1>8, Zenon DEF InsertedAt
  <2>2. task[w].uuid # NoUuid
    BY <2>1, ProgramAssumption, AddrAssumption, Zenon DEF TypeOK, Vertex
  <2> QED
    BY <2>1, <2>2, <1>6, <1>7, Zenon DEF OwnVertex, FunctionsAt
<1>9. vx \in DOMAIN label' /\ label'[vx] = f
  BY <1>5, Zenon DEF InsertedAt
<1> QED
  BY <1>1, <1>2, <1>4, <1>5, <1>8, <1>9, Zenon DEF Placed, f, calls

(* After the insertion there is one function more, at vx. *)
LEMMA PlacedFunctions ==
  ASSUME TypeOK, NEW w \in Worker, NEW vx \in DOMAIN label', Placed(w, vx)
  PROVE  \A v \in DOMAIN label' :
           IsConcrete(label'[v]) <=>
             v = vx \/ (v \in DOMAIN label /\ IsConcrete(label[v]) /\ label'[v] = label[v])
<1> SUFFICES ASSUME NEW v \in DOMAIN label'
             PROVE  IsConcrete(label'[v]) <=>
                      v = vx \/ (v \in DOMAIN label /\ IsConcrete(label[v]) /\ label'[v] = label[v])
  BY Zenon
<1>1. CASE v = vx
  BY <1>1, Zenon DEF Placed, ConcreteTarget, IsConcrete
<1>2. CASE v # vx /\ v \in DOMAIN label
  BY <1>2, SMTT(60) DEF Placed, InsertedAt
<1>3. CASE v # vx /\ v \notin DOMAIN label
  <2>1. \E a \in binary.calls[task[w].entry] : label'[v] = Todo(a, NoName)
    BY <1>3, Zenon DEF Placed, InsertedAt
  <2> QED
    BY <1>3, <2>1, SMTT(60) DEF Todo, IsConcrete
<1> QED
  BY <1>1, <1>2, <1>3, Zenon

(* A label that stood for a call keeps doing so when it is replaced. *)
LEMMA PlacedStandsFor ==
  ASSUME TypeOK, NEW w \in Worker, NEW vx \in DOMAIN label', Placed(w, vx),
         NEW v \in DOMAIN label, NEW a \in Rvalue, StandsFor(label[v], a)
  PROVE  v \in DOMAIN label' /\ StandsFor(label'[v], a)
<1>1. v \in DOMAIN label'
  BY SMTT(60) DEF Placed, InsertedAt
<1>2. CASE v # vx
  BY <1>1, <1>2, Zenon DEF Placed, InsertedAt
<1>3. CASE v = vx
  <2>1. label[vx].kind = "Todo" /\ ConstAddr[label[vx].rvalue] = task[w].entry
    BY <1>3, SMTT(60) DEF Placed
  <2>2. ConstAddr[a] = task[w].entry
    BY <1>3, <2>1, Zenon DEF StandsFor, IsConcrete
  <2>3. label'[vx] \in ConcreteTarget /\ label'[vx].start = task[w].entry
    BY SMTT(60) DEF Placed
  <2> QED
    BY <1>1, <1>3, <2>2, <2>3, Zenon DEF StandsFor, IsConcrete, ConcreteTarget
<1> QED
  BY <1>2, <1>3, Zenon

(* A step that keeps the shape of the call graph keeps the functions. *)
LEMMA ShapeFunctions ==
  ASSUME SameShape
  PROVE  /\ \A e : FunctionsAt(e)' = FunctionsAt(e)
         /\ \A v \in DOMAIN label : IsConcrete(label'[v]) <=> IsConcrete(label[v])
<1>1. ASSUME NEW v \in DOMAIN label
      PROVE  /\ IsConcrete(label'[v]) <=> IsConcrete(label[v])
             /\ IsConcrete(label[v]) => label'[v].start = label[v].start
  <2>1. CASE IsConcrete(label[v])
    BY <2>1, Zenon DEF SameShape
  <2>2. CASE ~IsConcrete(label[v])
    <3>1. label'[v] = label[v]
      BY <2>2, Zenon DEF SameShape
    <3> QED
      BY <2>2, <3>1, Zenon
  <2> QED
    BY <2>1, <2>2, Zenon
<1>2. DOMAIN label' = DOMAIN label
  BY Zenon DEF SameShape
<1> QED
  BY <1>1, <1>2, Zenon DEF FunctionsAt

(* Unique functions stay unique. *)
LEMMA UniqueStep ==
  TypeOK /\ WellFormed /\ Locking /\ Recorded /\ UniqueFunction /\ [Next]_vars
    => UniqueFunction'
<1> SUFFICES ASSUME TypeOK, WellFormed, Locking, Recorded, UniqueFunction, [Next]_vars
             PROVE  UniqueFunction'
  BY Zenon
<1>1. ASSUME NEW w \in Worker, InsertFunction(w)
      PROVE  UniqueFunction'
  <2>1. PICK vx \in DOMAIN label' : Placed(w, vx)
    BY <1>1, PlacedInsert, Zenon
  <2>2. FunctionsAt(task[w].entry) = {}
    BY <1>1, PlacedInsert, Zenon DEF Recorded
  <2>3. label'[vx].start = task[w].entry
    BY <2>1, Zenon DEF Placed
  <2> QED
    BY <2>1, <2>2, <2>3, PlacedFunctions, SMTT(60) DEF UniqueFunction, FunctionsAt
<1>2. ASSUME SameShape
      PROVE  UniqueFunction'
  <2>1. DOMAIN label' = DOMAIN label
    BY <1>2, Zenon DEF SameShape
  <2>2. \A v \in DOMAIN label : IsConcrete(label'[v]) =>
          IsConcrete(label[v]) /\ label'[v].start = label[v].start
    BY <1>2, ShapeFunctions, Zenon DEF SameShape
  <2> QED
    BY <2>1, <2>2, Zenon DEF UniqueFunction
<1>3. ASSUME NEW w \in Worker, Alias(w)
      PROVE  SameShape
  BY <1>3, AliasShape, FunctionNameType, Zenon DEF Alias, TypeOK, WellFormed
<1>4. CASE Finish
  BY <1>2, <1>4, PltShape, BinaryTyped, Zenon DEF Finish, BinaryType, TypeOK
<1>5. CASE UNCHANGED programVars
  BY <1>5, Zenon DEF UniqueFunction, programVars
<1> QED
  BY <1>1, <1>2, <1>3, <1>4, <1>5, SMTT(60)
  DEF Next, Step, Returned, vars, Take, Lock, Disassemble, Fail, NextWave

(* The edges stay the calls. *)
LEMMA EdgesStep ==
  TypeOK /\ WellFormed /\ Locking /\ Recorded /\ EdgesAreCalls /\ [Next]_vars
    => EdgesAreCalls'
<1> SUFFICES ASSUME TypeOK, WellFormed, Locking, Recorded, EdgesAreCalls, [Next]_vars
             PROVE  EdgesAreCalls'
  BY Zenon
<1>0. \A e \in Addr : binary.calls[e] \subseteq Rvalue
  BY BinaryTyped, Zenon DEF BinaryType
<1>s. \A v \in DOMAIN label : IsConcrete(label[v]) => label[v].start \in Addr
  BY ConcreteKind, SMTT(60) DEF TypeOK, ConcreteTarget
<1>1. ASSUME NEW w \in Worker, InsertFunction(w)
      PROVE  EdgesAreCalls'
  <2>1. PICK vx \in DOMAIN label' : Placed(w, vx)
    BY <1>1, PlacedInsert, Zenon
  <2>2. binary' = binary /\ task[w].entry \in Addr
    BY <1>1, PlacedInsert, ZenonT(60) DEF InsertFunction
  <2>3. label'[vx].start = task[w].entry
    BY <2>1, Zenon DEF Placed
  <2>4. \A ct, a : StandsFor(ct, a) <=> IsCalleeOf(ct, a)
    BY Zenon DEF StandsFor, IsCalleeOf, IsConcrete
  <2>5. ASSUME NEW v \in DOMAIN label', IsConcrete(label'[v]),
               NEW a \in binary.calls[label'[v].start]
        PROVE  \E x \in DOMAIN label' : <<v, x>> \in edges' /\ StandsFor(label'[x], a)
    <3>1. CASE v = vx
      BY <2>1, <2>3, <2>4, <2>5, <3>1, SMTT(60) DEF Placed, InsertedAt
    <3>2. CASE v # vx
      <4>1. v \in DOMAIN label /\ IsConcrete(label[v]) /\ label'[v] = label[v]
        BY <2>1, <2>5, <3>2, PlacedFunctions, Zenon
      <4>2. PICK x \in DOMAIN label : <<v, x>> \in edges /\ StandsFor(label[x], a)
        BY <2>5, <4>1, Zenon DEF EdgesAreCalls
      <4>3. a \in Rvalue
        BY <1>0, <1>s, <2>5, <4>1, Zenon
      <4>4. x \in DOMAIN label' /\ StandsFor(label'[x], a)
        BY <2>1, <4>2, <4>3, PlacedStandsFor, Zenon
      <4>5. <<v, x>> \in edges'
        BY <2>1, <4>2, SMTT(60) DEF Placed, InsertedAt
      <4> QED
        BY <4>4, <4>5, Zenon
    <3> QED
      BY <3>1, <3>2, Zenon
  <2>6. ASSUME NEW e \in edges'
        PROVE  /\ IsConcrete(label'[e[1]])
               /\ \E a \in binary.calls[label'[e[1]].start] : StandsFor(label'[e[2]], a)
    <3>1. CASE e \in edges
      <4>1. e[1] \in DOMAIN label /\ e[2] \in DOMAIN label
        BY <3>1, Zenon DEF TypeOK
      <4>2. IsConcrete(label[e[1]])
        BY <3>1, Zenon DEF EdgesAreCalls
      <4>3. PICK a \in binary.calls[label[e[1]].start] : StandsFor(label[e[2]], a)
        BY <3>1, Zenon DEF EdgesAreCalls
      <4>4. e[1] # vx
        BY <2>1, <4>1, <4>2, Zenon DEF Placed, IsConcrete
      <4>5. label'[e[1]] = label[e[1]]
        BY <2>1, <4>1, <4>4, SMTT(60) DEF Placed, InsertedAt
      <4>6. a \in Rvalue
        BY <1>0, <1>s, <4>1, <4>2, <4>3, Zenon
      <4>7. StandsFor(label'[e[2]], a)
        BY <2>1, <4>1, <4>3, <4>6, PlacedStandsFor, Zenon
      <4> QED
        BY <4>2, <4>3, <4>5, <4>7, Zenon
    <3>2. CASE e \notin edges
      <4>1. PICK x \in DOMAIN label', a \in binary.calls[task[w].entry] :
              e = <<vx, x>> /\ IsCalleeOf(label'[x], a)
        BY <2>1, <3>2, SMTT(60) DEF Placed, InsertedAt
      <4>2. e[1] = vx /\ e[2] = x
        BY <4>1, Zenon
      <4>3. IsConcrete(label'[vx])
        BY <2>1, Zenon DEF Placed, ConcreteTarget, IsConcrete
      <4> QED
        BY <2>3, <2>4, <4>1, <4>2, <4>3, Zenon
    <3> QED
      BY <3>1, <3>2, SMTT(60)
  <2> QED
    BY <2>2, <2>5, <2>6, Zenon DEF EdgesAreCalls
<1>2. ASSUME SameShape, binary' = binary
      PROVE  EdgesAreCalls'
  <2>1. /\ DOMAIN label' = DOMAIN label /\ edges' = edges
        /\ \A v \in DOMAIN label : /\ IsConcrete(label'[v]) <=> IsConcrete(label[v])
                                   /\ IsConcrete(label[v]) => label'[v].start = label[v].start
                                   /\ ~IsConcrete(label[v]) => label'[v] = label[v]
    BY <1>2, ShapeFunctions, Zenon DEF SameShape
  <2>2. \A v \in DOMAIN label : \A a : StandsFor(label[v], a) => StandsFor(label'[v], a)
    BY <2>1, Zenon DEF StandsFor, IsConcrete
  <2>3. \A e \in edges : e[1] \in DOMAIN label /\ e[2] \in DOMAIN label
    BY Zenon DEF TypeOK
  <2> QED
    BY <1>2, <2>1, <2>2, <2>3, SMTT(60) DEF EdgesAreCalls
<1>3. ASSUME NEW w \in Worker, Alias(w)
      PROVE  SameShape /\ binary' = binary
  BY <1>3, AliasShape, FunctionNameType, Zenon DEF Alias, TypeOK, WellFormed
<1>4. CASE Finish
  BY <1>2, <1>4, PltShape, BinaryTyped, Zenon DEF Finish, BinaryType, TypeOK
<1>5. CASE UNCHANGED <<programVars, binary>>
  BY <1>5, SMTT(60) DEF EdgesAreCalls, programVars
<1> QED
  BY <1>1, <1>2, <1>3, <1>4, <1>5, SMTT(60)
  DEF Next, Step, Returned, vars, Take, Lock, Disassemble, Fail, NextWave

-----------------------------------------------------------------------------
(* Items are well-typed. *)
LEMMA ItemsTyped ==
  ASSUME TypeOK, WellFormed
  PROVE  Items \subseteq Task
BY Zenon DEF TypeOK, WellFormed, Items

(* A worker that gives back its item leaves the other items alone. *)
LEMMA ItemsReleased ==
  ASSUME TypeOK, NEW w \in Worker, pc[w] # "idle", Release(w), pending' = pending
  PROVE  Items' \subseteq Items /\ Items \subseteq Items' \cup {task[w]}
BY Zenon DEF TypeOK, Items, Release

(* A worker that goes on with its item leaves the items alone. *)
LEMMA ItemsKept ==
  ASSUME TypeOK, NEW w \in Worker, pc[w] # "idle", pc'[w] # "idle", task' = task,
         pending' = pending, NEW c, pc' = [pc EXCEPT ![w] = c]
  PROVE  Items' = Items
BY Zenon DEF TypeOK, Items

(* A worker that takes an item leaves the items alone. *)
LEMMA ItemsTaken ==
  ASSUME TypeOK, NEW w \in Worker, Take(w)
  PROVE  Items' = Items
<1>1. PICK t \in pending : pending' = pending \ {t} /\ task' = [task EXCEPT ![w] = t]
  BY ZenonT(60) DEF Take
<1>2. pc[w] = "idle" /\ pc' = [pc EXCEPT ![w] = "lock"]
  BY Zenon DEF Take
<1>3. {task'[u] : u \in {x \in Worker : pc'[x] # "idle"}}
        = {task[u] : u \in {x \in Worker : pc[x] # "idle"}} \cup {t}
  BY <1>1, <1>2, Zenon DEF TypeOK
<1> QED
  BY <1>1, <1>3, Zenon DEF Items

(* What an item's step does to the items and to the outcomes. *)
LEMMA ItemsStep ==
  ASSUME TypeOK, WellFormed, Locking, NEW w \in Worker, Step(w)
  PROVE  /\ Items' \subseteq Items
         /\ \A t \in Items : t \in Items' \/ attempts'[t.entry] # "absent"
         /\ \A e \in Addr : attempts[e] # "absent" => attempts'[e] = attempts[e]
         /\ \A e \in Addr : attempts'[e] # attempts[e] => e \in {t.entry : t \in Items}
<1>0. /\ attempts \in [Addr -> {"absent", "Ok", "Err"}]
      /\ pc \in [Worker -> {"idle", "lock", "disassemble", "insert", "alias"}]
      /\ pc[w] # "idle" => task[w] \in Items /\ task[w].entry \in Addr
  BY Zenon DEF TypeOK, WellFormed, Items, Task
<1>1. CASE Take(w)
  BY <1>1, ItemsTaken, ZenonT(60) DEF Take
<1>2. CASE Lock(w)
  <2>1. attempts' = attempts /\ pending' = pending /\ pc[w] = "lock"
    BY <1>2, SMTT(60) DEF Lock, sharedVars
  <2>2. CASE Release(w) /\ attempts[task[w].entry] # "absent"
    BY <1>0, <2>1, <2>2, ItemsReleased, Zenon
  <2>3. CASE task' = task /\ pc' = [pc EXCEPT ![w] = "disassemble"]
    BY <1>0, <2>1, <2>3, ItemsKept, ZenonT(60)
  <2>4. CASE task' = task /\ pc' = [pc EXCEPT ![w] = "alias"]
    BY <1>0, <2>1, <2>4, ItemsKept, ZenonT(60)
  <2> QED
    BY <1>2, <2>2, <2>3, <2>4, SMTT(60) DEF Lock
<1>3. CASE Disassemble(w)
  <2>1. /\ task' = task /\ pc' = [pc EXCEPT ![w] = "insert"] /\ pc[w] = "disassemble"
        /\ pending' = pending /\ attempts' = attempts
    BY <1>3, Zenon DEF Disassemble
  <2> QED
    BY <1>0, <2>1, ItemsKept, ZenonT(60)
<1>4. CASE Fail(w) \/ InsertFunction(w)
  <2>1. /\ Release(w) /\ pending' = pending /\ pc[w] \in {"disassemble", "insert"}
        /\ \E r \in {"Ok", "Err"} : attempts' = [attempts EXCEPT ![task[w].entry] = r]
    BY <1>4, SMTT(60) DEF Fail, InsertFunction
  <2>2. attempts[task[w].entry] = "absent"
    BY <2>1, Zenon DEF Locking
  <2>3. Items' \subseteq Items /\ Items \subseteq Items' \cup {task[w]}
    BY <1>0, <2>1, ItemsReleased, Zenon
  <2>4. /\ attempts'[task[w].entry] # "absent"
        /\ \A e \in Addr : e # task[w].entry => attempts'[e] = attempts[e]
    BY <1>0, <2>1, Zenon
  <2> QED
    BY <1>0, <2>1, <2>2, <2>3, <2>4, SMTT(60)
<1>5. CASE Alias(w)
  <2>1. Release(w) /\ pending' = pending /\ pc[w] = "alias" /\ attempts' = attempts
    BY <1>5, Zenon DEF Alias, sharedVars
  <2>2. attempts[task[w].entry] = "Ok"
    BY <2>1, SMTT(60) DEF Locking
  <2> QED
    BY <1>0, <2>1, <2>2, ItemsReleased, Zenon
<1> QED
  BY <1>1, <1>2, <1>3, <1>4, <1>5, SMTT(60) DEF Step

-----------------------------------------------------------------------------
(* The outcomes in `attempts' keep agreeing with the program. *)
LEMMA RecordedStep ==
  TypeOK /\ WellFormed /\ Locking /\ Recorded /\ [Next]_vars => Recorded'
<1> SUFFICES ASSUME TypeOK, WellFormed, Locking, Recorded, [Next]_vars
             PROVE  Recorded'
  BY Zenon
<1>0. /\ attempts \in [Addr -> {"absent", "Ok", "Err"}]
      /\ \A w \in Worker : pc[w] # "idle" => task[w] \in Items /\ task[w].entry \in Addr
  BY Zenon DEF TypeOK, WellFormed, Items, Task
<1>a. ASSUME Items' \subseteq Items, attempts' = attempts, label' = label, binary' = binary
      PROVE  Recorded'
  BY <1>a, SMTT(60) DEF Recorded, OwnVertex, FunctionsAt
<1>b. ASSUME Items' \subseteq Items, attempts' = attempts, SameShape, binary' = binary
      PROVE  Recorded'
  <2>1. \A t \in Items : OwnVertex(t) => OwnVertex(t)'
    <3> SUFFICES ASSUME NEW t \in Items, OwnVertex(t), t.uuid # NoUuid
                 PROVE  OwnVertex(t)'
      BY SMTT(60) DEF OwnVertex
    <3>1. t.uuid \in DOMAIN label /\ t.uuid \in DOMAIN label'
      BY <1>b, Zenon DEF OwnVertex, SameShape
    <3>2. CASE IsConcrete(label[t.uuid])
      <4>1. IsConcrete(label'[t.uuid]) /\ label'[t.uuid].start = label[t.uuid].start
        BY <1>b, <3>1, <3>2, Zenon DEF SameShape
      <4>2. label[t.uuid].start = t.entry
        BY <3>2, Zenon DEF OwnVertex, IsConcrete
      <4> QED
        BY <3>1, <4>1, <4>2, Zenon DEF OwnVertex
    <3>3. CASE ~IsConcrete(label[t.uuid])
      <4>1. label'[t.uuid] = label[t.uuid]
        BY <1>b, <3>1, <3>3, Zenon DEF SameShape
      <4> QED
        BY <3>1, <3>3, <4>1, Zenon DEF OwnVertex
    <3> QED
      BY <3>2, <3>3, Zenon
  <2> QED
    BY <1>b, <2>1, ShapeFunctions, Zenon DEF Recorded
<1>1. ASSUME NEW w \in Worker, Step(w), ~InsertFunction(w)
      PROVE  Recorded'
  <2>1. Items' \subseteq Items
    BY <1>1, ItemsStep, Zenon
  <2>2. CASE Take(w) \/ Lock(w) \/ Disassemble(w)
    BY <1>a, <2>1, <2>2, SMTT(60) DEF Take, Lock, Disassemble, programVars, sharedVars
  <2>3. CASE Fail(w)
    <3>1. /\ attempts' = [attempts EXCEPT ![task[w].entry] = "Err"]
          /\ label' = label /\ binary' = binary /\ pc[w] = "disassemble"
          /\ task[w].entry \notin binary.decodes
      BY <2>3, Zenon DEF Fail, programVars
    <3>2. \A e \in Addr : FunctionsAt(e)' = FunctionsAt(e)
      BY <3>1, Zenon DEF FunctionsAt
    <3>3. attempts[task[w].entry] = "absent"
      BY <3>1, Zenon DEF Locking
    <3>4. \A t \in Items' : OwnVertex(t)'
      BY <2>1, <3>1, Zenon DEF Recorded, OwnVertex
    <3> QED
      BY <1>0, <3>1, <3>2, <3>3, <3>4, SMTT(60) DEF Recorded
  <2>4. CASE Alias(w)
    <3>1. SameShape
      BY <2>4, <1>0, AliasShape, FunctionNameType, Zenon DEF Alias, TypeOK, WellFormed
    <3> QED
      BY <1>b, <2>1, <2>4, <3>1, Zenon DEF Alias, sharedVars
  <2> QED
    BY <1>1, <2>2, <2>3, <2>4, Zenon DEF Step
<1>2. ASSUME NEW w \in Worker, InsertFunction(w)
      PROVE  Recorded'
  <2>1. /\ Items' \subseteq Items
        /\ attempts' = [attempts EXCEPT ![task[w].entry] = "Ok"]
        /\ binary' = binary /\ pc[w] = "insert"
    BY <1>2, ItemsStep, ZenonT(60) DEF InsertFunction, Step
  <2>2. PICK vx \in DOMAIN label' : Placed(w, vx)
    BY <1>2, PlacedInsert, Zenon
  <2>3. task[w].entry \in Addr /\ attempts[task[w].entry] = "absent"
    BY <1>2, PlacedInsert, Zenon
  <2>4. task[w].entry \in binary.decodes
    BY <2>1, Zenon DEF Locking
  <2>5. IsConcrete(label'[vx]) /\ label'[vx].start = task[w].entry
    BY <2>2, Zenon DEF Placed, ConcreteTarget, IsConcrete
  <2>6. ASSUME NEW e \in Addr, e # task[w].entry
        PROVE  (FunctionsAt(e) # {}) <=> (FunctionsAt(e)' # {})
    <3>1. \A v \in DOMAIN label' :
            IsConcrete(label'[v]) <=>
              v = vx \/ (v \in DOMAIN label /\ IsConcrete(label[v]) /\ label'[v] = label[v])
      BY <2>2, PlacedFunctions, SMTT(60)
    <3>2. label'[vx].start = task[w].entry
      BY <2>2, Zenon DEF Placed
    <3>3. ASSUME NEW v \in FunctionsAt(e)
          PROVE  v \in FunctionsAt(e)'
      <4>1. v \in DOMAIN label /\ IsConcrete(label[v]) /\ label[v].start = e
        BY Zenon DEF FunctionsAt
      <4>2. v # vx
        BY <2>2, <4>1, Zenon DEF Placed, IsConcrete
      <4>3. v \in DOMAIN label' /\ label'[v] = label[v]
        BY <2>2, <4>1, <4>2, SMTT(60) DEF Placed, InsertedAt
      <4> QED
        BY <4>1, <4>3, Zenon DEF FunctionsAt
    <3>4. ASSUME NEW v \in FunctionsAt(e)'
          PROVE  v \in FunctionsAt(e)
      <4>1. v \in DOMAIN label' /\ IsConcrete(label'[v]) /\ label'[v].start = e
        BY Zenon DEF FunctionsAt
      <4> QED
        BY <2>6, <3>1, <3>2, <4>1, SMTT(60) DEF FunctionsAt
    <3> QED
      BY <3>3, <3>4, Zenon
  <2>7. ASSUME NEW t \in Items, t.uuid # NoUuid
        PROVE  OwnVertex(t)'
    <3>1. OwnVertex(t)
      BY Zenon DEF Recorded
    <3>2. t.uuid \in DOMAIN label /\ t.uuid \in DOMAIN label'
      BY <2>2, <2>7, <3>1, SMTT(60) DEF OwnVertex, Placed, InsertedAt
    <3>3. CASE t.uuid = vx
      <4>1. label[vx].kind = "Todo" /\ ConstAddr[label[vx].rvalue] = task[w].entry
        BY <2>2, <3>2, <3>3, SMTT(60) DEF Placed
      <4>2. t.entry = task[w].entry
        BY <3>1, <3>3, <2>7, <4>1, Zenon DEF OwnVertex, IsConcrete
      <4> QED
        BY <2>5, <3>2, <3>3, <4>2, SMTT(60) DEF OwnVertex
    <3>4. CASE t.uuid # vx
      <4>1. label'[t.uuid] = label[t.uuid]
        BY <2>2, <3>2, <3>4, ZenonT(60) DEF Placed, InsertedAt
      <4> QED
        BY <3>1, <3>2, <4>1, SMTT(60) DEF OwnVertex
    <3> QED
      BY <3>3, <3>4, Zenon
  <2>8. \A t \in Items' : OwnVertex(t)'
    BY <2>1, <2>7, SMTT(60) DEF OwnVertex
  <2>9. ASSUME NEW e \in Addr
        PROVE  /\ attempts'[e] = "Ok" <=> FunctionsAt(e)' # {}
               /\ attempts'[e] = "Ok" => e \in binary'.decodes
               /\ attempts'[e] = "Err" => e \notin binary'.decodes
    <3>1. CASE e = task[w].entry
      <4>1. vx \in FunctionsAt(e)'
        BY <3>1, <2>5, Zenon DEF FunctionsAt
      <4> QED
        BY <3>1, <4>1, <1>0, <2>1, <2>4, Zenon
    <3>2. CASE e # task[w].entry
      <4>1. attempts'[e] = attempts[e]
        BY <3>2, <1>0, <2>1, <2>3, SMTT(60)
      <4> QED
        BY <3>2, <4>1, <2>1, <2>6, Zenon DEF Recorded
    <3> QED
      BY <3>1, <3>2, SMTT(60)
  <2> QED
    BY <2>8, <2>9, SMTT(60) DEF Recorded
<1>3. CASE NextWave
  <2>1. /\ attempts' = attempts /\ label' = label /\ binary' = binary /\ pc' = pc
        /\ pending' = {[entry |-> e, name |-> NoName, uuid |-> NoUuid] : e \in targets}
        /\ \A w \in Worker : pc[w] = "idle"
    BY <1>3, SMTT(60) DEF NextWave, programVars, WaveDone
  <2>2. \A t \in Items' : t.uuid = NoUuid
    BY <2>1, SMTT(60) DEF Items
  <2> QED
    BY <2>1, <2>2, SMTT(60) DEF Recorded, OwnVertex, FunctionsAt
<1>4. CASE Finish
  <2>1. SameShape
    BY <1>4, PltShape, BinaryTyped, Zenon DEF Finish, BinaryType, TypeOK
  <2> QED
    BY <1>4, <1>b, <2>1, Zenon DEF Finish, Items
<1>5. CASE UNCHANGED vars
  BY <1>5, <1>a, SMTT(60) DEF vars, programVars, sharedVars, Items
<1> QED
  BY <1>1, <1>2, <1>3, <1>4, <1>5, Zenon DEF Next, Returned

-----------------------------------------------------------------------------
(* The reachable functions are closed under calls. *)
LEMMA ReachableClosed ==
  ASSUME NEW b
  PROVE  Closed(b, Reachable(b))
<1>1. Roots(b) \subseteq Reachable(b)
  BY Zenon DEF Roots, Reachable, Closed
<1>2. ASSUME NEW e \in Reachable(b) \cap b.decodes, NEW d \in CallAddresses(b, e)
      PROVE  d \in Reachable(b)
  <2>1. d \in Addr
    BY <1>2, CallAddressesType, Zenon
  <2>2. ASSUME NEW S \in SUBSET Addr, Closed(b, S)
        PROVE  d \in S
    BY <1>2, <2>2, Zenon DEF Reachable, Closed
  <2> QED
    BY <2>1, <2>2, Zenon DEF Reachable
<1> QED
  BY <1>1, <1>2, Zenon DEF Closed

(* What a step does to the entries that are scheduled. *)
LEMMA ScheduledStep ==
  ASSUME TypeOK, WellFormed, Locking, [Next]_vars
  PROVE  /\ binary' = binary
         /\ Scheduled \subseteq Scheduled'
         /\ \A d \in Scheduled' : d \in Scheduled \/
              \E e \in Scheduled \cap binary.decodes : d \in CallAddresses(binary, e)
<1>1. ASSUME NEW w \in Worker, Step(w)
      PROVE  /\ binary' = binary
             /\ Scheduled \subseteq Scheduled'
             /\ \A d \in Scheduled' : d \in Scheduled \/
                  \E e \in Scheduled \cap binary.decodes : d \in CallAddresses(binary, e)
  <2>1. /\ Items' \subseteq Items
        /\ \A t \in Items : t \in Items' \/ attempts'[t.entry] # "absent"
        /\ \A e \in Addr : attempts[e] # "absent" => attempts'[e] = attempts[e]
        /\ \A e \in Addr : attempts'[e] # attempts[e] => e \in {t.entry : t \in Items}
    BY <1>1, ItemsStep, SMTT(60)
  <2>2. Items \subseteq Task /\ \A t \in Task : t.entry \in Addr
    BY ItemsTyped, Zenon DEF Task
  <2>3. CASE targets' = targets /\ binary' = binary
    BY <2>1, <2>2, <2>3, SMTT(60) DEF Scheduled
  <2>4. CASE Disassemble(w)
    <3>1. /\ targets' = targets \cup CallAddresses(binary, task[w].entry)
          /\ binary' = binary /\ pc[w] = "disassemble" /\ task[w].entry \in binary.decodes
      BY <2>4, Zenon DEF Disassemble
    <3>2. task[w] \in Items
      BY <3>1, Zenon DEF Items
    <3>3. task[w].entry \in Scheduled \cap binary.decodes
      BY <3>1, <3>2, Zenon DEF Scheduled
    <3>4. Scheduled \subseteq Scheduled'
      BY <2>1, <2>2, <3>1, SMTT(60) DEF Scheduled
    <3>5. Scheduled' \subseteq Scheduled \cup CallAddresses(binary, task[w].entry)
      BY <2>1, <2>2, <3>1, SMTT(60) DEF Scheduled
    <3> QED
      BY <3>1, <3>3, <3>4, <3>5, Zenon
  <2> QED
    BY <1>1, <2>3, <2>4, ZenonT(60) DEF Step, Take, Lock, Fail, InsertFunction, Alias, sharedVars
<1>2. CASE NextWave
  <2>1. /\ binary' = binary /\ attempts' = attempts /\ pc' = pc /\ targets' = {}
        /\ pending' = {[entry |-> e, name |-> NoName, uuid |-> NoUuid] : e \in targets}
        /\ pending = {} /\ \A w \in Worker : pc[w] = "idle"
    BY <1>2, Zenon DEF NextWave, WaveDone
  <2>2. Items = {} /\ Items' = pending'
    BY <2>1, Zenon DEF Items
  <2>3. {t.entry : t \in pending'} = targets
    <3> DEFINE item(e) == [entry |-> e, name |-> NoName, uuid |-> NoUuid]
    <3>1. \A e : item(e).entry = e
      BY Zenon
    <3>2. pending' = {item(e) : e \in targets}
      BY <2>1, Zenon
    <3> HIDE DEF item
    <3> QED
      BY <3>1, <3>2, Zenon
  <2> QED
    BY <2>1, <2>2, <2>3, SMTT(60) DEF Scheduled
<1>3. CASE UNCHANGED <<binary, attempts, pending, targets, pc, task>>
  <2>1. Items' = Items
    BY <1>3, Zenon DEF Items
  <2>2. Scheduled' = Scheduled
    BY <1>3, <2>1, Zenon DEF Scheduled
  <2> QED
    BY <1>3, <2>2, Zenon
<1> QED
  BY <1>1, <1>2, <1>3, SMTT(60) DEF Next, Finish, Returned, vars, sharedVars

(* Where an outcome comes from. *)
LEMMA OutcomeStep ==
  ASSUME TypeOK, WellFormed, Locking, [Next]_vars
  PROVE  \/ attempts' = attempts /\ failures' = failures
         \/ \E w \in Worker :
              /\ InsertFunction(w) /\ task[w].entry \in Addr
              /\ attempts[task[w].entry] = "absent"
              /\ attempts' = [attempts EXCEPT ![task[w].entry] = "Ok"]
              /\ CallAddresses(binary, task[w].entry) \subseteq targets
              /\ failures' = failures
         \/ \E w \in Worker :
              /\ Fail(w) /\ task[w].entry \in Addr
              /\ attempts[task[w].entry] = "absent"
              /\ attempts' = [attempts EXCEPT ![task[w].entry] = "Err"]
              /\ failures' = failures + 1
<1>0. \A w \in Worker : pc[w] # "idle" => task[w].entry \in Addr
  BY SMTT(60) DEF WellFormed, Task
<1>1. ASSUME NEW w \in Worker, InsertFunction(w)
      PROVE  /\ task[w].entry \in Addr /\ attempts[task[w].entry] = "absent"
             /\ attempts' = [attempts EXCEPT ![task[w].entry] = "Ok"]
             /\ CallAddresses(binary, task[w].entry) \subseteq targets
             /\ failures' = failures
  BY <1>0, <1>1, SMTT(60) DEF InsertFunction, Locking
<1>2. ASSUME NEW w \in Worker, Fail(w)
      PROVE  /\ task[w].entry \in Addr /\ attempts[task[w].entry] = "absent"
             /\ attempts' = [attempts EXCEPT ![task[w].entry] = "Err"]
             /\ failures' = failures + 1
  BY <1>0, <1>2, SMTT(60) DEF Fail, Locking
<1>3. CASE (\E w \in Worker : Take(w) \/ Lock(w) \/ Disassemble(w) \/ Alias(w))
             \/ NextWave \/ Finish \/ Returned \/ UNCHANGED vars
  BY <1>3, ZenonT(60) DEF Take, Lock, Disassemble, Alias, NextWave, Finish, Returned, vars, sharedVars
<1> QED
  BY <1>1, <1>2, <1>3, SMTT(60) DEF Next, Step

(* No call target is forgotten. *)
LEMMA CoveredStep ==
  TypeOK /\ WellFormed /\ Locking /\ Covered /\ [Next]_vars => Covered'
<1> SUFFICES ASSUME TypeOK, WellFormed, Locking, Covered, [Next]_vars
             PROVE  Covered'
  BY Zenon
<1>1. binary' = binary /\ Scheduled \subseteq Scheduled'
  BY ScheduledStep, Zenon
<1>2. Roots(binary)' \subseteq Scheduled'
  BY <1>1, Zenon DEF Covered, Roots
<1>3. ASSUME NEW e \in Addr, attempts'[e] = "Ok"
      PROVE  CallAddresses(binary, e) \subseteq Scheduled
  <2>1. CASE attempts[e] = "Ok"
    BY <2>1, Zenon DEF Covered
  <2>2. CASE \E w \in Worker : e = task[w].entry /\ CallAddresses(binary, e) \subseteq targets
    BY <2>2, Zenon DEF Scheduled
  <2> QED
    BY <1>3, <2>1, <2>2, OutcomeStep, SMTT(60) DEF TypeOK
<1>4. \A e \in Addr : CallAddresses(binary, e)' = CallAddresses(binary, e)
  BY <1>1, Zenon DEF CallAddresses
<1> QED
  BY <1>1, <1>2, <1>3, <1>4, SMTT(60) DEF Covered

(* Nothing is scheduled that cannot be reached. *)
LEMMA JustifiedStep ==
  TypeOK /\ WellFormed /\ Locking /\ Justified /\ [Next]_vars => Justified'
<1> SUFFICES ASSUME TypeOK, WellFormed, Locking, Justified, [Next]_vars
             PROVE  Justified'
  BY Zenon
<1>1. binary' = binary /\ Closed(binary, Reachable(binary))
  BY ScheduledStep, ReachableClosed, Zenon
<1>2. Scheduled' \subseteq Reachable(binary)
  BY <1>1, ScheduledStep, Zenon DEF Justified, Closed
<1>3. Reachable(binary)' = Reachable(binary)
  BY <1>1, Zenon
<1> QED
  BY <1>2, <1>3, Zenon DEF Justified

(* The failures are counted. *)
LEMMA FailuresStep ==
  TypeOK /\ WellFormed /\ Locking /\ FailuresCounted /\ [Next]_vars => FailuresCounted'
<1> SUFFICES ASSUME TypeOK, WellFormed, Locking, FailuresCounted, [Next]_vars
             PROVE  FailuresCounted'
  BY Zenon
<1> DEFINE failed == {e \in Addr : attempts[e] = "Err"}
<1>1. IsFiniteSet(failed) /\ failures = Cardinality(failed)
  BY Zenon DEF FailuresCounted
<1>2. CASE failed' = failed /\ failures' = failures
  BY <1>1, <1>2, Zenon DEF FailuresCounted
<1>3. ASSUME NEW e \in Addr, attempts[e] = "absent",
             attempts' = [attempts EXCEPT ![e] = "Err"], failures' = failures + 1
      PROVE  FailuresCounted'
  <2>1. failed' = failed \cup {e} /\ e \notin failed
    BY <1>3, Zenon DEF TypeOK
  <2>2. IsFiniteSet(failed \cup {e}) /\ Cardinality(failed \cup {e}) = Cardinality(failed) + 1
    BY <1>1, <2>1, FS_AddElement, SMTT(60)
  <2> QED
    BY <1>1, <1>3, <2>1, <2>2, Zenon DEF FailuresCounted
<1>4. ASSUME NEW e \in Addr, attempts[e] = "absent",
             attempts' = [attempts EXCEPT ![e] = "Ok"]
      PROVE  failed' = failed
  BY <1>4, Zenon DEF TypeOK
<1> QED
  BY <1>2, <1>3, <1>4, OutcomeStep, Zenon

(* Nothing is left when the analysis is done. *)
LEMMA EndedStep ==
  TypeOK /\ Ended /\ [Next]_vars => Ended'
<1> SUFFICES ASSUME TypeOK, Ended, [Next]_vars
             PROVE  Ended'
  BY Zenon
<1>1. ASSUME NEW w \in Worker, Step(w)
      PROVE  Ended'
  <2>1. phase' = phase /\ ~WaveDone
    BY <1>1, ZenonT(60) DEF Step, Take, Lock, Disassemble, Fail, InsertFunction, Alias, WaveDone, sharedVars
  <2> QED
    BY <2>1, Zenon DEF Ended
<1>2. CASE NextWave
  BY <1>2, ZenonT(60) DEF NextWave, Ended
<1>3. CASE Finish
  BY <1>3, Zenon DEF Finish, Ended, WaveDone
<1>4. CASE UNCHANGED vars
  BY <1>4, Zenon DEF vars, sharedVars, Ended, WaveDone
<1> QED
  BY <1>1, <1>2, <1>3, <1>4, Zenon DEF Next, Returned

-----------------------------------------------------------------------------
(* The inductive invariant holds when the first wave starts. *)
LEMMA InvInit == Init => IInv
<1> SUFFICES ASSUME Init
             PROVE  IInv
  BY Zenon
<1>1. TypeOK /\ WellFormed
  BY TypeInit, Zenon
<1>2. /\ DOMAIN label = (DOMAIN binary.symbols) \X {Self}
      /\ \A v \in DOMAIN label : label[v] = binary.symbols[v[1]] /\ v[1] \in DOMAIN binary.symbols
      /\ \A i \in DOMAIN binary.symbols : label[<<i, Self>>] = binary.symbols[i]
  BY Zenon DEF Init, LoadedGraph
<1>3. \A i \in DOMAIN binary.symbols :
        /\ binary.symbols[i] \in TodoTarget \cup SymbolicTarget
        /\ ~IsConcrete(binary.symbols[i])
  <2>1. binary.symbols \in Seq(TodoTarget \cup SymbolicTarget)
    BY <1>1, BinaryTyped, Zenon DEF BinaryType
  <2> QED
    BY <2>1, SMTT(60) DEF TodoTarget, SymbolicTarget, IsConcrete
<1>4. \A v \in DOMAIN label : ~IsConcrete(label[v])
  BY <1>2, <1>3, Zenon
<1>5. \A e : FunctionsAt(e) = {}
  BY <1>4, Zenon DEF FunctionsAt
<1>6. Items = FirstWave
  BY Zenon DEF Init, Items
<1>7. Locking
  BY SMTT(60) DEF Init, Locking, Holds
<1>8. Recorded
  <2>1. \A t \in FirstWave : OwnVertex(t)
    BY SMTT(60) DEF FirstWave, OwnVertex
  <2> QED
    BY <1>5, <1>6, <2>1, Zenon DEF Recorded, Init
<1>9. Scheduled = {t.entry : t \in FirstWave}
  BY <1>6, Zenon DEF Scheduled, Init
<1>10. {t.entry : t \in FirstWave} = Roots(binary)
  <2> DEFINE todo(v) == label[v].kind = "Todo" /\ ConstAddr[label[v].rvalue] # NoAddr
             item(v) == [entry |-> ConstAddr[label[v].rvalue], name |-> label[v].name, uuid |-> v]
  <2>1. \A v : item(v).entry = ConstAddr[label[v].rvalue]
    BY Zenon
  <2>2. FirstWave = {item(v) : v \in {u \in DOMAIN label : todo(u)}}
    BY Zenon DEF FirstWave
  <2> HIDE DEF item
  <2>3. {t.entry : t \in FirstWave} = {ConstAddr[label[v].rvalue] : v \in {u \in DOMAIN label : todo(u)}}
    BY <2>1, <2>2, SMTT(60)
  <2>4. \A i \in DOMAIN binary.symbols : binary.symbols[i].kind = "Todo" =>
          ConstAddr[binary.symbols[i].rvalue] \in Addr \cup {NoAddr}
    BY <1>3, ProgramAssumption, AddrAssumption, Zenon DEF TodoTarget, SymbolicTarget
  <2>5. ASSUME NEW d \in Roots(binary)
        PROVE  d \in {ConstAddr[label[v].rvalue] : v \in {u \in DOMAIN label : todo(u)}}
    <3>1. PICK i \in DOMAIN binary.symbols :
            binary.symbols[i].kind = "Todo" /\ ConstAddr[binary.symbols[i].rvalue] = d /\ d \in Addr
      BY SMTT(60) DEF Roots
    <3>2. <<i, Self>> \in DOMAIN label /\ label[<<i, Self>>] = binary.symbols[i]
      BY <1>2, Zenon
    <3> QED
      BY <3>1, <3>2, ProgramAssumption, AddrAssumption, Zenon
  <2>6. ASSUME NEW v \in DOMAIN label, todo(v)
        PROVE  ConstAddr[label[v].rvalue] \in Roots(binary)
    BY <1>2, <2>4, <2>6, SMTT(60) DEF Roots
  <2> QED
    BY <2>3, <2>5, <2>6, SMTT(60)
<1>11. Covered /\ Justified
  BY <1>9, <1>10, ReachableClosed, SMTT(60) DEF Covered, Justified, Init, Closed
<1>12. UniqueFunction /\ EdgesAreCalls
  BY <1>4, SMTT(60) DEF UniqueFunction, EdgesAreCalls, Init
<1>13. FailuresCounted
  <2>1. {e \in Addr : attempts[e] = "Err"} = {}
    BY Zenon DEF Init
  <2> QED
    BY <2>1, FS_EmptySet, SMTT(60) DEF FailuresCounted, Init
<1>14. Ended
  BY Zenon DEF Ended, Init
<1> QED
  BY <1>1, <1>7, <1>8, <1>11, <1>12, <1>13, <1>14, Zenon DEF IInv

(* The inductive invariant is inductive. *)
LEMMA InvStep == IInv /\ [Next]_vars => IInv'
BY Zenon, TypeStep, LockingStep, RecordedStep, UniqueStep, EdgesStep, CoveredStep,
   JustifiedStep, FailuresStep, EndedStep DEF IInv

(* The inductive invariant is an invariant of the parallel analysis. *)
THEOREM Invariance == Spec => []IInv
BY InvInit, InvStep, PTL DEF Spec

(* Whatever the schedule, an entry has at most one function in the program. *)
THEOREM Uniqueness == Spec => []UniqueFunction
<1>1. IInv => UniqueFunction
  BY Zenon DEF IInv
<1> QED
  BY <1>1, Invariance, PTL

(***************************************************************************)
(* The unwrap in the update closure of the first wave never fails: a       *)
(* worker that adds an alias finds the function.                           *)
(***************************************************************************)
THEOREM AliasSafe == Spec => []AliasFindsFunction
<1>1. IInv => AliasFindsFunction
  BY SMTT(60) DEF IInv, AliasFindsFunction, Locking, Recorded, WellFormed, Task
<1> QED
  BY <1>1, Invariance, PTL

(* The edges of the call graph are the calls of its functions. *)
THEOREM CallGraphCorrect == Spec => []EdgesAreCalls
<1>1. IInv => EdgesAreCalls
  BY Zenon DEF IInv
<1> QED
  BY <1>1, Invariance, PTL

(* When nothing is left to do, what was tried is what can be reached. *)
LEMMA ReachableTried ==
  ASSUME IInv, WaveDone, targets = {}
  PROVE  /\ {e \in Addr : attempts[e] # "absent"} = Reachable(binary)
         /\ \A e \in Addr : attempts[e] = "Ok" <=> e \in Wanted(binary)
<1> DEFINE tried == {e \in Addr : attempts[e] # "absent"}
<1>1. Items = {}
  BY Zenon DEF WaveDone, Items
<1>2. Scheduled = tried
  BY <1>1, Zenon DEF Scheduled
<1>3. \A e \in tried : attempts[e] = "Ok" <=> e \in binary.decodes
  BY ZenonT(60) DEF IInv, TypeOK, Recorded
<1>4. Closed(binary, tried)
  BY <1>2, <1>3, Zenon DEF IInv, Covered, Closed
<1>5. Reachable(binary) \subseteq tried
  BY <1>4, Zenon DEF Reachable
<1>6. tried \subseteq Reachable(binary)
  BY <1>2, Zenon DEF IInv, Justified
<1> QED
  BY <1>3, <1>5, <1>6, Zenon DEF Wanted

(***************************************************************************)
(* When analyze returns, exactly the reachable functions have been tried,  *)
(* the program has those that can be disassembled and the failures are     *)
(* the others: the outcome does not depend on the schedule.                *)
(***************************************************************************)
THEOREM Completeness == Spec => []Complete
<1>1. IInv => Complete
  <2> SUFFICES ASSUME IInv, phase = "done"
               PROVE  /\ {e \in Addr : attempts[e] # "absent"} = Reachable(binary)
                      /\ {e \in Addr : FunctionsAt(e) # {}} = Wanted(binary)
                      /\ failures = Cardinality(Reachable(binary) \ binary.decodes)
    BY SMTT(60) DEF Complete
  <2>1. /\ {e \in Addr : attempts[e] # "absent"} = Reachable(binary)
        /\ \A e \in Addr : attempts[e] = "Ok" <=> e \in Wanted(binary)
    BY ReachableTried, Zenon DEF IInv, Ended
  <2>2. {e \in Addr : FunctionsAt(e) # {}} = Wanted(binary)
    <3>1. Wanted(binary) \subseteq Addr
      BY Zenon DEF Wanted, Reachable
    <3> QED
      BY <2>1, <3>1, SMTT(60) DEF IInv, Recorded
  <2>3. {e \in Addr : attempts[e] = "Err"} = Reachable(binary) \ binary.decodes
    BY <2>1, Zenon DEF IInv, TypeOK, Recorded
  <2> QED
    BY <2>1, <2>2, <2>3, SMTT(60) DEF IInv, FailuresCounted
<1> QED
  BY <1>1, Invariance, PTL

-----------------------------------------------------------------------------
(* Which functions the abstract search has found, read off `attempts'. *)
LEMMA FoundRecorded ==
  ASSUME Recorded
  PROVE  {e \in Addr : FunctionsAt(e) # {}} = {e \in Addr : attempts[e] = "Ok"}
BY SMTT(60) DEF Recorded

(***************************************************************************)
(* Every behaviour of the parallel analysis is a search for functions as   *)
(* Discovery allows it: functions of the binary turn up one at a time, are *)
(* never lost again, and the analysis ends only when none is missing.      *)
(***************************************************************************)
THEOREM ImplementsDiscovery == Spec => D!Init /\ [][D!Next]_(D!vars)
<1> DEFINE found == {e \in Addr : FunctionsAt(e) # {}}
           ok == {e \in Addr : attempts[e] = "Ok"}
<1>1. Init => D!Init
  <2> SUFFICES ASSUME Init
               PROVE  D!Init
    BY Zenon
  <2>1. found = ok
    BY InvInit, FoundRecorded, Zenon DEF IInv
  <2>2. ok = {} /\ phase = "first"
    BY Zenon DEF Init
  <2> QED
    BY <2>1, <2>2, Zenon DEF D!Init
<1>2. IInv /\ IInv' /\ [Next]_vars => [D!Next]_(D!vars)
  <2> SUFFICES ASSUME IInv, IInv', [Next]_vars
               PROVE  [D!Next]_(D!vars)
    BY Zenon
  <2>1. found = ok /\ found' = ok'
    BY FoundRecorded, SMTT(60) DEF IInv, Recorded
  <2>2. binary' = binary
    BY ScheduledStep, Zenon DEF IInv
  <2> HIDE DEF found
  <2>3. CASE Finish
    <3>1. phase # "done" /\ phase' = "done" /\ attempts' = attempts /\ WaveDone /\ targets = {}
      BY <2>3, Zenon DEF Finish
    <3>2. ok' = ok
      BY <3>1, Zenon
    <3>3. ok = Wanted(binary)
      <4>1. Wanted(binary) \subseteq Addr
        BY Zenon DEF Wanted, Reachable
      <4> QED
        BY <3>1, <4>1, ReachableTried, Zenon
    <3> HIDE DEF ok
    <3>4. found = Wanted(binary) /\ found' = found
      BY <2>1, <3>2, <3>3, Zenon
    <3> QED
      BY <3>1, <3>4, <2>2, Zenon DEF D!Next, D!Finish, found
  <2>4. ASSUME NEW w \in Worker, InsertFunction(w)
        PROVE  [D!Next]_(D!vars)
    <3>1. /\ attempts' = [attempts EXCEPT ![task[w].entry] = "Ok"]
          /\ phase' = phase /\ pc[w] = "insert"
      BY <2>4, Zenon DEF InsertFunction
    <3>2. PICK e \in Addr : e = task[w].entry
      BY <3>1, SMTT(60) DEF IInv, WellFormed, Task
    <3>3. attempts[e] = "absent" /\ e \in binary.decodes
      BY <3>1, <3>2, SMTT(60) DEF IInv, Locking
    <3>4. e \in Reachable(binary)
      BY <3>1, <3>2, SMTT(60) DEF IInv, Justified, Scheduled, Items
    <3>5. ok' = ok \cup {e} /\ e \notin ok
      BY <3>1, <3>2, <3>3, SMTT(60) DEF IInv, TypeOK
    <3>6. phase # "done"
      BY <3>1, SMTT(60) DEF IInv, Ended, WaveDone
    <3>7. e \in Wanted(binary) \ found /\ found' = found \cup {e}
      BY <2>1, <3>3, <3>4, <3>5, SMTT(60) DEF Wanted
    <3>8. D!Find
      BY <2>2, <3>1, <3>6, <3>7, SMTT(60) DEF D!Find, found
    <3> QED
      BY <3>8, Zenon DEF D!Next
  <2>5. CASE ~Finish /\ ~\E w \in Worker : InsertFunction(w)
    <3>1. ok' = ok
      BY <2>5, OutcomeStep, SMTT(60) DEF IInv, TypeOK
    <3>2. (phase' = "done") <=> (phase = "done")
      BY <2>5, ZenonT(60) DEF Next, Step, Take, Lock, Disassemble, Fail, Alias, NextWave, Returned,
                  vars, sharedVars
    <3>3. found' = found
      BY <2>1, <3>1, Zenon
    <3> QED
      BY <2>2, <3>2, <3>3, Zenon DEF D!vars, found
  <2> QED
    BY <2>3, <2>4, <2>5, Zenon
<1> QED
  BY <1>1, <1>2, Invariance, PTL DEF Spec

-----------------------------------------------------------------------------
(* Symbols are kept: what the steps do to names, items and occurrences. *)

(* A new function has one name. *)
LEMMA SlotsNew ==
  ASSUME NEW d, NEW nm, NEW name
  PROVE  Slots(Concrete(d, nm), name) = IF nm = name THEN {0} ELSE {}
<1>1. Concrete(d, nm).aliases = <<>> /\ Concrete(d, nm).name = nm /\ Len(<<>>) = 0
  BY Zenon DEF Concrete
<1>2. 0..0 = {0}
  BY SMTT(60)
<1> HIDE DEF Concrete
<1> QED BY <1>1, <1>2, Zenon DEF Slots

(* add_alias adds one occurrence of the name. *)
LEMMA SlotsAlias ==
  ASSUME NEW f \in ConcreteTarget, NEW nm \in Name, NEW name, NEW g,
         g.name = f.name, g.aliases = Append(f.aliases, nm)
  PROVE  /\ Len(f.aliases) + 1 \notin Slots(f, name)
         /\ Slots(g, name) = Slots(f, name) \cup (IF nm = name THEN {Len(f.aliases) + 1} ELSE {})
<1> DEFINE n == Len(f.aliases)
<1>1. f.aliases \in Seq(Name) /\ n \in Nat
  BY SMTT(60) DEF ConcreteTarget
<1> HIDE DEF Name
<1>2. /\ Len(g.aliases) = n + 1 /\ g.aliases[n + 1] = nm
      /\ \A k \in 1..n : g.aliases[k] = f.aliases[k]
  BY <1>1, SMTT(60)
<1>3. \A k \in 0..(n + 1) : k = 0 \/ k = n + 1 \/ k \in 1..n
  BY <1>1, SMTT(60)
<1>4. /\ n + 1 \notin 0..n /\ n + 1 # 0 /\ 0..(n + 1) = 0..n \cup {n + 1}
      /\ \A k \in 0..n : k = 0 \/ k \in 1..n
  BY <1>1, SMTT(60)
<1> HIDE DEF n
<1> QED BY <1>1, <1>2, <1>3, <1>4, Zenon DEF Slots, n

(* set_plt makes an alias of the name: no occurrence of a symbol is lost. *)
LEMMA SlotsPlt ==
  ASSUME NEW f \in ConcreteTarget, NEW slot, NEW s
  PROVE  LET name == <<"sym", s>>
         IN  /\ Len(f.aliases) + 1 \notin Slots(f, name)
             /\ Slots(SetPlt(f, slot), name) =
                  (Slots(f, name) \ {0}) \cup (IF 0 \in Slots(f, name) THEN {Len(f.aliases) + 1} ELSE {})
<1> DEFINE n == Len(f.aliases)
           name == <<"sym", s>>
           g == SetPlt(f, slot)
<1>1. f.aliases \in Seq(Name) /\ n \in Nat /\ f.name \in Name
  BY SMTT(60) DEF ConcreteTarget
<1>2. g.name = <<"plt", slot>> /\ g.aliases = Append(f.aliases, f.name)
  BY Zenon DEF SetPlt, ConcreteTarget
<1>3. g.name # name
  BY <1>2, SMTT(60)
<1> HIDE DEF Name, name, g
<1>4. /\ Len(g.aliases) = n + 1 /\ g.aliases[n + 1] = f.name
      /\ \A k \in 1..n : g.aliases[k] = f.aliases[k]
  BY <1>1, <1>2, SMTT(60)
<1>5. \A k \in 0..(n + 1) : k = 0 \/ k = n + 1 \/ k \in 1..n
  BY <1>1, SMTT(60)
<1>6. /\ n + 1 \notin 0..n /\ n + 1 # 0 /\ 0..(n + 1) = 0..n \cup {n + 1} /\ 0 \in 0..n
      /\ \A k \in 0..n : k = 0 \/ k \in 1..n
      /\ \A k \in 1..n : k # 0 /\ k # n + 1
  BY <1>1, SMTT(60)
<1> HIDE DEF n
<1>7. 0 \in Slots(f, name) <=> f.name = name
  BY <1>6, Zenon DEF Slots, n
<1>8. Slots(g, name) = (Slots(f, name) \ {0}) \cup (IF f.name = name THEN {n + 1} ELSE {})
  BY <1>3, <1>4, <1>5, <1>6, Zenon DEF Slots, n
<1>9. n + 1 \notin Slots(f, name)
  BY <1>6, Zenon DEF Slots, n
<1> QED BY <1>7, <1>8, <1>9, Zenon DEF n, name, g

(* Two finite sets of the same size get one element more each. *)
LEMMA OneMore ==
  ASSUME NEW S, NEW T, IsFiniteSet(S), IsFiniteSet(T), Cardinality(S) = Cardinality(T),
         NEW x, x \notin S, NEW y, y \notin T
  PROVE  IsFiniteSet(S \cup {x}) /\ Cardinality(S \cup {x}) = Cardinality(T \cup {y})
BY FS_AddElement, SMTT(60)

(* An element is replaced by a new one. *)
LEMMA OneMoved ==
  ASSUME NEW S, IsFiniteSet(S), NEW x, NEW y, y \notin S
  PROVE  LET T == (S \ {x}) \cup (IF x \in S THEN {y} ELSE {})
         IN  IsFiniteSet(T) /\ Cardinality(T) = Cardinality(S)
<1>1. CASE x \in S
  <2>1. IsFiniteSet(S \ {x}) /\ Cardinality(S \ {x}) = Cardinality(S) - 1
    BY <1>1, FS_RemoveElement, Zenon
  <2>2. /\ IsFiniteSet((S \ {x}) \cup {y})
        /\ Cardinality((S \ {x}) \cup {y}) = Cardinality(S \ {x}) + 1
    BY <2>1, FS_AddElement, Zenon
  <2>3. Cardinality(S) \in Nat
    BY FS_CardinalityType, Zenon
  <2> QED BY <1>1, <2>1, <2>2, <2>3, SMTT(60)
<1>2. CASE x \notin S
  <2>1. (S \ {x}) \cup (IF x \in S THEN {y} ELSE {}) = S
    BY <1>2, Zenon
  <2> QED BY <2>1, Zenon
<1> QED BY <1>1, <1>2, Zenon

(* Where a name occurs among the names of the functions F. *)
OccursIn(lab, F, name) == UNION {{v} \X Slots(lab[v], name) : v \in F}

(* The symbols of this name at e whose items are not among these. *)
DoneIn(items, e, name) == {i \in Reported(e, name) : ItemOf(i) \notin items}

(* There is one function at an entry or none. *)
LEMMA OccursAt ==
  ASSUME NEW lab, NEW name
  PROVE  /\ OccursIn(lab, {}, name) = {}
         /\ \A v : OccursIn(lab, {v}, name) = {v} \X Slots(lab[v], name)
BY Zenon DEF OccursIn

(* Kept, with the labels and the items named. *)
LEMMA KeptNow ==
  Kept <=> \A e \in binary.decodes, s \in Symbol :
             /\ IsFiniteSet(OccursIn(label, FunctionsAt(e), <<"sym", s>>))
             /\ Cardinality(OccursIn(label, FunctionsAt(e), <<"sym", s>>)) =
                  Cardinality(DoneIn(Items, e, <<"sym", s>>))
BY Zenon DEF Kept, OccursIn, DoneIn, Occurrences

(* The same in the next state. *)
LEMMA KeptNext ==
  ASSUME binary' = binary
  PROVE  Kept' <=> \A e \in binary.decodes, s \in Symbol :
                     /\ IsFiniteSet(OccursIn(label', FunctionsAt(e)', <<"sym", s>>))
                     /\ Cardinality(OccursIn(label', FunctionsAt(e)', <<"sym", s>>)) =
                          Cardinality(DoneIn(Items', e, <<"sym", s>>))
<1>1. \A e, name : Reported(e, name)' = Reported(e, name)
  BY Zenon DEF Reported
<1>2. \A i : ItemOf(i)' = ItemOf(i)
  BY Zenon DEF ItemOf
<1>3. \A e, name : {i \in Reported(e, name) : ItemOf(i) \notin Items}' = DoneIn(Items', e, name)
  BY <1>1, <1>2, Zenon DEF DoneIn
<1>4. \A e, name : Occurrences(e, name)' = OccursIn(label', FunctionsAt(e)', name)
  BY Zenon DEF Occurrences, OccursIn
<1>5. Kept' <=> \A e \in binary.decodes, s \in Symbol :
                  /\ IsFiniteSet(Occurrences(e, <<"sym", s>>)')
                  /\ Cardinality(Occurrences(e, <<"sym", s>>)') =
                       Cardinality({i \in Reported(e, <<"sym", s>>) : ItemOf(i) \notin Items}')
  BY Zenon DEF Kept
<1> QED BY <1>3, <1>4, <1>5, Zenon

(* What the loader reported is finite. *)
LEMMA ReportedFinite ==
  ASSUME TypeOK, NEW e, NEW name, NEW items
  PROVE  IsFiniteSet(DoneIn(items, e, name))
<1>1. binary.symbols \in Seq(TodoTarget \cup SymbolicTarget)
  BY BinaryTyped, Zenon DEF BinaryType
<1>2. DOMAIN binary.symbols = 1..Len(binary.symbols) /\ Len(binary.symbols) \in Nat
  BY <1>1, SMTT(60)
<1>3. IsFiniteSet(DOMAIN binary.symbols)
  BY <1>2, FS_Interval, SMTT(60)
<1> QED BY <1>3, FS_Subset, Zenon DEF DoneIn, Reported

(* The item of a symbol has a UUID, which names the symbol. *)
LEMMA ItemFields ==
  ASSUME TypeOK, NEW i \in DOMAIN binary.symbols
  PROVE  /\ ItemOf(i).uuid = <<i, Self>> /\ ItemOf(i).uuid # NoUuid
         /\ ItemOf(i).entry = ConstAddr[binary.symbols[i].rvalue]
         /\ ItemOf(i).name = binary.symbols[i].name
<1>1. binary.symbols \in Seq(TodoTarget \cup SymbolicTarget)
  BY BinaryTyped, Zenon DEF BinaryType
<1>2. i \in Nat
  BY <1>1, SMTT(60)
<1>3. <<i, Self>> \in Nat \X (Rvalue \cup {Self})
  BY <1>2, Zenon
<1> QED BY <1>3, ProgramAssumption, Zenon DEF ItemOf

(* A worker that gives back the item of a symbol was the only one to have it. *)
LEMMA ItemGivenBack ==
  ASSUME TypeOK, Apart, NEW w \in Worker, pc[w] # "idle", task[w].uuid # NoUuid,
         Release(w), pending' = pending
  PROVE  task[w] \notin Items'
<1>1. task[w] \notin pending /\ \A u \in Worker \ {w} : pc[u] # "idle" => task[u] # task[w]
  BY Zenon DEF Apart
<1>2. /\ \A u \in Worker \ {w} : pc'[u] = pc[u] /\ task'[u] = task[u]
      /\ pc'[w] = "idle"
  BY Zenon DEF Release, TypeOK
<1> QED BY <1>1, <1>2, Zenon DEF Items

(* The items of a wave stay named. *)
LEMMA NamedStep ==
  ASSUME IInv, Named, [Next]_vars
  PROVE  Named'
<1>1. binary' = binary
  BY ScheduledStep, Zenon DEF IInv
<1>2. \A i : ItemOf(i)' = ItemOf(i)
  BY <1>1, Zenon DEF ItemOf
<1>3. ASSUME Items' \subseteq Items, phase' = phase
      PROVE  Named'
  BY <1>1, <1>2, <1>3, Zenon DEF Named
<1>4. ASSUME NEW w \in Worker, Step(w)
      PROVE  Items' \subseteq Items /\ phase' = phase
  <2>1. Items' \subseteq Items
    BY <1>4, ItemsStep, Zenon DEF IInv
  <2>2. phase' = phase
    BY <1>4, Zenon DEF Step, Take, Lock, Disassemble, Fail, InsertFunction, Alias, sharedVars
  <2> QED BY <2>1, <2>2, Zenon
<1>5. CASE NextWave
  <2>1. /\ phase' = "later" /\ pc' = pc /\ task' = task /\ WaveDone
        /\ pending' = {[entry |-> e, name |-> NoName, uuid |-> NoUuid] : e \in targets}
    BY <1>5, Zenon DEF NextWave
  <2>2. Items' = pending'
    BY <2>1, Zenon DEF Items, WaveDone
  <2>3. \A t \in Items' : t.uuid = NoUuid /\ t.name = NoName
    BY <2>1, <2>2, SMTT(60)
  <2> QED BY <2>1, <2>3, Zenon DEF Named
<1>6. CASE Finish
  <2>1. Items' = {}
    BY <1>6, Zenon DEF Finish, WaveDone, Items
  <2> QED BY <2>1, Zenon DEF Named
<1>7. CASE UNCHANGED vars
  <2>1. Items' = Items /\ phase' = phase
    BY <1>7, Zenon DEF vars, sharedVars, Items
  <2> QED BY <1>3, <2>1, Zenon
<1> QED BY <1>3, <1>4, <1>5, <1>6, <1>7, Zenon DEF Next, Returned

(* No symbol is given to two workers. *)
LEMMA ApartStep ==
  ASSUME IInv, Apart, [Next]_vars
  PROVE  Apart'
<1>0. /\ pc \in [Worker -> {"idle", "lock", "disassemble", "insert", "alias"}]
      /\ task \in [Worker -> Task \cup {NoTask}]
  BY Zenon DEF IInv, TypeOK
<1>1. ASSUME NEW w \in Worker, Take(w)
      PROVE  Apart'
  <2>1. PICK t \in pending : pending' = pending \ {t} /\ task' = [task EXCEPT ![w] = t]
    BY <1>1, ZenonT(60) DEF Take
  <2>2. pc[w] = "idle" /\ pc' = [pc EXCEPT ![w] = "lock"]
    BY <1>1, Zenon DEF Take
  <2>3. /\ task'[w] = t /\ pc'[w] = "lock"
        /\ \A u \in Worker \ {w} : task'[u] = task[u] /\ pc'[u] = pc[u]
    BY <1>0, <2>1, <2>2, Zenon
  <2>4. \A u \in Worker \ {w} : pc[u] # "idle" /\ task[u].uuid # NoUuid => task[u] # t
    BY <2>1, Zenon DEF Apart
  <2> SUFFICES ASSUME NEW u \in Worker, pc'[u] # "idle", task'[u].uuid # NoUuid
               PROVE  /\ task'[u] \notin pending'
                      /\ \A x \in Worker \ {u} : pc'[x] # "idle" => task'[x] # task'[u]
    BY Zenon DEF Apart
  <2>5. CASE u = w
    BY <2>1, <2>3, <2>4, <2>5, SMTT(60)
  <2>6. CASE u # w
    BY <2>1, <2>3, <2>4, <2>6, SMTT(60) DEF Apart
  <2> QED BY <2>5, <2>6, Zenon
<1>2. ASSUME pending' = pending,
             \A u \in Worker : pc'[u] # "idle" => pc[u] # "idle" /\ task'[u] = task[u]
      PROVE  Apart'
  BY <1>2, Zenon DEF Apart
<1>3. ASSUME NEW w \in Worker, Lock(w) \/ Disassemble(w) \/ Fail(w) \/ InsertFunction(w) \/ Alias(w)
      PROVE  Apart'
  <2>1. pending' = pending /\ pc[w] # "idle"
    BY <1>3, Zenon DEF Lock, Disassemble, Fail, InsertFunction, Alias, sharedVars
  <2>2. Release(w) \/ (task' = task /\ \E c \in {"disassemble", "insert", "alias"} : pc' = [pc EXCEPT ![w] = c])
    BY <1>3, Zenon DEF Lock, Disassemble, Fail, InsertFunction, Alias
  <2>3. \A u \in Worker : pc'[u] # "idle" => pc[u] # "idle" /\ task'[u] = task[u]
    BY <1>0, <2>1, <2>2, Zenon DEF Release
  <2> QED BY <1>2, <2>1, <2>3, Zenon
<1>4. CASE NextWave
  <2>1. \A u \in Worker : pc'[u] = "idle"
    BY <1>4, Zenon DEF NextWave, WaveDone
  <2> QED BY <2>1, Zenon DEF Apart
<1>5. CASE Finish \/ UNCHANGED vars
  BY <1>2, <1>5, Zenon DEF Finish, vars, sharedVars
<1> QED BY <1>1, <1>3, <1>4, <1>5, Zenon DEF Next, Step, Returned

(* A step that gives back no symbol's item and changes no function. *)
LEMMA KeptSame ==
  ASSUME TypeOK, Kept, binary' = binary,
         \A e \in binary.decodes, s \in Symbol :
           /\ OccursIn(label', FunctionsAt(e)', <<"sym", s>>) = OccursIn(label, FunctionsAt(e), <<"sym", s>>)
           /\ DoneIn(Items', e, <<"sym", s>>) = DoneIn(Items, e, <<"sym", s>>)
  PROVE  Kept'
BY KeptNow, KeptNext, Zenon

(* The items of a wave that is over, and of the next one, are no symbols'. *)
LEMMA DoneSame ==
  ASSUME TypeOK, NEW items, NEW e, NEW name,
         \A i \in Reported(e, name) : ItemOf(i) \in items <=> ItemOf(i) \in Items
  PROVE  DoneIn(items, e, name) = DoneIn(Items, e, name)
BY Zenon DEF DoneIn

(* A worker gives back an item that is no symbol's or whose entry cannot be disassembled. *)
LEMMA KeptRelease ==
  ASSUME TypeOK, Kept, NEW w \in Worker, pc[w] # "idle", Release(w), pending' = pending,
         binary' = binary, label' = label,
         task[w].uuid = NoUuid \/ task[w].entry \notin binary.decodes
  PROVE  Kept'
<1>1. Items' \subseteq Items /\ Items \subseteq Items' \cup {task[w]}
  BY ItemsReleased, Zenon
<1>2. ASSUME NEW e \in binary.decodes, NEW name
      PROVE  DoneIn(Items', e, name) = DoneIn(Items, e, name)
  <2>1. \A i \in Reported(e, name) : ItemOf(i) # task[w]
    BY <1>2, ItemFields, Zenon DEF Reported
  <2> QED BY <1>1, <2>1, DoneSame, Zenon
<1>3. \A e : FunctionsAt(e)' = FunctionsAt(e)
  BY Zenon DEF FunctionsAt
<1> QED BY <1>2, <1>3, KeptSame, Zenon

(* Nothing happens to items and functions. *)
LEMMA KeptIdle ==
  ASSUME TypeOK, Kept, binary' = binary, label' = label, Items' = Items
  PROVE  Kept'
<1>1. \A e : FunctionsAt(e)' = FunctionsAt(e)
  BY Zenon DEF FunctionsAt
<1> QED BY <1>1, KeptSame, Zenon

(* The item of a worker is done and its name occurs once more. *)
LEMMA KeptMore ==
  ASSUME TypeOK, WellFormed, Named, Apart, Kept, NEW w \in Worker, pc[w] # "idle", Release(w), pending' = pending,
         binary' = binary, phase = "first" \/ task[w].name = NoName,
         \A e \in binary.decodes, s \in Symbol :
           LET O == OccursIn(label, FunctionsAt(e), <<"sym", s>>)
               P == OccursIn(label', FunctionsAt(e)', <<"sym", s>>)
           IN  IF e = task[w].entry /\ FunctionName(task[w]) = <<"sym", s>>
                 THEN \E x : x \notin O /\ P = O \cup {x}
                 ELSE P = O
  PROVE  Kept'
<1>1. Items' \subseteq Items /\ Items \subseteq Items' \cup {task[w]} /\ task[w] \in Items
  BY ItemsReleased, Zenon DEF Items
<1> SUFFICES ASSUME NEW e \in binary.decodes, NEW s \in Symbol
             PROVE  /\ IsFiniteSet(OccursIn(label', FunctionsAt(e)', <<"sym", s>>))
                    /\ Cardinality(OccursIn(label', FunctionsAt(e)', <<"sym", s>>)) =
                         Cardinality(DoneIn(Items', e, <<"sym", s>>))
  BY KeptNext, Zenon
<1> DEFINE name == <<"sym", s>>
           O == OccursIn(label, FunctionsAt(e), name)
           P == OccursIn(label', FunctionsAt(e)', name)
           T == DoneIn(Items, e, name)
<1>2. IsFiniteSet(O) /\ Cardinality(O) = Cardinality(T)
  BY KeptNow, Zenon
<1>3. name \in Name /\ name # NoName /\ name # DefaultName(task[w].entry)
  BY NameAssumption, SMTT(60) DEF Name, DefaultName
<1>4. FunctionName(task[w]) = name <=> task[w].name = name
  BY <1>3, Zenon DEF FunctionName
<1>5. CASE e = task[w].entry /\ task[w].name = name
  <2>1. PICK x : x \notin O /\ P = O \cup {x}
    BY <1>4, <1>5, Zenon
  <2>2. PICK i \in DOMAIN binary.symbols : binary.symbols[i].kind = "Todo" /\ task[w] = ItemOf(i)
    BY <1>1, <1>3, <1>5, Zenon DEF Named
  <2>3. i \in Reported(e, name) /\ i \notin T
    BY <1>1, <1>5, <2>2, ItemFields, Zenon DEF Reported, DoneIn
  <2>4. task[w] \notin Items'
    BY <2>2, ItemFields, ItemGivenBack, Zenon
  <2>5. \A j \in Reported(e, name) : ItemOf(j) = task[w] => j = i
    BY <2>2, ItemFields, SMTT(60) DEF Reported
  <2>6. DoneIn(Items', e, name) = T \cup {i}
    BY <1>1, <2>2, <2>3, <2>4, <2>5, Zenon DEF DoneIn
  <2>7. IsFiniteSet(T)
    BY ReportedFinite, Zenon
  <2> HIDE DEF O, P, T, name
  <2>8. IsFiniteSet(O \cup {x}) /\ Cardinality(O \cup {x}) = Cardinality(T \cup {i})
    BY <1>2, <2>1, <2>3, <2>7, OneMore, SMTT(60)
  <2>9. IsFiniteSet(P) /\ Cardinality(P) = Cardinality(DoneIn(Items', e, name))
    BY <2>1, <2>6, <2>8, Zenon
  <2> QED BY <2>9, Zenon DEF P, name
<1>6. CASE ~(e = task[w].entry /\ task[w].name = name)
  <2>1. P = O
    BY <1>4, <1>6, Zenon
  <2>2. \A i \in Reported(e, name) : ItemOf(i) # task[w]
    BY <1>6, ItemFields, Zenon DEF Reported
  <2>3. DoneIn(Items', e, name) = T
    BY <1>1, <2>2, DoneSame, Zenon
  <2> QED BY <1>2, <2>1, <2>3, Zenon
<1> QED BY <1>5, <1>6, Zenon

(* A function that is inserted has the name of its item and no other. *)
LEMMA KeptInsert ==
  ASSUME IInv, SymbolsInv, NEW w \in Worker, InsertFunction(w), binary' = binary
  PROVE  Kept'
<1> DEFINE entry == task[w].entry
           nm == FunctionName(task[w])
<1>1. PICK vx \in DOMAIN label' : Placed(w, vx)
  BY PlacedInsert, Zenon DEF IInv
<1>2. FunctionsAt(entry) = {}
  BY PlacedInsert, Zenon DEF IInv, Recorded
<1>3. /\ label'[vx] = Concrete(entry, nm) /\ label'[vx].start = entry
      /\ DOMAIN label \subseteq DOMAIN label'
      /\ \A v \in DOMAIN label : v # vx => label'[v] = label[v]
  BY <1>1, Zenon DEF Placed, InsertedAt
<1>4. vx \in DOMAIN label => label[vx].kind = "Todo"
  BY <1>1, Zenon DEF Placed
<1>5. \A v \in DOMAIN label' :
        IsConcrete(label'[v]) <=>
          v = vx \/ (v \in DOMAIN label /\ IsConcrete(label[v]) /\ label'[v] = label[v])
  BY <1>1, PlacedFunctions, Zenon DEF IInv
<1>6. \A e : e = entry => FunctionsAt(e) = {} /\ FunctionsAt(e)' = {vx}
  BY <1>2, <1>3, <1>5, Zenon DEF FunctionsAt
<1>7. ASSUME NEW e, e # entry
      PROVE  FunctionsAt(e)' = FunctionsAt(e) /\ \A v \in FunctionsAt(e) : label'[v] = label[v]
  BY <1>3, <1>4, <1>5, <1>7, Zenon DEF FunctionsAt, IsConcrete
<1>8. pc[w] = "insert" /\ Release(w) /\ pending' = pending
  BY Zenon DEF InsertFunction
<1>9. task[w] \in Items
  BY <1>8, Zenon DEF Items
<1>10. phase = "first" \/ task[w].name = NoName
  BY <1>9, Zenon DEF SymbolsInv, Named
<1>11. ASSUME NEW e \in binary.decodes, NEW s \in Symbol
       PROVE  LET O == OccursIn(label, FunctionsAt(e), <<"sym", s>>)
                  P == OccursIn(label', FunctionsAt(e)', <<"sym", s>>)
              IN  IF e = entry /\ nm = <<"sym", s>>
                    THEN \E x : x \notin O /\ P = O \cup {x}
                    ELSE P = O
  <2> DEFINE name == <<"sym", s>>
             O == OccursIn(label, FunctionsAt(e), name)
             P == OccursIn(label', FunctionsAt(e)', name)
  <2> HIDE DEF nm, name
  <2>1. CASE e = entry
    <3>1. FunctionsAt(e) = {} /\ FunctionsAt(e)' = {vx}
      BY <1>6, <2>1, Zenon
    <3>4. O = {} /\ P = {vx} \X Slots(label'[vx], name)
      BY <3>1, OccursAt, Zenon
    <3>2. Slots(label'[vx], name) = IF nm = name THEN {0} ELSE {}
      BY <1>3, SlotsNew, SMTT(60)
    <3>3. {vx} \X {0} = {<<vx, 0>>} /\ {vx} \X {} = {}
      BY SMTT(60)
    <3>5. CASE nm = name
      <4>1. P = O \cup {<<vx, 0>>} /\ <<vx, 0>> \notin O
        BY <3>2, <3>3, <3>4, <3>5, Zenon
      <4> QED BY <2>1, <3>5, <4>1, Zenon DEF name
    <3>6. CASE nm # name
      <4>1. P = O
        BY <3>2, <3>3, <3>4, <3>6, Zenon
      <4> QED BY <2>1, <3>6, <4>1, Zenon DEF name
    <3> QED BY <3>5, <3>6, Zenon
  <2>2. CASE e # entry
    <3>1. P = O
      BY <1>7, <2>2, SMTT(60) DEF OccursIn
    <3> QED BY <2>2, <3>1, Zenon DEF name
  <2> QED BY <2>1, <2>2, Zenon
<1> HIDE DEF Concrete
<1> QED BY <1>8, <1>10, <1>11, KeptMore, Zenon DEF IInv, SymbolsInv

(* A function gets one alias more. *)
LEMMA KeptAlias ==
  ASSUME IInv, SymbolsInv, NEW w \in Worker, Alias(w), binary' = binary
  PROVE  Kept'
<1> DEFINE entry == task[w].entry
           nm == FunctionName(task[w])
<1>0. /\ pc[w] = "alias" /\ Release(w) /\ pending' = pending /\ AddAlias(entry, nm)
      /\ label \in [DOMAIN label -> CallTarget] /\ task[w] \in Task
  BY Zenon DEF Alias, sharedVars, IInv, TypeOK, WellFormed
<1>1. nm \in Name
  BY <1>0, FunctionNameType, Zenon DEF IInv
<1>2. SameShape
  BY <1>0, <1>1, AliasShape, Zenon
<1>3. \A e : FunctionsAt(e)' = FunctionsAt(e)
  BY <1>2, ShapeFunctions, Zenon
<1> HIDE DEF nm
<1>4. PICK v \in FunctionsAt(entry) : label' = [label EXCEPT ![v].aliases = Append(@, nm)]
  BY <1>0, ZenonT(60) DEF AddAlias
<1>5. v \in DOMAIN label /\ label[v] \in ConcreteTarget
  BY <1>0, <1>4, ConcreteKind, Zenon DEF FunctionsAt
<1>6. FunctionsAt(entry) = {v}
  BY <1>4, Zenon DEF FunctionsAt, IInv, UniqueFunction
<1>7. /\ label'[v] = [label[v] EXCEPT !.aliases = Append(label[v].aliases, nm)]
      /\ \A u \in DOMAIN label : u # v => label'[u] = label[u]
  BY <1>0, <1>4, <1>5, Zenon
<1>8. label'[v].name = label[v].name /\ label'[v].aliases = Append(label[v].aliases, nm)
  BY <1>5, <1>7, Zenon DEF ConcreteTarget
<1>9. task[w] \in Items
  BY <1>0, Zenon DEF Items
<1>10. phase = "first" \/ task[w].name = NoName
  BY <1>9, Zenon DEF SymbolsInv, Named
<1>11. ASSUME NEW e \in binary.decodes, NEW s \in Symbol
       PROVE  LET O == OccursIn(label, FunctionsAt(e), <<"sym", s>>)
                  P == OccursIn(label', FunctionsAt(e)', <<"sym", s>>)
              IN  IF e = entry /\ nm = <<"sym", s>>
                    THEN \E x : x \notin O /\ P = O \cup {x}
                    ELSE P = O
  <2> DEFINE name == <<"sym", s>>
             O == OccursIn(label, FunctionsAt(e), name)
             P == OccursIn(label', FunctionsAt(e)', name)
             k == Len(label[v].aliases) + 1
  <2> HIDE DEF name
  <2>1. CASE e = entry
    <3>0. FunctionsAt(e) = {v} /\ FunctionsAt(e)' = {v}
      BY <1>3, <1>6, <2>1, Zenon
    <3>1. O = {v} \X Slots(label[v], name) /\ P = {v} \X Slots(label'[v], name)
      BY <3>0, OccursAt, Zenon
    <3>2. /\ k \notin Slots(label[v], name)
          /\ Slots(label'[v], name) = Slots(label[v], name) \cup (IF nm = name THEN {k} ELSE {})
      BY <1>1, <1>5, <1>8, SlotsAlias, SMTT(60)
    <3> HIDE DEF k
    <3>3. CASE nm = name
      <4>1. <<v, k>> \notin O /\ P = O \cup {<<v, k>>}
        BY <3>1, <3>2, <3>3, SMTT(60)
      <4> QED BY <2>1, <3>3, <4>1, Zenon DEF name
    <3>4. CASE nm # name
      <4>1. P = O
        BY <3>1, <3>2, <3>4, Zenon
      <4> QED BY <2>1, <3>4, <4>1, Zenon DEF name
    <3> QED BY <3>3, <3>4, Zenon
  <2>2. CASE e # entry
    <3>1. v \notin FunctionsAt(e)
      BY <1>4, <2>2, Zenon DEF FunctionsAt
    <3>2. \A u \in FunctionsAt(e) : label'[u] = label[u]
      BY <1>7, <3>1, Zenon DEF FunctionsAt
    <3>3. P = O
      BY <1>3, <3>2, Zenon DEF OccursIn
    <3> QED BY <2>2, <3>3, Zenon DEF name
  <2> QED BY <2>1, <2>2, Zenon
<1> QED BY <1>0, <1>10, <1>11, KeptMore, Zenon DEF nm, IInv, SymbolsInv

(* update_plt moves names and loses none. *)
LEMMA KeptPlt ==
  ASSUME IInv, SymbolsInv, Finish, binary' = binary
  PROVE  Kept'
<1>0. /\ UpdatePlt(binary.load, binary.imports) /\ label \in [DOMAIN label -> CallTarget]
      /\ pending' = pending /\ pc' = pc /\ task' = task
  BY Zenon DEF Finish, IInv, TypeOK
<1>1. Items' = Items
  BY <1>0, Zenon DEF Items
<1>2. SameShape
  BY <1>0, PltShape, BinaryTyped, Zenon DEF BinaryType, IInv
<1>3. \A e : FunctionsAt(e)' = FunctionsAt(e)
  BY <1>2, ShapeFunctions, Zenon
<1>4. \A v \in DOMAIN label :
        \/ label'[v] = label[v]
        \/ IsConcrete(label[v]) /\ label'[v] = SetPlt(label[v], binary.load[label[v].start])
  BY <1>0, Zenon DEF UpdatePlt
<1> SUFFICES ASSUME NEW e \in binary.decodes, NEW s \in Symbol
             PROVE  /\ IsFiniteSet(OccursIn(label', FunctionsAt(e)', <<"sym", s>>))
                    /\ Cardinality(OccursIn(label', FunctionsAt(e)', <<"sym", s>>)) =
                         Cardinality(DoneIn(Items', e, <<"sym", s>>))
  BY KeptNext, Zenon
<1> DEFINE name == <<"sym", s>>
           F == FunctionsAt(e)
           O == OccursIn(label, F, name)
           P == OccursIn(label', F, name)
<1>5. IsFiniteSet(O) /\ Cardinality(O) = Cardinality(DoneIn(Items, e, name))
  BY KeptNow, Zenon DEF SymbolsInv
<1>6. FunctionsAt(e)' = F
  BY <1>3, Zenon
<1>7. CASE \A v \in F : label'[v] = label[v]
  <2>1. P = O
    BY <1>7, Zenon DEF OccursIn
  <2> QED BY <1>1, <1>5, <1>6, <2>1, Zenon
<1>8. CASE \E v \in F : label'[v] # label[v]
  <2>1. PICK v \in F : label'[v] # label[v]
    BY <1>8, Zenon
  <2>2. F = {v}
    BY <2>1, Zenon DEF FunctionsAt, IInv, UniqueFunction
  <2>3. /\ label[v] \in ConcreteTarget
        /\ label'[v] = SetPlt(label[v], binary.load[label[v].start])
    BY <1>0, <1>4, <2>1, ConcreteKind, Zenon DEF FunctionsAt
  <2> DEFINE S == Slots(label[v], name)
             k == Len(label[v].aliases) + 1
             x == <<v, 0>>
             y == <<v, k>>
  <2>4. k \notin S /\ Slots(label'[v], name) = (S \ {0}) \cup (IF 0 \in S THEN {k} ELSE {})
    BY <2>3, SlotsPlt, SMTT(60)
  <2> HIDE DEF name, F
  <2>5. O = {v} \X S /\ P = {v} \X Slots(label'[v], name)
    BY <2>2, OccursAt, Zenon
  <2> HIDE DEF S, k, O, P
  <2>6. y \notin O /\ (x \in O <=> 0 \in S)
    BY <2>4, <2>5, Zenon
  <2>7. P = (O \ {x}) \cup (IF x \in O THEN {y} ELSE {})
    <3>1. CASE 0 \in S
      BY <2>4, <2>5, <2>6, <3>1, SMTT(60)
    <3>2. CASE 0 \notin S
      BY <2>4, <2>5, <2>6, <3>2, Zenon
    <3> QED BY <3>1, <3>2, Zenon
  <2> HIDE DEF x, y
  <2>8. IsFiniteSet(P) /\ Cardinality(P) = Cardinality(O)
    BY <1>5, <2>6, <2>7, OneMoved, SMTT(60)
  <2> QED BY <1>1, <1>5, <1>6, <2>8, Zenon DEF P, F, name
<1> QED BY <1>7, <1>8, Zenon

(* Every symbol stays where it has been put. *)
LEMMA KeptStep ==
  ASSUME IInv, SymbolsInv, [Next]_vars
  PROVE  Kept'
<1>1. binary' = binary
  BY ScheduledStep, Zenon DEF IInv
<1> USE DEF IInv, SymbolsInv
<1>2. ASSUME NEW w \in Worker, Take(w)
      PROVE  Kept'
  <2>1. Items' = Items
    BY <1>2, ItemsTaken, Zenon
  <2> QED BY <1>1, <1>2, <2>1, KeptIdle, Zenon DEF Take, programVars
<1>3. ASSUME NEW w \in Worker, Lock(w)
      PROVE  Kept'
  <2>1. pc[w] = "lock" /\ label' = label /\ pending' = pending
    BY <1>3, Zenon DEF Lock, programVars, sharedVars
  <2>2. CASE Release(w)
    <3>1. task[w] \in Items /\ task[w].entry \in Addr
      BY <2>1, Zenon DEF Items, WellFormed, Task
    <3>2. attempts[task[w].entry] = "Err" \/ phase # "first"
      BY <1>3, <2>1, <2>2, Zenon DEF Lock, Release, TypeOK
    <3>3. task[w].uuid = NoUuid \/ task[w].entry \notin binary.decodes
      BY <3>1, <3>2, Zenon DEF Named, Recorded
    <3> QED BY <1>1, <2>1, <2>2, <3>3, KeptRelease, Zenon
  <2>3. CASE task' = task /\ \E c \in {"disassemble", "alias"} : pc' = [pc EXCEPT ![w] = c]
    <3>1. PICK c \in {"disassemble", "alias"} : pc' = [pc EXCEPT ![w] = c]
      BY <2>3, Zenon
    <3>2. pc'[w] = c
      BY <3>1, Zenon DEF TypeOK
    <3>3. Items' = Items
      BY <2>1, <2>3, <3>1, <3>2, ItemsKept, Zenon
    <3> QED BY <1>1, <2>1, <3>3, KeptIdle, Zenon
  <2> QED BY <1>3, <2>2, <2>3, Zenon DEF Lock
<1>4. ASSUME NEW w \in Worker, Disassemble(w)
      PROVE  Kept'
  <2>1. pc[w] = "disassemble" /\ pc' = [pc EXCEPT ![w] = "insert"] /\ task' = task /\ pending' = pending
    BY <1>4, Zenon DEF Disassemble
  <2>2. pc'[w] = "insert"
    BY <2>1, Zenon DEF TypeOK
  <2>3. Items' = Items
    BY <2>1, <2>2, ItemsKept, Zenon
  <2> QED BY <1>1, <1>4, <2>3, KeptIdle, Zenon DEF Disassemble, programVars
<1>5. ASSUME NEW w \in Worker, Fail(w)
      PROVE  Kept'
  BY <1>1, <1>5, KeptRelease, Zenon DEF Fail, programVars
<1>6. CASE NextWave
  <2>1. Items = {} /\ \A t \in Items' : t.uuid = NoUuid
    BY <1>6, SMTT(60) DEF NextWave, WaveDone, Items
  <2>2. label' = label
    BY <1>6, Zenon DEF NextWave, programVars
  <2>3. \A e, name : DoneIn(Items', e, name) = DoneIn(Items, e, name)
    BY <2>1, ItemFields, DoneSame, Zenon DEF Reported
  <2>4. \A e : FunctionsAt(e)' = FunctionsAt(e)
    BY <2>2, Zenon DEF FunctionsAt
  <2> QED BY <1>1, <2>2, <2>3, <2>4, KeptSame, Zenon
<1>7. CASE UNCHANGED vars
  <2>1. label' = label /\ Items' = Items
    BY <1>7, Zenon DEF vars, programVars, sharedVars, Items
  <2> QED BY <1>1, <2>1, KeptIdle, Zenon
<1> QED BY <1>1, <1>2, <1>3, <1>4, <1>5, <1>6, <1>7, KeptInsert, KeptAlias, KeptPlt, Zenon
        DEF Next, Step, Returned

(* At first no symbol is done and there is no function. *)
LEMMA SymbolsInit == Init => SymbolsInv
<1> SUFFICES ASSUME Init
             PROVE  SymbolsInv
  BY Zenon
<1>1. TypeOK
  BY TypeInit, Zenon
<1>2. /\ DOMAIN label = (DOMAIN binary.symbols) \X {Self}
      /\ \A v \in DOMAIN label : /\ label[v] = binary.symbols[v[1]] /\ v[1] \in DOMAIN binary.symbols
                                 /\ v = <<v[1], Self>>
      /\ \A i \in DOMAIN binary.symbols :
           <<i, Self>> \in DOMAIN label /\ label[<<i, Self>>] = binary.symbols[i]
  BY SMTT(60) DEF Init, LoadedGraph
<1>3. \A i \in DOMAIN binary.symbols : ~IsConcrete(binary.symbols[i])
  <2>1. binary.symbols \in Seq(TodoTarget \cup SymbolicTarget)
    BY <1>1, BinaryTyped, Zenon DEF BinaryType
  <2> QED
    BY <2>1, SMTT(60) DEF TodoTarget, SymbolicTarget, IsConcrete
<1>4. \A e : FunctionsAt(e) = {}
  BY <1>2, <1>3, Zenon DEF FunctionsAt
<1>5. Items = FirstWave /\ phase = "first" /\ \A w \in Worker : pc[w] = "idle"
  BY Zenon DEF Init, Items
<1>6. Named
  BY <1>2, <1>5, SMTT(60) DEF Named, FirstWave, ItemOf
<1>7. Apart
  BY <1>5, Zenon DEF Apart
<1>8. Kept
  <2> SUFFICES ASSUME NEW e \in binary.decodes, NEW s \in Symbol
               PROVE  /\ IsFiniteSet(OccursIn(label, FunctionsAt(e), <<"sym", s>>))
                      /\ Cardinality(OccursIn(label, FunctionsAt(e), <<"sym", s>>)) =
                           Cardinality(DoneIn(Items, e, <<"sym", s>>))
    BY KeptNow, Zenon
  <2>1. e # NoAddr
    BY <1>1, BinaryTyped, AddrAssumption, Zenon DEF BinaryType
  <2>2. ASSUME NEW i \in Reported(e, <<"sym", s>>)
        PROVE  ItemOf(i) \in Items
    <3>1. /\ i \in DOMAIN binary.symbols /\ binary.symbols[i].kind = "Todo"
          /\ ConstAddr[binary.symbols[i].rvalue] # NoAddr
      BY <2>1, SMTT(60) DEF Reported
    <3> QED BY <1>2, <1>5, <3>1, SMTT(60) DEF FirstWave, ItemOf
  <2>3. DoneIn(Items, e, <<"sym", s>>) = {}
    BY <2>2, Zenon DEF DoneIn
  <2>4. OccursIn(label, FunctionsAt(e), <<"sym", s>>) = {}
    BY <1>4, OccursAt, Zenon
  <2> QED BY <2>3, <2>4, FS_EmptySet, Zenon
<1> QED BY <1>6, <1>7, <1>8, Zenon DEF SymbolsInv

(* Once nothing is left to do, every symbol is done. *)
LEMMA SymbolsDone ==
  ASSUME IInv, SymbolsInv
  PROVE  SymbolsKept
<1> SUFFICES ASSUME phase = "done", NEW e \in binary.decodes, NEW s \in Symbol
             PROVE  Cardinality(Occurrences(e, <<"sym", s>>)) = Cardinality(Reported(e, <<"sym", s>>))
  BY Zenon DEF SymbolsKept
<1>1. Items = {}
  BY Zenon DEF IInv, Ended, WaveDone, Items
<1>2. DoneIn(Items, e, <<"sym", s>>) = Reported(e, <<"sym", s>>)
  BY <1>1, Zenon DEF DoneIn
<1>3. Occurrences(e, <<"sym", s>>) = OccursIn(label, FunctionsAt(e), <<"sym", s>>)
  BY Zenon DEF Occurrences, OccursIn
<1> QED BY <1>2, <1>3, KeptNow, Zenon DEF SymbolsInv

(***************************************************************************)
(* No symbol is lost and none is counted twice, for every schedule of the  *)
(* workers and every binary: the first worker at an address names the      *)
(* function (Program::insert), the others add aliases to it (add_alias),   *)
(* and update_plt keeps the name it replaces.                              *)
(***************************************************************************)
THEOREM SymbolsAreKept == Spec => []SymbolsKept
<1>1. Init => SymbolsInv
  BY SymbolsInit, Zenon
<1>2. IInv /\ SymbolsInv /\ [Next]_vars => SymbolsInv'
  BY NamedStep, ApartStep, KeptStep, Zenon DEF SymbolsInv
<1>3. IInv /\ SymbolsInv => SymbolsKept
  BY SymbolsDone, Zenon
<1> QED BY <1>1, <1>2, <1>3, Invariance, PTL DEF Spec
=============================================================================
