------------------------------- MODULE Analyze -------------------------------
(***************************************************************************)
(* The parallel analysis `analyze' (analysis/src/pipeline.rs).             *)
(*                                                                         *)
(* The entries the loader found are disassembled in a first wave, the      *)
(* call targets met on the way in further waves until no wave meets any.   *)
(* The items of a wave are shared out among the worker threads of a rayon  *)
(* pool and a wave ends when all its items are done.  The workers share    *)
(*   - `attempts', a concurrent map from entry to outcome.  Its upsert     *)
(*     keeps the entry locked while the closure runs, the closure that     *)
(*     disassembles the function included;                                 *)
(*   - `targets' (`new_targets' in the later waves), the items of the next *)
(*     wave;                                                               *)
(*   - the call graph, behind one mutex.  No thread waits for anything     *)
(*     else while it holds that mutex, so each critical section is a step. *)
(*                                                                         *)
(* What a binary contains is an input: see module Binary.                  *)
(***************************************************************************)
EXTENDS Program, FiniteSets

CONSTANT
  Worker      \* threads of the rayon pool

VARIABLES
  binary,     \* the input being analysed; never changes
  attempts,   \* entry -> absent, Ok, Err
  targets,    \* targets / new_targets: call targets met in this wave
  pending,    \* items of this wave no worker has taken
  failures,   \* number of failed attempts
  phase,      \* first wave, later waves, done
  pc,         \* where each worker is
  task        \* the item each worker is at

sharedVars == <<attempts, targets, pending, failures, phase>>
vars == <<programVars, binary, sharedVars, pc, task>>

Task == [entry : Addr, name : Name \cup {NoName}, uuid : Vertex \cup {NoUuid}]

(* The label of a worker that has no item. *)
NoTask == [entry |-> NoAddr, name |-> NoName, uuid |-> NoUuid]

-----------------------------------------------------------------------------
LoadedGraph(b) ==
  [v \in (DOMAIN b.symbols) \X {Self} |-> b.symbols[v[1]]]

FirstWave ==
  {[entry |-> ConstAddr[label[v].rvalue], name |-> label[v].name, uuid |-> v] :
     v \in {u \in DOMAIN label :
              label[u].kind = "Todo" /\ ConstAddr[label[u].rvalue] # NoAddr}}

Init ==
  /\ binary \in Binaries
  /\ label = LoadedGraph(binary)
  /\ edges = {}
  /\ next_vertex = Len(binary.symbols) + 1
  /\ attempts = [e \in Addr |-> "absent"]
  /\ targets = {}
  /\ pending = FirstWave
  /\ failures = 0
  /\ phase = "first"
  /\ pc = [w \in Worker |-> "idle"]
  /\ task = [w \in Worker |-> NoTask]

(* The worker is inside an upsert on `attempts' for entry e. *)
Holds(w, e) == pc[w] \in {"disassemble", "insert", "alias"} /\ task[w].entry = e

Release(w) ==
  /\ pc' = [pc EXCEPT ![w] = "idle"]
  /\ task' = [task EXCEPT ![w] = NoTask]

(* A worker takes an item of the wave. *)
Take(w) ==
  /\ pc[w] = "idle"
  /\ \E t \in pending :
       /\ pending' = pending \ {t}
       /\ task' = [task EXCEPT ![w] = t]
  /\ pc' = [pc EXCEPT ![w] = "lock"]
  /\ UNCHANGED <<programVars, binary, attempts, targets, failures, phase>>

(***************************************************************************)
(* attempts.upsert gets hold of the entry.  An entry that is absent is     *)
(* disassembled; in the first wave a repeated entry that was disassembled  *)
(* becomes an alias; otherwise there is nothing to do.                     *)
(***************************************************************************)
Lock_Shared(w) ==
  /\ pc[w] = "lock"
  /\ \/ /\ attempts[task[w].entry] = "absent"
        /\ pc' = [pc EXCEPT ![w] = "disassemble"]
        /\ UNCHANGED task
     \/ /\ attempts[task[w].entry] = "Ok" /\ phase = "first"
        /\ pc' = [pc EXCEPT ![w] = "alias"]
        /\ UNCHANGED task
     \/ /\ \/ attempts[task[w].entry] = "Err"
           \/ attempts[task[w].entry] = "Ok" /\ phase # "first"
        /\ Release(w)
  /\ UNCHANGED <<programVars, binary, sharedVars>>

Lock(w) ==
  /\ pc[w] = "lock"
  /\ \A u \in Worker : ~Holds(u, task[w].entry)
  /\ \/ /\ attempts[task[w].entry] = "absent"
        /\ pc' = [pc EXCEPT ![w] = "disassemble"]
        /\ UNCHANGED task
     \/ /\ attempts[task[w].entry] = "Ok" /\ phase = "first"
        /\ pc' = [pc EXCEPT ![w] = "alias"]
        /\ UNCHANGED task
     \/ /\ \/ attempts[task[w].entry] = "Err"
           \/ attempts[task[w].entry] = "Ok" /\ phase # "first"
        /\ Release(w)
  /\ UNCHANGED <<programVars, binary, sharedVars>>

(***************************************************************************)
(* Function::with_uuid or Function::new succeeds and the call targets of   *)
(* the function are noted for the next wave, before the function is known  *)
(* to the program.  The conversion to SSA form that follows changes only   *)
(* the function, which no other thread knows.                              *)
(***************************************************************************)
Disassemble(w) ==
  /\ pc[w] = "disassemble"
  /\ task[w].entry \in binary.decodes
  /\ targets' = targets \cup CallAddresses(binary, task[w].entry)
  /\ pc' = [pc EXCEPT ![w] = "insert"]
  /\ UNCHANGED <<programVars, binary, attempts, pending, failures, phase, task>>

(* It fails: the failure is counted and nothing is put into the program. *)
Fail_StoresOk(w) ==
  /\ pc[w] = "disassemble"
  /\ task[w].entry \notin binary.decodes
  /\ failures' = failures + 1
  /\ attempts' = [attempts EXCEPT ![task[w].entry] = "Ok"]
  /\ Release(w)
  /\ UNCHANGED <<programVars, binary, targets, pending, phase>>

Fail_Inserts(w) ==
  /\ pc[w] = "disassemble"
  /\ task[w].entry \notin binary.decodes
  /\ failures' = failures + 1
  /\ attempts' = [attempts EXCEPT ![task[w].entry] = "Err"]
  /\ Insert(Concrete(task[w].entry, DefaultName(task[w].entry)), task[w].uuid, {})
  /\ Release(w)
  /\ UNCHANGED <<binary, targets, pending, phase>>

Fail(w) ==
  /\ pc[w] = "disassemble"
  /\ task[w].entry \notin binary.decodes
  /\ failures' = failures + 1
  /\ attempts' = [attempts EXCEPT ![task[w].entry] = "Err"]
  /\ Release(w)
  /\ UNCHANGED <<programVars, binary, targets, pending, phase>>

(* The name given by a symbol or else the name made from the entry. *)
FunctionName(t) == IF t.name = NoName THEN DefaultName(t.entry) ELSE t.name

(* program.lock(); program.insert(f); the closure returns Ok. *)
InsertFunction(w) ==
  /\ pc[w] = "insert"
  /\ Insert(Concrete(task[w].entry, FunctionName(task[w])), task[w].uuid,
            binary.calls[task[w].entry])
  /\ attempts' = [attempts EXCEPT ![task[w].entry] = "Ok"]
  /\ Release(w)
  /\ UNCHANGED <<binary, targets, pending, failures, phase>>

(* program.lock(); find_function_mut(..).unwrap().add_alias(name) *)
Alias(w) ==
  /\ pc[w] = "alias"
  /\ AddAlias(task[w].entry, FunctionName(task[w]))
  /\ Release(w)
  /\ UNCHANGED <<binary, sharedVars>>

WaveDone == pending = {} /\ \A w \in Worker : pc[w] = "idle"

(* The wave is over and has met call targets: they are the next wave. *)
NextWave ==
  /\ phase # "done"
  /\ WaveDone
  /\ targets # {}
  /\ phase' = "later"
  /\ pending' = {[entry |-> e, name |-> NoName, uuid |-> NoUuid] : e \in targets}
  /\ targets' = {}
  /\ UNCHANGED <<programVars, binary, attempts, failures, pc, task>>

(* The program is returned while workers are busy. *)
Finish_Early ==
  /\ phase # "done"
  /\ pending = {} /\ targets = {}
  /\ phase' = "done"
  /\ UpdatePlt(binary.load, binary.imports)
  /\ UNCHANGED <<binary, attempts, targets, pending, failures, pc, task>>

(* The last wave met none: update_plt, and the program is returned. *)
Finish ==
  /\ phase # "done"
  /\ WaveDone
  /\ targets = {}
  /\ phase' = "done"
  /\ UpdatePlt(binary.load, binary.imports)
  /\ UNCHANGED <<binary, attempts, targets, pending, failures, pc, task>>

Step(w) ==
  \/ Take(w) \/ Lock(w) \/ Disassemble(w) \/ Fail(w) \/ InsertFunction(w) \/ Alias(w)

(* analyze has returned. *)
Returned == phase = "done" /\ UNCHANGED vars

Next == (\E w \in Worker : Step(w)) \/ NextWave \/ Finish \/ Returned

(***************************************************************************)
(* The threads of the pool keep running, and so does the thread that       *)
(* called analyze.                                                         *)
(***************************************************************************)
Fairness == (\A w \in Worker : WF_vars(Step(w))) /\ WF_vars(NextWave \/ Finish)

Spec == Init /\ [][Next]_vars /\ Fairness
-----------------------------------------------------------------------------
(* Every variable keeps its type. *)
TypeOK ==
  /\ binary \in Binaries
  /\ DOMAIN label \subseteq Vertex
  /\ label \in [DOMAIN label -> CallTarget]
  /\ edges \subseteq (DOMAIN label) \X (DOMAIN label)
  /\ next_vertex \in Nat
  /\ attempts \in [Addr -> {"absent", "Ok", "Err"}]
  /\ targets \subseteq Addr
  /\ pending \subseteq Task
  /\ failures \in Nat
  /\ phase \in {"first", "later", "done"}
  /\ pc \in [Worker -> {"idle", "lock", "disassemble", "insert", "alias"}]
  /\ task \in [Worker -> Task \cup {NoTask}]

(***************************************************************************)
(* At most one disassembled function per entry, whichever workers race for *)
(* it: find_function_by_entry and the alias search rely on it.             *)
(***************************************************************************)
UniqueFunction ==
  \A u, v \in DOMAIN label :
    (/\ IsConcrete(label[u]) /\ IsConcrete(label[v])
     /\ label[u].start = label[v].start) => u = v

(***************************************************************************)
(* The unwrap in the update closure of the first wave never fails: the     *)
(* outcome Ok is visible to another worker only once the function is in    *)
(* the program.                                                            *)
(***************************************************************************)
AliasFindsFunction ==
  \A w \in Worker : pc[w] = "alias" => FunctionsAt(task[w].entry) # {}

(* The label stands for the target of a call to a, disassembled or not. *)
StandsFor(ct, a) ==
  \/ IsConcrete(ct) /\ ct.start = ConstAddr[a]
  \/ ct.kind = "Todo" /\ ct.rvalue = a

(***************************************************************************)
(* The edges of the call graph are the calls: a function has an edge to a  *)
(* vertex that stands for the target of each of its calls, also after that *)
(* vertex has been turned from a Todo into a function, and no other edge.  *)
(***************************************************************************)
EdgesAreCalls ==
  /\ \A v \in DOMAIN label : IsConcrete(label[v]) =>
       \A a \in binary.calls[label[v].start] :
         \E w \in DOMAIN label : <<v, w>> \in edges /\ StandsFor(label[w], a)
  /\ \A e \in edges :
       /\ IsConcrete(label[e[1]])
       /\ \E a \in binary.calls[label[e[1]].start] : StandsFor(label[e[2]], a)

(* Where the function has the name: 0 is its name, k its alias k. *)
Slots(f, name) ==
  {k \in 0..Len(f.aliases) : (IF k = 0 THEN f.name ELSE f.aliases[k]) = name}

(* Where the name occurs among the names of the functions at entry e. *)
Occurrences(e, name) == UNION {{v} \X Slots(label[v], name) : v \in FunctionsAt(e)}

(* The symbols of this name that the loader reported at e. *)
Reported(e, name) ==
  {i \in DOMAIN binary.symbols :
     /\ binary.symbols[i].kind = "Todo"
     /\ ConstAddr[binary.symbols[i].rvalue] = e
     /\ binary.symbols[i].name = name}

(***************************************************************************)
(* No symbol is lost and none is counted twice: when the analysis is done, *)
(* a symbol occurs among the name and the aliases of the function at its   *)
(* address as often as the loader reported it there, also for functions    *)
(* update_plt has renamed.                                                 *)
(***************************************************************************)
SymbolsKept ==
  phase = "done" =>
    \A e \in binary.decodes, s \in Symbol :
      Cardinality(Occurrences(e, <<"sym", s>>)) = Cardinality(Reported(e, <<"sym", s>>))

(***************************************************************************)
(* The outcome does not depend on the schedule: when the analysis is done, *)
(* exactly the functions reachable by calls have been tried, those that    *)
(* can be disassembled are in the program and the others are the failures. *)
(***************************************************************************)
Complete ==
  phase = "done" =>
    /\ {e \in Addr : attempts[e] # "absent"} = Reachable(binary)
    /\ {e \in Addr : FunctionsAt(e) # {}} = Wanted(binary)
    /\ failures = Cardinality(Reachable(binary) \ binary.decodes)

(***************************************************************************)
(* What print_reverse_deps of the command line tool expects: the program   *)
(* has a function at every address its functions call.                     *)
(***************************************************************************)
CallTargetsAreFunctions ==
  phase = "done" =>
    \A v \in DOMAIN label : IsConcrete(label[v]) =>
      \A d \in CallAddresses(binary, label[v].start) : FunctionsAt(d) # {}

(* analyze implements Discovery. *)
D == INSTANCE Discovery WITH
       input    <- binary,
       found    <- {e \in Addr : FunctionsAt(e) # {}},
       complete <- phase = "done"

DiscoverySpec == D!Spec

-----------------------------------------------------------------------------
(***************************************************************************)
(* The inductive invariant behind the safety properties.                   *)
(***************************************************************************)

(* The items of the wave that are not done yet. *)
Items == pending \cup {task[w] : w \in {u \in Worker : pc[u] # "idle"}}

(* The entries that were tried, are being tried or will be. *)
Scheduled ==
  {e \in Addr : attempts[e] # "absent"} \cup {t.entry : t \in Items} \cup targets

(* The descriptors handed out so far are below next_vertex. *)
FreshVertices == \A v \in DOMAIN label : v[1] < next_vertex

(* Vertex descriptors and items are well-formed. *)
WellFormed ==
  /\ FreshVertices
  /\ \A w \in Worker : pc[w] # "idle" => task[w] \in Task

(* One worker per entry, and what it knows of the entry still holds. *)
Locking ==
  /\ \A u, w \in Worker, e \in Addr : Holds(u, e) /\ Holds(w, e) => u = w
  /\ \A w \in Worker :
       /\ pc[w] \in {"disassemble", "insert"} => attempts[task[w].entry] = "absent"
       /\ pc[w] = "insert" =>
            /\ task[w].entry \in binary.decodes
            /\ CallAddresses(binary, task[w].entry) \subseteq targets
       /\ pc[w] = "alias" => attempts[task[w].entry] = "Ok"

(* The vertex of a first-wave item still stands for the item's entry. *)
OwnVertex(t) ==
  t.uuid # NoUuid =>
    /\ t.uuid \in DOMAIN label
    /\ \/ IsConcrete(label[t.uuid]) /\ label[t.uuid].start = t.entry
       \/ label[t.uuid].kind = "Todo" /\ ConstAddr[label[t.uuid].rvalue] = t.entry

(* The outcomes in `attempts' agree with the program. *)
Recorded ==
  /\ \A e \in Addr :
       /\ attempts[e] = "Ok" <=> FunctionsAt(e) # {}
       /\ attempts[e] = "Ok" => e \in binary.decodes
       /\ attempts[e] = "Err" => e \notin binary.decodes
  /\ \A t \in Items : OwnVertex(t)

(* No call target of a function in the program has been forgotten. *)
Covered ==
  /\ Roots(binary) \subseteq Scheduled
  /\ \A e \in Addr : attempts[e] = "Ok" => CallAddresses(binary, e) \subseteq Scheduled

(* Nothing is tried that cannot be reached. *)
Justified == Scheduled \subseteq Reachable(binary)

FailuresCounted ==
  LET failed == {e \in Addr : attempts[e] = "Err"}
  IN  IsFiniteSet(failed) /\ failures = Cardinality(failed)

Ended == phase = "done" => WaveDone /\ targets = {}

IInv ==
  /\ TypeOK /\ WellFormed /\ Locking /\ Recorded /\ UniqueFunction
  /\ EdgesAreCalls /\ Covered /\ Justified /\ FailuresCounted /\ Ended

(***************************************************************************)
(* What SymbolsKept rests on.                                              *)
(***************************************************************************)

(* The item of the first wave for a symbol. *)
ItemOf(i) ==
  [entry |-> ConstAddr[binary.symbols[i].rvalue], name |-> binary.symbols[i].name,
   uuid  |-> <<i, Self>>]

(* Items of the first wave are for symbols, those of later waves have no name. *)
Named ==
  \A t \in Items :
    IF phase = "first"
      THEN \E i \in DOMAIN binary.symbols : binary.symbols[i].kind = "Todo" /\ t = ItemOf(i)
      ELSE t.uuid = NoUuid /\ t.name = NoName

(* A symbol is given to one worker. *)
Apart ==
  \A w \in Worker : pc[w] # "idle" /\ task[w].uuid # NoUuid =>
    /\ task[w] \notin pending
    /\ \A u \in Worker \ {w} : pc[u] # "idle" => task[u] # task[w]

(* A symbol whose item is done occurs at its function. *)
Kept ==
  \A e \in binary.decodes, s \in Symbol :
    LET name == <<"sym", s>>
    IN  /\ IsFiniteSet(Occurrences(e, name))
        /\ Cardinality(Occurrences(e, name)) =
              Cardinality({i \in Reported(e, name) : ItemOf(i) \notin Items})

SymbolsInv == Named /\ Apart /\ Kept

=============================================================================
