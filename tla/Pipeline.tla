------------------------------- MODULE Pipeline -------------------------------
(***************************************************************************)
(* The streaming analysis behind the graphical interface: the thread that  *)
(* `pipeline' starts (analysis/src/pipeline.rs), the channel it returns    *)
(* and the disassembly thread of Panopticon::open_program that reads the   *)
(* channel (qt/src/singleton.rs).                                          *)
(*                                                                         *)
(* All the producer does between two sends concerns its own variables, so  *)
(* an item of its loops is one step.  It sends with a new clone of the     *)
(* Sender each time; a clone has a slot of its own besides the buffer, so  *)
(* a send never waits.  The loops go through their targets in any order.   *)
(***************************************************************************)
EXTENDS CallTable, FiniteSets

VARIABLES
  binary,              \* the input being analysed; never changes
  pending,             \* vertices of the call graph not visited yet
  targets,             \* call targets of the wave that are still to do
  new_targets,         \* call targets met in this wave
  finished_functions,  \* entries that were tried
  failures,            \* entries that could not be disassembled
  next_uuid,           \* supply of UUIDs
  producer,            \* first loop, waves, ended
  channel,             \* functions sent and not yet received
  consumer,            \* reading the channel, posting to the sidebar, ended
  received,            \* the UUID last received
  sidebar              \* UUIDs posted to the sidebar

producerVars ==
  <<pending, targets, new_targets, finished_functions, failures, next_uuid, producer>>
consumerVars == <<tableVars, consumer, received, sidebar>>
vars == <<binary, producerVars, channel, consumerVars>>

Init ==
  /\ binary \in Binaries
  /\ pending = DOMAIN binary.symbols
  /\ targets = {} /\ new_targets = {}
  /\ finished_functions = {} /\ failures = {}
  /\ next_uuid = Len(binary.symbols) + 1
  /\ producer = "symbols"
  /\ channel = <<>>
  /\ EmptyTable
  /\ consumer = "recv" /\ received = 0 /\ sidebar = {}

(* The function at entry e as the disassembler makes it. *)
FunctionAt(e, name) ==
  [start |-> e, name |-> IF name = NoName THEN DefaultName(e) ELSE name,
   calls |-> binary.calls[e]]

Send(uuid, f) == channel' = Append(channel, [uuid |-> uuid, function |-> f])

(* The label of vertex i is a Todo with a constant address. *)
IsEntry(i) ==
  binary.symbols[i].kind = "Todo" /\ ConstAddr[binary.symbols[i].rvalue] # NoAddr

(* Such a label is disassembled, with its UUID: Function::with_uuid. *)
VisitTodo(i) ==
  LET e == ConstAddr[binary.symbols[i].rvalue]
  IN  /\ producer = "symbols" /\ i \in pending /\ IsEntry(i)
      /\ pending' = pending \ {i}
      /\ finished_functions' = finished_functions \cup {e}
      /\ \/ /\ e \in binary.decodes
            /\ targets' = targets \cup CallAddresses(binary, e)
            /\ Send(i, FunctionAt(e, binary.symbols[i].name))
            /\ UNCHANGED failures
         \/ /\ e \notin binary.decodes
            /\ failures' = failures \cup {e}
            /\ UNCHANGED <<targets, channel>>
      /\ UNCHANGED <<binary, new_targets, next_uuid, producer, consumerVars>>

(* Any other label of the call graph is passed over. *)
SkipLabel(i) ==
  /\ producer = "symbols" /\ i \in pending /\ ~IsEntry(i)
  /\ pending' = pending \ {i}
  /\ UNCHANGED <<binary, targets, new_targets, finished_functions, failures,
                 next_uuid, producer, channel, consumerVars>>

SymbolsDone ==
  /\ producer = "symbols" /\ pending = {}
  /\ producer' = "waves"
  /\ UNCHANGED <<binary, pending, targets, new_targets, finished_functions,
                 failures, next_uuid, channel, consumerVars>>

(* An address of targets.drain(..): skipped or given to Function::new. *)
VisitTarget_Again(e) ==
  /\ producer = "waves" /\ e \in targets
  /\ targets' = targets \ {e}
  /\ finished_functions' = finished_functions \cup {e}
  /\ \/ /\ e \in binary.decodes
        /\ new_targets' = new_targets \cup CallAddresses(binary, e)
        /\ Send(next_uuid, FunctionAt(e, NoName))
        /\ next_uuid' = next_uuid + 1
        /\ UNCHANGED failures
     \/ /\ e \notin binary.decodes
        /\ failures' = failures \cup {e}
        /\ UNCHANGED <<new_targets, channel, next_uuid>>
  /\ UNCHANGED <<binary, pending, producer, consumerVars>>

VisitTarget_SendsFailed(e) ==
  /\ producer = "waves" /\ e \in targets
  /\ targets' = targets \ {e}
  /\ finished_functions' = finished_functions \cup {e}
  /\ \/ /\ e \in finished_functions
        /\ UNCHANGED <<new_targets, channel, next_uuid, failures>>
     \/ /\ e \notin finished_functions
        /\ failures' = failures \cup ({e} \ binary.decodes)
        /\ new_targets' = new_targets \cup CallAddresses(binary, e)
        /\ Send(next_uuid, FunctionAt(e, NoName))
        /\ next_uuid' = next_uuid + 1
  /\ UNCHANGED <<binary, pending, producer, consumerVars>>

VisitTarget(e) ==
  /\ producer = "waves" /\ e \in targets
  /\ targets' = targets \ {e}
  /\ finished_functions' = finished_functions \cup {e}
  /\ \/ /\ e \in finished_functions
        /\ UNCHANGED <<new_targets, channel, next_uuid, failures>>
     \/ /\ e \notin finished_functions /\ e \in binary.decodes
        /\ new_targets' = new_targets \cup CallAddresses(binary, e)
        /\ Send(next_uuid, FunctionAt(e, NoName))
        /\ next_uuid' = next_uuid + 1
        /\ UNCHANGED failures
     \/ /\ e \notin finished_functions /\ e \notin binary.decodes
        /\ failures' = failures \cup {e}
        /\ UNCHANGED <<new_targets, channel, next_uuid>>
  /\ UNCHANGED <<binary, pending, producer, consumerVars>>

(* targets = new_targets, and once more unless there are none. *)
NextWave ==
  /\ producer = "waves" /\ targets = {} /\ new_targets # {}
  /\ targets' = new_targets
  /\ new_targets' = {}
  /\ UNCHANGED <<binary, pending, finished_functions, failures, next_uuid,
                 producer, channel, consumerVars>>

(* The thread ends and drops the Sender, which closes the channel. *)
Close ==
  /\ producer = "waves" /\ targets = {} /\ new_targets = {}
  /\ producer' = "ended"
  /\ UNCHANGED <<binary, pending, targets, new_targets, finished_functions,
                 failures, next_uuid, channel, consumerVars>>

(* PANOPTICON.lock().new_function(func.clone()) *)
Receive ==
  /\ consumer = "recv" /\ channel # <<>>
  /\ NewFunction(Head(channel).uuid, Head(channel).function)
  /\ received' = Head(channel).uuid
  /\ channel' = Tail(channel)
  /\ consumer' = "post"
  /\ UNCHANGED <<binary, producerVars, sidebar>>

(* Qt::update_sidebar(&[func]), after the lock was released. *)
Post ==
  /\ consumer = "post"
  /\ sidebar' = sidebar \cup {received}
  /\ consumer' = "recv"
  /\ UNCHANGED <<binary, producerVars, channel, tableVars, received>>

(* The stream is over: the disassembly thread finishes. *)
EndOfStream_Empty ==
  /\ consumer = "recv" /\ channel = <<>>
  /\ consumer' = "ended"
  /\ UNCHANGED <<binary, producerVars, channel, tableVars, received, sidebar>>

EndOfStream ==
  /\ consumer = "recv" /\ channel = <<>> /\ producer = "ended"
  /\ consumer' = "ended"
  /\ UNCHANGED <<binary, producerVars, channel, tableVars, received, sidebar>>

Produce ==
  \/ \E i \in pending : VisitTodo(i) \/ SkipLabel(i)
  \/ SymbolsDone
  \/ \E e \in targets : VisitTarget(e)
  \/ NextWave
  \/ Close

Consume == Receive \/ Post \/ EndOfStream

Ended == consumer = "ended" /\ UNCHANGED vars

Next == Produce \/ Consume \/ Ended

(* Both threads run on; the consumer is never without a free lock. *)
Spec == Init /\ [][Next]_vars /\ WF_vars(Produce) /\ WF_vars(Consume)
-----------------------------------------------------------------------------
Function == [start : Addr, name : Name, calls : SUBSET Rvalue]

(* Every variable keeps its type. *)
TypeOK ==
  /\ binary \in Binaries
  /\ pending \subseteq Nat /\ next_uuid \in Nat /\ received \in Nat
  /\ targets \subseteq Addr /\ new_targets \subseteq Addr
  /\ finished_functions \subseteq Addr /\ failures \subseteq Addr
  /\ producer \in {"symbols", "waves", "ended"}
  /\ consumer \in {"recv", "post", "ended"}
  /\ channel \in Seq([uuid : Nat, function : Function])
  /\ Known \subseteq Nat /\ functions \in [Known -> Function]
  /\ DOMAIN by_entry \subseteq Addr /\ by_entry \in [DOMAIN by_entry -> Nat]
  /\ unresolved_calls \subseteq (Addr \cup {NoAddr}) \X (Nat \X Rvalue)
  /\ resolved_calls \subseteq Nat \X (Nat \X Rvalue)
  /\ sidebar \subseteq Nat

(* The symbols of the binary at e, and how many there are. *)
SymbolsFor(e) ==
  {i \in DOMAIN binary.symbols :
     binary.symbols[i].kind = "Todo" /\ ConstAddr[binary.symbols[i].rvalue] = e}

SymbolsAt(e) == Cardinality(SymbolsFor(e))

(* The functions at e that were sent, received or not. *)
SentFor(e) ==
  Cardinality(StartsAt(e))
  + Cardinality({i \in DOMAIN channel : channel[i].function.start = e})

(***************************************************************************)
(* Calls never make the analysis disassemble a function again: an entry    *)
(* is sent once, or as often as the loader has symbols for it.             *)
(***************************************************************************)
NoRework ==
  \A e \in Addr : SentFor(e) <= IF SymbolsAt(e) = 0 THEN 1 ELSE SymbolsAt(e)

(***************************************************************************)
(* When the disassembly thread is done the session knows the functions     *)
(* reachable by calls that can be disassembled and no other, what is left  *)
(* unresolved are indirect calls and calls to failures, and the sidebar    *)
(* lists every function.                                                   *)
(***************************************************************************)
AllShown ==
  consumer = "ended" =>
    /\ {functions[u].start : u \in Known} = Wanted(binary)
    /\ {p[1] : p \in unresolved_calls} \subseteq failures \cup {NoAddr}
    /\ failures = Reachable(binary) \ binary.decodes
    /\ sidebar = Known

(* No UUID is given to two functions, whether sent, received or to come. *)
FreshUuids ==
  /\ \A i, j \in DOMAIN channel : i # j => channel[i].uuid # channel[j].uuid
  /\ \A i \in DOMAIN channel :
       channel[i].uuid \notin Known \cup pending /\ channel[i].uuid < next_uuid
  /\ \A u \in Known \cup pending : u < next_uuid
  /\ Known \cap pending = {}

MadeFrom(f) == f.start \in finished_functions \cap binary.decodes /\ f.calls = binary.calls[f.start]

(* What was tried was sent or is a failure, and nothing else was sent. *)
Tried ==
  /\ \A e \in finished_functions \cap binary.decodes :
       \/ \E u \in Known : functions[u].start = e
       \/ \E i \in DOMAIN channel : channel[i].function.start = e
  /\ \A u \in Known : MadeFrom(functions[u])
  /\ \A i \in DOMAIN channel : MadeFrom(channel[i].function)
  /\ failures = finished_functions \ binary.decodes

Scheduled == finished_functions \cup targets \cup new_targets

(* Calls of what was tried are tried or scheduled, and nothing else is. *)
Covered ==
  /\ pending \subseteq DOMAIN binary.symbols
  /\ \A i \in DOMAIN binary.symbols \ pending :
       IsEntry(i) => ConstAddr[binary.symbols[i].rvalue] \in finished_functions
  /\ \A e \in finished_functions \cap binary.decodes : CallAddresses(binary, e) \subseteq Scheduled
  /\ Scheduled \subseteq Reachable(binary)

(* Where the threads are, and what the sidebar has then. *)
Phases ==
  /\ producer # "symbols" => pending = {}
  /\ producer = "ended" => targets = {} /\ new_targets = {}
  /\ consumer = "ended" => producer = "ended" /\ channel = <<>>
  /\ consumer = "post" => received \in Known
  /\ Known \ sidebar \subseteq (IF consumer = "post" THEN {received} ELSE {})
  /\ sidebar \subseteq Known

(***************************************************************************)
(* The invariant behind CallsBooked and AllShown: the producer has tried   *)
(* or scheduled what calls lead to, what it found is in the channel or in  *)
(* the tables of the session, under a UUID of its own.                     *)
(***************************************************************************)
IInv == TypeOK /\ CallsBooked /\ FreshUuids /\ Tried /\ Covered /\ Phases

(* The UUIDs under which functions at e were sent. *)
UuidsFor(e) ==
  StartsAt(e) \cup
    {channel[i].uuid : i \in {j \in DOMAIN channel : channel[j].function.start = e}}

(* A function is sent for a symbol, which names its UUID, or once for calls. *)
SentOnce ==
  \A e \in Addr :
    \/ UuidsFor(e) \subseteq SymbolsFor(e)
    \/ SymbolsFor(e) = {} /\ \A u, v \in UuidsFor(e) : u = v

(* The pipeline implements Discovery. *)
D == INSTANCE Discovery WITH
       input    <- binary,
       found    <- {functions[u].start : u \in Known},
       complete <- consumer = "ended"

DiscoverySpec == D!Spec

=============================================================================
