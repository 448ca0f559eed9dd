---------------------------- MODULE PipelineProofs ----------------------------
(***************************************************************************)
(* Proofs about the streaming analysis, for every binary: the tables of    *)
(* the session book each call once, opening a binary shows everything,     *)
(* and the pipeline implements Discovery.                                  *)
(***************************************************************************)
EXTENDS Pipeline, CallTableProofs, SequenceTheorems, FiniteSetTheorems

Message == [uuid : Nat, function : Function]

(* What the loader and the disassembler say of a binary is typed.          *)
LEMMA BinaryTyped ==
  ASSUME binary \in Binaries
  PROVE  /\ binary.symbols \in Seq(TodoTarget \cup SymbolicTarget)
         /\ binary.calls \in [Addr -> SUBSET Rvalue]
         /\ \A e : CallAddresses(binary, e) \subseteq Addr
BY BinariesAssumption, Zenon DEF BinaryType, CallAddresses

(* An entry of the loader is an address, and has a name or none.           *)
LEMMA EntryTyped ==
  ASSUME binary \in Binaries, NEW i \in DOMAIN binary.symbols, IsEntry(i)
  PROVE  /\ ConstAddr[binary.symbols[i].rvalue] \in Addr
         /\ binary.symbols[i].name \in Name \cup {NoName}
<1>1. binary.symbols[i] \in TodoTarget \cup SymbolicTarget
  BY BinaryTyped, SMTT(60)
<1>2. binary.symbols[i] \in TodoTarget
  BY <1>1, Zenon DEF IsEntry, TodoTarget, SymbolicTarget
<1> QED BY <1>2, AddrAssumption, Zenon DEF IsEntry, TodoTarget

(* The disassembler makes a function.                                      *)
LEMMA FunctionTyped ==
  ASSUME binary \in Binaries, NEW e \in Addr, NEW name \in Name \cup {NoName}
  PROVE  /\ FunctionAt(e, name) \in Function
         /\ FunctionAt(e, name).start = e
         /\ FunctionAt(e, name).calls = binary.calls[e]
BY BinaryTyped, Zenon DEF FunctionAt, Function, DefaultName, Name

(* What a send puts into the channel.                                      *)
LEMMA Sending ==
  ASSUME channel \in Seq(Message), NEW uuid \in Nat, NEW f \in Function, Send(uuid, f)
  PROVE  /\ channel' \in Seq(Message)
         /\ DOMAIN channel' = DOMAIN channel \cup {Len(channel) + 1}
         /\ \A i \in DOMAIN channel : channel'[i] = channel[i] /\ i # Len(channel) + 1
         /\ channel'[Len(channel) + 1].uuid = uuid
         /\ channel'[Len(channel) + 1].function = f
<1> DEFINE m == [uuid |-> uuid, function |-> f]
<1>1. m \in Message /\ m.uuid = uuid /\ m.function = f
  BY Zenon DEF Message
<1>2. channel' = Append(channel, m)
  BY Zenon DEF Send
<1> HIDE DEF Message, m
<1>3. channel' \in Seq(Message) /\ Len(channel') = Len(channel) + 1
  BY <1>1, <1>2, AppendProperties, Zenon
<1>4. DOMAIN channel = 1..Len(channel) /\ DOMAIN channel' = 1..(Len(channel) + 1)
  BY <1>3, SMTT(60)
<1>5. /\ \A i \in 1..Len(channel) : channel'[i] = channel[i]
      /\ channel'[Len(channel) + 1] = m
  BY <1>1, <1>2, AppendProperties, SMTT(60)
<1> QED BY <1>1, <1>3, <1>4, <1>5, SMTT(60)

(* What a receive takes from the channel.                                  *)
LEMMA Receiving ==
  ASSUME channel \in Seq(Message), channel # <<>>, channel' = Tail(channel)
  PROVE  /\ Head(channel) = channel[1] /\ 1 \in DOMAIN channel /\ channel[1] \in Message
         /\ channel' \in Seq(Message)
         /\ \A i \in DOMAIN channel' : i + 1 \in DOMAIN channel /\ i # 0 /\ channel'[i] = channel[i + 1]
         /\ \A i \in DOMAIN channel : i = 1 \/ (i - 1 \in DOMAIN channel' /\ channel'[i - 1] = channel[i])
<1> HIDE DEF Message
<1> QED BY HeadTailProperties, SMTT(60)

(* new_function keeps the types of the tables.                             *)
LEMMA TablesTyped ==
  ASSUME TypeOK, NEW uuid \in Nat, NEW f \in Function, NewFunction(uuid, f)
  PROVE  /\ Known' \subseteq Nat /\ functions' \in [Known' -> Function]
         /\ DOMAIN by_entry' \subseteq Addr /\ by_entry' \in [DOMAIN by_entry' -> Nat]
         /\ unresolved_calls' \subseteq (Addr \cup {NoAddr}) \X (Nat \X Rvalue)
         /\ resolved_calls' \subseteq Nat \X (Nat \X Rvalue)
<1>1. /\ Known' \subseteq Nat /\ functions' \in [Known' -> Function]
      /\ DOMAIN by_entry' \subseteq Addr /\ by_entry' \in [DOMAIN by_entry' -> Nat]
  BY Zenon DEF TypeOK, NewFunction, Put, Known, Function
<1>2. \A s \in Sites(uuid, f) : s \in Nat \X Rvalue /\ Target(s) \in Addr \cup {NoAddr}
  BY AddrAssumption, SMTT(60) DEF Sites, Target, Function
<1>3. \A s \in Waiting(uuid, f) : s \in Nat \X Rvalue
  BY <1>2, Zenon DEF Waiting, TypeOK
<1>4. unresolved_calls' \subseteq (Addr \cup {NoAddr}) \X (Nat \X Rvalue)
  BY <1>2, SMTT(60) DEF NewFunction, TypeOK
<1>5. resolved_calls' \subseteq Nat \X (Nat \X Rvalue)
  <2>1. \A s \in Sites(uuid, f) : Target(s) \in DOMAIN by_entry => by_entry[Target(s)] \in Nat
    BY Zenon DEF TypeOK
  <2> QED BY <1>2, <1>3, <2>1, SMTT(60) DEF NewFunction, TypeOK
<1> QED BY <1>1, <1>4, <1>5, Zenon

(* Every step keeps the types.                                             *)
LEMMA TypeStep ==
  ASSUME IInv, [Next]_vars
  PROVE  TypeOK' /\ binary' = binary
<1>1. channel \in Seq(Message)
  BY Zenon DEF IInv, TypeOK, Message
<1>2. ASSUME NEW i \in pending, VisitTodo(i)
      PROVE  TypeOK' /\ binary' = binary
  <2> DEFINE e == ConstAddr[binary.symbols[i].rvalue]
  <2>1. i \in Nat /\ i \in DOMAIN binary.symbols
    BY Zenon DEF IInv, TypeOK, Covered
  <2>2. e \in Addr /\ binary.symbols[i].name \in Name \cup {NoName}
    BY <1>2, <2>1, EntryTyped, Zenon DEF VisitTodo, IInv, TypeOK
  <2>3. FunctionAt(e, binary.symbols[i].name) \in Function
    BY <2>2, FunctionTyped, Zenon DEF IInv, TypeOK
  <2>4. channel' \in Seq(Message)
    BY <1>1, <1>2, <2>1, <2>3, Sending, Zenon DEF VisitTodo
  <2>5. CallAddresses(binary, e) \subseteq Addr
    BY BinaryTyped, Zenon DEF IInv, TypeOK
  <2> QED
    BY <1>2, <2>2, <2>4, <2>5, Zenon DEF VisitTodo, IInv, TypeOK, consumerVars, tableVars, Message, Known
<1>3. ASSUME NEW e \in targets, VisitTarget(e)
      PROVE  TypeOK' /\ binary' = binary
  <2>1. e \in Addr /\ next_uuid \in Nat
    BY Zenon DEF IInv, TypeOK
  <2>2. FunctionAt(e, NoName) \in Function
    BY <2>1, FunctionTyped, Zenon DEF IInv, TypeOK
  <2>3. channel' \in Seq(Message)
    BY <1>1, <1>3, <2>1, <2>2, Sending, Zenon DEF VisitTarget
  <2>4. CallAddresses(binary, e) \subseteq Addr
    BY BinaryTyped, Zenon DEF IInv, TypeOK
  <2> QED
    BY <1>3, <2>1, <2>3, <2>4, SMTT(60) DEF VisitTarget, IInv, TypeOK, consumerVars, tableVars, Message, Known
<1>4. CASE Receive
  <2> DEFINE u == Head(channel).uuid
             f == Head(channel).function
  <2>1. u \in Nat /\ f \in Function /\ channel' \in Seq(Message)
    BY <1>1, <1>4, Receiving, Zenon DEF Receive, Message
  <2>2. NewFunction(u, f)
    BY <1>4, Zenon DEF Receive
  <2> HIDE DEF u, f
  <2>3. /\ Known' \subseteq Nat /\ functions' \in [Known' -> Function]
        /\ DOMAIN by_entry' \subseteq Addr /\ by_entry' \in [DOMAIN by_entry' -> Nat]
        /\ unresolved_calls' \subseteq (Addr \cup {NoAddr}) \X (Nat \X Rvalue)
        /\ resolved_calls' \subseteq Nat \X (Nat \X Rvalue)
    BY <2>1, <2>2, TablesTyped, Zenon DEF IInv
  <2>4. received' = u
    BY <1>4, Zenon DEF Receive, u
  <2> QED
    BY <1>4, <2>1, <2>3, <2>4, Zenon DEF Receive, IInv, TypeOK, producerVars, Message
<1>5. CASE Post
  BY <1>5, Zenon DEF Post, IInv, TypeOK, producerVars, tableVars, Known
<1>6. CASE EndOfStream
  BY <1>6, Zenon DEF EndOfStream, IInv, TypeOK, producerVars, tableVars, Known
<1>7. ASSUME NEW i \in pending, SkipLabel(i)
      PROVE  TypeOK' /\ binary' = binary
  BY <1>7, Zenon DEF SkipLabel, IInv, TypeOK, consumerVars, tableVars, Known
<1>8. CASE SymbolsDone
  BY <1>8, Zenon DEF SymbolsDone, IInv, TypeOK, consumerVars, tableVars, Known
<1>9. CASE NextWave
  BY <1>9, Zenon DEF NextWave, IInv, TypeOK, consumerVars, tableVars, Known
<1>10. CASE Close
  BY <1>10, Zenon DEF Close, IInv, TypeOK, consumerVars, tableVars, Known
<1>11. CASE UNCHANGED vars
  BY <1>11, Zenon DEF vars, producerVars, IInv, TypeOK, consumerVars, tableVars, Known
<1> QED
  BY <1>2, <1>3, <1>4, <1>5, <1>6, <1>7, <1>8, <1>9, <1>10, <1>11, Zenon
     DEF Next, Produce, Consume, Ended

-----------------------------------------------------------------------------
(* What receiving a function does to the tables and the channel.           *)
LEMMA Received ==
  ASSUME IInv, Receive
  PROVE  \E u \in Nat, f \in Function :
           /\ channel[1] = [uuid |-> u, function |-> f] /\ 1 \in DOMAIN channel
           /\ NewFunction(u, f)
           /\ u \notin Known /\ received' = u
           /\ Known' = Known \cup {u} /\ functions'[u] = f
           /\ \A v \in Known : functions'[v] = functions[v]
<1>1. channel \in Seq(Message)
  BY Zenon DEF IInv, TypeOK, Message
<1>2. /\ Head(channel) = channel[1] /\ 1 \in DOMAIN channel /\ channel[1] \in Message
  BY <1>1, Receiving, Zenon DEF Receive
<1>3. PICK u \in Nat, f \in Function : channel[1] = [uuid |-> u, function |-> f]
  BY <1>2, Zenon DEF Message
<1>4. NewFunction(u, f) /\ received' = u
  BY <1>2, <1>3, SMTT(60) DEF Receive
<1>5. u \notin Known
  BY <1>2, <1>3, SMTT(60) DEF IInv, FreshUuids
<1>6. /\ Known' = Known \cup {u} /\ functions'[u] = f
      /\ \A v \in Known : functions'[v] = functions[v]
  BY <1>4, <1>5, Zenon DEF NewFunction, Put, Known
<1> QED BY <1>2, <1>3, <1>4, <1>5, <1>6, Zenon

(* Steps other than Receive leave the tables alone.                        *)
LEMMA TablesKept ==
  ASSUME [Next]_vars, ~Receive
  PROVE  UNCHANGED tableVars
BY Zenon DEF Next, Produce, Consume, Ended, VisitTodo, SkipLabel, SymbolsDone, VisitTarget, NextWave,
       Close, Post, EndOfStream, vars, consumerVars

(* Every call stays booked once.                                           *)
LEMMA BookedStep ==
  ASSUME IInv, [Next]_vars
  PROVE  CallsBooked'
<1>1. CASE Receive
  <2>1. PICK u \in Nat, f \in Function : NewFunction(u, f) /\ u \notin Known
    BY <1>1, Received, Zenon
  <2>2. \A v \in Known : functions[v].start \in Addr
    BY Zenon DEF IInv, TypeOK, Function
  <2> QED
    BY <2>1, <2>2, Booking, Zenon DEF IInv, Function
<1>2. CASE ~Receive
  <2>1. UNCHANGED tableVars
    BY <1>2, TablesKept, Zenon
  <2> QED
    BY <2>1, SMTT(60) DEF IInv, CallsBooked, IndexRight, StartsAt, Known, Sites, Target, tableVars
<1> QED BY <1>1, <1>2, Zenon

(* Functions get different UUIDs.                                          *)
LEMMA FreshStep ==
  ASSUME IInv, [Next]_vars
  PROVE  FreshUuids'
<1>1. channel \in Seq(Message) /\ next_uuid \in Nat /\ pending \subseteq Nat /\ Known \subseteq Nat
  BY Zenon DEF IInv, TypeOK, Message
<1>2. FreshUuids
  BY Zenon DEF IInv
<1>3. ASSUME NEW i \in pending, VisitTodo(i)
      PROVE  FreshUuids'
  <2> DEFINE e == ConstAddr[binary.symbols[i].rvalue]
  <2>1. /\ pending' = pending \ {i} /\ next_uuid' = next_uuid /\ Known' = Known
    BY <1>3, Zenon DEF VisitTodo, consumerVars, tableVars, Known
  <2>2. CASE e \notin binary.decodes
    BY <1>2, <1>3, <2>1, <2>2, Zenon DEF VisitTodo, FreshUuids
  <2>3. CASE e \in binary.decodes
    <3>1. i \in DOMAIN binary.symbols /\ IsEntry(i) /\ binary \in Binaries
      BY <1>3, Zenon DEF VisitTodo, IInv, Covered, TypeOK
    <3>2. FunctionAt(e, binary.symbols[i].name) \in Function
      BY <3>1, EntryTyped, FunctionTyped, Zenon
    <3>3. Send(i, FunctionAt(e, binary.symbols[i].name))
      BY <1>3, <2>3, Zenon DEF VisitTodo
    <3> HIDE DEF e
    <3>4. PICK f \in Function : Send(i, f)
      BY <3>2, <3>3, Zenon
    <3>5. /\ DOMAIN channel' = DOMAIN channel \cup {Len(channel) + 1}
          /\ \A j \in DOMAIN channel : channel'[j] = channel[j] /\ j # Len(channel) + 1
          /\ channel'[Len(channel) + 1].uuid = i
      BY <1>1, <3>4, Sending, Zenon
    <3> QED
      BY <1>1, <1>2, <2>1, <3>5, Zenon DEF FreshUuids
  <2> QED BY <2>2, <2>3, Zenon
<1>4. ASSUME NEW e \in targets, VisitTarget(e)
      PROVE  FreshUuids'
  <2>1. pending' = pending /\ Known' = Known
    BY <1>4, Zenon DEF VisitTarget, consumerVars, tableVars, Known
  <2>2. CASE UNCHANGED <<channel, next_uuid>>
    BY <1>2, <2>1, <2>2, Zenon DEF FreshUuids
  <2>3. CASE Send(next_uuid, FunctionAt(e, NoName)) /\ next_uuid' = next_uuid + 1
    <3>1. FunctionAt(e, NoName) \in Function
      BY FunctionTyped, Zenon DEF IInv, TypeOK
    <3>2. PICK f \in Function : Send(next_uuid, f)
      BY <2>3, <3>1, Zenon
    <3>3. /\ DOMAIN channel' = DOMAIN channel \cup {Len(channel) + 1}
          /\ \A j \in DOMAIN channel : channel'[j] = channel[j] /\ j # Len(channel) + 1
          /\ channel'[Len(channel) + 1].uuid = next_uuid
      BY <1>1, <3>2, Sending, Zenon
    <3>4. \A j \in DOMAIN channel : channel[j].uuid \in Nat
      <4>1. \A j \in DOMAIN channel : channel[j] \in Message
        BY <1>1, SMTT(60)
      <4> QED BY <4>1, Zenon DEF Message
    <3>5. /\ \A u \in Nat : u < next_uuid => u # next_uuid /\ u < next_uuid'
          /\ next_uuid < next_uuid'
      BY <1>1, <2>3, SMTT(60)
    <3>6. \A u \in Known \cup pending : u # next_uuid /\ u < next_uuid'
      BY <1>1, <1>2, <3>5, Zenon DEF FreshUuids
    <3>7. \A j \in DOMAIN channel : channel[j].uuid # next_uuid /\ channel[j].uuid < next_uuid'
      BY <1>2, <3>4, <3>5, Zenon DEF FreshUuids
    <3> QED
      BY <1>2, <2>1, <3>3, <3>5, <3>6, <3>7, ZenonT(60) DEF FreshUuids
  <2> QED BY <1>4, <2>2, <2>3, Zenon DEF VisitTarget
<1>5. CASE Receive
  <2>1. PICK u \in Nat, f \in Function :
          /\ channel[1] = [uuid |-> u, function |-> f] /\ 1 \in DOMAIN channel
          /\ Known' = Known \cup {u}
    BY <1>5, Received, Zenon
  <2>2. \A i \in DOMAIN channel' : /\ i + 1 \in DOMAIN channel /\ i + 1 # 1 /\ i \in Int
                                   /\ channel'[i] = channel[i + 1]
    BY <1>1, <1>5, Receiving, SMTT(60) DEF Receive
  <2>3. pending' = pending /\ next_uuid' = next_uuid
    BY <1>5, Zenon DEF Receive, producerVars
  <2>4. \A i, j \in DOMAIN channel' : i # j => channel'[i].uuid # channel'[j].uuid
    BY <1>2, <2>2, SMTT(60) DEF FreshUuids
  <2> QED
    BY <1>2, <2>1, <2>2, <2>3, <2>4, SMTT(60) DEF FreshUuids
<1>6. CASE UNCHANGED <<channel, next_uuid, Known>> /\ pending' \subseteq pending
  BY <1>2, <1>6, Zenon DEF FreshUuids
<1>7. CASE \/ \E i \in pending : SkipLabel(i)
           \/ SymbolsDone \/ NextWave \/ Close \/ Post \/ EndOfStream \/ UNCHANGED vars
  BY <1>6, <1>7, Zenon DEF SkipLabel, SymbolsDone, NextWave, Close, Post, EndOfStream, vars, consumerVars,
                    producerVars, tableVars, Known
<1> QED
  BY <1>3, <1>4, <1>5, <1>7, Zenon DEF Next, Produce, Consume, Ended

-----------------------------------------------------------------------------
(* An entry that decodes is sent; one that does not is a failure.          *)
LEMMA TriedVisit ==
  ASSUME Tried, channel \in Seq(Message), UNCHANGED <<binary, tableVars>>,
         NEW e, finished_functions' = finished_functions \cup {e},
         \/ /\ e \in binary.decodes /\ failures' = failures
            /\ \E uuid \in Nat, f \in Function :
                 Send(uuid, f) /\ f.start = e /\ f.calls = binary.calls[e]
         \/ e \notin binary.decodes /\ failures' = failures \cup {e} /\ channel' = channel
         \/ e \in finished_functions /\ failures' = failures /\ channel' = channel
  PROVE  Tried'
<1>1. /\ UNCHANGED <<binary, Known, functions>>
      /\ \A f : MadeFrom(f) => MadeFrom(f)'
  BY Zenon DEF tableVars, Known, MadeFrom
<1>2. CASE /\ channel' = channel
           /\ \/ e \notin binary.decodes /\ failures' = failures \cup {e}
              \/ e \in finished_functions /\ failures' = failures
  BY <1>1, <1>2, SMTT(60) DEF Tried, MadeFrom
<1>3. CASE /\ e \in binary.decodes /\ failures' = failures
           /\ \E uuid \in Nat, f \in Function :
                Send(uuid, f) /\ f.start = e /\ f.calls = binary.calls[e]
  <2>1. PICK uuid \in Nat, f \in Function :
          Send(uuid, f) /\ f.start = e /\ f.calls = binary.calls[e]
    BY <1>3, Zenon
  <2>2. /\ DOMAIN channel' = DOMAIN channel \cup {Len(channel) + 1}
        /\ \A i \in DOMAIN channel : channel'[i] = channel[i]
        /\ channel'[Len(channel) + 1].function = f
    BY <2>1, Sending, Zenon
  <2>3. MadeFrom(f)'
    BY <1>1, <1>3, <2>1, Zenon DEF MadeFrom
  <2>4. \A i \in DOMAIN channel' : MadeFrom(channel[i].function)'
    BY <1>1, <2>2, <2>3, SMTT(60) DEF Tried, MadeFrom
  <2>5. \A u \in Known' : MadeFrom(functions[u])'
    BY <1>1, Zenon DEF Tried, MadeFrom
  <2>6. \A d \in finished_functions' \cap binary'.decodes :
          \/ \E u \in Known' : functions'[u].start = d
          \/ \E i \in DOMAIN channel' : channel'[i].function.start = d
    BY <1>1, <2>1, <2>2, SMTT(60) DEF Tried
  <2>7. failures' = finished_functions' \ binary'.decodes
    BY <1>1, <1>3, Zenon DEF Tried
  <2> QED BY <2>4, <2>5, <2>6, <2>7, Zenon DEF Tried
<1> QED BY <1>2, <1>3, Zenon

(* What was tried was sent or is a failure.                                *)
LEMMA TriedStep ==
  ASSUME IInv, [Next]_vars
  PROVE  Tried'
<1>1. channel \in Seq(Message) /\ next_uuid \in Nat /\ Tried /\ binary \in Binaries
  BY Zenon DEF IInv, TypeOK, Message
<1>2. ASSUME NEW i \in pending, VisitTodo(i)
      PROVE  Tried'
  <2> DEFINE e == ConstAddr[binary.symbols[i].rvalue]
             f == FunctionAt(e, binary.symbols[i].name)
  <2>1. i \in DOMAIN binary.symbols /\ i \in Nat /\ IsEntry(i)
    BY <1>2, Zenon DEF VisitTodo, IInv, Covered, TypeOK
  <2>2. f \in Function /\ f.start = e /\ f.calls = binary.calls[e]
    BY <1>1, <2>1, EntryTyped, FunctionTyped, Zenon
  <2>3. /\ UNCHANGED <<binary, tableVars>> /\ finished_functions' = finished_functions \cup {e}
        /\ \/ e \in binary.decodes /\ failures' = failures /\ Send(i, f)
           \/ e \notin binary.decodes /\ failures' = failures \cup {e} /\ channel' = channel
    BY <1>2, Zenon DEF VisitTodo, consumerVars
  <2> HIDE DEF e, f
  <2> QED BY <1>1, <2>1, <2>2, <2>3, TriedVisit, Zenon
<1>3. ASSUME NEW e \in targets, VisitTarget(e)
      PROVE  Tried'
  <2> DEFINE f == FunctionAt(e, NoName)
  <2>1. f \in Function /\ f.start = e /\ f.calls = binary.calls[e]
    BY FunctionTyped, Zenon DEF IInv, TypeOK
  <2>2. /\ UNCHANGED <<binary, tableVars>> /\ finished_functions' = finished_functions \cup {e}
        /\ \/ e \in binary.decodes /\ failures' = failures /\ Send(next_uuid, f)
           \/ e \notin binary.decodes /\ failures' = failures \cup {e} /\ channel' = channel
           \/ e \in finished_functions /\ failures' = failures /\ channel' = channel
    BY <1>3, Zenon DEF VisitTarget, consumerVars
  <2> HIDE DEF f
  <2> QED BY <1>1, <2>1, <2>2, TriedVisit, Zenon
<1>4. CASE Receive
  <2>1. PICK u \in Nat, f \in Function :
          /\ channel[1] = [uuid |-> u, function |-> f] /\ 1 \in DOMAIN channel
          /\ Known' = Known \cup {u} /\ functions'[u] = f
          /\ \A v \in Known : functions'[v] = functions[v]
    BY <1>4, Received, Zenon
  <2>2. /\ \A i \in DOMAIN channel' : i + 1 \in DOMAIN channel /\ channel'[i] = channel[i + 1]
        /\ \A i \in DOMAIN channel : i = 1 \/ (i - 1 \in DOMAIN channel' /\ channel'[i - 1] = channel[i])
    BY <1>1, <1>4, Receiving, Zenon DEF Receive
  <2>3. UNCHANGED <<binary, finished_functions, failures>>
    BY <1>4, Zenon DEF Receive, producerVars
  <2>5. channel[1].function = f /\ MadeFrom(f)
    BY <1>1, <2>1, SMTT(60) DEF Tried
  <2>6. \A v \in Known' : MadeFrom(functions[v])'
    BY <1>1, <2>1, <2>3, <2>5, SMTT(60) DEF Tried, MadeFrom
  <2>7. \A i \in DOMAIN channel' : MadeFrom(channel[i].function)'
    BY <1>1, <2>2, <2>3, SMTT(60) DEF Tried, MadeFrom
  <2>8. ASSUME NEW d \in finished_functions \cap binary.decodes
        PROVE  \/ \E v \in Known' : functions'[v].start = d
               \/ \E i \in DOMAIN channel' : channel'[i].function.start = d
    <3>1. CASE \E v \in Known : functions[v].start = d
      BY <2>1, <3>1, Zenon
    <3>2. CASE \E i \in DOMAIN channel : channel[i].function.start = d
      BY <2>1, <2>2, <2>5, <3>2, SMTT(60)
    <3> QED BY <1>1, <3>1, <3>2, Zenon DEF Tried
  <2> QED BY <1>1, <2>3, <2>6, <2>7, <2>8, Zenon DEF Tried
<1>5. CASE UNCHANGED <<binary, finished_functions, failures, channel, functions>>
  BY <1>1, <1>5, Zenon DEF Tried, MadeFrom, Known
<1>6. CASE \/ \E i \in pending : SkipLabel(i)
           \/ SymbolsDone \/ NextWave \/ Close \/ Post \/ EndOfStream \/ UNCHANGED vars
  BY <1>5, <1>6, Zenon DEF SkipLabel, SymbolsDone, NextWave, Close, Post, EndOfStream, vars, consumerVars,
                    producerVars, tableVars
<1> QED
  BY <1>2, <1>3, <1>4, <1>6, Zenon DEF Next, Produce, Consume, Ended

(* The entries reachable by calls are closed under calls.                  *)
LEMMA ReachableClosed ==
  ASSUME NEW b
  PROVE  Closed(b, Reachable(b))
<1>1. \A e : CallAddresses(b, e) \subseteq Addr
  BY Zenon DEF CallAddresses
<1>2. Roots(b) \subseteq Addr
  BY Zenon DEF Roots
<1> HIDE DEF CallAddresses, Roots
<1> QED BY <1>1, <1>2, Zenon DEF Closed, Reachable

(* Calls of what was tried are tried or scheduled, and nothing else is.    *)
LEMMA CoveredStep ==
  ASSUME IInv, [Next]_vars
  PROVE  Covered'
<1>1. Covered /\ binary \in Binaries /\ Closed(binary, Reachable(binary))
  BY ReachableClosed, Zenon DEF IInv, TypeOK
<1>2. binary' = binary
  BY TypeStep, Zenon
<1>3. ASSUME NEW i \in pending, VisitTodo(i)
      PROVE  Covered'
  <2> DEFINE e == ConstAddr[binary.symbols[i].rvalue]
  <2>1. i \in DOMAIN binary.symbols /\ IsEntry(i)
    BY <1>1, <1>3, Zenon DEF VisitTodo, Covered
  <2>2. e \in Roots(binary)
    BY <1>1, <2>1, EntryTyped, Zenon DEF Roots, IsEntry
  <2>3. e \in Reachable(binary)
    BY <1>1, <2>2, Zenon DEF Closed
  <2>4. /\ pending' = pending \ {i} /\ new_targets' = new_targets
        /\ finished_functions' = finished_functions \cup {e}
        /\ \/ e \in binary.decodes /\ targets' = targets \cup CallAddresses(binary, e)
           \/ e \notin binary.decodes /\ targets' = targets
    BY <1>3, Zenon DEF VisitTodo
  <2>5. Scheduled' \subseteq Reachable(binary)
    BY <1>1, <2>3, <2>4, Zenon DEF Scheduled, Covered, Closed
  <2>6. \A d \in finished_functions' \cap binary.decodes : CallAddresses(binary, d) \subseteq Scheduled'
    BY <1>1, <2>4, Zenon DEF Scheduled, Covered
  <2>7. \A j \in DOMAIN binary.symbols \ pending' :
          IsEntry(j) => ConstAddr[binary.symbols[j].rvalue] \in finished_functions'
    BY <1>1, <2>4, Zenon DEF Covered
  <2> QED BY <1>1, <1>2, <2>4, <2>5, <2>6, <2>7, Zenon DEF Covered, IsEntry
<1>4. ASSUME NEW e \in targets, VisitTarget(e)
      PROVE  Covered'
  <2>1. e \in Reachable(binary)
    BY <1>1, Zenon DEF Covered, Scheduled
  <2>2. /\ pending' = pending /\ targets' = targets \ {e}
        /\ finished_functions' = finished_functions \cup {e}
        /\ \/ e \in finished_functions /\ new_targets' = new_targets
           \/ e \in binary.decodes /\ new_targets' = new_targets \cup CallAddresses(binary, e)
           \/ e \notin binary.decodes /\ new_targets' = new_targets
    BY <1>4, Zenon DEF VisitTarget
  <2>3. Scheduled' \subseteq Reachable(binary)
    BY <1>1, <2>1, <2>2, Zenon DEF Scheduled, Covered, Closed
  <2>4. Scheduled \subseteq Scheduled'
    BY <2>2, Zenon DEF Scheduled
  <2>5. \A d \in finished_functions' \cap binary.decodes : CallAddresses(binary, d) \subseteq Scheduled'
    BY <1>1, <2>2, <2>4, Zenon DEF Scheduled, Covered
  <2> QED BY <1>1, <1>2, <2>2, <2>3, <2>5, Zenon DEF Covered, IsEntry
<1>5. ASSUME NEW i \in pending, SkipLabel(i)
      PROVE  Covered'
  BY <1>1, <1>2, <1>5, Zenon DEF SkipLabel, Covered, Scheduled, IsEntry
<1>6. CASE NextWave
  BY <1>1, <1>2, <1>6, Zenon DEF NextWave, Covered, Scheduled, IsEntry
<1>7. CASE UNCHANGED <<pending, finished_functions, targets, new_targets>>
  BY <1>1, <1>2, <1>7, Zenon DEF Covered, Scheduled, IsEntry
<1>8. CASE SymbolsDone \/ Close \/ Receive \/ Post \/ EndOfStream \/ UNCHANGED vars
  BY <1>7, <1>8, Zenon DEF SymbolsDone, Close, Receive, Post, EndOfStream, vars, producerVars
<1> QED
  BY <1>3, <1>4, <1>5, <1>6, <1>8, Zenon DEF Next, Produce, Consume, Ended

(* The threads go on in order, and the sidebar is one function behind.     *)
LEMMA PhasesStep ==
  ASSUME IInv, [Next]_vars
  PROVE  Phases'
<1>1. Phases
  BY Zenon DEF IInv
<1>2. CASE Receive
  <2>1. PICK u \in Nat, f \in Function : received' = u /\ Known' = Known \cup {u}
    BY <1>2, Received, Zenon
  <2>2. /\ consumer = "recv" /\ consumer' = "post" /\ sidebar' = sidebar
        /\ UNCHANGED <<pending, producer, targets, new_targets>>
    BY <1>2, Zenon DEF Receive, producerVars
  <2> QED BY <1>1, <2>1, <2>2, Zenon DEF Phases
<1>3. CASE Post
  BY <1>1, <1>3, Zenon DEF Phases, Post, producerVars, tableVars, Known
<1>4. CASE EndOfStream
  BY <1>1, <1>4, Zenon DEF Phases, EndOfStream, producerVars, tableVars, Known
<1>5. CASE Produce
  <2>1. UNCHANGED <<Known, consumer, received, sidebar>> /\ producer # "ended"
    BY <1>5, Zenon DEF Produce, VisitTodo, SkipLabel, SymbolsDone, VisitTarget, NextWave, Close,
                consumerVars, tableVars, Known
  <2>2. consumer # "ended"
    BY <1>1, <2>1, Zenon DEF Phases
  <2>3. (producer' # "symbols" => pending' = {})
        /\ (producer' = "ended" => targets' = {} /\ new_targets' = {})
    BY <1>1, <1>5, Zenon DEF Phases, Produce, VisitTodo, SkipLabel, SymbolsDone, VisitTarget, NextWave, Close
  <2> QED BY <1>1, <2>1, <2>2, <2>3, Zenon DEF Phases
<1>6. CASE UNCHANGED vars
  BY <1>1, <1>6, Zenon DEF Phases, vars, producerVars, consumerVars, tableVars, Known
<1> QED
  BY <1>2, <1>3, <1>4, <1>5, <1>6, Zenon DEF Next, Consume, Ended

(* The invariant holds when `pipeline' is called.                          *)
LEMMA InvInit == Init => IInv
<1> SUFFICES ASSUME Init PROVE IInv
  BY Zenon
<1>1. /\ binary \in Binaries /\ pending = DOMAIN binary.symbols
      /\ targets = {} /\ new_targets = {} /\ finished_functions = {} /\ failures = {}
      /\ next_uuid = Len(binary.symbols) + 1 /\ producer = "symbols" /\ channel = <<>>
      /\ consumer = "recv" /\ received = 0 /\ sidebar = {}
      /\ functions = <<>> /\ by_entry = <<>> /\ unresolved_calls = {} /\ resolved_calls = {}
  BY Zenon DEF Init, EmptyTable
<1>2. binary.symbols \in Seq(TodoTarget \cup SymbolicTarget)
  BY <1>1, BinaryTyped, Zenon
<1>3. pending = 1..Len(binary.symbols) /\ Len(binary.symbols) \in Nat
  BY <1>1, <1>2, SMTT(60)
<1>4. Known = {} /\ DOMAIN by_entry = {} /\ DOMAIN channel = {}
  BY <1>1, SMTT(60) DEF Known
<1>5. TypeOK
  BY <1>1, <1>3, <1>4, SMTT(60) DEF TypeOK
<1>6. CallsBooked
  BY <1>1, <1>4, Zenon DEF CallsBooked, IndexRight
<1>7. FreshUuids
  BY <1>1, <1>3, <1>4, SMTT(60) DEF FreshUuids
<1>8. Tried /\ Covered /\ Phases
  BY <1>1, <1>4, Zenon DEF Tried, Covered, Scheduled, Phases
<1> QED BY <1>5, <1>6, <1>7, <1>8, Zenon DEF IInv

(* The invariant of the streaming analysis always holds.                   *)
THEOREM Invariance == Spec => []IInv
<1>1. IInv /\ [Next]_vars => IInv'
  BY TypeStep, BookedStep, FreshStep, TriedStep, CoveredStep, PhasesStep, Zenon DEF IInv
<1> QED BY <1>1, InvInit, PTL DEF Spec

(* Whatever the binary and the order in which functions arrive, the tables *)
(* of the session book every call of a known function exactly once, under  *)
(* its callee if that is known.                                            *)
THEOREM CallsAreBooked == Spec => []CallsBooked
BY Invariance, PTL DEF IInv

(* Sending a function adds its UUID to those of its entry. *)
LEMMA UuidsSent ==
  ASSUME channel \in Seq(Message), UNCHANGED <<binary, functions>>,
         NEW uuid \in Nat, NEW f \in Function, Send(uuid, f), NEW e
  PROVE  /\ SymbolsFor(e)' = SymbolsFor(e)
         /\ UuidsFor(e)' = UuidsFor(e) \cup (IF f.start = e THEN {uuid} ELSE {})
<1>1. /\ DOMAIN channel' = DOMAIN channel \cup {Len(channel) + 1}
      /\ \A i \in DOMAIN channel : channel'[i] = channel[i] /\ i # Len(channel) + 1
      /\ channel'[Len(channel) + 1].uuid = uuid
      /\ channel'[Len(channel) + 1].function = f
  BY Sending, Zenon
<1>2. StartsAt(e)' = StartsAt(e)
  BY Zenon DEF StartsAt, Known
<1> DEFINE Sent == {channel[i].uuid : i \in {j \in DOMAIN channel : channel[j].function.start = e}}
           Now  == {channel'[i].uuid : i \in {j \in DOMAIN channel' : channel'[j].function.start = e}}
<1>3. Now = Sent \cup (IF f.start = e THEN {uuid} ELSE {})
  BY <1>1, SMTT(60)
<1> QED BY <1>2, <1>3, Zenon DEF UuidsFor, SymbolsFor

(* Nothing was sent for an entry that was not tried. *)
LEMMA NotSent ==
  ASSUME Tried, NEW e, e \notin finished_functions
  PROVE  UuidsFor(e) = {}
BY SMTT(60) DEF Tried, MadeFrom, UuidsFor, StartsAt

(* Every step keeps that calls make a function sent once. *)
LEMMA SentOnceStep ==
  ASSUME IInv, SentOnce, [Next]_vars
  PROVE  SentOnce'
<1>1. /\ channel \in Seq(Message) /\ next_uuid \in Nat /\ binary \in Binaries
      /\ Tried /\ Covered /\ Phases
  BY Zenon DEF IInv, TypeOK, Message
<1>2. ASSUME NEW i \in pending, VisitTodo(i)
      PROVE  SentOnce'
  <2> DEFINE e == ConstAddr[binary.symbols[i].rvalue]
             f == FunctionAt(e, binary.symbols[i].name)
  <2>1. i \in DOMAIN binary.symbols /\ i \in Nat /\ IsEntry(i)
    BY <1>2, Zenon DEF VisitTodo, IInv, Covered, TypeOK
  <2>2. f \in Function /\ f.start = e /\ e \in Addr
    BY <1>1, <2>1, EntryTyped, FunctionTyped, Zenon
  <2>3. i \in SymbolsFor(e)
    BY <2>1, Zenon DEF SymbolsFor, IsEntry
  <2>4. UNCHANGED <<binary, functions>> /\ (channel' = channel \/ Send(i, f))
    BY <1>2, Zenon DEF VisitTodo, consumerVars, tableVars
  <2> HIDE DEF e, f
  <2>5. CASE channel' = channel
    <3>1. \A d : SymbolsFor(d)' = SymbolsFor(d) /\ UuidsFor(d)' = UuidsFor(d)
      BY <2>4, <2>5, Zenon DEF UuidsFor, SymbolsFor, StartsAt, Known
    <3> QED BY <3>1, Zenon DEF SentOnce
  <2>6. CASE Send(i, f)
    <3> SUFFICES ASSUME NEW d \in Addr
                 PROVE  \/ UuidsFor(d)' \subseteq SymbolsFor(d)'
                        \/ SymbolsFor(d)' = {} /\ \A u, v \in UuidsFor(d)' : u = v
      BY Zenon DEF SentOnce
    <3>1. /\ SymbolsFor(d)' = SymbolsFor(d)
          /\ UuidsFor(d)' = UuidsFor(d) \cup (IF f.start = d THEN {i} ELSE {})
      BY <1>1, <2>1, <2>2, <2>4, <2>6, UuidsSent, Zenon
    <3> QED BY <2>2, <2>3, <3>1, Zenon DEF SentOnce
  <2> QED BY <2>4, <2>5, <2>6, Zenon
<1>3. ASSUME NEW e \in targets, VisitTarget(e)
      PROVE  SentOnce'
  <2> DEFINE f == FunctionAt(e, NoName)
  <2>1. f \in Function /\ f.start = e /\ e \in Addr
    BY FunctionTyped, Zenon DEF IInv, TypeOK
  <2>2. /\ UNCHANGED <<binary, functions>>
        /\ channel' = channel \/ (e \notin finished_functions /\ Send(next_uuid, f))
    BY <1>3, Zenon DEF VisitTarget, consumerVars, tableVars
  <2> HIDE DEF f
  <2>3. CASE channel' = channel
    <3>1. \A d : SymbolsFor(d)' = SymbolsFor(d) /\ UuidsFor(d)' = UuidsFor(d)
      BY <2>2, <2>3, Zenon DEF UuidsFor, SymbolsFor, StartsAt, Known
    <3> QED BY <3>1, Zenon DEF SentOnce
  <2>4. CASE e \notin finished_functions /\ Send(next_uuid, f)
    <3>1. UuidsFor(e) = {}
      BY <1>1, <2>4, NotSent, Zenon
    <3>2. SymbolsFor(e) = {}
      <4> SUFFICES ASSUME NEW i \in SymbolsFor(e) PROVE FALSE
        BY Zenon
      <4>1. i \in DOMAIN binary.symbols \ pending
        BY <1>1, <1>3, Zenon DEF SymbolsFor, Phases, VisitTarget
      <4>2. IsEntry(i) /\ ConstAddr[binary.symbols[i].rvalue] = e
        BY <2>1, AddrAssumption, Zenon DEF SymbolsFor, IsEntry
      <4> QED BY <1>1, <2>4, <4>1, <4>2, Zenon DEF Covered
    <3> SUFFICES ASSUME NEW d \in Addr
                 PROVE  \/ UuidsFor(d)' \subseteq SymbolsFor(d)'
                        \/ SymbolsFor(d)' = {} /\ \A u, v \in UuidsFor(d)' : u = v
      BY Zenon DEF SentOnce
    <3>3. /\ SymbolsFor(d)' = SymbolsFor(d)
          /\ UuidsFor(d)' = UuidsFor(d) \cup (IF f.start = d THEN {next_uuid} ELSE {})
      BY <1>1, <2>1, <2>2, <2>4, UuidsSent, Zenon
    <3> QED BY <2>1, <3>1, <3>2, <3>3, SMTT(60) DEF SentOnce
  <2> QED BY <2>2, <2>3, <2>4, Zenon
<1>4. CASE Receive
  <2>1. PICK u \in Nat, f \in Function :
          /\ channel[1] = [uuid |-> u, function |-> f] /\ 1 \in DOMAIN channel
          /\ Known' = Known \cup {u} /\ functions'[u] = f
          /\ \A v \in Known : functions'[v] = functions[v]
    BY <1>4, Received, Zenon
  <2>2. /\ \A i \in DOMAIN channel' : i + 1 \in DOMAIN channel /\ channel'[i] = channel[i + 1]
        /\ \A i \in DOMAIN channel : i = 1 \/ (i - 1 \in DOMAIN channel' /\ channel'[i - 1] = channel[i])
    BY <1>1, <1>4, Receiving, Zenon DEF Receive
  <2>3. channel[1].uuid = u /\ channel[1].function = f /\ binary' = binary
    BY <1>4, <2>1, SMTT(60) DEF Receive
  <2>4. \A e : SymbolsFor(e)' = SymbolsFor(e)
    BY <2>3, Zenon DEF SymbolsFor
  <2>5. \A e : UuidsFor(e)' \subseteq UuidsFor(e)
    <3> TAKE e
    <3>1. \A v \in StartsAt(e)' : v \in UuidsFor(e)
      BY <2>1, <2>3, SMTT(60) DEF StartsAt, UuidsFor
    <3>2. \A i \in DOMAIN channel' : channel'[i].function.start = e => channel'[i].uuid \in UuidsFor(e)
      BY <2>2, Zenon DEF UuidsFor
    <3> QED BY <3>1, <3>2, Zenon DEF UuidsFor
  <2> QED BY <2>4, <2>5, Zenon DEF SentOnce
<1>5. CASE UNCHANGED <<binary, channel, functions>>
  <2>1. \A e : SymbolsFor(e)' = SymbolsFor(e) /\ UuidsFor(e)' = UuidsFor(e)
    BY <1>5, Zenon DEF UuidsFor, SymbolsFor, StartsAt, Known
  <2> QED BY <2>1, Zenon DEF SentOnce
<1>6. CASE \/ \E i \in pending : SkipLabel(i)
           \/ SymbolsDone \/ NextWave \/ Close \/ Post \/ EndOfStream \/ UNCHANGED vars
  BY <1>5, <1>6, Zenon DEF SkipLabel, SymbolsDone, NextWave, Close, Post, EndOfStream, vars, consumerVars,
                    producerVars, tableVars
<1> QED BY <1>2, <1>3, <1>4, <1>6, Zenon DEF Next, Produce, Consume, Ended

(* As many functions were sent for an entry as UUIDs were given to them. *)
LEMMA SentCounted ==
  ASSUME IInv, NEW e
  PROVE  IsFiniteSet(UuidsFor(e)) /\ SentFor(e) = Cardinality(UuidsFor(e))
<1> DEFINE I == {i \in DOMAIN channel : channel[i].function.start = e}
           C == {channel[i].uuid : i \in I}
           f == [i \in I |-> channel[i].uuid]
<1>1. channel \in Seq(Message) /\ next_uuid \in Nat /\ Known \subseteq Nat
  BY Zenon DEF IInv, TypeOK, Message
<1>2. IsFiniteSet(StartsAt(e))
  <2>1. StartsAt(e) \in SUBSET Nat /\ \A u \in StartsAt(e) : u <= next_uuid
    <3>1. \A u \in Known : u < next_uuid
      BY Zenon DEF IInv, FreshUuids
    <3>2. \A u \in Known : u \in Nat /\ u <= next_uuid
      BY <1>1, <3>1, SMTT(60)
    <3>3. \A u \in StartsAt(e) : u \in Known
      BY Zenon DEF StartsAt
    <3> QED BY <3>2, <3>3, Zenon
  <2> QED BY <1>1, <2>1, FS_BoundedSetOfNaturals, Zenon
<1>3. IsFiniteSet(I)
  <2>1. DOMAIN channel = 1..Len(channel) /\ Len(channel) \in Nat
    BY <1>1, LenProperties, Zenon
  <2>2. IsFiniteSet(DOMAIN channel)
    BY <2>1, FS_Interval, SMTT(60)
  <2> QED BY <2>2, FS_Subset, Zenon
<1>4. f \in Bijection(I, C)
  <2>1. f \in [I -> C] /\ \A c \in C : \E i \in I : f[i] = c
    BY Zenon
  <2>2. \A i, j \in I : i # j => f[i] # f[j]
    BY Zenon DEF IInv, FreshUuids
  <2> HIDE DEF f, I, C
  <2>3. IsInjective(f)
    BY <2>1, <2>2, Zenon DEF IsInjective
  <2> QED BY <2>1, <2>3, Zenon DEF Bijection, Injection, Surjection
<1>5. IsFiniteSet(C) /\ Cardinality(C) = Cardinality(I)
  <2>1. ExistsBijection(I, C)
    BY <1>4, Zenon DEF ExistsBijection
  <2> HIDE DEF I, C, f
  <2> QED BY <1>3, <2>1, FS_Bijection, Zenon
<1>6. StartsAt(e) \cap C = {}
  BY Zenon DEF StartsAt, IInv, FreshUuids
<1> HIDE DEF I, C
<1>7. /\ IsFiniteSet(StartsAt(e) \cup C)
      /\ Cardinality(StartsAt(e) \cup C) = Cardinality(StartsAt(e)) + Cardinality(C)
                                           - Cardinality(StartsAt(e) \cap C)
  BY <1>2, <1>5, FS_Union, Zenon
<1>8. /\ Cardinality(StartsAt(e) \cap C) = 0
      /\ Cardinality(StartsAt(e)) \in Nat /\ Cardinality(C) \in Nat
  BY <1>2, <1>5, <1>6, FS_EmptySet, FS_CardinalityType, Zenon
<1>9. UuidsFor(e) = StartsAt(e) \cup C /\ SentFor(e) = Cardinality(StartsAt(e)) + Cardinality(I)
  BY Zenon DEF UuidsFor, SentFor, I, C
<1> QED BY <1>5, <1>7, <1>8, <1>9, SMTT(60)

(***************************************************************************)
(* Calls never make `pipeline' disassemble a function again, whatever the  *)
(* binary: an entry is sent once, or as often as the loader has symbols    *)
(* for it, although the sets of targets of two waves may both have it.     *)
(***************************************************************************)
THEOREM NothingTwice == Spec => []NoRework
<1>1. Init => SentOnce
  <2> SUFFICES ASSUME Init PROVE SentOnce
    BY Zenon
  <2>1. Known = {} /\ DOMAIN channel = {}
    BY SMTT(60) DEF Init, EmptyTable, Known
  <2> QED BY <2>1, Zenon DEF SentOnce, UuidsFor, StartsAt
<1>2. IInv /\ SentOnce /\ [Next]_vars => SentOnce'
  BY SentOnceStep, Zenon
<1>3. IInv /\ SentOnce => NoRework
  <2> SUFFICES ASSUME IInv, SentOnce, NEW e \in Addr
               PROVE  SentFor(e) <= IF SymbolsAt(e) = 0 THEN 1 ELSE SymbolsAt(e)
    BY Zenon DEF NoRework
  <2>1. IsFiniteSet(UuidsFor(e)) /\ SentFor(e) = Cardinality(UuidsFor(e))
    BY SentCounted, Zenon
  <2>2. IsFiniteSet(SymbolsFor(e)) /\ SymbolsAt(e) \in Nat
    <3>1. binary.symbols \in Seq(TodoTarget \cup SymbolicTarget)
      BY BinaryTyped, Zenon DEF IInv, TypeOK
    <3>2. DOMAIN binary.symbols = 1..Len(binary.symbols) /\ Len(binary.symbols) \in Nat
      BY <3>1, LenProperties, Zenon
    <3>3. IsFiniteSet(DOMAIN binary.symbols)
      BY <3>2, FS_Interval, SMTT(60)
    <3>4. IsFiniteSet(SymbolsFor(e))
      BY <3>3, FS_Subset, Zenon DEF SymbolsFor
    <3> QED BY <3>4, FS_CardinalityType, Zenon DEF SymbolsAt
  <2>3. CASE UuidsFor(e) \subseteq SymbolsFor(e)
    <3>1. Cardinality(UuidsFor(e)) <= SymbolsAt(e)
      BY <2>2, <2>3, FS_Subset, Zenon DEF SymbolsAt
    <3>2. SentFor(e) \in Nat /\ SentFor(e) <= SymbolsAt(e)
      BY <2>1, <3>1, FS_CardinalityType, Zenon
    <3> QED BY <2>2, <3>2, SMTT(60)
  <2>4. CASE SymbolsFor(e) = {} /\ \A u, v \in UuidsFor(e) : u = v
    <3>1. SymbolsAt(e) = 0
      BY <2>4, FS_EmptySet, Zenon DEF SymbolsAt
    <3>2. UuidsFor(e) = {} \/ \E u : UuidsFor(e) = {u}
      BY <2>4, Zenon
    <3>3. SentFor(e) = 0 \/ SentFor(e) = 1
      BY <2>1, <3>2, FS_EmptySet, FS_Singleton, Zenon
    <3> QED BY <3>1, <3>3, SMTT(60)
  <2> QED BY <2>3, <2>4, Zenon DEF SentOnce
<1> QED BY <1>1, <1>2, <1>3, Invariance, PTL DEF Spec

(* Once the producer has ended, what it tried is what calls reach.         *)
LEMMA AllTried ==
  ASSUME IInv, producer = "ended"
  PROVE  finished_functions = Reachable(binary)
<1>1. pending = {} /\ Scheduled = finished_functions
  BY Zenon DEF IInv, Phases, Scheduled
<1>2. binary \in Binaries
  BY Zenon DEF IInv, TypeOK
<1>3. Roots(binary) \subseteq finished_functions
  <2> SUFFICES ASSUME NEW i \in DOMAIN binary.symbols, binary.symbols[i].kind = "Todo",
                      ConstAddr[binary.symbols[i].rvalue] \in Addr
               PROVE  ConstAddr[binary.symbols[i].rvalue] \in finished_functions
    BY Zenon DEF Roots
  <2>1. IsEntry(i)
    BY AddrAssumption, Zenon DEF IsEntry
  <2> QED BY <1>1, <2>1, Zenon DEF IInv, Covered
<1>4. Closed(binary, finished_functions) /\ finished_functions \subseteq Addr
  BY <1>1, <1>3, Zenon DEF Closed, IInv, Covered, TypeOK
<1>5. Reachable(binary) \subseteq finished_functions
  BY <1>4, Zenon DEF Reachable
<1> QED BY <1>1, <1>5, Zenon DEF IInv, Covered

(* When the stream is over, the functions known are the wanted ones.       *)
LEMMA AllFound ==
  ASSUME IInv, producer = "ended", channel = <<>>
  PROVE  {functions[u].start : u \in Known} = Wanted(binary)
<1>1. finished_functions = Reachable(binary)
  BY AllTried, Zenon
<1>2. DOMAIN channel = {}
  BY SMTT(60)
<1> QED BY <1>1, <1>2, SMTT(60) DEF IInv, Tried, MadeFrom, Wanted

(* When the disassembly thread of open_program ends, the session knows     *)
(* exactly the functions calls lead to that can be disassembled, the       *)
(* sidebar lists them all, and a call left unresolved is indirect or goes  *)
(* to a failure: nothing is lost in the channel or between the threads.    *)
THEOREM EverythingShown == Spec => []AllShown
<1>1. IInv => AllShown
  <2> SUFFICES ASSUME IInv, consumer = "ended" PROVE AllShown
    BY Zenon DEF AllShown
  <2>1. producer = "ended" /\ channel = <<>> /\ sidebar = Known
    BY Zenon DEF IInv, Phases
  <2>2. finished_functions = Reachable(binary) /\ {functions[u].start : u \in Known} = Wanted(binary)
    BY <2>1, AllTried, AllFound, Zenon
  <2>3. failures = Reachable(binary) \ binary.decodes
    BY <2>2, Zenon DEF IInv, Tried
  <2>4. ASSUME NEW p \in unresolved_calls
        PROVE  p[1] \in failures \cup {NoAddr}
    <3> DEFINE s == p[2]
               u == s[1]
               d == Target(s)
    <3>1. u \in Known /\ s \in Sites(u, functions[u])
      BY Zenon DEF IInv, CallsBooked
    <3>2. p[1] = d /\ (d = NoAddr \/ StartsAt(d) = {})
      <4>1. ~(d # NoAddr /\ StartsAt(d) # {})
        BY <3>1, Zenon DEF IInv, CallsBooked
      <4>2. {q \in unresolved_calls : q[2] = s} = {<<d, s>>}
        BY <3>1, <4>1, Zenon DEF IInv, CallsBooked
      <4>3. p = <<d, s>>
        BY <4>2, Zenon
      <4> QED BY <4>1, <4>3, SMTT(60)
    <3>3. CASE d # NoAddr
      <4>1. s[2] \in functions[u].calls /\ d = ConstAddr[s[2]]
        BY <3>1, SMTT(60) DEF Sites, Target
      <4>2. MadeFrom(functions[u])
        BY <3>1, Zenon DEF IInv, Tried
      <4>3. d \in CallAddresses(binary, functions[u].start)
        <5>1. s[2] \in binary.calls[functions[u].start]
          BY <4>1, <4>2, Zenon DEF MadeFrom
        <5>2. s[2] \in Rvalue
          BY <3>1, <4>1, Zenon DEF IInv, TypeOK, Function
        <5> QED BY <3>3, <4>1, <5>1, <5>2, AddrAssumption, Zenon DEF CallAddresses
      <4>4. d \in Reachable(binary)
        BY <4>2, <4>3, Zenon DEF IInv, Covered, MadeFrom
      <4>5. d \notin binary.decodes
        BY <2>2, <3>2, <3>3, <4>4, Zenon DEF Wanted, StartsAt
      <4> QED BY <2>3, <3>2, <4>4, <4>5, Zenon
    <3> QED BY <3>2, <3>3, Zenon
  <2> QED BY <2>1, <2>2, <2>3, <2>4, Zenon DEF AllShown
<1> QED BY <1>1, Invariance, PTL

(* Every step of the pipeline finds one more wanted function, ends the     *)
(* search with none missing, or leaves the abstract search unchanged.      *)
THEOREM ImplementsDiscovery == Spec => D!Init /\ [][D!Next]_(D!vars)
<1> DEFINE found == {functions[u].start : u \in Known}
<1>1. Init => D!Init
  BY SMTT(60) DEF Init, EmptyTable, Known, D!Init
<1>2. IInv /\ [Next]_vars => [D!Next]_(D!vars)
  <2> SUFFICES ASSUME IInv, [Next]_vars PROVE [D!Next]_(D!vars)
    BY Zenon
  <2>1. binary' = binary
    BY TypeStep, Zenon
  <2>2. CASE Receive
    <3>1. PICK u \in Nat, f \in Function :
            /\ channel[1] = [uuid |-> u, function |-> f] /\ 1 \in DOMAIN channel
            /\ Known' = Known \cup {u} /\ functions'[u] = f
            /\ \A v \in Known : functions'[v] = functions[v]
      BY <2>2, Received, Zenon
    <3>2. found' = found \cup {f.start}
      BY <3>1, SMTT(60)
    <3>3. f.start \in Wanted(binary)
      <4>1. MadeFrom(channel[1].function)
        BY <3>1, Zenon DEF IInv, Tried
      <4>2. f.start \in finished_functions \cap binary.decodes
        BY <3>1, <4>1, SMTT(60) DEF MadeFrom
      <4> QED BY <4>2, Zenon DEF IInv, Covered, Scheduled, Wanted
    <3>4. consumer # "ended" /\ consumer' # "ended"
      BY <2>2, Zenon DEF Receive
    <3> HIDE DEF found
    <3>5. CASE f.start \in found
      <4>1. found' = found /\ (consumer = "ended")' = (consumer = "ended")
        BY <3>2, <3>4, <3>5, Zenon
      <4> QED BY <2>1, <4>1, Zenon DEF D!vars, found
    <3>6. CASE f.start \notin found
      <4>1. \E e \in Wanted(binary) \ found : found' = found \cup {e}
        BY <3>2, <3>3, <3>6, Zenon
      <4>2. D!Find
        BY <2>1, <3>4, <4>1, Zenon DEF D!Find, found
      <4> QED BY <4>2, Zenon DEF D!Next
    <3> QED BY <3>5, <3>6, Zenon
  <2>3. CASE EndOfStream
    <3>1. /\ consumer # "ended" /\ consumer' = "ended"
          /\ found' = found
      BY <2>3, Zenon DEF EndOfStream, tableVars, Known
    <3>2. found = Wanted(binary)
      BY <2>3, AllFound, Zenon DEF EndOfStream
    <3> HIDE DEF found
    <3>3. D!Finish
      BY <2>1, <3>1, <3>2, Zenon DEF D!Finish, found
    <3> QED BY <3>3, Zenon DEF D!Next
  <2>4. CASE ~Receive /\ ~EndOfStream
    <3>1. UNCHANGED tableVars
      BY <2>4, TablesKept, Zenon
    <3>2. (consumer = "ended")' = (consumer = "ended")
      BY <2>4, Zenon DEF Next, Produce, Consume, Ended, VisitTodo, SkipLabel, SymbolsDone, VisitTarget,
                  NextWave, Close, Post, vars, consumerVars
    <3>3. found' = found
      BY <3>1, Zenon DEF tableVars, Known
    <3> HIDE DEF found
    <3> QED BY <2>1, <3>2, <3>3, Zenon DEF D!vars, found
  <2> QED BY <2>2, <2>3, <2>4, Zenon
<1> QED BY <1>1, <1>2, Invariance, PTL DEF Spec
=============================================================================
