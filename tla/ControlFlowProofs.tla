-------------------------- MODULE ControlFlowProofs --------------------------
(***************************************************************************)
(* Proofs about the work list of Function::disassemble, for a region of    *)
(* any size, any code in it and any order in which addresses are visited.  *)
(***************************************************************************)
EXTENDS ControlFlow, TLAPS, SequenceTheorems, WellFoundedInduction

(* A decoding puts something under its address, and only sequences.        *)
LEMMA EntryIsSeq ==
  ASSUME NEW a, NEW d
  PROVE  Entry(a, d) # <<>> /\ <<>> \o Entry(a, d) = Entry(a, d)
<1>1. CASE d = Unrecognized
  BY <1>1, SMTT(60) DEF Entry
<1>2. CASE d # Unrecognized /\ a \in Prefixed
  <2> DEFINE T == {Area(a, a), Area(a, a + d.size)}
             p == <<Area(a, a)>>
             q == <<Area(a, a + d.size)>>
  <2>1. Entry(a, d) = p \o q
    BY <1>2, Zenon DEF Entry
  <2>2. p \in Seq(T) /\ q \in Seq(T) /\ Len(p) = 1 /\ Len(q) = 1
    BY SMTT(60)
  <2>3. Entry(a, d) \in Seq(T) /\ Len(Entry(a, d)) = 2
    <3> HIDE DEF p, q, T
    <3> QED BY <2>1, <2>2, ConcatProperties, SMTT(60)
  <2> QED BY <2>3, ConcatEmptySeq, SMTT(60)
<1>3. CASE d # Unrecognized /\ a \notin Prefixed
  <2>1. Entry(a, d) = <<Area(a, a + d.size)>>
    BY <1>3, SMTT(60) DEF Entry
  <2> QED BY <2>1, SMTT(60)
<1> QED BY <1>1, <1>2, <1>3, Zenon

(* The targets that a decoding puts on the work list are in the region.    *)
LEMMA TargetsInRegion ==
  ASSUME NEW a \in Addr, NEW d \in Decodings(a)
  PROVE  Targets(d) \subseteq Addr
<1>1. CASE d = Unrecognized
  BY <1>1, Zenon DEF Targets, Unrecognized
<1>2. CASE d # Unrecognized
  <2>1. PICK n \in 1..(IF End - a < MaxSize THEN End - a ELSE MaxSize) :
          \E j \in JumpSpec(a + n) : d = [size |-> n, jumps |-> j]
    BY <1>2, Zenon DEF Decodings
  <2>2. a + n \in Addr
    BY <2>1, ControlFlowAssumption, SMTT(60) DEF Addr
  <2>3. d.jumps \in JumpSpec(a + n)
    BY <2>1, SMTT(60)
  <2> QED BY <2>2, <2>3, Zenon DEF Targets, JumpSpec
<1> QED BY <1>1, <1>2, Zenon

(* One decoding, at an address that is on the work list and not decoded,   *)
(* keeps the invariant: a saturated set has the address, hence what its    *)
(* jumps lead to.                                                          *)
LEMMA DecodeKeepsInvariant ==
  ASSUME IInv, NEW a \in todo, ~Decoded(a), Decode(a), pc = "decode",
         UNCHANGED <<start, pc>>
  PROVE  IInv' /\ DOMAIN code # DOMAIN code' /\ DOMAIN code \subseteq DOMAIN code'
<1>1. a \in Addr /\ a \notin DOMAIN code
  BY EntryIsSeq, Zenon DEF IInv, Decoded, At
<1>2. PICK d \in Decodings(a) :
        /\ code' = With(code, a, d)
        /\ mnemonics' = With(mnemonics, a, At(mnemonics, a) \o Entry(a, d))
        /\ by_source' = by_source \cup {<<a, t>> : t \in d.jumps}
        /\ todo' = (todo \ {a}) \cup Targets(d)
  BY <1>1, Zenon DEF Decode
<1>3. At(mnemonics, a) \o Entry(a, d) = Entry(a, d)
  BY <1>1, EntryIsSeq, Zenon DEF IInv, At
<1>4. /\ DOMAIN code' = DOMAIN code \cup {a} /\ DOMAIN mnemonics' = DOMAIN code \cup {a}
      /\ code'[a] = d /\ mnemonics'[a] = Entry(a, d)
      /\ \A x \in DOMAIN code : code'[x] = code[x] /\ mnemonics'[x] = mnemonics[x]
  BY <1>1, <1>2, <1>3, Zenon DEF With, IInv
<1>5. Targets(d) \subseteq Addr
  BY <1>1, TargetsInRegion, Zenon
<1>6. \A x \in DOMAIN code' : code'[x] \in Decodings(x) /\ mnemonics'[x] = Entry(x, code'[x])
  BY <1>4, Zenon DEF IInv
<1>7. Saturated(todo \cup DOMAIN code)'
  <2>1. todo' \cup DOMAIN code' = todo \cup DOMAIN code \cup Targets(d)
    BY <1>2, <1>4, Zenon
  <2>2. start' \in todo' \cup DOMAIN code'
    BY <2>1, Zenon DEF IInv, Saturated
  <2>3. ASSUME NEW x \in DOMAIN code' PROVE Targets(code'[x]) \subseteq todo' \cup DOMAIN code'
    BY <1>4, <2>1, Zenon DEF IInv, Saturated
  <2> QED BY <2>2, <2>3, Zenon DEF Saturated
<1>8. ASSUME NEW S \in SUBSET Addr, Saturated(S)'
      PROVE  todo' \cup DOMAIN code' \subseteq S
  <2>1. start \in S /\ \A x \in S : x \in DOMAIN code' => Targets(code'[x]) \subseteq S
    BY <1>8, Zenon DEF Saturated
  <2>2. Saturated(S)
    BY <2>1, <1>4, Zenon DEF Saturated
  <2>3. todo \cup DOMAIN code \subseteq S
    BY <2>2, Zenon DEF IInv
  <2>4. Targets(d) \subseteq S
    BY <2>1, <2>3, <1>4, Zenon
  <2> QED BY <2>3, <2>4, <1>2, <1>4, Zenon
<1> QED
  <2>1. start' \in Addr /\ todo' \subseteq Addr
    BY <1>2, <1>5, Zenon DEF IInv
  <2>2. DOMAIN code' \subseteq Addr
    BY <1>1, <1>4, Zenon DEF IInv
  <2>3. by_source' = UNION {{x} \X code'[x].jumps : x \in DOMAIN code'}
    <3>1. by_source = UNION {{x} \X code[x].jumps : x \in DOMAIN code}
      BY Zenon DEF IInv
    <3> QED BY <1>2, <1>4, <3>1, SMTT(60)
  <2> QED BY <1>1, <1>4, <1>6, <1>7, <1>8, <2>1, <2>2, <2>3, Zenon DEF IInv, Saturated

(* Taking an address off the list that is decoded already keeps it: the    *)
(* address is still in the union of list and decoded addresses.            *)
LEMMA SkipKeepsInvariant ==
  ASSUME IInv, NEW a \in todo, Decoded(a), todo' = todo \ {a}, pc = "decode",
         UNCHANGED <<start, code, mnemonics, by_source, pc>>
  PROVE  IInv'
<1>1. a \in DOMAIN code
  BY Zenon DEF IInv, Decoded, At
<1>2. todo' \cup DOMAIN code' = todo \cup DOMAIN code
  BY <1>1, Zenon
<1>3. ASSUME NEW S PROVE Saturated(S)' <=> Saturated(S)
  BY Zenon DEF Saturated
<1>4. Saturated(todo \cup DOMAIN code)'
  BY <1>2, Zenon DEF IInv, Saturated
<1>5. \A S \in SUBSET Addr : Saturated(S)' => todo' \cup DOMAIN code' \subseteq S
  BY <1>2, <1>3, Zenon DEF IInv
<1> QED BY <1>4, <1>5, SMTT(60) DEF IInv, Saturated

(* Every step of Function::disassemble keeps the loop invariant.           *)
LEMMA StepKeepsInvariant ==
  ASSUME IInv, [Next]_vars
  PROVE  IInv'
<1>1. CASE Step
  <2>1. PICK a \in todo : Visit(a)
    BY <1>1, Zenon DEF Step
  <2>2. UNCHANGED <<start, pc>> /\ pc = "decode"
    BY <1>1, Zenon DEF Step
  <2>3. CASE Decoded(a)
    BY <2>1, <2>2, <2>3, SkipKeepsInvariant, Zenon DEF Visit
  <2>4. CASE ~Decoded(a)
    BY <2>1, <2>2, <2>4, DecodeKeepsInvariant, Zenon DEF Visit
  <2> QED BY <2>3, <2>4, Zenon
<1>2. CASE Assemble
  BY <1>2, SMTT(60) DEF Assemble, input, loopVars, IInv, Saturated
<1>3. CASE Finish
  BY <1>3, SMTT(60) DEF Finish, input, loopVars, IInv, Saturated
<1>4. CASE UNCHANGED vars
  BY <1>4, SMTT(60) DEF vars, input, loopVars, IInv, Saturated
<1> QED BY <1>1, <1>2, <1>3, <1>4, Zenon DEF Next

(* The loop invariant of Function::disassemble always holds: decoded       *)
(* addresses and work list are what jumps reach from the entry point.      *)
THEOREM LoopInvariant == Spec => []IInv
<1>1. Init => IInv
  <2> SUFFICES ASSUME Init PROVE IInv
    BY Zenon
  <2>1. start \in Addr /\ todo = {start} /\ DOMAIN code = {} /\ DOMAIN mnemonics = {}
    BY ControlFlowAssumption, SMTT(60) DEF Init, Addr
  <2> QED BY <2>1, Zenon DEF Init, IInv, Saturated
<1>2. IInv /\ [Next]_vars => IInv'
  BY StepKeepsInvariant, Zenon
<1> QED BY <1>1, <1>2, PTL DEF Spec

(* Whatever the size of the region, the code in it and the order of the    *)
(* hash set, a function is made of the opcodes that jumps reach from its   *)
(* entry point and no others, each decoded once.                           *)
THEOREM FunctionIsWhole == Spec => []WholeFunction
<1>1. IInv => WholeFunction
  <2> SUFFICES ASSUME IInv, pc # "decode" PROVE WholeFunction
    BY Zenon DEF WholeFunction
  <2>1. todo = {} /\ DOMAIN mnemonics = DOMAIN code
    BY Zenon DEF IInv
  <2>2. Saturated(DOMAIN code)
    BY <2>1, Zenon DEF IInv
  <2>3. Closed(DOMAIN mnemonics)
    BY <2>1, <2>2, Zenon DEF Closed, Saturated
  <2>4. ASSUME NEW S \in SUBSET DOMAIN mnemonics, Closed(S) PROVE S = DOMAIN mnemonics
    <3>1. Saturated(S)
      BY <2>4, Zenon DEF Closed, Saturated
    <3>2. S \in SUBSET Addr
      BY <2>1, Zenon DEF IInv
    <3> QED BY <2>1, <3>1, <3>2, Zenon DEF IInv
  <2>5. \A a \in DOMAIN mnemonics : mnemonics[a] = Entry(a, code[a])
    BY Zenon DEF IInv
  <2> QED BY <2>3, <2>4, <2>5, Zenon DEF WholeFunction
<1> QED BY <1>1, LoopInvariant, PTL

(* Each turn of the loop decodes an address for the first time or shortens *)
(* the work list; as the region is finite, disassembling a function ends,  *)
(* loops in its code notwithstanding.                                      *)
THEOREM DisassemblyProgresses == Spec => Progress
<1> DEFINE Turn == pc = "decode" /\ pc' = "decode" =>
                     \/ DOMAIN code # DOMAIN code' /\ DOMAIN code \subseteq DOMAIN code'
                     \/ DOMAIN code = DOMAIN code' /\ todo # todo' /\ todo' \subseteq todo
<1>1. ASSUME IInv, Next PROVE Turn
  <2>1. CASE Step
    <3>1. PICK a \in todo : Visit(a)
      BY <2>1, Zenon DEF Step
    <3>2. UNCHANGED <<start, pc>> /\ pc = "decode"
      BY <2>1, Zenon DEF Step
    <3>3. CASE Decoded(a)
      BY <3>1, <3>3, Zenon DEF Visit
    <3>4. CASE ~Decoded(a)
      BY <1>1, <3>1, <3>2, <3>4, DecodeKeepsInvariant, Zenon DEF Visit
    <3> QED BY <3>3, <3>4, Zenon
  <2>2. CASE Assemble
    BY <2>2, Zenon DEF Assemble
  <2>3. CASE Finish
    BY <2>3, Zenon DEF Finish
  <2> QED BY <1>1, <2>1, <2>2, <2>3, Zenon DEF Next
<1>2. IInv /\ [Next]_vars => [Turn]_vars
  BY <1>1, Zenon
<1> QED BY <1>2, LoopInvariant, PTL DEF Spec, Progress

-----------------------------------------------------------------------------
(* The blocks that a finished scan cuts.                                   *)

(* A set of numbers that is not empty has a least element.                 *)
LEMMA LeastElement ==
  ASSUME NEW T \in SUBSET Nat, T # {}
  PROVE  \E n \in T : \A x \in T : n <= x
<1>1. PICK n \in T : \A x \in T : <<x, n>> \notin OpToRel(<, Nat)
  BY WFMin, NatLessThanWellFounded, Zenon
<1>2. ASSUME NEW x \in T PROVE n <= x
  <2>1. <<x, n>> \in Nat \X Nat /\ ~(x < n)
    BY <1>1, Zenon DEF OpToRel
  <2> QED BY <2>1, SMTT(60)
<1> QED BY <1>2, Zenon

(* Min and Max of a set of addresses are what their names say.             *)
LEMMA MinIsLeast ==
  ASSUME NEW T \in SUBSET Addr, T # {}
  PROVE  Min(T) \in T /\ \A x \in T : Min(T) <= x
<1>1. T \in SUBSET Nat
  BY ControlFlowAssumption, SMTT(60) DEF Addr
<1>2. \E n \in T : \A x \in T : n <= x
  BY <1>1, LeastElement, Zenon
<1> QED BY <1>2, Zenon DEF Min

(* The greatest address of a set is one of it and greater than the others. *)
LEMMA MaxIsGreatest ==
  ASSUME NEW T \in SUBSET Addr, T # {}
  PROVE  Max(T) \in T /\ \A x \in T : x <= Max(T)
<1> DEFINE U == {n \in Nat : \A x \in T : x <= n}
<1>1. End \in U
  BY ControlFlowAssumption, SMTT(60) DEF Addr
<1>2. PICK n \in U : \A x \in U : n <= x
  BY <1>1, LeastElement, Zenon
<1>3. n \in T
  <2> SUFFICES ASSUME n \notin T PROVE FALSE
    BY Zenon
  <2>1. T \in SUBSET Nat
    BY ControlFlowAssumption, SMTT(60) DEF Addr
  <2>2. \A x \in T : x <= n - 1 /\ n - 1 \in Nat
    BY <1>2, <2>1, SMTT(60)
  <2>3. n - 1 \in U
    BY <2>2, Zenon
  <2> QED BY <1>2, <2>3, SMTT(60)
<1>4. \E m \in T : \A x \in T : m >= x
  BY <1>2, <1>3, ControlFlowAssumption, Zenon DEF Addr
<1> QED BY <1>4, ControlFlowAssumption, Zenon DEF Max, Addr

(* What a decoding leaves under its address.                               *)
LEMMA EntryFacts ==
  ASSUME NEW a, NEW d
  PROVE  /\ d = Unrecognized => IsError(Head(Entry(a, d)))
         /\ d # Unrecognized =>
              /\ Head(Entry(a, d)) \in {Area(a, a), Area(a, a + d.size)}
              /\ Entry(a, d)[Len(Entry(a, d))] = Area(a, a + d.size)
              /\ Area(a, a + d.size) \in Range(Entry(a, d))
              /\ Range(Entry(a, d)) \subseteq {Area(a, a), Area(a, a + d.size)}
<1>1. CASE d = Unrecognized
  BY <1>1, SMTT(60) DEF Entry, IsError
<1>2. CASE d # Unrecognized /\ a \in Prefixed
  <2> DEFINE p == Area(a, a)
             q == Area(a, a + d.size)
             e == <<p>> \o <<q>>
  <2>1. Entry(a, d) = e
    BY <1>2, Zenon DEF Entry
  <2>2. e \in Seq({p, q}) /\ Len(e) = 2 /\ e[1] = p /\ e[2] = q
    <3>1. <<p>> \in Seq({p, q}) /\ <<q>> \in Seq({p, q})
      BY SMTT(60)
    <3>2. Len(<<p>>) = 1 /\ Len(<<q>>) = 1 /\ <<p>>[1] = p /\ <<q>>[1] = q
      BY Zenon
    <3> HIDE DEF p, q
    <3> QED BY <3>1, <3>2, ConcatProperties, SMTT(60)
  <2>3. Range(e) = {p, q} /\ Head(e) = p /\ e[Len(e)] = q
    <3> HIDE DEF p, q, e
    <3>1. DOMAIN e = 1..2
      BY <2>2, SMTT(60)
    <3>2. 1 \in 1..2 /\ 2 \in 1..2 /\ \A i \in 1..2 : i = 1 \/ i = 2
      BY SMTT(60)
    <3>3. Range(e) = {p, q}
      BY <2>2, <3>1, <3>2, Zenon DEF Range
    <3> QED BY <2>2, <3>3, SMTT(60)
  <2> HIDE DEF e
  <2> QED BY <1>2, <2>1, <2>3, Zenon
<1>3. CASE d # Unrecognized /\ a \notin Prefixed
  <2> DEFINE q == Area(a, a + d.size)
  <2>1. Entry(a, d) = <<q>>
    BY <1>3, SMTT(60) DEF Entry
  <2>2. Range(<<q>>) = {q} /\ Head(<<q>>) = q /\ Len(<<q>>) = 1
    <3> HIDE DEF q
    <3> QED BY SMTT(60) DEF Range
  <2> QED BY <1>3, <2>1, <2>2, SMTT(60)
<1> QED BY <1>1, <1>2, <1>3, Zenon

(* The outcomes of decoding, one by one.                                   *)
LEMMA DecodingFacts ==
  ASSUME NEW a \in Addr, NEW d \in Decodings(a)
  PROVE  /\ d = Unrecognized => d.jumps = {}
         /\ d # Unrecognized =>
              /\ d.size \in Nat /\ d.size > 0 /\ a + d.size \in Addr
              /\ \/ d.jumps = {} \/ d.jumps = {Indirect}
                 \/ \E t \in Addr : d.jumps \in {{t}, {t, a + d.size}}
<1>1. CASE d = Unrecognized
  BY <1>1, Zenon DEF Unrecognized
<1>2. CASE d # Unrecognized
  <2>1. PICK n \in 1..(IF End - a < MaxSize THEN End - a ELSE MaxSize) :
          \E j \in JumpSpec(a + n) : d = [size |-> n, jumps |-> j]
    BY <1>2, Zenon DEF Decodings
  <2>2. n \in Nat /\ n > 0 /\ a + n \in Addr /\ d.size = n
    BY <2>1, ControlFlowAssumption, SMTT(60) DEF Addr
  <2>3. d.jumps \in JumpSpec(a + n)
    BY <2>1, SMTT(60)
  <2> QED BY <1>2, <2>2, <2>3, Zenon DEF JumpSpec
<1> QED BY <1>1, <1>2, Zenon

(* Opcodes and errors among the decoded addresses.                         *)
LEMMA OpcodeFacts ==
  ASSUME IInv
  PROVE  /\ Opcodes \in SUBSET Addr /\ Opcodes \subseteq DOMAIN code
         /\ \A a \in DOMAIN code : a \in Opcodes <=> code[a] # Unrecognized
         /\ \A a \in DOMAIN code \ Opcodes : code[a].jumps = {}
         /\ \A a \in Opcodes :
              /\ code[a].size \in Nat /\ code[a].size > 0 /\ a + code[a].size \in Addr
              /\ Head(mnemonics[a]).start = a
              /\ LastAt(a) = Area(a, a + code[a].size)
              /\ LastAt(a) \in Range(mnemonics[a])
              /\ Range(mnemonics[a]) \subseteq {Area(a, a), Area(a, a + code[a].size)}
<1>1. DOMAIN mnemonics = DOMAIN code /\ DOMAIN code \subseteq Addr
  BY Zenon DEF IInv
<1>2. ASSUME NEW a \in DOMAIN code
      PROVE  a \in Addr /\ code[a] \in Decodings(a) /\ mnemonics[a] = Entry(a, code[a])
  BY Zenon DEF IInv
<1>3. \A x, y : ~IsError(Area(x, y))
  BY Zenon DEF IsError, Area
<1>4. \A a \in DOMAIN code : a \in Opcodes <=> code[a] # Unrecognized
  <2> TAKE a \in DOMAIN code
  <2>1. a \in Opcodes <=> ~IsError(Head(Entry(a, code[a])))
    BY <1>1, <1>2, Zenon DEF Opcodes
  <2> QED BY <2>1, <1>3, EntryFacts, SMTT(60)
<1>5. Opcodes \subseteq DOMAIN code
  BY <1>1, Zenon DEF Opcodes
<1>6. \A a \in DOMAIN code \ Opcodes : code[a].jumps = {}
  BY <1>2, <1>4, DecodingFacts, Zenon
<1>7. ASSUME NEW a \in Opcodes
      PROVE  /\ code[a].size \in Nat /\ code[a].size > 0 /\ a + code[a].size \in Addr
             /\ Head(mnemonics[a]).start = a
             /\ LastAt(a) = Area(a, a + code[a].size)
             /\ LastAt(a) \in Range(mnemonics[a])
             /\ Range(mnemonics[a]) \subseteq {Area(a, a), Area(a, a + code[a].size)}
  <2>1. a \in DOMAIN code /\ code[a] # Unrecognized
    BY <1>4, <1>5, Zenon
  <2>2. a \in Addr /\ code[a] \in Decodings(a) /\ mnemonics[a] = Entry(a, code[a])
    BY <1>2, <2>1, Zenon
  <2>3. code[a].size \in Nat /\ code[a].size > 0 /\ a + code[a].size \in Addr
    BY <2>1, <2>2, DecodingFacts, Zenon
  <2>4. \A y : Area(a, y).start = a
    BY Zenon DEF Area
  <2> QED BY <2>1, <2>2, <2>3, <2>4, EntryFacts, SMTT(60) DEF LastAt
<1> QED BY <1>1, <1>4, <1>5, <1>6, <1>7, Zenon

(* A decoded address other than the entry point is the target of a jump:   *)
(* otherwise what is decoded would be saturated without it.                *)
LEMMA Reached ==
  ASSUME IInv, pc # "decode", NEW a \in DOMAIN code, a # start
  PROVE  \E x \in DOMAIN code : a \in code[x].jumps
<1> SUFFICES ASSUME \A x \in DOMAIN code : a \notin code[x].jumps PROVE FALSE
  BY Zenon
<1> DEFINE S == DOMAIN code \ {a}
<1>1. todo = {} /\ S \in SUBSET Addr /\ Saturated(DOMAIN code)
  <2>1. todo = {} /\ DOMAIN code \subseteq Addr /\ Saturated(todo \cup DOMAIN code)
    BY Zenon DEF IInv
  <2> QED BY <2>1, Zenon
<1>2. Saturated(S)
  BY <1>1, Zenon DEF Saturated, Targets
<1> QED BY <1>1, <1>2, Zenon DEF IInv

(* What follows an opcode at which the scan starts no block.               *)
LEMMA Continues ==
  ASSUME IInv, pc # "decode", NEW a \in Opcodes, ~BlockStart(a)
  PROVE  \E p \in Opcodes :
           /\ p < a /\ \A x \in Opcodes : x < a => x <= p
           /\ p + code[p].size = a /\ code[p].jumps = {a} /\ a # start
           /\ \A x \in DOMAIN code : a \in code[x].jumps <=> x = p
<1> DEFINE below == {x \in Opcodes : x < a}
           p == Max(below)
<1>1. below # {} /\ ~NewBlock(LastAt(p), Head(mnemonics[a]))
  BY Zenon DEF BlockStart
<1>2. below \in SUBSET Addr
  BY OpcodeFacts, Zenon
<1>3. p \in below /\ \A x \in below : x <= p
  <2> HIDE DEF below
  <2> QED BY <1>1, <1>2, MaxIsGreatest, Zenon
<1> HIDE DEF p
<1>4. p \in Opcodes /\ p < a /\ (\A x \in Opcodes : x < a => x <= p)
  BY <1>3, Zenon
<1>5. /\ LastAt(p).end = p + code[p].size /\ LastAt(p).start = p /\ Head(mnemonics[a]).start = a
      /\ p \in DOMAIN code /\ a \in DOMAIN code /\ a \in Addr
  BY <1>4, OpcodeFacts, SMTT(60) DEF Area
<1>6. /\ p + code[p].size = a /\ a # start
      /\ \A j \in by_source : j[1] = p => j[2] \in {Indirect, a}
      /\ \A j \in by_source : j[2] = a => j[1] = p
  BY <1>1, <1>5, Zenon DEF NewBlock
<1>7. \A x \in DOMAIN code : \A t \in code[x].jumps : <<x, t>> \in by_source
  BY SMTT(60) DEF IInv
<1>8. code[p].jumps \subseteq {Indirect, a}
  BY <1>5, <1>6, <1>7, Zenon
<1>9. \A x \in DOMAIN code : a \in code[x].jumps => x = p
  BY <1>6, <1>7, Zenon
<1>10. a \in code[p].jumps
  BY <1>5, <1>6, <1>9, Reached, Zenon
<1>11. code[p].jumps = {a}
  <2>1. code[p] \in Decodings(p) /\ p \in Addr /\ code[p] # Unrecognized
    BY <1>4, <1>5, OpcodeFacts, Zenon DEF IInv
  <2>2. \/ code[p].jumps = {} \/ code[p].jumps = {Indirect}
        \/ \E t \in Addr : code[p].jumps \in {{t}, {t, a}}
    BY <1>6, <2>1, DecodingFacts, Zenon
  <2>3. Indirect \notin Addr
    BY ControlFlowAssumption, SMTT(60) DEF Addr
  <2> QED BY <1>5, <1>8, <1>10, <2>2, <2>3, Zenon
<1> QED BY <1>4, <1>6, <1>9, <1>10, <1>11, Zenon

(* The scan from the start of a block: every opcode but the first is       *)
(* entered from the one before it, every opcode but the last goes on to    *)
(* the one behind it.                                                      *)
LEMMA ScanFacts ==
  ASSUME IInv, pc # "decode", NEW s \in Opcodes, NEW B, B = ScannedFrom(s), NEW l, l = Max(B)
  PROVE  /\ s \in B /\ l \in B /\ B \subseteq Opcodes
         /\ \A x \in B : s <= x /\ x <= l
         /\ \A x \in B : x # s =>
              \E p \in B : /\ p + code[p].size = x /\ x # start
                           /\ \A y \in DOMAIN code : x \in code[y].jumps <=> y = p
         /\ \A x \in B : x # l =>
              x + code[x].size \in B /\ code[x].jumps = {x + code[x].size}
         /\ \A x \in B : x + code[x].size <= l + code[l].size
<1>1. Opcodes \in SUBSET Nat /\ B \in SUBSET Addr
  BY OpcodeFacts, ControlFlowAssumption, SMTT(60) DEF Addr, ScannedFrom
<1>2. s \in B /\ B \subseteq Opcodes /\ \A x \in B : s <= x
  BY <1>1, SMTT(60) DEF ScannedFrom
<1>3. l \in B /\ \A x \in B : x <= l
  BY <1>1, <1>2, MaxIsGreatest, Zenon
<1>4. ASSUME NEW x \in B, x # s
      PROVE  /\ ~BlockStart(x)
             /\ \A y \in Opcodes : s <= y /\ y <= x => y \in B
  BY <1>1, <1>2, <1>4, SMTT(60) DEF ScannedFrom
<1>5. ASSUME NEW x \in B, x # s
      PROVE  \E p \in B : /\ p + code[p].size = x /\ x # start
                          /\ \A y \in DOMAIN code : x \in code[y].jumps <=> y = p
  <2>1. PICK p \in Opcodes :
               /\ p < x /\ \A y \in Opcodes : y < x => y <= p
               /\ p + code[p].size = x /\ x # start
               /\ \A y \in DOMAIN code : x \in code[y].jumps <=> y = p
    BY <1>2, <1>4, <1>5, Continues, SMTT(60)
  <2>2. s <= p
    BY <1>1, <1>2, <1>5, <2>1, SMTT(60)
  <2>3. p \in B
    BY <1>1, <1>2, <1>4, <1>5, <2>1, <2>2, SMTT(60)
  <2> QED BY <2>1, <2>3, Zenon
<1>6. ASSUME NEW x \in B, x # l
      PROVE  x + code[x].size \in B /\ code[x].jumps = {x + code[x].size}
  <2> DEFINE T == {y \in Opcodes : x < y}
  <2>1. x \in Opcodes /\ x \in Nat /\ l \in Nat /\ s \in Nat /\ x < l
    BY <1>1, <1>2, <1>3, <1>6, SMTT(60)
  <2>2. l \in T /\ T \in SUBSET Nat
    BY <1>1, <1>2, <1>3, <2>1, Zenon
  <2>3. PICK n \in T : \A y \in T : n <= y
    BY <2>2, LeastElement, Zenon
  <2>4. n \in Opcodes /\ x < n /\ n <= l /\ n # s /\ n \in Nat
    BY <1>1, <1>2, <2>1, <2>2, <2>3, SMTT(60)
  <2>5. n \in B
    <3>1. l # s /\ s <= n
      BY <1>2, <2>1, <2>4, SMTT(60)
    <3> QED BY <1>3, <1>4, <2>4, <3>1, Zenon
  <2>6. ~BlockStart(n)
    BY <1>4, <2>4, <2>5, Zenon
  <2>7. PICK p \in Opcodes :
               /\ p < n /\ \A y \in Opcodes : y < n => y <= p
               /\ p + code[p].size = n /\ code[p].jumps = {n}
    BY <2>4, <2>6, Continues, Zenon
  <2>8. p = x
    BY <1>1, <2>1, <2>3, <2>4, <2>7, SMTT(60)
  <2> QED BY <2>5, <2>7, <2>8, Zenon
<1>7. ASSUME NEW x \in B PROVE x + code[x].size <= l + code[l].size
  <2>1. CASE x # l
    <3>1. x + code[x].size \in B
      BY <1>6, <2>1, Zenon
    <3>2. x + code[x].size <= l /\ code[l].size \in Nat /\ l \in Nat /\ x + code[x].size \in Nat
      BY <1>1, <1>2, <1>3, <3>1, OpcodeFacts, Zenon
    <3> QED BY <3>2, SMTT(60)
  <2>2. CASE x = l
    BY <1>1, <1>2, <1>3, <2>2, OpcodeFacts, SMTT(60)
  <2> QED BY <2>1, <2>2, Zenon
<1> QED BY <1>2, <1>3, <1>5, <1>6, <1>7, Zenon

(* Every opcode is in the scan from the start of exactly one block.        *)
LEMMA InOneScan ==
  ASSUME IInv, NEW a \in Opcodes
  PROVE  \E s \in Opcodes :
           /\ BlockStart(s) /\ a \in ScannedFrom(s)
           /\ \A r \in Opcodes : BlockStart(r) /\ a \in ScannedFrom(r) => r = s
<1> DEFINE T == {x \in Opcodes : x <= a /\ BlockStart(x)}
<1>1. Opcodes \in SUBSET Nat /\ Opcodes \in SUBSET Addr
  BY OpcodeFacts, ControlFlowAssumption, SMTT(60) DEF Addr
<1>2. PICK m \in Opcodes : \A x \in Opcodes : m <= x
  BY <1>1, LeastElement, Zenon
<1>3. {x \in Opcodes : x < m} = {}
  <2>1. ASSUME NEW x \in Opcodes PROVE ~(x < m)
    <3>1. x \in Nat /\ m \in Nat /\ m <= x
      BY <1>1, <1>2, Zenon
    <3> QED BY <3>1, SMTT(60)
  <2> QED BY <2>1, Zenon
<1>4. BlockStart(m)
  BY <1>3, Zenon DEF BlockStart
<1>5. m \in T /\ T \in SUBSET Addr
  BY <1>1, <1>2, <1>4, Zenon
<1>6. PICK s \in T : \A x \in T : x <= s
  BY <1>5, MaxIsGreatest, Zenon
<1>7. s \in Opcodes /\ BlockStart(s) /\ s <= a
  BY <1>6, Zenon
<1>8. ASSUME NEW y \in Opcodes, s < y, y <= a PROVE ~BlockStart(y)
  BY <1>1, <1>6, <1>7, <1>8, SMTT(60)
<1>9. a \in ScannedFrom(s)
  BY <1>7, <1>8, Zenon DEF ScannedFrom
<1>10. ASSUME NEW r \in Opcodes, BlockStart(r), a \in ScannedFrom(r) PROVE r = s
  <2>1. r <= a /\ \A y \in Opcodes : r < y /\ y <= a => ~BlockStart(y)
    BY <1>10, Zenon DEF ScannedFrom
  <2> QED BY <1>1, <1>7, <1>8, <1>10, <2>1, SMTT(60)
<1> QED BY <1>7, <1>9, <1>10, Zenon

(* The vertex of a block begins where its scan begins and ends where the   *)
(* scan ends.                                                              *)
LEMMA BlockFacts ==
  ASSUME IInv, pc # "decode", NEW s \in Opcodes, NEW v, v = Resolved(BlockFrom(s))
  PROVE  /\ v.kind = "Resolved"
         /\ Within(v) = ScannedFrom(s)
         /\ \A t : BeginsAt(v, t) <=> t = s
         /\ \A a : EndsAt(v, a) <=> a = Max(ScannedFrom(s))
         /\ BlockArea(v.mnemonics).start = s /\ BlockArea(v.mnemonics).end > s
         /\ \A a \in ScannedFrom(s) : Range(mnemonics[a]) \subseteq v.mnemonics
<1> DEFINE B == ScannedFrom(s)
           b == BlockFrom(s)
<1>1. v.kind = "Resolved" /\ v.mnemonics = b
  BY Zenon DEF Resolved
<1>2. B \subseteq Opcodes /\ s \in B /\ \A x \in B : s <= x
  BY ScanFacts, Zenon
<1>3. \A m : m \in b <=> \E x \in B : m \in Range(mnemonics[x])
  BY Zenon DEF BlockFrom
<1> HIDE DEF b, B
<1>4. ASSUME NEW x \in B
      PROVE  /\ x \in Addr /\ x + code[x].size \in Addr /\ x < x + code[x].size
             /\ Area(x, x + code[x].size) \in b
             /\ \A m \in Range(mnemonics[x]) : m.start = x /\ m.end \in {x, x + code[x].size}
  <2>1. x \in Addr /\ x + code[x].size \in Addr /\ code[x].size \in Nat /\ code[x].size > 0
    BY <1>2, OpcodeFacts, Zenon
  <2>2. /\ Area(x, x + code[x].size) \in Range(mnemonics[x])
        /\ Range(mnemonics[x]) \subseteq {Area(x, x), Area(x, x + code[x].size)}
    BY <1>2, OpcodeFacts, Zenon
  <2>3. x < x + code[x].size
    BY <2>1, ControlFlowAssumption, SMTT(60) DEF Addr
  <2> QED BY <1>3, <2>1, <2>2, <2>3, SMTT(60) DEF Area
<1>5. Within(v) = B
  <2>1. \A x \in B : x \in Within(v)
    <3> TAKE x \in B
    <3>1. Area(x, x + code[x].size) \in v.mnemonics
      BY <1>1, <1>4, Zenon
    <3> QED BY <3>1, SMTT(60) DEF Within, Area
  <2>2. \A m \in v.mnemonics : m.start \in B
    BY <1>1, <1>3, <1>4, SMTT(60)
  <2> QED BY <2>1, <2>2, Zenon DEF Within
<1>6. {m.start : m \in b} = B
  BY <1>1, <1>5, Zenon DEF Within
<1>7. Min(B) = s
  <2>1. B \in SUBSET Addr
    BY <1>4, Zenon
  <2>2. Min(B) \in B /\ Min(B) <= s
    BY <1>2, <2>1, MinIsLeast, Zenon
  <2>3. Min(B) \in Nat /\ s \in Nat /\ s <= Min(B)
    <3>1. B \in SUBSET Nat
      BY <2>1, ControlFlowAssumption, SMTT(60) DEF Addr
    <3> QED BY <1>2, <2>2, <3>1, Zenon
  <2> QED BY <2>2, <2>3, SMTT(60)
<1>8. Max({m.end : m \in b}) > s
  <2> DEFINE E == {m.end : m \in b}
  <2>1. E \in SUBSET Addr
    BY <1>3, <1>4, SMTT(60)
  <2>2. s + code[s].size \in E /\ s + code[s].size > s /\ s \in Addr
    <3>1. Area(s, s + code[s].size) \in b /\ s + code[s].size > s /\ s \in Addr
      BY <1>2, <1>4, ControlFlowAssumption, Zenon DEF Addr
    <3> QED BY <3>1, SMTT(60) DEF Area
  <2>3. Max(E) \in E /\ s + code[s].size <= Max(E)
    <3> HIDE DEF E
    <3> QED BY <2>1, <2>2, MaxIsGreatest, Zenon
  <2>4. E \in SUBSET Nat /\ s \in Nat
    BY <2>1, <2>2, ControlFlowAssumption, SMTT(60) DEF Addr
  <2>5. Max(E) > s
    <3> HIDE DEF E
    <3>1. Max(E) \in Nat /\ s \in Nat /\ s + code[s].size \in Nat
      BY <2>2, <2>3, <2>4, Zenon
    <3> QED BY <2>2, <2>3, <3>1, SMTT(60)
  <2> QED BY <2>5, Zenon
<1>9. BlockArea(v.mnemonics).start = s /\ BlockArea(v.mnemonics).end > s
  BY <1>1, <1>6, <1>7, <1>8, Zenon DEF BlockArea, Area
<1>10. \A t : BeginsAt(v, t) <=> t = s
  BY <1>1, <1>9, Zenon DEF BeginsAt
<1>11. \A a : EndsAt(v, a) <=> a = Max(B)
  BY <1>1, <1>5, Zenon DEF EndsAt
<1>12. \A a \in B : Range(mnemonics[a]) \subseteq v.mnemonics
  BY <1>1, <1>3, Zenon
<1> QED BY <1>1, <1>5, <1>9, <1>10, <1>11, <1>12, Zenon DEF B

(* The vertices before jumps are connected: blocks and errors.             *)
LEMMA VertexFacts ==
  ASSUME IInv
  PROVE  /\ \A s \in Opcodes : BlockStart(s) => Resolved(BlockFrom(s)) \in Vertices
         /\ \A a \in DOMAIN code \ Opcodes : Failed(a) \in Vertices
         /\ \A v \in Vertices :
              \/ \E s \in Opcodes : BlockStart(s) /\ v = Resolved(BlockFrom(s))
              \/ \E a \in DOMAIN code \ Opcodes : v = Failed(a)
<1>1. DOMAIN mnemonics = DOMAIN code
  BY Zenon DEF IInv
<1> QED BY <1>1, Zenon DEF Vertices, Blocks

(* The vertex of an address that could not be disassembled begins and ends there. *)
LEMMA FailedFacts ==
  ASSUME NEW a
  PROVE  /\ Failed(a).kind = "Failed" /\ Failed(a).pos = a
         /\ \A t : BeginsAt(Failed(a), t) <=> t = a
         /\ \A t : EndsAt(Failed(a), t) <=> t = a
<1>1. Failed(a).kind = "Failed" /\ Failed(a).pos = a
  BY Zenon DEF Failed
<1> QED BY <1>1, Zenon DEF BeginsAt, EndsAt

(* What a jump becomes: nothing if it is a step inside a block, otherwise  *)
(* one edge from the block it ends to the block or error it leads to, or   *)
(* to an unresolved vertex if its target is not a constant.                *)
LEMMA Connections ==
  ASSUME IInv, pc # "decode", NEW a \in DOMAIN code, NEW t \in code[a].jumps
  PROVE  \E s \in Opcodes :
           /\ BlockStart(s) /\ a \in ScannedFrom(s)
           /\ \/ /\ a # Max(ScannedFrom(s)) /\ Connect(Vertices, <<a, t>>) = {}
                 /\ t = a + code[a].size /\ t \in ScannedFrom(s)
              \/ /\ a = Max(ScannedFrom(s))
                 /\ \E w : /\ Connect(Vertices, <<a, t>>) = {<<Resolved(BlockFrom(s)), w>>}
                           /\ \/ t = Indirect /\ w = Unresolved(Indirect)
                              \/ t # Indirect /\ w \in Vertices /\ BeginsAt(w, t)
<1> DEFINE from == {v \in Vertices : EndsAt(v, a)}
           to   == {v \in Vertices : t # Indirect /\ BeginsAt(v, t)}
<1>1. a \in Opcodes
  BY OpcodeFacts, Zenon
<1>2. PICK s \in Opcodes :
        /\ BlockStart(s) /\ a \in ScannedFrom(s)
        /\ \A r \in Opcodes : BlockStart(r) /\ a \in ScannedFrom(r) => r = s
  BY <1>1, InOneScan, Zenon
<1> DEFINE B == ScannedFrom(s)
           l == Max(B)
           u == Resolved(BlockFrom(s))
<1>3. /\ s \in B /\ l \in B /\ B \subseteq Opcodes /\ \A x \in B : s <= x /\ x <= l
      /\ \A x \in B : x # l => x + code[x].size \in B /\ code[x].jumps = {x + code[x].size}
  <2>1. B = ScannedFrom(s) /\ l = Max(B)
    BY Zenon
  <2> HIDE DEF B, l
  <2> QED BY <2>1, ScanFacts, SMTT(60)
<1>4. ASSUME NEW v \in from PROVE v = u /\ a = l
  <2>1. CASE \E r \in Opcodes : BlockStart(r) /\ v = Resolved(BlockFrom(r))
    <3>1. PICK r \in Opcodes : BlockStart(r) /\ v = Resolved(BlockFrom(r))
      BY <2>1, Zenon
    <3>2. a = Max(ScannedFrom(r))
      BY <3>1, BlockFacts, Zenon
    <3>3. a \in ScannedFrom(r)
      BY <3>2, ScanFacts, Zenon
    <3> QED BY <1>2, <3>1, <3>2, <3>3, Zenon
  <2>2. CASE \E x \in DOMAIN code \ Opcodes : v = Failed(x)
    BY <1>1, <2>2, FailedFacts, SMTT(60)
  <2> QED BY <2>1, <2>2, VertexFacts, Zenon
<1>5. ASSUME NEW v \in to
      PROVE  \/ t \in Opcodes /\ BlockStart(t) /\ v = Resolved(BlockFrom(t))
             \/ t \in DOMAIN code \ Opcodes /\ v = Failed(t)
  <2>1. CASE \E r \in Opcodes : BlockStart(r) /\ v = Resolved(BlockFrom(r))
    BY <2>1, BlockFacts, Zenon
  <2>2. CASE \E x \in DOMAIN code \ Opcodes : v = Failed(x)
    BY <2>2, FailedFacts, SMTT(60)
  <2> QED BY <2>1, <2>2, VertexFacts, Zenon
<1>6. u \in Vertices /\ (a = l => u \in from)
  BY <1>2, VertexFacts, BlockFacts, Zenon
<1>7. Connect(Vertices, <<a, t>>) =
        (from \X to)
          \cup {<<Unresolved(a), v>> : v \in {w \in to : from = {} /\ ~Covers(w, a)}}
          \cup {<<v, Unresolved(t)>> :
                  v \in {w \in from : to = {} /\ (t = Indirect \/ ~Covers(w, t))}}
  BY SMTT(60) DEF Connect
<1> HIDE DEF from, to
<1>8. CASE a # l
  <2>1. t = a + code[a].size /\ t \in B /\ t \in Opcodes
    BY <1>2, <1>3, <1>8, Zenon
  <2>2. a \in Nat /\ s \in Nat /\ code[a].size \in Nat /\ code[a].size > 0
    BY <1>1, OpcodeFacts, ControlFlowAssumption, SMTT(60) DEF Addr
  <2>3. t # s
    BY <1>2, <1>3, <2>1, <2>2, SMTT(60)
  <2>4. from = {}
    BY <1>4, <1>8, Zenon
  <2>5. ~BlockStart(t)
    <3>1. s < t /\ t <= t
      BY <1>2, <1>3, <2>1, <2>2, SMTT(60)
    <3> QED BY <2>1, <3>1, Zenon DEF ScannedFrom
  <2>6. to = {}
    BY <1>5, <2>1, <2>5, Zenon
  <2> QED BY <1>2, <1>7, <1>8, <2>1, <2>4, <2>6, Zenon
<1>9. CASE a = l /\ t = Indirect
  <2>1. from = {u} /\ to = {}
    BY <1>4, <1>6, <1>9, Zenon DEF to
  <2>2. Connect(Vertices, <<a, t>>) = {<<u, Unresolved(Indirect)>>}
    BY <1>7, <1>9, <2>1, Zenon
  <2> QED BY <1>2, <1>9, <2>2, Zenon
<1>10. CASE a = l /\ t # Indirect
  <2>1. t \in DOMAIN code
    <3>1. Saturated(DOMAIN code)
      <4>1. todo = {} /\ Saturated(todo \cup DOMAIN code)
        BY Zenon DEF IInv
      <4> QED BY <4>1, Zenon
    <3> QED BY <1>10, <3>1, Zenon DEF Saturated, Targets
  <2>2. CASE t \notin Opcodes
    <3>1. Failed(t) \in to
      BY <1>10, <2>1, <2>2, VertexFacts, FailedFacts, Zenon DEF to
    <3>2. to = {Failed(t)} /\ from = {u}
      BY <1>4, <1>5, <1>6, <1>10, <2>2, <3>1, Zenon
    <3>3. Connect(Vertices, <<a, t>>) = {<<u, Failed(t)>>}
      BY <1>7, <3>2, SMTT(60)
    <3> QED BY <1>2, <1>10, <3>1, <3>3, Zenon DEF to
  <2>3. CASE t \in Opcodes
    <3>1. BlockStart(t)
      <4> SUFFICES ASSUME ~BlockStart(t) PROVE FALSE
        BY Zenon
      <4>1. PICK r \in Opcodes : BlockStart(r) /\ t \in ScannedFrom(r)
        BY <2>3, InOneScan, Zenon
      <4>2. PICK p \in ScannedFrom(r) :
              p + code[p].size = t /\ \A y \in DOMAIN code : t \in code[y].jumps <=> y = p
        BY <4>1, ScanFacts, SMTT(60)
      <4>3. p = a /\ r = s
        BY <1>2, <4>1, <4>2, Zenon
      <4>4. a \in Nat /\ code[a].size \in Nat /\ code[a].size > 0 /\ t <= a
        BY <1>1, <1>3, <1>10, <4>1, <4>3, OpcodeFacts, ControlFlowAssumption, SMTT(60) DEF Addr
      <4> QED BY <4>2, <4>3, <4>4, SMTT(60)
    <3>2. Resolved(BlockFrom(t)) \in to
      BY <1>10, <2>3, <3>1, VertexFacts, BlockFacts, Zenon DEF to
    <3>3. to = {Resolved(BlockFrom(t))} /\ from = {u}
      BY <1>4, <1>5, <1>6, <1>10, <2>3, <3>2, Zenon
    <3>4. Connect(Vertices, <<a, t>>) = {<<u, Resolved(BlockFrom(t))>>}
      BY <1>7, <3>3, SMTT(60)
    <3> QED BY <1>2, <1>10, <3>2, <3>4, Zenon DEF to
  <2> QED BY <2>2, <2>3, Zenon
<1> QED BY <1>8, <1>9, <1>10, Zenon

(* The vertex v has the opcode or the error at address a.                  *)
Holds(v, a) ==
  \/ v.kind = "Resolved" /\ a \in Within(v)
  \/ v.kind = "Failed" /\ v.pos = a

(* Every decoded address is held by exactly one vertex, and every vertex   *)
(* holds one.                                                              *)
LEMMA OneHolder ==
  ASSUME IInv, pc # "decode"
  PROVE  /\ \A a \in DOMAIN code : \E v \in Vertices : Holds(v, a)
         /\ \A v \in Vertices : \E a \in DOMAIN code : Holds(v, a)
         /\ \A v, w \in Vertices : \A a : Holds(v, a) /\ Holds(w, a) => v = w
         /\ \A v \in Vertices : \A a : Holds(v, a) =>
              a \in DOMAIN code /\ (v.kind = "Resolved" <=> a \in Opcodes)
<1>1. ASSUME NEW s \in Opcodes, BlockStart(s), NEW a
      PROVE  Holds(Resolved(BlockFrom(s)), a) <=> a \in ScannedFrom(s)
  <2>1. Resolved(BlockFrom(s)).kind = "Resolved" /\ Within(Resolved(BlockFrom(s))) = ScannedFrom(s)
    BY BlockFacts, Zenon
  <2> QED BY <2>1, Zenon DEF Holds
<1>2. ASSUME NEW x, NEW a PROVE Holds(Failed(x), a) <=> a = x
  BY FailedFacts, Zenon DEF Holds
<1>3. \A s \in Opcodes : s \in ScannedFrom(s) /\ ScannedFrom(s) \subseteq Opcodes
  BY ScanFacts, Zenon
<1>4. Opcodes \subseteq DOMAIN code
  BY OpcodeFacts, Zenon
<1>5. ASSUME NEW a \in DOMAIN code PROVE \E v \in Vertices : Holds(v, a)
  <2>1. CASE a \in Opcodes
    BY <1>1, <2>1, InOneScan, VertexFacts, Zenon
  <2>2. CASE a \notin Opcodes
    BY <1>2, <2>2, VertexFacts, Zenon
  <2> QED BY <2>1, <2>2, Zenon
<1>6. ASSUME NEW v \in Vertices, NEW a, Holds(v, a)
      PROVE  /\ a \in DOMAIN code /\ (v.kind = "Resolved" <=> a \in Opcodes)
             /\ \/ a \notin Opcodes /\ v = Failed(a)
                \/ \E s \in Opcodes : BlockStart(s) /\ v = Resolved(BlockFrom(s)) /\ a \in ScannedFrom(s)
  <2>1. CASE \E s \in Opcodes : BlockStart(s) /\ v = Resolved(BlockFrom(s))
    <3>1. PICK s \in Opcodes : BlockStart(s) /\ v = Resolved(BlockFrom(s))
      BY <2>1, Zenon
    <3>2. v.kind = "Resolved"
      BY <3>1, Zenon DEF Resolved
    <3> QED BY <1>1, <1>3, <1>4, <1>6, <3>1, <3>2, Zenon
  <2>2. CASE \E x \in DOMAIN code \ Opcodes : v = Failed(x)
    <3>1. PICK x \in DOMAIN code \ Opcodes : v = Failed(x)
      BY <2>2, Zenon
    <3>2. a = x /\ v.kind = "Failed"
      BY <1>2, <1>6, <3>1, FailedFacts, Zenon
    <3> QED BY <3>1, <3>2, Zenon
  <2> QED BY <2>1, <2>2, VertexFacts, Zenon
<1>7. ASSUME NEW v \in Vertices PROVE \E a \in DOMAIN code : Holds(v, a)
  BY <1>1, <1>2, <1>3, <1>4, VertexFacts, SMTT(60)
<1>8. ASSUME NEW v \in Vertices, NEW w \in Vertices, NEW a, Holds(v, a), Holds(w, a)
      PROVE  v = w
  <2>1. CASE a \in Opcodes
    BY <1>6, <1>8, <2>1, InOneScan, SMTT(60)
  <2>2. CASE a \notin Opcodes
    <3>1. v = Failed(a)
      BY <1>3, <1>6, <1>8, <2>2, Zenon
    <3>2. w = Failed(a)
      BY <1>3, <1>6, <1>8, <2>2, Zenon
    <3> QED BY <3>1, <3>2, Zenon
  <2> QED BY <2>1, <2>2, Zenon
<1> QED BY <1>5, <1>6, <1>7, <1>8, Zenon

(* The graph has the vertices above and the targets of indirect jumps, and *)
(* its edges are what the jumps became.                                    *)
LEMMA GraphFacts ==
  ASSUME IInv, pc # "decode"
  PROVE  /\ Vertices \subseteq Graph.vertices
         /\ \A a \in DOMAIN code : \A t \in code[a].jumps :
              Connect(Vertices, <<a, t>>) \subseteq Graph.edges
         /\ \A e \in Graph.edges :
              \E a \in DOMAIN code : \E t \in code[a].jumps : e \in Connect(Vertices, <<a, t>>)
         /\ \A e \in Graph.edges :
              /\ e[1] \in Vertices /\ e[1].kind = "Resolved" /\ e[2] \in Graph.vertices
              /\ e[2] \in Vertices \/ e[2] = Unresolved(Indirect)
         /\ \A v \in Graph.vertices :
              \/ v \in Vertices
              \/ v = Unresolved(Indirect) /\ \E e \in Graph.edges : e[2] = v
<1> DEFINE es == Edges(Vertices)
<1>1. /\ Graph.edges = es
      /\ Graph.vertices = Vertices \cup {e[1] : e \in es} \cup {e[2] : e \in es}
  BY Zenon DEF Graph
<1>2. /\ \A a \in DOMAIN code : \A t \in code[a].jumps : <<a, t>> \in by_source
      /\ \A j \in by_source : \E a \in DOMAIN code : \E t \in code[a].jumps : j = <<a, t>>
  BY SMTT(60) DEF IInv
<1>3. \A a \in DOMAIN code : \A t \in code[a].jumps : Connect(Vertices, <<a, t>>) \subseteq es
  BY <1>2, Zenon DEF Edges
<1>4. \A e \in es : \E a \in DOMAIN code : \E t \in code[a].jumps : e \in Connect(Vertices, <<a, t>>)
  BY <1>2, SMTT(60) DEF Edges
<1>5. ASSUME NEW e \in es
      PROVE  /\ e[1] \in Vertices /\ e[1].kind = "Resolved"
             /\ e[2] \in Vertices \/ e[2] = Unresolved(Indirect)
  <2>1. PICK a \in DOMAIN code : \E t \in code[a].jumps : e \in Connect(Vertices, <<a, t>>)
    BY <1>4, Zenon
  <2>2. PICK t \in code[a].jumps : e \in Connect(Vertices, <<a, t>>)
    BY <2>1, Zenon
  <2>3. PICK s \in Opcodes :
          /\ BlockStart(s)
          /\ \E w : /\ Connect(Vertices, <<a, t>>) = {<<Resolved(BlockFrom(s)), w>>}
                    /\ w \in Vertices \/ w = Unresolved(Indirect)
    BY <2>2, Connections, SMTT(60)
  <2>4. PICK w : /\ e = <<Resolved(BlockFrom(s)), w>>
                 /\ w \in Vertices \/ w = Unresolved(Indirect)
    BY <2>2, <2>3, Zenon
  <2>5. e[1] = Resolved(BlockFrom(s)) /\ e[2] = w
    BY <2>4, Zenon
  <2>6. Resolved(BlockFrom(s)).kind = "Resolved"
    BY Zenon DEF Resolved
  <2> QED BY <2>3, <2>4, <2>5, <2>6, VertexFacts, Zenon
<1> HIDE DEF es
<1> QED BY <1>1, <1>3, <1>4, <1>5, Zenon

-----------------------------------------------------------------------------
(* What the blocks and edges show, for every region and every code in it.  *)

(* The graph depends on nothing but what was decoded.                      *)
LEMMA GraphStays ==
  ASSUME UNCHANGED <<start, mnemonics, by_source>>
  PROVE  Graph' = Graph
<1>1. Opcodes' = Opcodes
  BY Zenon DEF Opcodes
<1>2. \A p, q : NewBlock(p, q)' <=> NewBlock(p, q)
  BY Zenon DEF NewBlock
<1>3. \A a : BlockStart(a)' <=> BlockStart(a)
  BY <1>1, <1>2, Zenon DEF BlockStart, LastAt
<1>4. \A a : ScannedFrom(a)' = ScannedFrom(a)
  BY <1>1, <1>3, Zenon DEF ScannedFrom
<1>5. \A a : BlockFrom(a)' = BlockFrom(a)
  BY <1>4, Zenon DEF BlockFrom
<1>6. Blocks' = Blocks
  BY <1>1, <1>3, <1>5, Zenon DEF Blocks
<1>7. Vertices' = Vertices
  BY <1>1, <1>6, Zenon DEF Vertices
<1> QED BY <1>7, Zenon DEF Graph, Edges

(* The graph a function gets is the one assembled from what was decoded.   *)
THEOREM GraphInvariance == Spec => []GraphInv
<1>1. Init => GraphInv
  BY Zenon DEF Init, GraphInv
<1>2. ASSUME GraphInv, [Next]_vars PROVE GraphInv'
  <2>1. CASE Step
    BY <1>2, <2>1, Zenon DEF Step, GraphInv
  <2>2. CASE Assemble
    <3>1. Graph' = Graph
      BY <2>2, GraphStays, Zenon DEF Assemble, input, loopVars
    <3> QED BY <1>2, <2>2, <3>1, Zenon DEF Assemble, GraphInv
  <2>3. CASE Finish
    <3>1. Graph' = Graph /\ cfg' = cfg /\ start' = start /\ pc = "assembled"
      BY <2>3, GraphStays, Zenon DEF Finish, input, loopVars
    <3>2. EntryPoints' = EntryPoints
      BY <3>1, Zenon DEF EntryPoints
    <3> QED BY <1>2, <2>3, <3>1, <3>2, Zenon DEF Finish, GraphInv
  <2>4. CASE UNCHANGED vars
    <3>1. Graph' = Graph /\ cfg' = cfg /\ start' = start
      BY <2>4, GraphStays, Zenon DEF vars, input, loopVars
    <3>2. EntryPoints' = EntryPoints
      BY <3>1, Zenon DEF EntryPoints
    <3> QED BY <1>2, <2>4, <3>1, <3>2, Zenon DEF vars, GraphInv
  <2> QED BY <1>2, <2>1, <2>2, <2>3, <2>4, Zenon DEF Next
<1> QED BY <1>1, <1>2, PTL DEF Spec

(* No opcode is lost and none is shown twice, however opcodes overlap:     *)
(* every decoded address is in one basic block or is one Failed vertex.    *)
THEOREM OpcodesOnce == Spec => []EveryOpcodeOnce
<1>1. ASSUME IInv, GraphInv PROVE EveryOpcodeOnce
  <2> SUFFICES ASSUME pc = "ok", NEW a \in DOMAIN code
               PROVE  IF code[a] = Unrecognized
                      THEN Failed(a) \in cflow_graph.vertices
                      ELSE \E v \in cflow_graph.vertices :
                             /\ v.kind = "Resolved" /\ Range(Entry(a, code[a])) \subseteq v.mnemonics
                             /\ \A w \in cflow_graph.vertices \ {v} :
                                  w.kind = "Resolved" => a \notin Within(w)
    BY Zenon DEF EveryOpcodeOnce
  <2>1. cflow_graph = Graph /\ pc # "decode"
    BY <1>1, Zenon DEF GraphInv
  <2>2. Vertices \subseteq cflow_graph.vertices
    BY <1>1, <2>1, GraphFacts, Zenon
  <2>3. CASE code[a] = Unrecognized
    BY <1>1, <2>2, <2>3, OpcodeFacts, VertexFacts, Zenon
  <2>4. CASE code[a] # Unrecognized
    <3>1. a \in Opcodes
      BY <1>1, <2>4, OpcodeFacts, Zenon
    <3>2. PICK s \in Opcodes : BlockStart(s) /\ a \in ScannedFrom(s)
      BY <1>1, <3>1, InOneScan, Zenon
    <3> DEFINE v == Resolved(BlockFrom(s))
    <3>3. v \in Vertices /\ v.kind = "Resolved" /\ a \in Within(v) /\ Range(mnemonics[a]) \subseteq v.mnemonics
      BY <1>1, <2>1, <3>2, VertexFacts, BlockFacts, Zenon
    <3>4. mnemonics[a] = Entry(a, code[a])
      BY <1>1, Zenon DEF IInv
    <3>5. ASSUME NEW w \in cflow_graph.vertices \ {v}, w.kind = "Resolved" PROVE a \notin Within(w)
      <4>1. w \in Vertices
        <5>1. Unresolved(Indirect).kind # "Resolved"
          BY Zenon DEF Unresolved
        <5> QED BY <1>1, <2>1, <3>5, <5>1, GraphFacts, Zenon
      <4>2. Holds(v, a) /\ (a \in Within(w) => Holds(w, a))
        BY <3>3, <3>5, Zenon DEF Holds
      <4> HIDE DEF v
      <4> QED BY <1>1, <2>1, <3>3, <3>5, <4>1, <4>2, OneHolder, Zenon
    <3> HIDE DEF v
    <3> QED BY <2>2, <2>4, <3>3, <3>4, <3>5, Zenon
  <2> QED BY <2>3, <2>4, Zenon
<1> QED BY <1>1, LoopInvariant, GraphInvariance, PTL

(* For every code, basic blocks are entered at the first and left at the   *)
(* last opcode only.                                                       *)
THEOREM BasicBlocks == Spec => []BlocksAreBasic
<1>1. ASSUME IInv, GraphInv PROVE BlocksAreBasic
  <2> SUFFICES ASSUME NEW v \in cflow_graph.vertices, v.kind = "Resolved", NEW a \in Within(v)
               PROVE  /\ ~BeginsAt(v, a) =>
                           /\ a # start
                           /\ \E p \in Within(v) :
                                /\ p + code[p].size = a
                                /\ \A x \in DOMAIN code : a \in code[x].jumps <=> x = p
                      /\ ~EndsAt(v, a) =>
                           /\ a + code[a].size \in Within(v)
                           /\ code[a].jumps = {a + code[a].size}
    BY Zenon DEF BlocksAreBasic
  <2>1. pc # "decode" /\ v \in Graph.vertices
    BY <1>1, Zenon DEF GraphInv, EmptyGraph
  <2>2. v \in Vertices
    <3>1. Unresolved(Indirect).kind # "Resolved"
      BY Zenon DEF Unresolved
    <3> QED BY <1>1, <2>1, <3>1, GraphFacts, Zenon
  <2>3. PICK s \in Opcodes : BlockStart(s) /\ v = Resolved(BlockFrom(s))
    BY <1>1, <2>2, VertexFacts, FailedFacts, Zenon
  <2> DEFINE B == ScannedFrom(s)
             l == Max(B)
  <2>4. Within(v) = B /\ (BeginsAt(v, a) <=> a = s) /\ (EndsAt(v, a) <=> a = l)
    BY <1>1, <2>1, <2>3, BlockFacts, Zenon
  <2>5. B = ScannedFrom(s) /\ l = Max(B)
    BY Zenon
  <2> HIDE DEF B, l
  <2>6. /\ a # s => \E p \in B : /\ p + code[p].size = a /\ a # start
                                 /\ \A y \in DOMAIN code : a \in code[y].jumps <=> y = p
        /\ a # l => a + code[a].size \in B /\ code[a].jumps = {a + code[a].size}
    BY <1>1, <2>1, <2>4, <2>5, ScanFacts, SMTT(60)
  <2> QED BY <2>4, <2>6, Zenon
<1> QED BY <1>1, LoopInvariant, GraphInvariance, PTL

(* No jump is missing from the graph and no edge is made up: a step inside *)
(* a block is not drawn, every other jump is one edge, and there are no    *)
(* others.                                                                 *)
LEMMA JumpsShown ==
  ASSUME IInv, GraphInv
  PROVE  JumpsAreEdges
<1> SUFFICES ASSUME pc = "ok" PROVE JumpsAreEdges
  BY Zenon DEF JumpsAreEdges
<1>1. cflow_graph = Graph /\ pc # "decode"
  BY Zenon DEF GraphInv
<1>2. ASSUME NEW a \in DOMAIN code, NEW t \in code[a].jumps
      PROVE  \/ \E e \in cflow_graph.edges :
                  /\ EndsAt(e[1], a)
                  /\ IF t = Indirect THEN e[2] = Unresolved(Indirect) ELSE BeginsAt(e[2], t)
             \/ \E v \in cflow_graph.vertices :
                  /\ v.kind = "Resolved"
                  /\ {a, t} \subseteq Within(v) /\ t = a + code[a].size
  <2>1. PICK s \in Opcodes :
           /\ BlockStart(s) /\ a \in ScannedFrom(s)
           /\ \/ /\ a # Max(ScannedFrom(s)) /\ Connect(Vertices, <<a, t>>) = {}
                 /\ t = a + code[a].size /\ t \in ScannedFrom(s)
              \/ /\ a = Max(ScannedFrom(s))
                 /\ \E w : /\ Connect(Vertices, <<a, t>>) = {<<Resolved(BlockFrom(s)), w>>}
                           /\ \/ t = Indirect /\ w = Unresolved(Indirect)
                              \/ t # Indirect /\ w \in Vertices /\ BeginsAt(w, t)
    BY <1>1, Connections, Zenon
  <2> DEFINE u == Resolved(BlockFrom(s))
  <2>2. /\ u \in Graph.vertices /\ u.kind = "Resolved" /\ Within(u) = ScannedFrom(s)
        /\ EndsAt(u, a) <=> a = Max(ScannedFrom(s))
    BY <1>1, <2>1, BlockFacts, VertexFacts, GraphFacts, Zenon
  <2> HIDE DEF u
  <2>3. CASE a # Max(ScannedFrom(s))
    BY <1>1, <2>1, <2>2, <2>3, Zenon
  <2>4. CASE a = Max(ScannedFrom(s))
    <3>1. PICK w : /\ Connect(Vertices, <<a, t>>) = {<<u, w>>}
                   /\ \/ t = Indirect /\ w = Unresolved(Indirect)
                      \/ t # Indirect /\ w \in Vertices /\ BeginsAt(w, t)
      BY <2>1, <2>4, Zenon DEF u
    <3>2. <<u, w>> \in Graph.edges
      BY <1>1, <3>1, GraphFacts, Zenon
    <3>3. <<u, w>>[1] = u /\ <<u, w>>[2] = w
      BY Zenon
    <3> QED BY <1>1, <2>2, <2>4, <3>1, <3>2, <3>3, Zenon
  <2> QED BY <2>3, <2>4, Zenon
<1>3. ASSUME NEW e \in cflow_graph.edges
      PROVE  /\ e[1].kind = "Resolved"
             /\ LET jumps == code[Max(Within(e[1]))].jumps
                IN  \/ e[2] = Unresolved(Indirect) /\ Indirect \in jumps
                    \/ \E t \in jumps \ {Indirect} : BeginsAt(e[2], t)
  <2>1. PICK a \in DOMAIN code : \E t \in code[a].jumps : e \in Connect(Vertices, <<a, t>>)
    BY <1>1, GraphFacts, Zenon
  <2>2. PICK t \in code[a].jumps : e \in Connect(Vertices, <<a, t>>)
    BY <2>1, Zenon
  <2>3. PICK s \in Opcodes :
          /\ a = Max(ScannedFrom(s))
          /\ \E w : /\ Connect(Vertices, <<a, t>>) = {<<Resolved(BlockFrom(s)), w>>}
                    /\ \/ t = Indirect /\ w = Unresolved(Indirect)
                       \/ t # Indirect /\ BeginsAt(w, t)
    BY <1>1, <2>2, Connections, Zenon
  <2>4. PICK w : /\ e = <<Resolved(BlockFrom(s)), w>>
                 /\ \/ t = Indirect /\ w = Unresolved(Indirect)
                    \/ t # Indirect /\ BeginsAt(w, t)
    BY <2>2, <2>3, Zenon
  <2>5. e[1] = Resolved(BlockFrom(s)) /\ e[2] = w
    BY <2>4, Zenon
  <2>6. e[1].kind = "Resolved" /\ Within(e[1]) = ScannedFrom(s)
    BY <1>1, <2>5, BlockFacts, Zenon
  <2> QED BY <2>2, <2>3, <2>4, <2>5, <2>6, Zenon
<1> QED BY <1>2, <1>3, Zenon DEF JumpsAreEdges

(* For every code, the jumps of a function are the edges of its graph and  *)
(* the steps inside its blocks.                                            *)
THEOREM JumpsAreShown == Spec => []JumpsAreEdges
<1> QED BY JumpsShown, LoopInvariant, GraphInvariance, PTL

(* A function is given a graph in which its entry point reaches every      *)
(* vertex, or its first opcode cannot be decoded: the addresses held by a  *)
(* set of vertices that is closed under edges are closed under jumps, and  *)
(* so are all that were decoded.                                           *)
THEOREM EverythingReached == Spec => []EntryReachesAll
<1>1. ASSUME IInv, GraphInv PROVE EntryReachesAll
  <2>1. ASSUME pc = "err" PROVE code[start] = Unrecognized
    <3> SUFFICES ASSUME code[start] # Unrecognized PROVE FALSE
      BY Zenon
    <3>1. EntryPoints = {} /\ cfg = Graph /\ pc # "decode"
      BY <1>1, <2>1, Zenon DEF GraphInv
    <3>2. start \in DOMAIN code
      <4>1. todo = {} /\ Saturated(todo \cup DOMAIN code)
        BY <1>1, <3>1, Zenon DEF IInv
      <4> QED BY <4>1, Zenon DEF Saturated
    <3>3. start \in Opcodes /\ Head(mnemonics[start]).start = start
      BY <1>1, <3>2, OpcodeFacts, Zenon
    <3>4. BlockStart(start)
      BY <3>3, Zenon DEF BlockStart, NewBlock
    <3> DEFINE v == Resolved(BlockFrom(start))
    <3>5. /\ v \in Graph.vertices /\ v.kind = "Resolved"
          /\ BlockArea(v.mnemonics).start = start /\ BlockArea(v.mnemonics).end > start
      BY <1>1, <3>1, <3>3, <3>4, VertexFacts, BlockFacts, GraphFacts, Zenon
    <3> HIDE DEF v
    <3> QED BY <3>1, <3>5, Zenon DEF EntryPoints
  <2>2. ASSUME pc = "ok", NEW S \in SUBSET cflow_graph.vertices, entry_point \in S,
               \A e \in cflow_graph.edges : e[1] \in S => e[2] \in S
        PROVE  S = cflow_graph.vertices
    <3> DEFINE T == {a \in DOMAIN code : \E v \in S \cap Vertices : Holds(v, a)}
    <3>1. cflow_graph = Graph /\ pc # "decode" /\ entry_point \in EntryPoints /\ cfg = Graph
      BY <1>1, <2>2, Zenon DEF GraphInv
    <3>2. start \in T
      <4>1. /\ entry_point \in Graph.vertices /\ entry_point.kind = "Resolved"
            /\ BlockArea(entry_point.mnemonics).start = start
        BY <3>1, Zenon DEF EntryPoints
      <4>2. entry_point \in Vertices
        <5>1. Unresolved(Indirect).kind # "Resolved"
          BY Zenon DEF Unresolved
        <5> QED BY <1>1, <3>1, <4>1, <5>1, GraphFacts, Zenon
      <4>3. PICK s \in Opcodes : BlockStart(s) /\ entry_point = Resolved(BlockFrom(s))
        BY <1>1, <4>1, <4>2, VertexFacts, FailedFacts, Zenon
      <4>4. s = start /\ Within(entry_point) = ScannedFrom(s) /\ s \in ScannedFrom(s)
        BY <1>1, <3>1, <4>1, <4>3, BlockFacts, ScanFacts, Zenon
      <4>5. Holds(entry_point, start)
        BY <4>1, <4>4, Zenon DEF Holds
      <4> QED BY <1>1, <2>2, <3>1, <4>2, <4>5, OneHolder, Zenon
    <3>3. ASSUME NEW a \in T, NEW t \in Targets(code[a]) PROVE t \in T
      <4>1. PICK v \in S \cap Vertices : Holds(v, a)
        BY Zenon
      <4>2. t \in code[a].jumps /\ t # Indirect /\ a \in DOMAIN code
        BY Zenon DEF Targets
      <4>3. CASE \E e \in Graph.edges : EndsAt(e[1], a) /\ BeginsAt(e[2], t)
        <5>1. PICK e \in Graph.edges : EndsAt(e[1], a) /\ BeginsAt(e[2], t)
          BY <4>3, Zenon
        <5>2. e[1] \in Vertices /\ e[1].kind = "Resolved"
          BY <1>1, <3>1, GraphFacts, Zenon
        <5>3. PICK s \in Opcodes : BlockStart(s) /\ e[1] = Resolved(BlockFrom(s))
          BY <1>1, <5>2, VertexFacts, FailedFacts, Zenon
        <5>4. a = Max(ScannedFrom(s)) /\ Within(e[1]) = ScannedFrom(s)
          BY <1>1, <3>1, <5>1, <5>3, BlockFacts, SMTT(60)
        <5>5. Holds(e[1], a)
          <6>1. a \in ScannedFrom(s)
            BY <1>1, <3>1, <5>4, ScanFacts, Zenon
          <6> QED BY <5>2, <5>4, <6>1, Zenon DEF Holds
        <5>6. e[1] = v
          BY <1>1, <3>1, <4>1, <5>2, <5>5, OneHolder, Zenon
        <5>7. e[2] \in S
          BY <2>2, <3>1, <4>1, <5>6, Zenon
        <5>8. e[2] \in Vertices
          <6>1. ~BeginsAt(Unresolved(Indirect), t)
            BY Zenon DEF BeginsAt, Unresolved
          <6> QED BY <1>1, <3>1, <5>1, <6>1, GraphFacts, Zenon
        <5>9. Holds(e[2], t)
          <6>1. CASE \E r \in Opcodes : BlockStart(r) /\ e[2] = Resolved(BlockFrom(r))
            <7>1. PICK r \in Opcodes : BlockStart(r) /\ e[2] = Resolved(BlockFrom(r))
              BY <6>1, Zenon
            <7>2. t = r /\ e[2].kind = "Resolved" /\ Within(e[2]) = ScannedFrom(r) /\ r \in ScannedFrom(r)
              BY <1>1, <3>1, <5>1, <7>1, BlockFacts, ScanFacts, SMTT(60)
            <7> QED BY <7>2, Zenon DEF Holds
          <6>2. CASE \E x \in DOMAIN code \ Opcodes : e[2] = Failed(x)
            BY <5>1, <6>2, FailedFacts, SMTT(60) DEF Holds
          <6> QED BY <1>1, <5>8, <6>1, <6>2, VertexFacts, Zenon
        <5> QED BY <1>1, <3>1, <5>7, <5>8, <5>9, OneHolder, Zenon
      <4>4. CASE \E u \in Graph.vertices : u.kind = "Resolved" /\ {a, t} \subseteq Within(u)
        <5>1. PICK u \in Graph.vertices : u.kind = "Resolved" /\ {a, t} \subseteq Within(u)
          BY <4>4, Zenon
        <5>2. u \in Vertices
          <6>1. Unresolved(Indirect).kind # "Resolved"
            BY Zenon DEF Unresolved
          <6> QED BY <1>1, <3>1, <5>1, <6>1, GraphFacts, Zenon
        <5>3. Holds(u, a) /\ Holds(u, t)
          BY <5>1, Zenon DEF Holds
        <5> QED BY <1>1, <3>1, <4>1, <5>2, <5>3, OneHolder, Zenon
      <4> QED BY <1>1, <2>2, <3>1, <4>2, <4>3, <4>4, JumpsShown, SMTT(60) DEF JumpsAreEdges
    <3>4. T = DOMAIN code
      <4>1. Saturated(T) /\ T \in SUBSET Addr
        BY <1>1, <3>2, <3>3, Zenon DEF Saturated, IInv
      <4> QED BY <1>1, <4>1, Zenon DEF IInv
    <3>5. Vertices \subseteq S
      <4> SUFFICES ASSUME NEW v \in Vertices PROVE v \in S
        BY Zenon
      <4>1. PICK a \in DOMAIN code : Holds(v, a)
        BY <1>1, <3>1, OneHolder, Zenon
      <4>2. PICK w \in S \cap Vertices : Holds(w, a)
        BY <3>4, Zenon
      <4> QED BY <1>1, <3>1, <4>1, <4>2, OneHolder, Zenon
    <3>6. ASSUME NEW v \in Graph.vertices PROVE v \in S
      <4>1. CASE v \in Vertices
        BY <3>5, <4>1, Zenon
      <4>2. CASE \E e \in Graph.edges : e[2] = v
        BY <1>1, <2>2, <3>1, <3>5, <4>2, GraphFacts, Zenon
      <4> QED BY <1>1, <3>1, <4>1, <4>2, GraphFacts, Zenon
    <3> QED BY <3>1, <3>6, Zenon
  <2> QED BY <2>1, <2>2, Zenon DEF EntryReachesAll
<1> QED BY <1>1, LoopInvariant, GraphInvariance, PTL

(* The variables of Function::disassemble keep their types.                *)
THEOREM TypeCorrect == Spec => []TypeOK
<1> DEFINE Rest == size \in Nat /\ pc \in {"decode", "assembled", "ok", "err"} /\ (pc # "ok" => entry_point = None)
<1>1. Init => Rest
  BY SMTT(60) DEF Init
<1>2. ASSUME IInv, Rest, [Next]_vars PROVE Rest'
  <2>1. CASE Step
    <3>1. PICK a \in todo : Visit(a)
      BY <2>1, Zenon DEF Step
    <3>2. pc' = pc /\ entry_point' = entry_point
      BY <2>1, Zenon DEF Step
    <3>3. CASE Decoded(a)
      <4>1. a \in DOMAIN code /\ a \in DOMAIN mnemonics
        BY <1>2, <3>3, Zenon DEF Decoded, At, IInv
      <4>2. CASE IsError(Head(mnemonics[a]))
        BY <1>2, <3>1, <3>2, <3>3, <4>2, Zenon DEF Visit
      <4>3. CASE ~IsError(Head(mnemonics[a]))
        <5>1. a \in Opcodes
          BY <4>1, <4>3, Zenon DEF Opcodes
        <5>2. /\ code[a].size \in Nat /\ mnemonics[a] = Entry(a, code[a]) /\ a \in Nat
              /\ code[a] # Unrecognized
          BY <1>2, <4>1, <5>1, OpcodeFacts, ControlFlowAssumption, SMTT(60) DEF IInv, Addr
        <5>3. Head(mnemonics[a]) \in {Area(a, a), Area(a, a + code[a].size)}
          BY <5>2, EntryFacts, Zenon
        <5>4. Head(mnemonics[a]).start = a /\ Head(mnemonics[a]).end \in {a, a + code[a].size}
          BY <5>3, SMTT(60) DEF Area
        <5>5. size' = size + Head(mnemonics[a]).end - Head(mnemonics[a]).start
          BY <3>1, <3>3, <4>3, Zenon DEF Visit
        <5>6. size' = size + a - a \/ size' = size + (a + code[a].size) - a
          BY <5>4, <5>5, Zenon
        <5> QED BY <1>2, <3>2, <5>2, <5>6, SMTT(60)
      <4> QED BY <4>2, <4>3, Zenon
    <3>4. CASE ~Decoded(a)
      <4>1. PICK d : (d \in IF a \in DOMAIN code THEN {code[a]} ELSE Decodings(a)) /\ size' = size + d.size
        BY <3>1, <3>4, Zenon DEF Visit, Decode
      <4>2. a \in Addr /\ d \in Decodings(a)
        BY <1>2, <4>1, Zenon DEF IInv
      <4>3. d.size \in Nat
        BY <4>2, DecodingFacts, SMTT(60) DEF Unrecognized
      <4> QED BY <1>2, <3>2, <4>1, <4>3, SMTT(60)
    <3> QED BY <3>3, <3>4, Zenon
  <2>2. CASE Assemble
    BY <1>2, <2>2, Zenon DEF Assemble, loopVars
  <2>3. CASE Finish
    BY <1>2, <2>3, Zenon DEF Finish, loopVars
  <2>4. CASE UNCHANGED vars
    BY <1>2, <2>4, Zenon DEF vars, loopVars
  <2> QED BY <1>2, <2>1, <2>2, <2>3, <2>4, Zenon DEF Next
<1>3. ASSUME IInv, Rest PROVE TypeOK
  <2>1. by_source \subseteq Addr \X (Addr \cup {Indirect})
    <3> SUFFICES ASSUME NEW a \in DOMAIN code, NEW t \in code[a].jumps
                 PROVE  a \in Addr /\ t \in Addr \cup {Indirect}
      BY <1>3, SMTT(60) DEF IInv
    <3>1. a \in Addr /\ code[a] \in Decodings(a)
      BY <1>3, Zenon DEF IInv
    <3> QED BY <3>1, DecodingFacts, SMTT(60)
  <2> QED BY <1>3, <2>1, Zenon DEF TypeOK, IInv
<1> HIDE DEF Rest
<1> QED BY <1>1, <1>2, <1>3, LoopInvariant, PTL DEF Spec
=============================================================================
