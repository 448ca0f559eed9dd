----------------------------- MODULE ControlFlow -----------------------------
(***************************************************************************)
(* Function::disassemble (core/src/function.rs): a work list of addresses, *)
(* kept in a hash set and so visited in no particular order, is decoded    *)
(* until every jump target is covered; the mnemonics are then cut into     *)
(* basic blocks and connected.                                             *)
(*                                                                         *)
(* The region is not read bit by bit.  What a decoder finds at an address  *)
(* is chosen when the address is first decoded and remembered in `code';   *)
(* decoding is deterministic, so this is every region at once.  Guards do  *)
(* not influence the control flow graph and are left out: by_source is a   *)
(* set of jumps, and by_destination the same set, read from the other end. *)
(***************************************************************************)
EXTENDS Integers, Sequences, Functions, FiniteSetsExt

CONSTANTS
  End,       \* size of the region: the first address nothing can be read at
  MaxSize,   \* bound on the size of an instruction
  Starts,    \* the entry points to start from
  Prefixed,  \* addresses whose instruction is decoded into two mnemonics
  Indirect,  \* jump target that is not a constant
  None

ASSUME ControlFlowAssumption ==
  /\ End \in Nat \ {0} /\ MaxSize \in Nat \ {0}
  /\ Starts \subseteq 0..End /\ Prefixed \subseteq 0..End
  /\ Indirect \notin Int /\ None \notin Int

Addr == 0..End

(* What follows an opcode that ends before `next': nothing, the next one,  *)
(* the target of a jump, or both sides of a branch.                        *)
JumpSpec(next) ==
  {{}, {Indirect}} \cup {{t} : t \in Addr} \cup {{t, next} : t \in Addr}

Unrecognized == [size |-> 0, jumps |-> {}]

(* The outcomes of decoding at address a.                                  *)
Decodings(a) ==
  {Unrecognized} \cup
  UNION {{[size |-> n, jumps |-> j] : j \in JumpSpec(a + n)} :
           n \in 1..(IF End - a < MaxSize THEN End - a ELSE MaxSize)}

VARIABLES
  start,        \* entry point, fixed from the start
  code,         \* what was found at the addresses decoded so far
  todo,         \* addresses left to visit
  mnemonics,    \* address -> mnemonics or error found there
  by_source,    \* jumps, <<origin, target>>
  size,         \* Function::len
  cfg,          \* the graph being made
  cflow_graph,  \* the graph of the function
  entry_point,  \* its entry vertex
  pc

input == <<start, code>>
loopVars == <<todo, mnemonics, by_source, size>>
vars == <<input, loopVars, cfg, cflow_graph, entry_point, pc>>

EmptyGraph == [vertices |-> {}, edges |-> {}]

Init ==
  /\ start \in Starts
  /\ code = <<>>
  /\ todo = {start}
  /\ mnemonics = <<>>
  /\ by_source = {}
  /\ size = 0
  /\ cfg = EmptyGraph /\ cflow_graph = EmptyGraph
  /\ entry_point = None
  /\ pc = "decode"

-----------------------------------------------------------------------------
(* The work list. *)

Area(from, to) == [start |-> from, end |-> to]

(* What one decoding adds at its address.  Decoders put mnemonics without  *)
(* bytes in front of the one that has them.                                *)
Entry(a, d) ==
  IF d = Unrecognized
  THEN <<[error |-> a]>>
  ELSE (IF a \in Prefixed THEN <<Area(a, a)>> ELSE <<>>) \o <<Area(a, a + d.size)>>

IsError(e) == "error" \in DOMAIN e

At(m, a) == IF a \in DOMAIN m THEN m[a] ELSE <<>>

With(m, a, s) == [x \in DOMAIN m \cup {a} |-> IF x = a THEN s ELSE m[x]]

(* The first entry at or above a starts at a.  (Entries are kept under the *)
(* address they start at, so the one found never starts below a, and the   *)
(* branch for jumps inside an instruction is never taken.)                 *)
Decoded(a) == At(mnemonics, a) # <<>>

(* The targets of an opcode's jumps to visit. *)
Targets(d) == d.jumps \ {Indirect}

(* The rest of the work list is dropped. *)
Decode_Forgets(a) ==
  \E d \in IF a \in DOMAIN code THEN {code[a]} ELSE Decodings(a) :
    /\ code' = With(code, a, d)
    /\ mnemonics' = With(mnemonics, a, At(mnemonics, a) \o Entry(a, d))
    /\ size' = size + d.size
    /\ by_source' = by_source \cup {<<a, t>> : t \in d.jumps}
    /\ todo' = Targets(d)

Decode(a) ==
  \E d \in IF a \in DOMAIN code THEN {code[a]} ELSE Decodings(a) :
    /\ code' = With(code, a, d)
    /\ mnemonics' = With(mnemonics, a, At(mnemonics, a) \o Entry(a, d))
    /\ size' = size + d.size
    /\ by_source' = by_source \cup {<<a, t>> : t \in d.jumps}
    /\ todo' = (todo \ {a}) \cup Targets(d)

(* The jumps of an address that is decoded already are followed again. *)
Visit_Again(a) ==
  IF Decoded(a)
  THEN /\ todo' = (todo \ {a}) \cup Targets(code[a])
       /\ size' = size + code[a].size
       /\ UNCHANGED <<code, mnemonics, by_source>>
  ELSE Decode(a)

Visit(a) ==
  IF Decoded(a)
  THEN /\ todo' = todo \ {a}
       /\ size' = IF IsError(Head(mnemonics[a])) THEN size
                  ELSE size + Head(mnemonics[a]).end - Head(mnemonics[a]).start
       /\ UNCHANGED <<code, mnemonics, by_source>>
  ELSE Decode(a)

Step ==
  /\ pc = "decode"
  /\ \E a \in todo : Visit(a)
  /\ UNCHANGED <<start, cfg, cflow_graph, entry_point, pc>>

-----------------------------------------------------------------------------
(* Basic blocks: sets of mnemonics, which are in the order of their        *)
(* addresses.                                                              *)

(* As NewBlock, without the jumps that lead to q. *)
NewBlock_NoIncoming(p, q) ==
  \/ p.end # q.start
  \/ \E j \in by_source : j[1] = p.start /\ j[2] \notin {Indirect, q.start}
  \/ q.start = start

(* As NewBlock, without the jumps that leave p. *)
NewBlock_NoOutgoing(p, q) ==
  \/ p.end # q.start
  \/ \E j \in by_source : j[2] = q.start /\ j[1] # p.start
  \/ q.start = start

(* The mnemonic q does not continue the block that ends with p. *)
NewBlock(p, q) ==
  \/ p.end # q.start
  \/ \E j \in by_source : j[1] = p.start /\ j[2] \notin {Indirect, q.start}
  \/ \E j \in by_source : j[2] = q.start /\ j[1] # p.start
  \/ q.start = start

(* Addresses with an opcode.  Errors are not part of a block, and do not   *)
(* close one either.                                                       *)
Opcodes == {a \in DOMAIN mnemonics : ~IsError(Head(mnemonics[a]))}

(* The last mnemonic found at an address. *)
LastAt(a) == mnemonics[a][Len(mnemonics[a])]

(* The scan over the addresses in order starts a block at a. *)
BlockStart(a) ==
  LET below == {x \in Opcodes : x < a}
  IN  below = {} \/ NewBlock(LastAt(Max(below)), Head(mnemonics[a]))

(* The addresses scanned from a on before the next block is started. *)
ScannedFrom(a) ==
  {x \in Opcodes : a <= x /\ \A y \in Opcodes : a < y /\ y <= x => ~BlockStart(y)}

BlockFrom(a) == UNION {Range(mnemonics[x]) : x \in ScannedFrom(a)}

Blocks == {BlockFrom(a) : a \in {x \in Opcodes : BlockStart(x)}}

Resolved(b) == [kind |-> "Resolved", mnemonics |-> b]
Failed(a) == [kind |-> "Failed", pos |-> a]
Unresolved(v) == [kind |-> "Unresolved", value |-> v]

(* Area of a block: from_vec takes the hull of its mnemonics. *)
BlockArea(b) ==
  Area(Min({m.start : m \in b}), Max({m.end : m \in b}))

Covers(v, a) ==
  /\ v.kind = "Resolved"
  /\ BlockArea(v.mnemonics).start <= a /\ a < BlockArea(v.mnemonics).end

(* Errors are left out. *)
Vertices_NoFailed == {Resolved(b) : b \in Blocks}

Vertices ==
  {Resolved(b) : b \in Blocks}
    \cup {Failed(a) : a \in DOMAIN mnemonics \ Opcodes}

(* The addresses of the mnemonics in a block. *)
Within(v) == {m.start : m \in v.mnemonics}

EndsAt(v, a) ==
  \/ v.kind = "Resolved" /\ Max(Within(v)) = a
  \/ v.kind = "Failed" /\ v.pos = a

BeginsAt(v, t) ==
  \/ v.kind = "Resolved" /\ BlockArea(v.mnemonics).start = t
  \/ v.kind = "Failed" /\ v.pos = t

(* Only jumps between vertices that are there. *)
Connect_OnlyKnown(vs, j) ==
  {v \in vs : EndsAt(v, j[1])} \X {v \in vs : j[2] # Indirect /\ BeginsAt(v, j[2])}

(* A jump becomes an edge; a side without a vertex gets an unresolved one, *)
(* unless the other side's block covers it.  A jump with neither is not    *)
(* drawn: it is the step from a mnemonic to the next inside a block.  The  *)
(* vertices added are found again by their value, so the order in which    *)
(* the hash map is walked does not matter.                                 *)
Connect(vs, j) ==
  LET from == {v \in vs : EndsAt(v, j[1])}
      to   == {v \in vs : j[2] # Indirect /\ BeginsAt(v, j[2])}
  IN  (from \X to)
        \cup {<<Unresolved(j[1]), v>> : v \in {w \in to : from = {} /\ ~Covers(w, j[1])}}
        \cup {<<v, Unresolved(j[2])>> :
                v \in {w \in from : to = {} /\ (j[2] = Indirect \/ ~Covers(w, j[2]))}}

Edges(vs) == UNION {Connect(vs, j) : j \in by_source}

(* The graph that assemble_cflow_graph returns. *)
Graph ==
  LET vs == Vertices
      es == Edges(vs)
  IN  [vertices |-> vs \cup {e[1] : e \in es} \cup {e[2] : e \in es}, edges |-> es]

EntryPoints ==
  {v \in cfg.vertices : /\ v.kind = "Resolved"
                        /\ BlockArea(v.mnemonics).start = start
                        /\ BlockArea(v.mnemonics).end > start}

Assemble ==
  /\ pc = "decode"
  /\ todo = {}
  /\ cfg' = Graph
  /\ pc' = "assembled"
  /\ UNCHANGED <<input, loopVars, cflow_graph, entry_point>>

(* The end of disassemble: without an entry point there is no function. *)
Finish ==
  /\ pc = "assembled"
  /\ \/ /\ \E v \in EntryPoints : entry_point' = v
        /\ cflow_graph' = cfg
        /\ pc' = "ok"
     \/ /\ EntryPoints = {}
        /\ pc' = "err"
        /\ UNCHANGED <<cflow_graph, entry_point>>
  /\ UNCHANGED <<input, loopVars, cfg>>

Next == Step \/ Assemble \/ Finish

Spec == Init /\ [][Next]_vars

-----------------------------------------------------------------------------
(* Type invariant of Function::disassemble. *)
TypeOK ==
  /\ start \in Addr
  /\ DOMAIN code \subseteq Addr /\ \A a \in DOMAIN code : code[a] \in Decodings(a)
  /\ todo \subseteq Addr
  /\ DOMAIN mnemonics = DOMAIN code
  /\ by_source \subseteq Addr \X (Addr \cup {Indirect})
  /\ size \in Nat
  /\ pc \in {"decode", "assembled", "ok", "err"}
  /\ pc # "ok" => entry_point = None

Closed(S) ==
  start \in S /\ \A a \in S : Targets(code[a]) \subseteq S

(* S has the entry point and all jumps of what is decoded in it. *)
Saturated(S) ==
  start \in S /\ \A a \in S : a \in DOMAIN code => Targets(code[a]) \subseteq S

(* The loop invariant of Function::disassemble: what is decoded is decoded *)
(* once, its jumps are recorded and lead to what is decoded or on the work *)
(* list, and neither has an address that jumps do not reach from the entry *)
(* point.                                                                  *)
IInv ==
  /\ start \in Addr /\ todo \subseteq Addr
  /\ DOMAIN mnemonics = DOMAIN code /\ DOMAIN code \subseteq Addr
  /\ \A a \in DOMAIN code : code[a] \in Decodings(a) /\ mnemonics[a] = Entry(a, code[a])
  /\ by_source = UNION {{a} \X code[a].jumps : a \in DOMAIN code}
  /\ Saturated(todo \cup DOMAIN code)
  /\ \A S \in SUBSET Addr : Saturated(S) => todo \cup DOMAIN code \subseteq S
  /\ pc # "decode" => todo = {}

(* The graph is the one assembled from what was decoded, and the function  *)
(* has it if it has an entry point.                                        *)
GraphInv ==
  /\ pc # "decode" => cfg = Graph
  /\ cflow_graph = IF pc = "ok" THEN cfg ELSE EmptyGraph
  /\ pc = "ok" => entry_point \in EntryPoints
  /\ pc = "err" => EntryPoints = {}

(* Whatever order the hash set yields its addresses in, the function is    *)
(* made of the opcodes that jumps reach from its entry point, no others,   *)
(* and each address holds one decoding.                                    *)
WholeFunction ==
  pc # "decode" =>
    /\ Closed(DOMAIN mnemonics)
    /\ \A S \in SUBSET DOMAIN mnemonics : Closed(S) => S = DOMAIN mnemonics
    /\ \A a \in DOMAIN mnemonics : mnemonics[a] = Entry(a, code[a])

(* The control flow graph loses no opcode and shows none twice: the        *)
(* mnemonics at an address are in one basic block, each address that could *)
(* not be decoded is a Failed vertex.                                      *)
EveryOpcodeOnce ==
  pc = "ok" =>
    \A a \in DOMAIN code :
      IF code[a] = Unrecognized
      THEN Failed(a) \in cflow_graph.vertices
      ELSE \E v \in cflow_graph.vertices :
             /\ v.kind = "Resolved" /\ Range(Entry(a, code[a])) \subseteq v.mnemonics
             /\ \A w \in cflow_graph.vertices \ {v} :
                  w.kind = "Resolved" => a \notin Within(w)

(* Basic blocks are entered at their first and left at their last          *)
(* mnemonic: inside a block control goes from each opcode to the one       *)
(* behind it, and gets there from nowhere else, not even by a call of the  *)
(* function.                                                               *)
BlocksAreBasic ==
  \A v \in cflow_graph.vertices : v.kind = "Resolved" => \A a \in Within(v) :
    /\ ~BeginsAt(v, a) =>
         /\ a # start
         /\ \E p \in Within(v) :
              /\ p + code[p].size = a
              /\ \A x \in DOMAIN code : a \in code[x].jumps <=> x = p
    /\ ~EndsAt(v, a) =>
         /\ a + code[a].size \in Within(v)
         /\ code[a].jumps = {a + code[a].size}

(* No jump of the function is missing from its graph: it is an edge        *)
(* between the block it ends and the block or error it leads to, an edge   *)
(* to an unresolved vertex if its target is not a constant, or a step      *)
(* inside a block; and every edge of the graph is such a jump.             *)
JumpsAreEdges ==
  pc = "ok" =>
    /\ \A a \in DOMAIN code : \A t \in code[a].jumps :
         \/ \E e \in cflow_graph.edges :
              /\ EndsAt(e[1], a)
              /\ IF t = Indirect THEN e[2] = Unresolved(Indirect) ELSE BeginsAt(e[2], t)
         \/ \E v \in cflow_graph.vertices :
              /\ v.kind = "Resolved"
              /\ {a, t} \subseteq Within(v) /\ t = a + code[a].size
    /\ \A e \in cflow_graph.edges :
         /\ e[1].kind = "Resolved"
         /\ LET jumps == code[Max(Within(e[1]))].jumps
            IN  \/ e[2] = Unresolved(Indirect) /\ Indirect \in jumps
                \/ \E t \in jumps \ {Indirect} : BeginsAt(e[2], t)

(* Every block, failure and unresolved target of a function is reached     *)
(* from its entry point along edges of the graph, however opcodes overlap  *)
(* and blocks are cut; and a function is refused for having no entry point *)
(* only if the opcode there cannot be decoded.  ssa_convertion             *)
(* (data-flow/src/ssa.rs) and the layout (qt/src/sugiyama/linear.rs)       *)
(* refuse a function otherwise, and no caller would tell the user.         *)
EntryReachesAll ==
  /\ pc = "err" => code[start] = Unrecognized
  /\ pc = "ok" =>
       \A S \in SUBSET cflow_graph.vertices :
         /\ entry_point \in S
         /\ \A e \in cflow_graph.edges : e[1] \in S => e[2] \in S
         => S = cflow_graph.vertices

(* Disassembling a function ends, loops in its code notwithstanding: each  *)
(* turn of the loop over the work list decodes an address of the region    *)
(* that was not decoded before, or takes an address off the list for good  *)
(* and puts none on it.                                                    *)
Progress ==
  [][pc = "decode" /\ pc' = "decode" =>
       \/ DOMAIN code # DOMAIN code' /\ DOMAIN code \subseteq DOMAIN code'
       \/ DOMAIN code = DOMAIN code' /\ todo # todo' /\ todo' \subseteq todo]_vars

=============================================================================
