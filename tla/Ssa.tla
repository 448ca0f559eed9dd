-------------------------------- MODULE Ssa --------------------------------
(* The operators of data-flow/src on a disassembled function: liveness, and *)
(* the pieces that the conversion into SSA form is made of.                 *)
(*                                                                          *)
(* A function maps its vertices to labels and out edges.  A block is a      *)
(* sequence of mnemonics, each with the operands it is displayed with and   *)
(* its RREIL statements.  Sizes are left out.                               *)
EXTENDS GraphAlgos, TLC

LOCAL E == INSTANCE SequencesExt

None == -1
Undefined == [kind |-> "Undefined"]
Constant(v, s) == [kind |-> "Constant", value |-> v, size |-> s]
Subscripted(n, i) == [kind |-> "Variable", name |-> n, subscript |-> i]
Variable(n) == Subscripted(n, None)
IsVar(rv) == rv.kind = "Variable"

Statement(a, op, operands) == [assignee |-> a, op |-> op, operands |-> operands]
Mnemonic(opcode, operands, instr) ==
    [opcode |-> opcode, operands |-> operands, instructions |-> instr]

Always == [kind |-> "True"]
Predicate(f, e) == [kind |-> "Predicate", flag |-> f, expected |-> e]
Edge(target, guard) == [target |-> target, guard |-> guard]

Resolved(ms) == [kind |-> "Resolved", mnemonics |-> ms]
Unresolved(rv) == [kind |-> "Unresolved", value |-> rv]

\* A function is [entry, label, out].
cfg(f) == [v \in DOMAIN f.out |-> [i \in DOMAIN f.out[v] |-> f.out[v][i].target]]
mnemonics(f, v) == IF f.label[v].kind = "Resolved" THEN f.label[v].mnemonics ELSE <<>>
statements(f, v) ==
    E!FlattenSeq([k \in DOMAIN mnemonics(f, v) |-> mnemonics(f, v)[k].instructions])
Names(rvs) == {rv.name : rv \in {r \in E!ToSet(rvs) : IsVar(r)}}

----------------------------------------------------------------------------
\* liveness.rs

\* One statement: what it reads before it is killed, and what it kills.
Expose(sets, names) == [sets EXCEPT !.uevar = @ \cup (names \ sets.varkill)]
OfStatement(sets, i) ==
    IF i.op = "Phi" THEN sets
    ELSE [Expose(sets, Names(i.operands)) EXCEPT !.varkill = @ \cup {i.assignee.name}]
OfMnemonic(sets, mne) ==
    E!FoldLeft(OfStatement, Expose(sets, Names(mne.operands)), mne.instructions)
Flags(f, v) ==
    {e.guard.flag.name : e \in {d \in E!ToSet(f.out[v]) :
        d.guard.kind = "Predicate" /\ IsVar(d.guard.flag)}}

liveness_sets_FlagsIgnored(f) ==
    [v \in E!ToSet(postorder(cfg(f), f.entry)) |->
        E!FoldLeft(OfMnemonic, [uevar |-> {}, varkill |-> {}], mnemonics(f, v))]
liveness_sets(f) ==
    [v \in E!ToSet(postorder(cfg(f), f.entry)) |->
        Expose(E!FoldLeft(OfMnemonic, [uevar |-> {}, varkill |-> {}], mnemonics(f, v)),
               Flags(f, v))]

RECURSIVE LiveFixpoint(_, _, _)
LiveFixpoint(f, sets, liveout) ==
    LET next == [v \in DOMAIN liveout |->
            UNION {sets[m].uevar \cup (IF m \in DOMAIN liveout
                                       THEN liveout[m] \ sets[m].varkill ELSE {}) :
                       m \in Successors(cfg(f), v)}]
    IN  IF next = liveout THEN liveout ELSE LiveFixpoint(f, sets, next)

liveness(f) ==
    LET sets == liveness_sets(f)
    IN  LiveFixpoint(f, sets,
            [v \in {u \in DOMAIN sets : f.label[u].kind = "Resolved"} |-> {}])

----------------------------------------------------------------------------
\* ssa.rs

\* type_check fails on an operation without operands.
TypeChecks(f) ==
    \A v \in DOMAIN f.label : \A i \in E!ToSet(statements(f, v)) : i.operands # <<>>

Globals(f) == LET sets == liveness_sets(f) IN UNION {sets[v].uevar : v \in DOMAIN sets}
Usage(f) ==
    LET sets == liveness_sets(f)
    IN  [n \in UNION {sets[v].varkill : v \in DOMAIN sets} |->
            {v \in DOMAIN sets : n \in sets[v].varkill}]

InsertFront(f, v, mne) == [f EXCEPT !.label[v].mnemonics = <<mne>> \o @]

InitMnemonic(globals) ==
    Mnemonic("__init", <<>>,
        E!SetToSeq({Statement(Variable(n), "Move", <<Undefined>>) : n \in globals}))

\* One argument per edge that enters the block.
PhiMnemonic(f, n, d) ==
    Mnemonic("__phi", <<>>,
        <<Statement(Variable(n), "Phi",
                    [i \in 1 .. in_degree(cfg(f), d) |-> Variable(n)])>>)

HasPhi(f, n, d) ==
    \E i \in E!ToSet(statements(f, d)) : i.op = "Phi" /\ i.assignee.name = n

----------------------------------------------------------------------------
\* rename: the state is [func, stack, counter].

Top(stack, n) == IF stack[n] = <<>> THEN None ELSE E!Last(stack[n])
Use(stack, rv) == IF IsVar(rv) THEN Subscripted(rv.name, Top(stack, rv.name)) ELSE rv
\* The operands of a mnemonic may name variables that have no stack.
Show(stack, rv) ==
    IF IsVar(rv) /\ rv.name \notin DOMAIN stack THEN Variable(rv.name) ELSE Use(stack, rv)

Get(fun, k, default) == IF k \in DOMAIN fun THEN fun[k] ELSE default
new_name(st, n) ==
    LET i == Get(st.counter, n, 0)
    IN  [st EXCEPT !.counter = (n :> i + 1) @@ @,
                   !.stack = (n :> Append(Get(@, n, <<>>), i)) @@ @]

\* st.done collects the statements, then the mnemonics, rewritten so far.
Keep(st, x) == [st EXCEPT !.done = Append(@, x)]
Assign(st, i) ==
    LET r == new_name(st, i.assignee.name)
    IN  Keep(r, [i EXCEPT !.assignee.subscript = Top(r.stack, i.assignee.name)])

RenamePhi(st, i) == IF i.op = "Phi" THEN Assign(st, i) ELSE Keep(st, i)
RenameOther(st, i) ==
    Assign(st, [i EXCEPT !.operands = [k \in DOMAIN @ |-> Use(st.stack, @[k])]])

RenamePhis(st, mne) ==
    LET r == E!FoldLeft(RenamePhi, [st EXCEPT !.done = <<>>], mne.instructions)
    IN  [r EXCEPT !.done = Append(st.done, [mne EXCEPT !.instructions = r.done])]
RenameMnemonic(st, mne) ==
    LET r == E!FoldLeft(RenameOther, [st EXCEPT !.done = <<>>], mne.instructions)
    IN  IF mne.opcode = "__phi" THEN Keep(st, mne)
        ELSE [r EXCEPT !.done = Append(st.done,
                 [mne EXCEPT !.instructions = r.done,
                             !.operands = [k \in DOMAIN @ |-> Show(st.stack, @[k])]])]

RenameBlock(st, b) ==
    IF st.func.label[b].kind # "Resolved" THEN st
    ELSE LET phis == E!FoldLeft(RenamePhis, [st EXCEPT !.done = <<>>], mnemonics(st.func, b))
             all == E!FoldLeft(RenameMnemonic, [phis EXCEPT !.done = <<>>], phis.done)
         IN  [all EXCEPT !.func.label[b].mnemonics = all.done, !.done = <<>>]

\* The first argument of a Phi that has no subscript yet.
FillPhi_First(stack, i) ==
    IF i.op = "Phi" /\ i.operands # <<>> THEN [i EXCEPT !.operands[1] = Use(stack, @)] ELSE i
FillPhi(stack, i) ==
    LET open == {k \in DOMAIN i.operands : i.operands[k].subscript = None}
    IN  IF i.op = "Phi" /\ open # {}
        THEN [i EXCEPT !.operands[CHOOSE k \in open : \A j \in open : k <= j] = Use(stack, @)]
        ELSE i

Fill(stack, lb) ==
    IF lb.kind = "Resolved"
    THEN [lb EXCEPT !.mnemonics = [m \in DOMAIN @ |->
             [@[m] EXCEPT !.instructions = [k \in DOMAIN @ |-> FillPhi(stack, @[k])]]]]
    ELSE [lb EXCEPT !.value = Use(stack, @)]

\* The out edges of a block, from the k-th on: the flag of the guard, then
\* the block or the unresolved jump the edge leads to.
RECURSIVE RenameEdges(_, _, _)
RenameEdges(st, b, k) ==
    IF k > Len(st.func.out[b]) THEN st
    ELSE LET e == st.func.out[b][k]
         IN  RenameEdges(
                [st EXCEPT
                    !.func.out[b][k].guard =
                        IF @.kind = "Predicate" THEN [@ EXCEPT !.flag = Use(st.stack, @)] ELSE @,
                    !.func.label[e.target] = Fill(st.stack, @)], b, k + 1)

\* rename, up to the calls for the children of b in the dominator tree.
rename(st, b) == RenameEdges(RenameBlock(st, b), b, 1)

\* The end of rename: one pop per assignment of the block.
Pop(stack, i) ==
    [n \in DOMAIN stack |-> IF n = i.assignee.name /\ stack[n] # <<>>
                            THEN E!Front(stack[n]) ELSE stack[n]]
PopAll_NotPhis(f, stack, b) ==
    E!FoldLeft(Pop, stack, SelectSeq(statements(f, b), LAMBDA i : i.op # "Phi"))
PopAll(f, stack, b) == E!FoldLeft(Pop, stack, statements(f, b))

Children(idom, b) == {k \in DOMAIN idom : idom[k] = b} \ {b}
============================================================================
