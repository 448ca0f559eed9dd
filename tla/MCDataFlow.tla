----------------------------- MODULE MCDataFlow -----------------------------
(* Functions of up to four blocks.  A graph is listed once: its vertices are *)
(* numbered in the order of a breadth first search from the entry.           *)
EXTENDS DataFlow

Outs(n) == {<<>>} \cup {<<a>> : a \in 1 .. n} \cup {p \in (1 .. n) \X (1 .. n) : p[1] < p[2]}
Least(s) == CHOOSE u \in s : \A w \in s : u <= w
Graphs(n) ==
    {g \in [1 .. n -> Outs(n)] :
        /\ \A v \in 2 .. n : \E u \in Sources(g, v) : u < v
        /\ \A v \in 2 .. n - 1 : Least(Sources(g, v)) <= Least(Sources(g, v + 1))}
PlainGraphs(n) ==
    {g \in Graphs(n) : Sources(g, 1) = {} /\ \A v \in 1 .. n : v \notin Successors(g, v)}

----------------------------------------------------------------------------
vx == Variable("x")
vf == Variable("f")
Two(v) == Constant(v, 2)

Inc == <<Mnemonic("inc", <<vx>>, <<Statement(vx, "Add", <<vx, Two(1)>>)>>)>>
Set0 == <<Mnemonic("mov", <<vx>>, <<Statement(vx, "Move", <<Two(0)>>)>>)>>
Cmp(op) == <<Mnemonic("cmp", <<vx>>, <<Statement(vf, op, <<vx, Two(2)>>)>>)>>
Jmp == <<Mnemonic("jmp", <<vx>>, <<>>)>>

\* At most one block sets x, at most one increments it.
Bodies(n) ==
    {[v \in 1 .. n |-> IF v = i THEN Inc ELSE IF v = s THEN Set0 ELSE <<>>] :
        i \in 0 .. n, s \in 0 .. n}
StartingAt0(n, i) ==
    [v \in 1 .. n |-> IF v = 1 THEN Set0 ELSE IF v = i THEN Inc ELSE <<>>]
OneInc(n) == [v \in 1 .. n |-> IF v = 2 THEN Inc ELSE <<>>]

\* A block that goes two ways jumps on the flag; the blocks in tests compare x
\* first.
Function(g, body, op, tests) ==
    [entry |-> 1,
     label |-> [v \in DOMAIN g |->
        Resolved(body[v] \o IF Len(g[v]) = 2 /\ v \in tests THEN Cmp(op) ELSE <<>>)],
     out |-> [v \in DOMAIN g |-> [i \in DOMAIN g[v] |->
        Edge(g[v][i], IF Len(g[v]) = 2 THEN Predicate(vf, i = 1) ELSE Always)]]]

\* The last block is a jump to an address in x instead.
CanJump(g) == LET n == Cardinality(DOMAIN g)
              IN  g[n] = <<>> /\ \A u \in Sources(g, n) : g[u] = <<n>>
Jumping(f) ==
    LET n == Cardinality(DOMAIN f.out)
    IN  [f EXCEPT !.label = [v \in DOMAIN @ |->
            IF v = n THEN Unresolved(vx)
            ELSE IF v \in Sources(cfg(f), n) THEN Resolved(@[v].mnemonics \o Jmp) ELSE @[v]]]

Straight == {<<<<2>>, <<>>>>, <<<<1, 2>>, <<>>>>}

MCFunctions ==
    \* every graph of four blocks without a loop of one block or at the entry
    {Function(g, b, "LessUnsigned", 1 .. 4) : g \in PlainGraphs(4), b \in Bodies(4)}
    \cup {Function(g, StartingAt0(4, i), "Equal", 1 .. 4) : g \in PlainGraphs(4), i \in 2 .. 4}
    \* the flag is computed in the first block only
    \cup {Function(g, OneInc(4), "LessUnsigned", {1}) : g \in PlainGraphs(4)}
    \* every graph of three and of four blocks
    \cup {Function(g, b, "Equal", 1 .. 3) : g \in Graphs(3), b \in Bodies(3)}
    \cup {Function(g, OneInc(4), "Equal", 1 .. 4) : g \in Graphs(4)}
    \* unresolved jumps
    \cup {Jumping(Function(g, StartingAt0(4, i), "Equal", 1 .. 4)) :
              g \in {h \in PlainGraphs(4) : CanJump(h)}, i \in 2 .. 4}
    \* a third block that is not reached
    \cup {Function(g \o <<o>>, OneInc(3), "Equal", 1 .. 3) : g \in Straight, o \in Outs(3)}
MCSIZE == [n \in {"x", "f"} |-> IF n = "x" THEN 2 ELSE 1]
MCFixed == {Nothing, <<"x", 0>> :> A!Set({Two(1)})}
MCStart == {[n \in {"x", "f"} |-> IF n = "x" THEN Two(v) ELSE Constant(0, 1)] : v \in 0 .. 3}
============================================================================
