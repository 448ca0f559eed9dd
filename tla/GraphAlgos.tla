----------------------------- MODULE GraphAlgos -----------------------------
(* The algorithms of graph-algos/src that the analyses of a function run on *)
(* its control flow graph: the postorder, dominators, dominance frontiers   *)
(* and the weak topological order.                                          *)
(*                                                                          *)
(* A graph maps each vertex, a number, to the targets of its out edges, in  *)
(* the order of the edges.                                                  *)
EXTENDS Integers, Sequences, FiniteSets

LOCAL S == INSTANCE SequencesExt
LOCAL F == INSTANCE FiniteSetsExt

Successors(g, v) == S!ToSet(g[v])
Sources(g, v) == {u \in DOMAIN g : v \in Successors(g, u)}
in_degree(g, v) ==
    F!MapThenSumSet(LAMBDA u : Cardinality({i \in DOMAIN g[u] : g[u][i] = v}), DOMAIN g)

----------------------------------------------------------------------------
\* search.rs, TreeIterator with TraversalOrder::Postorder.  The start is not
\* marked as seen, so that a cycle through it visits it a second time.

RECURSIVE Traverse(_, _, _, _, _)
Traverse(g, position, stack, seen, order) ==
    LET fresh == {i \in DOMAIN g[position] : g[position][i] \notin seen}
    IN  IF fresh # {}
        THEN LET vx == g[position][F!Min(fresh)]
             IN  Traverse(g, vx, Append(stack, position), seen \cup {vx}, order)
        ELSE IF stack = <<>> THEN order
        ELSE Traverse(g, S!Last(stack), S!Front(stack), seen, Append(order, position))

postorder(g, start) == Traverse(g, start, <<start>>, {}, <<>>)

----------------------------------------------------------------------------
\* dominator.rs.  The predecessors of a vertex are taken without itself.

pred(g, b) == Sources(g, b) \ {b}

\* The position of the last occurrence: the map is filled in order.
po_idx(order, v) == F!Max({i \in DOMAIN order : order[i] = v})

RECURSIVE intersect(_, _, _, _)
intersect(f1, f2, order, ret) ==
    IF f1 = f2 THEN order[f1]
    ELSE IF f1 < f2 THEN intersect(po_idx(order, ret[order[f1]]), f2, order, ret)
    ELSE intersect(f1, po_idx(order, ret[order[f2]]), order, ret)

RECURSIVE Nearest(_, _, _, _)
Nearest(ps, new_idom, order, ret) ==
    IF ps = {} THEN new_idom
    ELSE LET p == F!Min(ps)
         IN  Nearest(ps \ {p},
                     intersect(po_idx(order, p), po_idx(order, new_idom), order, ret),
                     order, ret)

\* One pass over the reversed postorder, from position k down.
RECURSIVE Sweep(_, _, _, _, _)
Sweep(g, start, order, k, ret) ==
    IF k = 0 THEN ret
    ELSE IF order[k] = start THEN Sweep(g, start, order, k - 1, ret)
    ELSE LET known == pred(g, order[k]) \cap DOMAIN ret
             first == F!Min(known)
             new_idom == Nearest(known \ {first}, first, order, ret)
         IN  Sweep(g, start, order, k - 1,
                   [v \in DOMAIN ret \cup {order[k]} |->
                       IF v = order[k] THEN new_idom ELSE ret[v]])

RECURSIVE IdomFixpoint(_, _, _, _)
IdomFixpoint(g, start, order, ret) ==
    LET next == Sweep(g, start, order, Len(order), ret)
    IN  IF next = ret THEN ret ELSE IdomFixpoint(g, start, order, next)

immediate_dominator(start, g) ==
    IdomFixpoint(g, start, postorder(g, start), [v \in {start} |-> start])

RECURSIVE DomFixpoint(_, _, _)
DomFixpoint(g, start, cur_dom) ==
    LET next_dom == [v \in DOMAIN g |->
            {v} \cup IF v = start \/ Sources(g, v) = {} THEN {}
                     ELSE {d \in DOMAIN g : \A u \in Sources(g, v) : d \in cur_dom[u]}]
    IN  IF next_dom = cur_dom THEN cur_dom ELSE DomFixpoint(g, start, next_dom)

dominators(start, g) == DomFixpoint(g, start, [v \in DOMAIN g |-> DOMAIN g])

RECURSIVE Runners(_, _, _)
Runners(idom, runner, stop) ==
    IF runner = stop THEN {} ELSE {runner} \cup Runners(idom, idom[runner], stop)

dominance_frontiers_PredsOnly(idom, g) ==
    [v \in DOMAIN g |-> {b \in DOMAIN g :
        /\ Cardinality(pred(g, b)) >= 2
        /\ v \in pred(g, b) \ {idom[b]}}]
dominance_frontiers(idom, g) ==
    [v \in DOMAIN g |-> {b \in DOMAIN g :
        /\ Cardinality(pred(g, b)) >= 2
        /\ \E p \in pred(g, b) : v \in Runners(idom, p, idom[b])}]

----------------------------------------------------------------------------
\* order.rs, Bourdoncle's weak topological order.  A state of the search has
\* the ordering built so far, the stack, the numbers and, on return, the head
\* of the vertex visited.

Element(v) == [kind |-> "Element", vertex |-> v]
Component(parts) == [kind |-> "Component", parts |-> parts]

\* usize::MAX: larger than every number a visit gives away.
Done(g) == 4^Cardinality(DOMAIN g)

RECURSIVE visit(_, _, _), OutEdges(_, _, _, _), ComponentEdges(_, _, _, _)
OutEdges(vx, g, i, st) ==
    IF i > Len(g[vx]) THEN st
    ELSE LET succ == g[vx][i]
             r == IF st.dfn[succ] = 0 THEN visit(succ, g, st)
                  ELSE [st EXCEPT !.head = st.dfn[succ]]
         IN  OutEdges(vx, g, i + 1,
                 IF r.head <= st.head THEN [r EXCEPT !.loop = TRUE]
                 ELSE [r EXCEPT !.head = st.head, !.loop = st.loop])

ComponentEdges(vx, g, i, st) ==
    IF i > Len(g[vx]) THEN st
    ELSE ComponentEdges(vx, g, i + 1,
             IF st.dfn[g[vx][i]] = 0 THEN visit(g[vx][i], g, st) ELSE st)

component_Flat(vx, g, st) ==
    [st EXCEPT !.ret = <<Component(<<Element(vx)>>)>> \o @]
component(vx, g, st) ==
    LET inner == ComponentEdges(vx, g, 1, [st EXCEPT !.ret = <<>>])
    IN  [inner EXCEPT !.ret = <<Component(<<Element(vx)>> \o @)>> \o st.ret,
                      !.head = st.head]

visit(vx, g, st) ==
    LET n == st.num + 1
        out == OutEdges(vx, g, 1,
                   [st EXCEPT !.stack = Append(@, vx), !.num = n, !.dfn[vx] = n,
                              !.head = n, !.loop = FALSE])
        at == F!Max({i \in DOMAIN out.stack : out.stack[i] = vx})
        above == S!ToSet(SubSeq(out.stack, at + 1, Len(out.stack)))
        popped == [out EXCEPT !.stack = SubSeq(@, 1, at - 1),
                              !.dfn = [v \in DOMAIN g |->
                                          IF v = vx THEN Done(g)
                                          ELSE IF v \in above THEN 0 ELSE @[v]]]
    IN  IF out.head # out.dfn[vx] THEN out
        ELSE IF out.loop THEN component(vx, g, popped)
        ELSE [popped EXCEPT !.ret = <<Element(vx)>> \o @]

weak_topo_order(root, g) ==
    visit(root, g, [ret |-> <<>>, stack |-> <<>>, dfn |-> [v \in DOMAIN g |-> 0],
                    num |-> 0, head |-> 0, loop |-> FALSE]).ret
============================================================================
