---------------------------- MODULE Interpreter ----------------------------
(* abstract-interp/src/interpreter.rs: approximate() on a function in SSA   *)
(* form, with the domain Kset.  An abstract value belongs to a subscripted  *)
(* name, <<name, subscript>>.                                               *)
EXTENDS Ssa

CONSTANTS WORD, KSET_MAXIMAL_CARDINALITY

A == INSTANCE Kset
LOCAL Q == INSTANCE SequencesExt

Key(rv) == <<rv.name, rv.subscript>>
CompareOps == {"Equal", "LessOrEqualUnsigned", "LessOrEqualSigned",
               "LessUnsigned", "LessSigned"}

----------------------------------------------------------------------------
\* ssa.rs, flag_operations: the last comparison of the source block that
\* computes the flag of the edge.

FlagStatements(f, v, k) ==
    IF f.out[v][k].guard.kind # "Predicate" THEN <<>>
    ELSE SelectSeq(statements(f, v), LAMBDA i :
             i.assignee = f.out[v][k].guard.flag /\ i.op \in CompareOps)

Edges(f) == UNION {{v} \X DOMAIN f.out[v] : v \in DOMAIN f.out}
flag_operations(f) ==
    [e \in {d \in Edges(f) : FlagStatements(f, d[1], d[2]) # <<>>} |->
        Q!Last(FlagStatements(f, e[1], e[2]))]

\* A comparison of a variable with a constant constrains the variable,
\* whichever way the edge goes.
Constrained(i) ==
    LET l == i.operands[1]
        r == i.operands[2]
    IN  CASE IsVar(l) /\ r.kind = "Constant" -> <<[var |-> l, bound |-> r]>>
          [] IsVar(r) /\ l.kind = "Constant" -> <<[var |-> r, bound |-> l]>>
          [] OTHER -> <<>>

\* The constraint that was inserted last wins: that of the edge into the last
\* vertex.
Constraints(f) ==
    LET ops == flag_operations(f)
        es == {e \in DOMAIN ops : Constrained(ops[e]) # <<>>}
        KeyOf(e) == Key(Constrained(ops[e])[1].var)
        Target(e) == f.out[e[1]][e[2]].target
        LastOf(k) == CHOOSE e \in es : /\ KeyOf(e) = k
                                       /\ \A d \in es : KeyOf(d) = k => Target(d) <= Target(e)
    IN  [k \in {KeyOf(e) : e \in es} |->
            A!abstract_constraint(ops[LastOf(k)].op, Constrained(ops[LastOf(k)])[1].bound)]

----------------------------------------------------------------------------
res(rv, ret, fixed) ==
    IF IsVar(rv) /\ rv.subscript # None
    THEN IF Key(rv) \in DOMAIN fixed THEN fixed[Key(rv)]
         ELSE Get(ret, Key(rv), A!initial)
    ELSE A!abstract_value(rv)

ExecuteStatement_First(st, i, do_widen, fixed) ==
    LET new == A!execute(i.op, 0, [k \in DOMAIN i.operands |-> res(i.operands[k], st.ret, fixed)])
    IN  IF i.assignee.subscript = None \/ Key(i.assignee) \in DOMAIN st.ret THEN st
        ELSE [ret |-> (Key(i.assignee) :> new) @@ st.ret, change |-> TRUE]
\* execute of one statement; st is [ret, change].
ExecuteStatement(st, i, do_widen, fixed) ==
    LET new == A!execute(i.op, 0, [k \in DOMAIN i.operands |-> res(i.operands[k], st.ret, fixed)])
        key == Key(i.assignee)
        cur == Get(st.ret, key, A!initial)
        Insert(a) == [ret |-> (key :> a) @@ st.ret, change |-> TRUE]
    IN  IF i.assignee.subscript = None THEN st
        ELSE IF key \notin DOMAIN st.ret THEN Insert(new)
        ELSE IF do_widen THEN IF A!widen(cur, new) # cur THEN Insert(A!widen(cur, new)) ELSE st
        ELSE IF ~A!more_exact(cur, new) /\ cur # new THEN Insert(new)
        ELSE st

RECURSIVE ExecuteFrom(_, _, _, _, _)
ExecuteFrom(is, k, st, do_widen, fixed) ==
    IF k > Len(is) THEN st
    ELSE ExecuteFrom(is, k + 1, ExecuteStatement(st, is[k], do_widen, fixed), do_widen, fixed)

execute(f, t, do_widen, ret, fixed) ==
    ExecuteFrom(statements(f, t), 1, [ret |-> ret, change |-> FALSE], do_widen, fixed)

Narrowed(ret, constr) ==
    [k \in DOMAIN ret |-> IF k \in DOMAIN constr THEN A!narrow(ret[k], constr[k]) ELSE ret[k]]

\* The parts of h, from the k-th on; st is [ret, ends], env the constraints
\* and the fixed values.  An ordering that starts with a component is that
\* component and nothing else.  A component inside of h leaves stable behind,
\* whatever changed before it.  A round that starts with widening, changes
\* something and ends with the values it started with is repeated forever.
RECURSIVE stabilize(_, _, _, _), Iterate(_, _, _, _, _, _)
stabilize(f, h, st, env) ==
    IF h = <<>> THEN st
    ELSE IF h[1].kind = "Component" THEN stabilize(f, h[1].parts, st, env)
    ELSE Iterate(f, h, 1, [iter_cnt |-> 0, stable |-> TRUE, start |-> st.ret], st, env)

Iterate(f, h, k, round, st, env) ==
    IF ~st.ends THEN st
    ELSE IF k > Len(h) THEN
        IF round.stable THEN [st EXCEPT !.ret = Narrowed(@, env.constr)]
        ELSE IF round.iter_cnt >= 2 /\ st.ret = round.start THEN [st EXCEPT !.ends = FALSE]
        ELSE Iterate(f, h, 1, [iter_cnt |-> round.iter_cnt + 1, stable |-> TRUE,
                               start |-> st.ret], st, env)
    ELSE IF h[k].kind = "Component" THEN
        Iterate(f, h, k + 1, [round EXCEPT !.stable = TRUE],
                stabilize(f, h[k].parts, st, env), env)
    ELSE LET widen == round.iter_cnt >= 2 /\ h[k].vertex = h[1].vertex
             done == execute(f, h[k].vertex, widen, st.ret, env.fixed)
         IN  Iterate(f, h, k + 1, [round EXCEPT !.stable = @ /\ ~done.change],
                     [st EXCEPT !.ret = done.ret], env)

\* [ret, ends]: what it returns, and whether it returns.
approximate(f, fixed) ==
    LET st == stabilize(f, weak_topo_order(f.entry, cfg(f)),
                        [ret |-> [v \in {} |-> A!initial], ends |-> TRUE],
                        [constr |-> Constraints(f), fixed |-> fixed])
    IN  [st EXCEPT !.ret = fixed @@ @]
============================================================================
