------------------------------ MODULE DataFlow ------------------------------
(* A disassembled function on its way through ssa_convertion() and           *)
(* approximate(), and then the run of the program itself along the blocks of *)
(* the converted function.                                                   *)
(*                                                                           *)
(* The conversion walks over hash sets: the variables, the work list and the *)
(* children in the dominator tree are taken in any order.                    *)
EXTENDS Interpreter

CONSTANTS
    Functions,      \* the functions converted
    Start,          \* the values a run may start from
    Fixed,          \* the values the caller of approximate() may fix
    SIZE            \* variable -> its size in bits

LOCAL X == INSTANCE SequencesExt

VARIABLES
    func,
    phase,          \* "new", "phi", "rename", "ssa", "approximated", "run",
                    \* "err", "hangs"
    globals, usage, idom, df,   \* the locals of phi_functions
    todo, var, worklist,        \* its loops
    stack, counter, calls,      \* the locals and the call stack of rename
    wto, constr,    \* the locals of approximate(); with the constraints, the
                    \* fixed values
    result,         \* what it returned
    at, cur, val, admitted      \* the run of the program

phi_vars == <<globals, usage, df, todo, var, worklist>>
rename_vars == <<stack, counter, calls>>
run_vars == <<wto, constr, result, at, cur, val, admitted>>
vars == <<func, phase, idom, phi_vars, rename_vars, run_vars>>

Vertices == DOMAIN func.out
Reg == DOMAIN SIZE
Values(n) == {Constant(v, SIZE[n]) : v \in 0 .. 2^SIZE[n] - 1}
Nothing == [v \in {} |-> {}]

Init ==
    /\ func \in Functions
    /\ phase = "new"
    /\ globals = {} /\ usage = Nothing /\ idom = Nothing /\ df = Nothing
    /\ todo = {} /\ var = None /\ worklist = {}
    /\ stack = Nothing /\ counter = Nothing /\ calls = <<>>
    /\ wto = <<>> /\ constr = Nothing /\ result = Nothing
    /\ at = 0 /\ cur = Nothing /\ val = Nothing /\ admitted = TRUE

----------------------------------------------------------------------------
\* phi_functions, up to the loop over the globals.  The __init mnemonic is in
\* the function before the blocks are found to be unreachable.
Reachable(id) == DOMAIN id = Vertices

PhiBegin ==
    /\ phase = "new"
    /\ IF ~TypeChecks(func)
       THEN phase' = "err" /\ UNCHANGED <<func, idom, phi_vars>>
       ELSE /\ globals' = Globals(func) /\ usage' = Usage(func)
            /\ func' = InsertFront(func, func.entry, InitMnemonic(globals'))
            /\ \E id \in {immediate_dominator(func.entry, cfg(func))} :
                  /\ idom' = id
                  /\ IF Reachable(id)
                     THEN /\ df' = dominance_frontiers(id, cfg(func))
                          /\ todo' = globals' /\ phase' = "phi"
                     ELSE phase' = "err" /\ UNCHANGED <<df, todo>>
            /\ UNCHANGED <<var, worklist>>
    /\ UNCHANGED <<rename_vars, run_vars>>

PhiVariable(n) ==
    /\ phase = "phi" /\ worklist = {}
    /\ todo' = todo \ {n}
    /\ var' = n
    /\ worklist' = Get(usage, n, {})
    /\ UNCHANGED <<func, phase, globals, usage, idom, df, rename_vars, run_vars>>

\* A block with a Phi defines the variable, too: it goes on the work list.
PhiPlace(w) ==
    /\ phase = "phi"
    /\ \E ds \in {{d \in df[w] : func.label[d].kind = "Resolved" /\ ~HasPhi(func, var, d)}} :
          /\ func' = [func EXCEPT !.label = [v \in Vertices |->
                         IF v \in ds THEN [@[v] EXCEPT !.mnemonics =
                                              <<PhiMnemonic(func, var, v)>> \o @]
                         ELSE @[v]]]
          /\ worklist' = (worklist \ {w}) \cup ds
    /\ UNCHANGED <<phase, globals, usage, idom, df, todo, var, rename_vars, run_vars>>

----------------------------------------------------------------------------
\* rename_variables.  A frame of the call stack holds the block and the
\* children that are still to be renamed.  The dominators it computes are
\* those of phi_functions: the edges are the same.
Enter(b, st, frames) ==
    \E r \in {rename([func |-> func, stack |-> st, counter |-> counter, done |-> <<>>], b)} :
        /\ func' = r.func /\ stack' = r.stack /\ counter' = r.counter
        /\ calls' = Append(frames, [block |-> b, children |-> Children(idom, b)])

RenameBegin ==
    /\ phase = "phi" /\ todo = {} /\ worklist = {}
    /\ phase' = "rename"
    /\ Enter(func.entry, [n \in Globals(func) |-> <<>>], <<>>)
    /\ globals' = {} /\ usage' = Nothing /\ df' = Nothing /\ var' = None
    /\ UNCHANGED <<idom, todo, worklist, run_vars>>

RenameChild(k) ==
    /\ phase = "rename" /\ k \in X!Last(calls).children
    /\ Enter(k, stack, [calls EXCEPT ![Len(calls)].children = @ \ {k}])
    /\ UNCHANGED <<phase, idom, phi_vars, run_vars>>

RenameLeave ==
    /\ phase = "rename" /\ X!Last(calls).children = {}
    /\ stack' = PopAll(func, stack, X!Last(calls).block)
    /\ calls' = X!Front(calls)
    /\ phase' = IF Len(calls) = 1 THEN "ssa" ELSE phase
    /\ UNCHANGED <<func, idom, counter, phi_vars, run_vars>>

----------------------------------------------------------------------------
\* approximate().  Its caller may fix the value a variable has at the start.
Approximate(fixed) ==
    /\ phase = "ssa"
    /\ \E r \in {approximate(func, fixed)} :
          phase' = (IF r.ends THEN "approximated" ELSE "hangs") /\ result' = r.ret
    /\ wto' = weak_topo_order(func.entry, cfg(func))
    /\ constr' = fixed @@ Constraints(func)
    /\ UNCHANGED <<func, idom, phi_vars, rename_vars, at, cur, val, admitted>>

----------------------------------------------------------------------------
\* The program runs, from any values of its variables.  The run is admitted
\* as long as it does what the fixed values and the constraints say.
RunBegin(vs) ==
    /\ phase = "approximated"
    /\ phase' = "run"
    /\ at' = func.entry
    /\ val' = vs
    /\ cur' = [n \in Reg |-> None]
    /\ UNCHANGED <<func, idom, phi_vars, rename_vars, wto, constr, result, admitted>>

\* What a statement does in the program.  The __init mnemonic and the Phis
\* are no code: they name the value that is there.
Read(env, rv) == IF IsVar(rv) THEN env.val[rv.name] ELSE rv
Effect(env, i) ==
    LET n == i.assignee.name
        a == Read(env, i.operands[1])
        b == Read(env, i.operands[2])
        Flag(p) == Constant(IF p THEN 1 ELSE 0, 1)
    IN  CASE i.op = "Phi" \/ i.operands[1] = Undefined -> env.val[n]
          [] i.op = "Move" -> a
          [] i.op = "Add" -> Constant((a.value + b.value) % 2^SIZE[n], SIZE[n])
          [] i.op = "Equal" -> Flag(a = b)
          [] i.op = "LessUnsigned" -> Flag(a.value < b.value)
After(env, i) ==
    LET v == Effect(env, i)
    IN  [cur |-> [env.cur EXCEPT ![i.assignee.name] = i.assignee.subscript],
         val |-> [env.val EXCEPT ![i.assignee.name] = v],
         admitted |-> /\ env.admitted
                      /\ Key(i.assignee) \in DOMAIN constr =>
                            A!Contains(constr[Key(i.assignee)], v)]

\* The states of the run before and after each statement of the block.
Envs ==
    X!FoldLeft(LAMBDA es, i : Append(es, After(X!Last(es), i)),
               <<[cur |-> cur, val |-> val, admitted |-> admitted]>>,
               statements(func, at))

Holds(env, g) ==
    g.kind = "Predicate" => (env.val[g.flag.name].value = 1) = g.expected

RunBlock ==
    /\ phase = "run"
    /\ \E env \in {X!Last(Envs)}, e \in X!ToSet(func.out[at]) :
          /\ Holds(env, e.guard)
          /\ at' = e.target
          /\ cur' = env.cur /\ val' = env.val /\ admitted' = env.admitted
    /\ UNCHANGED <<func, phase, idom, phi_vars, rename_vars, wto, constr, result>>

Next ==
    \/ PhiBegin
    \/ \E n \in todo : PhiVariable(n)
    \/ \E w \in worklist : PhiPlace(w)
    \/ RenameBegin
    \/ \E k \in Vertices : RenameChild(k)
    \/ RenameLeave
    \/ \E fixed \in Fixed : Approximate(fixed)
    \/ \E vs \in Start : RunBegin(vs)
    \/ RunBlock

Spec == Init /\ [][Next]_vars

----------------------------------------------------------------------------
(* What a definition may be compared with: paths in the graph.               *)

\* The vertices reached from a set without entering those of the set avoid.
RECURSIVE ReachedFrom(_, _, _)
ReachedFrom(g, seen, avoid) ==
    LET next == seen \cup (UNION {Successors(g, v) : v \in seen} \ avoid)
    IN  IF next = seen THEN seen ELSE ReachedFrom(g, next, avoid)
\* Every path from the entry to v goes through d.
Dominates(d, v) ==
    d = v \/ d = func.entry \/ v \notin ReachedFrom(cfg(func), {func.entry}, {d})

SelfLoop(v) == v \in Successors(cfg(func), v)
\* The conversion does not see that a block is its own predecessor, and it
\* initialises the variables at each pass through the entry.
Loops == (\E v \in Vertices : SelfLoop(v)) \/ Sources(cfg(func), func.entry) # {}


\* The vertices of an ordering in their order, and its components.
RECURSIVE Linear(_), Components(_)
Linear(h) == X!FlattenSeq([k \in DOMAIN h |->
                 IF h[k].kind = "Element" THEN <<h[k].vertex>> ELSE Linear(h[k].parts)])
Components(h) == UNION {IF h[k].kind = "Element" THEN {}
                        ELSE {h[k].parts} \cup Components(h[k].parts) : k \in DOMAIN h}
Nested == \E c \in Components(wto) : Components(c) # {}

\* A block reads a variable before it assigns to it.
Assigns(is, n) == \E i \in X!ToSet(is) : i.assignee.name = n
Exposed(v, n) ==
    LET ms == mnemonics(func, v)
        Free(m) == ~Assigns(X!FlattenSeq([j \in 1 .. m - 1 |-> ms[j].instructions]), n)
        Reads(mne) == \E k \in DOMAIN mne.instructions :
                         /\ n \in Names(mne.instructions[k].operands)
                         /\ ~Assigns(SubSeq(mne.instructions, 1, k - 1), n)
    IN  \/ n \in Flags(func, v) /\ Free(Len(ms) + 1)
        \/ \E m \in DOMAIN ms : Free(m) /\ (n \in Names(ms[m].operands) \/ Reads(ms[m]))

\* Every place of the function that holds the subscript of a variable.
Occurrences ==
    UNION {UNION {X!ToSet(mne.operands) \cup
                  UNION {{i.assignee} \cup X!ToSet(i.operands) : i \in X!ToSet(mne.instructions)} :
                      mne \in X!ToSet(mnemonics(func, v))} : v \in Vertices}
    \cup UNION {{e.guard.flag : e \in {d \in X!ToSet(func.out[v]) : d.guard.kind = "Predicate"}} :
                    v \in Vertices}
    \cup {func.label[v].value : v \in {u \in Vertices : func.label[u].kind = "Unresolved"}}

(* The dominators of a block are the blocks every path from the entry goes   *)
(* through, the immediate one is the closest of them, although the postorder *)
(* lists the entry twice when it is on a cycle, and the dominance frontier   *)
(* has the blocks at which dominance ends: the block dominates a predecessor *)
(* and does not strictly dominate the block itself.  The entry, and a block  *)
(* that is its own predecessor and dominates no other of them, are missing   *)
(* there (dominator.rs).                                                     *)
DominanceExact ==
    phase = "phi" =>
        LET dom == [v \in Vertices |-> {d \in Vertices : Dominates(d, v)}]
        IN  /\ dominators(func.entry, cfg(func)) = dom
            /\ \A v \in Vertices \ {func.entry} :
                  /\ idom[v] \in dom[v] \ {v}
                  /\ dom[v] \ {v} \subseteq dom[idom[v]]
            /\ \A w \in Vertices, b \in Vertices \ {func.entry} :
                  b \in df[w] <=> /\ \E p \in pred(cfg(func), b) : w \in dom[p]
                                  /\ w = b \/ w \notin dom[b]

(* The weak topological order lists each block once, and an edge that does   *)
(* not lead forward leads to the head of a component around its source: the  *)
(* heads are where approximate() must widen (order.rs, weak_topo_order).     *)
OrderIsWeak ==
    phase = "new" =>
        \E h \in {weak_topo_order(func.entry, cfg(func))} :
            LET order == Linear(h)
                At(v) == CHOOSE i \in DOMAIN order : order[i] = v
            IN  /\ X!ToSet(order) = ReachedFrom(cfg(func), {func.entry}, {})
                /\ Len(order) = Cardinality(X!ToSet(order))
                /\ \A u \in X!ToSet(order) : \A v \in Successors(cfg(func), u) :
                      \/ At(u) < At(v)
                      \/ \E c \in Components(h) : c[1] = Element(v) /\ u \in X!ToSet(Linear(c))

(* A variable is live at the end of a block iff some path from there reaches *)
(* a read of it with no assignment on the way (liveness.rs, liveness).       *)
LiveExact ==
    phase = "new" =>
        \E live \in {liveness(func)} : \A v \in DOMAIN live, n \in Reg :
            LET passable == [u \in Vertices |->
                    IF Assigns(statements(func, u), n) THEN <<>> ELSE cfg(func)[u]]
            IN  n \in live[v] <=>
                \E u \in ReachedFrom(passable, Successors(cfg(func), v), {}) : Exposed(u, n)

(* Once ssa_convertion() returned, every variable of the function has a      *)
(* subscript, the arguments of the Phis, the flags of the guards and the     *)
(* targets of unresolved jumps included, and a subscripted name is assigned  *)
(* in one place; or, when it failed, no variable has a subscript: there is   *)
(* no half renamed function for the analyses to read (ssa.rs).               *)
SsaForm ==
    /\ phase \in {"ssa", "err"} =>
          \A rv \in {o \in Occurrences : IsVar(o)} : (rv.subscript # None) = (phase = "ssa")
    /\ phase = "ssa" =>
          \A v, w \in Vertices :
              \A i \in DOMAIN statements(func, v), j \in DOMAIN statements(func, w) :
                  statements(func, v)[i].assignee = statements(func, w)[j].assignee =>
                      <<v, i>> = <<w, j>>

(* Along every run of the program, an operand, a displayed operand or a      *)
(* guard names the assignment that was the last one before it, a Phi has     *)
(* among its arguments the name that the run came with, and the target of an *)
(* unresolved jump that has one source is named likewise.  Functions that    *)
(* loop at a single block or through the entry are left out (ssa.rs,         *)
(* phi_functions and rename_variables).                                      *)
ReachingDefinition ==
    phase = "run" /\ ~Loops =>
        \E envs \in {Envs} :
            LET is == statements(func, at)
                Current(env, rv) == IsVar(rv) => rv.subscript = env.cur[rv.name]
                Before(m) == envs[Len(X!FlattenSeq([j \in 1 .. m - 1 |->
                                     mnemonics(func, at)[j].instructions])) + 1]
            IN  /\ \A k \in DOMAIN is :
                      IF is[k].op = "Phi"
                      THEN Subscripted(is[k].assignee.name, envs[k].cur[is[k].assignee.name])
                             \in X!ToSet(is[k].operands)
                      ELSE \A o \in X!ToSet(is[k].operands) : Current(envs[k], o)
                /\ \A m \in DOMAIN mnemonics(func, at) :
                      \A o \in X!ToSet(mnemonics(func, at)[m].operands) : Current(Before(m), o)
                /\ \A e \in X!ToSet(func.out[at]) :
                      e.guard.kind = "Predicate" => Current(X!Last(envs), e.guard.flag)
                /\ func.label[at].kind = "Unresolved" /\ in_degree(cfg(func), at) = 1 =>
                      Current(envs[1], func.label[at].value)

(* approximate() returns: "The function uses a fixed point iteration and the *)
(* widening strategy outlined in Bourdoncle" (interpreter.rs:76-78), whose   *)
(* point is that the iteration ends.                                         *)
ApproximateEnds == phase # "hangs"

(* approximate() returns, unless the function has a loop inside a loop, of   *)
(* which the end of the inner one takes back what the outer one has found,   *)
(* and reports for every assignment of the function a set that has the value *)
(* each run assigns there, whatever joins, widenings and narrowings it went  *)
(* through, as long as the run does what the constraints say.  They          *)
(* constrain a variable for both ways out of a branch; functions with a loop *)
(* inside a loop are left out (interpreter.rs, stabilize).                   *)
ApproximateSound ==
    /\ phase = "hangs" => Nested
    /\ phase = "run" /\ ~Loops /\ ~Nested =>
          \E envs \in {Envs} :
              \A k \in DOMAIN statements(func, at) :
                  \E i \in {statements(func, at)[k]} :
                      envs[k + 1].admitted =>
                          A!Contains(result[Key(i.assignee)], envs[k + 1].val[i.assignee.name])
============================================================================
