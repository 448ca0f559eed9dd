-------------------------------- MODULE Kset --------------------------------
(* The abstract domain of abstract-interp/src/kset.rs: small sets of         *)
(* constants.  The vector of the code is sorted and free of repeats, and is  *)
(* a set here.                                                               *)
EXTENDS Integers, Sequences, FiniteSets

CONSTANTS WORD, KSET_MAXIMAL_CARDINALITY

LOCAL IL == INSTANCE Rreil
LOCAL Ext == INSTANCE SequencesExt

Join == [kind |-> "Join"]
Meet == [kind |-> "Meet"]
Set(s) == [kind |-> "Set", elems |-> s]

abstract_value(rv) ==
    IF IL!IsConst(rv)
    THEN Set({IL!Constant(rv.value % IL!Modulus(rv.size), rv.size)})
    ELSE Join

\* Only Constraint::Equal with a constant says anything.
abstract_constraint(kind, rv) == IF kind = "Equal" THEN abstract_value(rv) ELSE Join

Bounded(s) ==
    IF s = {} THEN Meet
    ELSE IF Cardinality(s) > KSET_MAXIMAL_CARDINALITY THEN Join ELSE Set(s)

\* The results that are not constants are dropped.
permute(a, b, op, n) ==
    CASE Join \in {a, b} -> Join
      [] Meet \in {a, b} -> Meet
      [] OTHER -> Bounded({IL!execute(op, n, <<x, y>>) : x \in a.elems, y \in b.elems}
                            \ {IL!Undefined})
map(a, op, n) ==
    IF a.kind = "Set"
    THEN Bounded({IL!execute(op, n, <<x>>) : x \in a.elems} \ {IL!Undefined})
    ELSE a

combine_Drops(a, b) ==
    CASE Join \in {a, b} -> Join
      [] b = Meet -> a
      [] OTHER -> b
combine(a, b) ==
    CASE Join \in {a, b} -> Join
      [] b = Meet -> a
      [] a = Meet -> b
      [] OTHER -> Bounded(a.elems \cup b.elems)

execute(op, n, ops) ==
    CASE op \in IL!ArithOps \cup IL!CompareOps \cup {"Select", "Store"} ->
           permute(ops[1], ops[2], op, n)
      [] op \in IL!ExtendOps \cup {"Move", "Call", "Load"} -> map(ops[1], op, n)
      [] op = "Initialize" -> Meet
      [] op = "Phi" -> IF Len(ops) = 1 THEN ops[1] ELSE Ext!FoldLeft(combine, Meet, ops)

\* The intersection of two sets may be an empty Set, which is not Meet.
narrow(a, c) ==
    CASE Meet \in {a, c} -> Meet
      [] c = Join -> a
      [] a = Join -> c
      [] OTHER -> Set(a.elems \cap c.elems)

widen(a, b) == b
initial == Meet

more_exact(a, b) ==
    /\ a # b
    /\ \/ a = Join
       \/ b = Meet
       \/ a.kind = "Set" /\ b.kind = "Set" /\ b.elems \subseteq a.elems

\* The slice is taken modulo 2^(size - 1).
extract(a, size, offset) ==
    IF a.kind = "Set"
    THEN Set({IL!Constant((x.value \div 2^offset) % 2^(size - 1), size) : x \in a.elems})
    ELSE a

\* The concrete values an element stands for.
Contains(a, rv) == a = Join \/ (a.kind = "Set" /\ rv \in a.elems)
============================================================================
