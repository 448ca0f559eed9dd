-------------------------- MODULE BoundedAddrTrack --------------------------
(* The abstract domain of abstract-interp/src/bounded_addr_track.rs: a       *)
(* pointer is an offset into a named and versioned region, or into the       *)
(* global region None, whose offsets are absolute values.                    *)
EXTENDS Integers, Sequences

CONSTANTS WORD, VERSION_LIMIT

LOCAL IL == INSTANCE Rreil
LOCAL Ext == INSTANCE SequencesExt

Join == [kind |-> "Join"]
Meet == [kind |-> "Meet"]
Global == [name |-> "", version |-> 0]
Region(r) == [kind |-> "Region", region |-> r]
Offset(r, rv) == [kind |-> "Offset", region |-> r, offset |-> rv]
IsOffset(a) == a.kind = "Offset"
InGlobal(a) == IsOffset(a) /\ a.region = Global

abstract_value(rv) == IF IL!IsConst(rv) THEN Offset(Global, rv) ELSE Join
abstract_constraint(kind, rv) == IF kind = "Equal" THEN abstract_value(rv) ELSE Join

OffsetOr(r, rv) == IF IL!IsConst(rv) THEN Offset(r, rv) ELSE Join

\* addrtrack_op!: the first named region survives, one version later.
addrtrack_op(op, a, b) ==
    LET r == IF a.region # Global THEN a.region ELSE b.region
    IN IF r.version < VERSION_LIMIT
       THEN OffsetOr([r EXCEPT !.version = @ + 1],
                     IL!execute(op, 0, <<a.offset, b.offset>>))
       ELSE Join

\* An addition moves inside the region and keeps the version.
AddOffsets(a, b) ==
    OffsetOr(IF a.region # Global THEN a.region ELSE b.region,
             IL!execute("Add", 0, <<a.offset, b.offset>>))

\* Two absolute values are computed; with a named region on either side the
\* result is that region's.
EvalOp(op, a, b) ==
    CASE InGlobal(a) /\ InGlobal(b) ->
           OffsetOr(Global, IL!execute(op, 0, <<a.offset, b.offset>>))
      [] op = "Add" -> AddOffsets(a, b)
      [] OTHER -> addrtrack_op(op, a, b)

combine_First(a, b) == IF a = Meet THEN b ELSE a
combine(a, b) ==
    CASE a = b -> a
      [] Join \in {a, b} -> Join
      [] a = Meet -> b
      [] b = Meet -> a
      [] OTHER -> IF a.region = b.region THEN Region(a.region) ELSE Join

execute(op, n, ops) ==
    LET a == ops[1]
        b == ops[2]
    IN CASE op = "Phi" -> IF Len(ops) = 1 THEN a ELSE Ext!FoldLeft(combine, Meet, ops)
         [] op = "Move" -> a
         [] op \in IL!ArithOps \cup IL!CompareOps /\ IsOffset(a) /\ IsOffset(b) ->
              EvalOp(op, a, b)
         [] op \in IL!ExtendOps /\ IsOffset(a) ->
              OffsetOr(a.region, IL!execute(op, n, <<a.offset>>))
         [] op = "Select" /\ InGlobal(a) /\ InGlobal(b) ->
              OffsetOr(Global, IL!execute(op, n, <<a.offset, b.offset>>))
         [] OTHER -> Join

narrow(a, c) == c
widen(a, b) == b
initial == Meet

Rank(a) == CASE a.kind = "Meet" -> 0 [] a.kind = "Offset" -> 1
             [] a.kind = "Region" -> 2 [] a.kind = "Join" -> 3
more_exact(a, b) == Rank(a) < Rank(b)

\* The slice is taken modulo 2^(size - 1).
extract(a, size, offset) ==
    IF IsOffset(a)
    THEN Offset(a.region,
                IL!Constant((a.offset.value \div 2^offset) % 2^(size - 1), size))
    ELSE a
============================================================================
