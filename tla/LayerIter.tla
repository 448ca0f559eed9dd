------------------------------ MODULE LayerIter ------------------------------
(***************************************************************************)
(* core/src/layer.rs: LayerIter, the iterator over cells that readers cut, *)
(* move and append without ever copying a byte.                            *)
(***************************************************************************)
EXTENDS Layer

(* LayerIter.  Undefined and Defined are written like the layers; a buffer *)
(* that is used up is None in the code and has the same cells as no bytes. *)
Nothing == OpaqueDefined(<<>>)
SparseIter(map, mapped, pos) ==
  [kind |-> "Sparse", map |-> map, mapped |-> mapped, pos |-> pos]
append(a, b) == [kind |-> "Concat", car |-> a, cdr |-> b]

RECURSIVE len(_)
len(it) ==
  CASE it.kind = "Undefined" -> it.n
    [] it.kind = "Defined"   -> Len(it.buf)
    [] it.kind = "Sparse"    -> len(it.mapped)
    [] it.kind = "Concat"    -> len(it.car) + len(it.cdr)

(* Layer::filter: an opaque layer hides what it covers. *)
filter(l, it) == IF as_opaque(l) THEN l ELSE SparseIter(l.map, it, 0)

(* LayerIter::next, as the iterator that is left; it has cells. *)
RECURSIVE advance(_)
advance(it) ==
  CASE it.kind = "Undefined" -> OpaqueUndefined(it.n - 1)
    [] it.kind = "Defined"   -> OpaqueDefined(Tail(it.buf))
    [] it.kind = "Sparse"    -> SparseIter(it.map, advance(it.mapped), it.pos + 1)
    [] it.kind = "Concat"    -> IF len(it.car) > 0 THEN append(advance(it.car), it.cdr)
                                                   ELSE append(it.car, advance(it.cdr))

(* The cell that next returns. *)
RECURSIVE first(_)
first(it) ==
  CASE it.kind = "Undefined" -> Undef
    [] it.kind = "Defined"   -> Head(it.buf)
    [] it.kind = "Sparse"    -> IF it.pos \in DOMAIN it.map THEN it.map[it.pos]
                                                            ELSE first(it.mapped)
    [] it.kind = "Concat"    -> IF len(it.car) > 0 THEN first(it.car) ELSE first(it.cdr)

RECURSIVE cut(_, _, _)

(* The part before the seam, the part behind it, or a piece of each. *)
cutConcat(it, start, end) ==
  LET alen == len(it.car)
      to   == IF end > len(it) THEN len(it) ELSE end
  IN  IF start < alen /\ to <= alen THEN cut(it.car, start, end)
      ELSE IF start >= alen /\ to > alen THEN cut(it.cdr, start - alen, to - alen)
      ELSE append(cut(it.car, start, alen), cut(it.cdr, 0, to - alen))

(* A sparse layer keeps its position. *)
cut_SamePos(it, start, end) ==
  LET to == IF end > len(it) THEN len(it) ELSE end
  IN  IF start >= end THEN Nothing
      ELSE CASE it.kind = "Undefined" -> OpaqueUndefined(to - start)
             [] it.kind = "Defined"   -> OpaqueDefined(SubSeq(it.buf, start + 1, to))
             [] it.kind = "Sparse"    -> SparseIter(it.map, cut(it.mapped, start, end), it.pos)
             [] it.kind = "Concat"    -> cutConcat(it, start, end)

(* LayerIter::cut to the cells start..end-1, where start is not past the   *)
(* last cell but end may be.                                               *)
cut(it, start, end) ==
  LET to == IF end > len(it) THEN len(it) ELSE end
  IN  IF start >= end THEN Nothing
      ELSE CASE it.kind = "Undefined" -> OpaqueUndefined(to - start)
             [] it.kind = "Defined"   -> OpaqueDefined(SubSeq(it.buf, start + 1, to))
             [] it.kind = "Sparse"    -> SparseIter(it.map, cut(it.mapped, start, end), it.pos + start)
             [] it.kind = "Concat"    -> cutConcat(it, start, end)

seek(it, p) == IF p > 0 THEN cut(it, p, len(it)) ELSE it

(* All cells, as a reader collects them one by one. *)
RECURSIVE collect(_)
collect(it) == IF len(it) = 0 THEN <<>> ELSE <<first(it)>> \o collect(advance(it))
=============================================================================
