-------------------------------- MODULE Layer --------------------------------
(***************************************************************************)
(* core/src/layer.rs: layers, which replace or overwrite the cells of the  *)
(* area they cover.                                                        *)
(*                                                                         *)
(* A byte is named by where it comes from; the undefined cell is <<>>.     *)
(***************************************************************************)
EXTENDS Integers, Sequences

Undef == <<>>

(* OpaqueLayer: cells that do not depend on what is below. *)
OpaqueUndefined(n) == [kind |-> "Undefined", n |-> n]
OpaqueDefined(buf) == [kind |-> "Defined", buf |-> buf]

(* Layer::Sparse, a map from positions in the covered area to cells. *)
SparseLayer(map) == [kind |-> "Sparse", map |-> map]

as_opaque(l) == l.kind # "Sparse"

OpaqueLen(l) == IF l.kind = "Undefined" THEN l.n ELSE Len(l.buf)
=============================================================================
