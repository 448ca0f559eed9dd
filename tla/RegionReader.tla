---------------------------- MODULE RegionReader ----------------------------
(***************************************************************************)
(* core/src/region.rs: Region::iter, and how the decoders read a region    *)
(* through the iterator it returns, which they cut and move.               *)
(***************************************************************************)
EXTENDS Region, LayerIter, FiniteSets, SequencesExt

CONSTANT MaxReads     \* bound: calls of one reader

ASSUME ReaderAssumption == MaxReads \in Nat

VARIABLES
  reader,    \* "none", "read", or "panics" if an assertion of iter failed
  it,        \* the reader's iterator
  window,    \* history: the cells the reader should have left, <<from, to>>
  reads      \* calls of the reader so far

reader_vars == <<reader, it, window, reads>>

ReaderInit ==
  /\ Init
  /\ reader = "none" /\ it = Nothing /\ window = <<0, 0>> /\ reads = 0

Panic == [kind |-> "panic"]

(* Region::iter: the iterator for the layers below with the part that the  *)
(* next layer covers replaced, and the assertions on the way.              *)
RECURSIVE iter(_, _)
iter(ret, above) ==
  IF above = <<>> THEN ret
  ELSE LET b    == above[1].area
           src  == cut(ret, b.start, b.end)
           mid  == filter(above[1].layer, src)
           low  == IF b.start # 0 THEN append(cut(ret, 0, b.start), mid) ELSE mid
           all  == IF b.end < len(ret) THEN append(low, cut(ret, b.end, len(ret))) ELSE low
       IN  IF /\ len(src) = b.end - b.start
              /\ b.start # 0 => len(low) = b.end
              /\ len(ret) = len(all)
           THEN iter(all, Tail(above)) ELSE Panic

Iter ==
  /\ reader = "none" /\ pc = "cover"
  /\ \E ret \in {iter(stack[1].layer, Tail(stack))} :
       IF ret = Panic THEN reader' = "panics" /\ UNCHANGED <<it, window>>
       ELSE reader' = "read" /\ it' = ret /\ window' = <<0, Size>>
  /\ UNCHANGED <<vars, reads>>

Reads ==
  /\ reader = "read" /\ reads < MaxReads /\ reads' = reads + 1
  /\ UNCHANGED <<vars, reader>>

Left == window[2] - window[1]

Cut ==
  /\ Reads
  /\ \E start \in 0..Left : \E end \in 0..Left + 1 :
       /\ it' = cut(it, start, end)
       /\ window' = <<window[1] + start,
                      IF end > Left THEN window[2]
                      ELSE IF end < start THEN window[1] + start ELSE window[1] + end>>

Seek ==
  /\ Reads
  /\ \E p \in 0..Size + 1 :
       /\ it' = seek(it, p)
       /\ window' = <<IF p > Left THEN window[2] ELSE window[1] + p, window[2]>>

Advance ==
  /\ Reads /\ Left > 0
  /\ it' = advance(it)
  /\ window' = <<window[1] + 1, window[2]>>

ReaderNext ==
  \/ reader = "none" /\ Next /\ UNCHANGED reader_vars
  \/ Iter
  \/ Cut \/ Seek \/ Advance

ReaderSpec == ReaderInit /\ [][ReaderNext]_<<vars, reader_vars>>
-----------------------------------------------------------------------------
(* The cell at address a of a stack of layers, by the meaning of layers. *)
RECURSIVE CellAt(_, _)
CellAt(st, a) ==
  LET top == Last(st)
      p   == a - top.area.start
      hit == Within(top.area, a)
  IN  IF hit /\ as_opaque(top.layer) THEN OpaqueCell(top, a)
      ELSE IF hit /\ p \in DOMAIN top.layer.map THEN top.layer.map[p]
      ELSE CellAt(Front(st), a)

(***************************************************************************)
(* Reading is exact: after any sequence of cut, seek and next a reader of  *)
(* Region::iter has left the cells of its window and no others, each one   *)
(* the cell of the topmost layer that says something about its address.    *)
(***************************************************************************)
ReaderExact ==
  reader = "read" => collect(it) = [i \in 1..Left |-> CellAt(stack, window[1] + i - 1)]

(***************************************************************************)
(* The assertions of Region::iter fail for one reason: an opaque layer     *)
(* that is longer than its area, which cover accepts, wherever it is on    *)
(* the stack.  No region loaded from an ELF or PE file has one.            *)
(***************************************************************************)
PanicsIfTooLong ==
  /\ reader = "panics" => format \in {"api", "mach"} /\ \E i \in DOMAIN stack : TooLong(stack[i])
  /\ reader = "read" => \A i \in DOMAIN stack : ~TooLong(stack[i])
=============================================================================
