------------------------------- MODULE Region -------------------------------
(***************************************************************************)
(* core/src/region.rs: a region is a stack of layers over one address      *)
(* space.  The loaders of core/src/loader.rs put one layer on it for each  *)
(* segment of a file; flatten tells which layer is on top where.           *)
(***************************************************************************)
EXTENDS Layer

CONSTANTS
  Size,        \* cells of the region
  Formats,     \* "elf", "mach", "pe", or "api" for layers put on directly
  Segments,    \* segments a file may have; no end wraps around the word
  Slack,       \* by how much an opaque layer may miss the size of its area
  Maps,        \* sparse layers: position -> whether a byte is written there
  MaxLayers    \* bound: layers that are put on the region

ASSUME RegionAssumption ==
  /\ Size \in Nat \ {0} /\ MaxLayers \in Nat
  /\ Slack \subseteq Int
  /\ Formats \subseteq {"api", "elf", "mach", "pe"}
  /\ \A s \in Segments : s.vaddr \in Nat /\ s.memsz \in Nat /\ s.filesz \in Nat

VARIABLES
  format,    \* what is loaded, fixed from the start
  segments,  \* segments loaded so far
  stack,     \* Region::stack, bottom first
  pieces,    \* flatten: the uncovered parts of the layers it has added
  added,     \* flatten: how many those are
  pc

vars == <<format, segments, stack, pieces, added, pc>>

Bound(start, end) == [start |-> start, end |-> end]
Entry(area, layer) == [area |-> area, layer |-> layer]

(* n bytes of the k-th layer or segment *)
Bytes(n, k) == [i \in 1..n |-> <<k, i - 1>>]

(* Region::new; the API may start from a buffer, the loaders do not. *)
Init ==
  /\ format \in Formats
  /\ segments = <<>>
  /\ stack \in {<<Entry(Bound(0, Size), l)>> :
                  l \in {OpaqueUndefined(Size)} \cup
                        (IF format = "api" THEN {OpaqueDefined(Bytes(Size, 0))} ELSE {})}
  /\ pieces = {} /\ added = 0
  /\ pc = "cover"

(* Region::cover without the test of the layer's length. *)
cover_AnyLength(b, l) == b.end <= stack[1].area.end

cover(b, l) ==
  /\ b.end <= stack[1].area.end
  /\ as_opaque(l) => b.end - b.start <= OpaqueLen(l)

Covered(b, l) == IF cover(b, l) THEN Append(stack, Entry(b, l)) ELSE stack

Layers(b, k) ==
  LET lens == {n \in {b.end - b.start + d : d \in Slack} : n >= 0}
  IN  {OpaqueUndefined(n) : n \in lens} \cup {OpaqueDefined(Bytes(n, k)) : n \in lens}
        \cup {SparseLayer([p \in DOMAIN m |-> IF m[p] THEN <<k, p>> ELSE Undef]) : m \in Maps}

Cover ==
  /\ pc = "cover" /\ format = "api" /\ Len(stack) <= MaxLayers
  /\ \E start \in 0..Size : \E end \in start..Size + 1 :
       \E l \in Layers(Bound(start, end), Len(stack)) :
         stack' = Covered(Bound(start, end), l)
  /\ UNCHANGED <<format, segments, pieces, added, pc>>
-----------------------------------------------------------------------------
Load(f, s) ==
  /\ pc = "cover" /\ format = f /\ Len(segments) < MaxLayers
  /\ s \in Segments
  /\ segments' = Append(segments, s)
  /\ UNCHANGED <<format, pieces, added>>

FileBytes(s) == OpaqueDefined(Bytes(s.filesz, Len(segments) + 1))

(* load_elf maps the bytes of the file, whatever the size in memory. *)
LoadElf_Memsz(s) ==
  /\ Load("elf", s)
  /\ IF s.inFile
     THEN /\ stack' = Covered(Bound(s.vaddr, s.vaddr + s.memsz), FileBytes(s))
          /\ UNCHANGED pc
     ELSE pc' = "refused" /\ UNCHANGED stack

LoadElf(s) ==
  /\ Load("elf", s)
  /\ IF s.inFile
     THEN /\ stack' = Covered(Bound(s.vaddr, s.vaddr + s.filesz), FileBytes(s))
          /\ UNCHANGED pc
     ELSE pc' = "refused" /\ UNCHANGED stack

(* load_mach maps the size in memory and ignores that cover may refuse. *)
LoadMach(s) ==
  /\ Load("mach", s)
  /\ IF s.inFile
     THEN /\ stack' = Covered(Bound(s.vaddr, s.vaddr + s.memsz), FileBytes(s))
          /\ UNCHANGED pc
     ELSE pc' = "refused" /\ UNCHANGED stack

(* load_pe: a section without bytes is undefined, one whose bytes are not  *)
(* in the file is empty; a section outside the region is an error.         *)
LoadPe(s) ==
  LET layer == CASE s.filesz = 0 -> OpaqueUndefined(s.memsz)
                 [] s.filesz > 0 /\ s.inFile -> FileBytes(s)
                 [] OTHER -> OpaqueUndefined(0)
      b     == Bound(s.vaddr, s.vaddr + OpaqueLen(layer))
  IN  /\ Load("pe", s)
      /\ stack' = Covered(b, layer)
      /\ pc' = IF cover(b, layer) THEN pc ELSE "refused"
-----------------------------------------------------------------------------
Piece(start, end, l) == [start |-> start, end |-> end, layer |-> l]

(* The part of x that is below the area a, and the part above. *)
Before(a, x) == IF x.start < a.start THEN {Piece(x.start, a.start, x.layer)} ELSE {}
After(a, x) == IF a.end < x.end THEN {Piece(a.end, x.end, x.layer)} ELSE {}

(* What is left of x under a, when the middle is not considered. *)
Uncovered_OneSide(a, x) ==
  CASE x.start >= a.start /\ x.end <= a.end -> {}
    [] x.start >= a.end \/ x.end <= a.start -> {x}
    [] OTHER -> IF x.start > a.start /\ x.end >= a.end THEN After(a, x) ELSE Before(a, x)

(* Region::add: what is left of x under a. *)
Uncovered(a, x) ==
  IF x.start >= a.start /\ x.end <= a.end THEN {}
  ELSE IF x.start >= a.end \/ x.end <= a.start THEN {x}
  ELSE IF x.start > a.start /\ x.end >= a.end THEN After(a, x)
  ELSE IF a.start > x.start /\ a.end >= x.end THEN Before(a, x)
  ELSE Before(a, x) \cup After(a, x)

Add(a, v) == (UNION {Uncovered(a, x) : x \in v}) \cup {a}

(* Region::flatten, a step for each pass of its loop.  The vector of parts *)
(* is a set: it is sorted by start in the end, and parts that have cells   *)
(* do not start at the same one.  A layer is named by its place on the     *)
(* stack.                                                                  *)
Flatten ==
  /\ pc = "cover"
  /\ pieces' = {} /\ added' = 0 /\ pc' = "flatten"
  /\ UNCHANGED <<format, segments, stack>>

FlattenLayer ==
  /\ pc = "flatten" /\ added < Len(stack)
  /\ LET area == stack[added + 1].area
     IN  pieces' = Add(Piece(area.start, area.end, added + 1), pieces)
  /\ added' = added + 1
  /\ pc' = IF added' = Len(stack) THEN "flattened" ELSE pc
  /\ UNCHANGED <<format, segments, stack>>

Next ==
  \/ Cover
  \/ \E s \in Segments : LoadElf(s) \/ LoadMach(s) \/ LoadPe(s)
  \/ Flatten \/ FlattenLayer

Spec == Init /\ [][Next]_vars
-----------------------------------------------------------------------------
Within(area, a) == area.start <= a /\ a < area.end

(* The topmost layer that covers address a *)
IsTop(i, a) ==
  /\ i \in 1..Len(stack) /\ Within(stack[i].area, a)
  /\ \A j \in 1..Len(stack) : Within(stack[j].area, a) => j <= i

(* A layer that is longer than its area; cover accepts it. *)
TooLong(e) == as_opaque(e.layer) /\ OpaqueLen(e.layer) > e.area.end - e.area.start

(***************************************************************************)
(* Region::flatten partitions the region: every address is in one part and *)
(* no other, the part names the topmost layer there, and a part is empty   *)
(* only if its layer covers nothing.                                       *)
(***************************************************************************)
FlattenExact ==
  pc = "flattened" =>
    /\ \A a \in 0..Size - 1 :
         \E x \in pieces : /\ Within(x, a) /\ IsTop(x.layer, a)
                           /\ \A y \in pieces : Within(y, a) => y = x
    /\ \A x \in pieces :
         x.start >= x.end => stack[x.layer].area.start >= stack[x.layer].area.end

(* A region loaded from an ELF or PE file has no layer longer than its     *)
(* area, the one thing that makes Region::iter fail its assertions.        *)
LoadedFits == format \in {"elf", "pe"} => \A i \in 1..Len(stack) : ~TooLong(stack[i])

(* What a segment says about address a: a byte, undefined or nothing. *)
Says(k, a) ==
  LET s == segments[k]
      p == a - s.vaddr
      inside(n) == 0 <= p /\ p < n /\ s.vaddr + n <= Size
  IN  CASE format = "elf"  -> IF inside(s.filesz) THEN {<<k, p>>} ELSE {}
        [] format = "mach" -> IF inside(s.memsz) /\ s.memsz <= s.filesz THEN {<<k, p>>} ELSE {}
        [] format = "pe"   -> IF s.filesz = 0 THEN IF inside(s.memsz) THEN {Undef} ELSE {}
                              ELSE IF inside(s.filesz) /\ s.inFile THEN {<<k, p>>} ELSE {}

IsLastToSay(k, a) ==
  /\ k \in 1..Len(segments) /\ Says(k, a) # {}
  /\ \A j \in 1..Len(segments) : Says(j, a) # {} => j <= k

(* The cell of an opaque layer at address a *)
OpaqueCell(e, a) ==
  IF e.layer.kind = "Undefined" THEN Undef ELSE e.layer.buf[a - e.area.start + 1]

(* The topmost layer at an address holds what the last segment says. *)
ImageAt(a) ==
  \E i \in 1..Len(stack) :
    /\ IsTop(i, a) /\ as_opaque(stack[i].layer)
    /\ \/ /\ \A k \in 1..Len(segments) : Says(k, a) = {}
          /\ OpaqueCell(stack[i], a) = Undef
       \/ \E k \in 1..Len(segments) : IsLastToSay(k, a) /\ OpaqueCell(stack[i], a) \in Says(k, a)

(***************************************************************************)
(* What is disassembled is what the file says: the topmost layer at an     *)
(* address holds the byte of the last segment loaded there, and the cell   *)
(* is undefined if there is none.  A segment of an ELF file counts with    *)
(* its bytes in the file, a section of a PE file too or, if it has none,   *)
(* as undefined cells; a segment of a Mach-O file counts with its size in  *)
(* memory, and is left out if the file has fewer bytes.                    *)
(***************************************************************************)
LoadedImage == format # "api" /\ pc # "refused" => \A a \in 0..Size - 1 : ImageAt(a)
=============================================================================
