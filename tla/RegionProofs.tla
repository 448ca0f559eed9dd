---------------------------- MODULE RegionProofs ----------------------------
(***************************************************************************)
(* Proofs about regions: what flatten returns, what the loaders put where, *)
(* and that a region loaded from an ELF or PE file can be read.            *)
(***************************************************************************)
EXTENDS Region, TLAPS, SequenceTheorems

IsSequence(s) == \E S : s \in Seq(S)

IsArea(b) == b.start \in Nat /\ b.end \in Nat /\ b.start <= b.end

(* A stack has the whole region at its bottom and nothing reaches over it. *)
StackInv ==
  /\ IsSequence(stack) /\ Len(stack) > 0
  /\ stack[1].area = Bound(0, Size)
  /\ \A i \in 1..Len(stack) : IsArea(stack[i].area) /\ stack[i].area.end <= Size

(* What flatten has after some of its passes: parts of the layers it has   *)
(* added that do not overlap, where no later one of them is, and that      *)
(* leave nothing out.                                                      *)
PiecesInv ==
  /\ added \in 0..Len(stack)
  /\ pc = "flattened" => added = Len(stack)
  /\ \A x \in pieces :
       /\ IsArea(x) /\ x.layer \in 1..added
       /\ stack[x.layer].area.start <= x.start /\ x.end <= stack[x.layer].area.end
       /\ x.start = x.end => stack[x.layer].area.start = stack[x.layer].area.end
  /\ \A x \in pieces : \A c \in Nat : \A j \in 1..added :
       Within(x, c) /\ Within(stack[j].area, c) => j <= x.layer
  /\ \A c \in Nat : \A j \in 1..added :
       Within(stack[j].area, c) => \E x \in pieces : Within(x, c)
  /\ \A x \in pieces : \A y \in pieces : \A c \in Nat :
       Within(x, c) /\ Within(y, c) => x = y

(* Before flatten there are no parts. *)
PcInv ==
  /\ pc \in {"cover", "refused", "flatten", "flattened"}
  /\ pc \in {"cover", "refused"} => pieces = {} /\ added = 0

(* A sequence with one more element. *)
LEMMA AppendFacts ==
  ASSUME NEW s, IsSequence(s), NEW e
  PROVE  /\ IsSequence(Append(s, e))
         /\ Len(s) \in Nat /\ Len(Append(s, e)) = Len(s) + 1
         /\ \A i \in 1..Len(s) : Append(s, e)[i] = s[i]
         /\ Append(s, e)[Len(s) + 1] = e
<1>1. PICK S : s \in Seq(S)
  BY Zenon DEF IsSequence
<1>2. s \in Seq(S \cup {e})
  BY <1>1, SeqMonotonic, Zenon
<1>3. Append(s, e) \in Seq(S \cup {e})
  BY <1>2, SMTT(60)
<1>4. /\ Len(s) \in Nat /\ Len(Append(s, e)) = Len(s) + 1
      /\ \A i \in 1..Len(s) : Append(s, e)[i] = s[i]
      /\ Append(s, e)[Len(s) + 1] = e
  BY <1>2, SMTT(60)
<1> QED BY <1>3, <1>4, Zenon DEF IsSequence

(* Region::add leaves of a part what the new area does not cover, in parts *)
(* of the same layer that do not overlap and are not empty.                *)
LEMMA UncoveredFacts ==
  ASSUME NEW a, NEW x, IsArea(a), IsArea(x)
  PROVE  /\ \A y \in Uncovered(a, x) :
              /\ IsArea(y) /\ y.layer = x.layer /\ x.start <= y.start /\ y.end <= x.end
              /\ y.start = y.end => y = x
              /\ \A c \in Nat : Within(y, c) => Within(x, c) /\ ~Within(a, c)
         /\ \A c \in Nat : Within(x, c) /\ ~Within(a, c) =>
              \E y \in Uncovered(a, x) : Within(y, c)
         /\ \A y \in Uncovered(a, x) : \A z \in Uncovered(a, x) : \A c \in Nat :
              Within(y, c) /\ Within(z, c) => y = z
<1> DEFINE b == Piece(x.start, a.start, x.layer)
           t == Piece(a.end, x.end, x.layer)
<1>1. /\ b.start = x.start /\ b.end = a.start /\ b.layer = x.layer
      /\ t.start = a.end /\ t.end = x.end /\ t.layer = x.layer
  BY Zenon DEF Piece
<1>2. /\ a.start \in Nat /\ a.end \in Nat /\ a.start <= a.end
      /\ x.start \in Nat /\ x.end \in Nat /\ x.start <= x.end
  BY Zenon DEF IsArea
<1>3. /\ Before(a, x) = (IF x.start < a.start THEN {b} ELSE {})
      /\ After(a, x) = (IF a.end < x.end THEN {t} ELSE {})
  BY Zenon DEF Before, After
<1> HIDE DEF b, t
<1>4. CASE x.start >= a.start /\ x.end <= a.end
  <2>1. Uncovered(a, x) = {}
    BY <1>4, Zenon DEF Uncovered
  <2> QED BY <1>2, <1>4, <2>1, SMTT(60) DEF Within
<1>5. CASE ~(x.start >= a.start /\ x.end <= a.end) /\ (x.start >= a.end \/ x.end <= a.start)
  <2>1. Uncovered(a, x) = {x}
    BY <1>5, Zenon DEF Uncovered
  <2> QED BY <1>2, <1>5, <2>1, SMTT(60) DEF Within, IsArea
<1>6. CASE ~(x.start >= a.start /\ x.end <= a.end) /\ ~(x.start >= a.end \/ x.end <= a.start)
  <2>1. Uncovered(a, x) = (IF x.start < a.start THEN {b} ELSE {}) \cup (IF a.end < x.end THEN {t} ELSE {})
    BY <1>2, <1>3, <1>6, SMTT(60) DEF Uncovered
  <2>2. \A y : y \in Uncovered(a, x) <=> (y = b /\ x.start < a.start) \/ (y = t /\ a.end < x.end)
    BY <2>1, Zenon
  <2> QED BY <1>1, <1>2, <1>6, <2>2, SMTT(60) DEF Within, IsArea
<1> QED BY <1>4, <1>5, <1>6, Zenon

(* Region::add returns the new area and what is left of the others.        *)
LEMMA AddFacts ==
  ASSUME NEW a, NEW v
  PROVE  /\ \A y \in Add(a, v) : y = a \/ \E x \in v : y \in Uncovered(a, x)
         /\ a \in Add(a, v) /\ \A x \in v : Uncovered(a, x) \subseteq Add(a, v)
<1> DEFINE U == {Uncovered(a, x) : x \in v}
<1>1. Add(a, v) = (UNION U) \cup {a}
  BY Zenon DEF Add
<1>2. \A w \in U : \E x \in v : w = Uncovered(a, x)
  BY Zenon
<1>3. \A x \in v : Uncovered(a, x) \in U
  BY Zenon
<1> HIDE DEF U
<1>4. \A y \in Add(a, v) : y = a \/ \E w \in U : y \in w
  BY <1>1, SMTT(60)
<1>5. a \in Add(a, v) /\ \A w \in U : \A y \in w : y \in Add(a, v)
  BY <1>1, SMTT(60)
<1>6. \A y \in Add(a, v) : y = a \/ \E x \in v : y \in Uncovered(a, x)
  BY <1>2, <1>4, Zenon
<1>7. \A x \in v : Uncovered(a, x) \subseteq Add(a, v)
  BY <1>3, <1>5, SMTT(60)
<1> QED BY <1>5, <1>6, <1>7, Zenon

(* Region::cover puts a layer on the stack, inside the region, or leaves   *)
(* the stack alone.                                                        *)
LEMMA CoveredFacts ==
  ASSUME StackInv, NEW b, NEW l, IsArea(b), stack' = Covered(b, l)
  PROVE  /\ StackInv'
         /\ cover(b, l) <=> b.end <= Size /\ (as_opaque(l) => b.end - b.start <= OpaqueLen(l))
         /\ ~cover(b, l) => stack' = stack
         /\ cover(b, l) =>
              /\ Len(stack) \in Nat /\ Len(stack') = Len(stack) + 1
              /\ \A i \in 1..Len(stack) : stack'[i] = stack[i]
              /\ stack'[Len(stack) + 1] = Entry(b, l)
<1>1. cover(b, l) <=> b.end <= Size /\ (as_opaque(l) => b.end - b.start <= OpaqueLen(l))
  BY SMTT(60) DEF StackInv, cover, Bound
<1>2. CASE ~cover(b, l)
  <2>1. stack' = stack
    BY <1>2, Zenon DEF Covered
  <2> QED BY <1>1, <1>2, <2>1, Zenon DEF StackInv, IsSequence
<1>3. CASE cover(b, l)
  <2>1. stack' = Append(stack, Entry(b, l))
    BY <1>3, Zenon DEF Covered
  <2>2. /\ IsSequence(stack') /\ Len(stack) \in Nat /\ Len(stack') = Len(stack) + 1
        /\ \A i \in 1..Len(stack) : stack'[i] = stack[i]
        /\ stack'[Len(stack) + 1] = Entry(b, l)
    BY <2>1, AppendFacts, SMTT(60) DEF StackInv
  <2>3. Entry(b, l).area = b /\ b.end <= Size
    BY <1>1, <1>3, Zenon DEF Entry
  <2>4. Len(stack) > 0 /\ stack[1].area = Bound(0, Size)
        /\ \A i \in 1..Len(stack) : IsArea(stack[i].area) /\ stack[i].area.end <= Size
    BY Zenon DEF StackInv
  <2>5. \A i \in 1..Len(stack') : IsArea(stack'[i].area) /\ stack'[i].area.end <= Size
    <3> TAKE i \in 1..Len(stack')
    <3>1. i \in 1..Len(stack) \/ i = Len(stack) + 1
      BY <2>2, SMTT(60)
    <3> QED BY <2>2, <2>3, <2>4, <3>1, Zenon
  <2>6. Len(stack') > 0 /\ stack'[1].area = Bound(0, Size)
    <3>1. Len(stack') > 0 /\ 1 \in 1..Len(stack)
      BY <2>2, <2>4, SMTT(60)
    <3> QED BY <2>2, <2>4, <3>1, Zenon
  <2>7. StackInv'
    BY <2>2, <2>5, <2>6, Zenon DEF StackInv, IsSequence
  <2> QED BY <1>1, <1>3, <2>2, <2>7, Zenon
<1> QED BY <1>2, <1>3, Zenon

(* A pass of flatten keeps the parts apart and leaves nothing out.         *)
LEMMA FlattenLayerKeepsPieces ==
  ASSUME StackInv, PiecesInv, FlattenLayer
  PROVE  PiecesInv'
<1> DEFINE n == added + 1
           p == Piece(stack[n].area.start, stack[n].area.end, n)
<1>1. /\ added < Len(stack) /\ added \in Nat /\ Len(stack) \in Nat /\ n \in 1..Len(stack)
  <2>1. Len(stack) \in Nat
    BY LenProperties, Zenon DEF StackInv, IsSequence
  <2> QED BY <2>1, SMTT(60) DEF FlattenLayer, PiecesInv
<1>2. stack' = stack /\ added' = n /\ pieces' = Add(p, pieces)
  BY Zenon DEF FlattenLayer
<1>3. /\ p.start = stack[n].area.start /\ p.end = stack[n].area.end /\ p.layer = n
      /\ IsArea(stack[n].area)
  BY <1>1, Zenon DEF Piece, StackInv
<1>4. IsArea(p)
  BY <1>3, Zenon DEF IsArea
<1>5. \A c : Within(p, c) <=> Within(stack[n].area, c)
  BY <1>3, Zenon DEF Within
<1> HIDE DEF p
<1>6. \A y \in pieces' : y = p \/ \E x \in pieces : y \in Uncovered(p, x)
  BY <1>2, AddFacts, Zenon
<1>7. /\ p \in pieces' /\ \A x \in pieces : Uncovered(p, x) \subseteq pieces'
  BY <1>2, AddFacts, Zenon
<1>8. n \in 1..n /\ \A j \in 1..n : j = n \/ j \in 1..added
  BY <1>1, SMTT(60)
<1>9. added' \in 0..Len(stack') /\ (pc' = "flattened" => added' = Len(stack'))
  <2>1. added' \in 0..Len(stack')
    BY <1>1, <1>2, SMTT(60)
  <2> QED BY <2>1, Zenon DEF FlattenLayer
<1>10. \A y \in pieces' :
         /\ IsArea(y) /\ y.layer \in 1..n
         /\ stack[y.layer].area.start <= y.start /\ y.end <= stack[y.layer].area.end
         /\ y.start = y.end => stack[y.layer].area.start = stack[y.layer].area.end
  <2> TAKE y \in pieces'
  <2>1. CASE y = p
    BY <1>3, <1>4, <1>8, <2>1, SMTT(60) DEF IsArea
  <2>2. ASSUME NEW x \in pieces, y \in Uncovered(p, x)
        PROVE  /\ IsArea(y) /\ y.layer \in 1..n
               /\ stack[y.layer].area.start <= y.start /\ y.end <= stack[y.layer].area.end
               /\ y.start = y.end => stack[y.layer].area.start = stack[y.layer].area.end
    <3>1. /\ IsArea(x) /\ x.layer \in 1..added
          /\ stack[x.layer].area.start <= x.start /\ x.end <= stack[x.layer].area.end
          /\ x.start = x.end => stack[x.layer].area.start = stack[x.layer].area.end
      BY Zenon DEF PiecesInv
    <3>2. /\ IsArea(y) /\ y.layer = x.layer /\ x.start <= y.start /\ y.end <= x.end
          /\ y.start = y.end => y = x
      BY <1>4, <2>2, <3>1, UncoveredFacts, SMTT(60)
    <3>3. x.layer \in 1..Len(stack) /\ x.layer \in 1..n
      BY <1>1, <3>1, SMTT(60)
    <3>4. IsArea(stack[x.layer].area)
      BY <3>3, Zenon DEF StackInv
    <3> QED BY <3>1, <3>2, <3>3, <3>4, SMTT(60) DEF IsArea
  <2> QED BY <1>6, <2>1, <2>2, Zenon
<1>11. \A y \in pieces' : \A c \in Nat : \A j \in 1..n :
         Within(y, c) /\ Within(stack[j].area, c) => j <= y.layer
  <2> SUFFICES ASSUME NEW y \in pieces', NEW c \in Nat, NEW j \in 1..n,
                      Within(y, c), Within(stack[j].area, c)
               PROVE  j <= y.layer
    BY Zenon
  <2>1. CASE y = p
    BY <1>1, <1>3, <2>1, SMTT(60)
  <2>2. ASSUME NEW x \in pieces, y \in Uncovered(p, x)
        PROVE  j <= y.layer
    <3>1. IsArea(x)
      BY Zenon DEF PiecesInv
    <3>2. y.layer = x.layer /\ Within(x, c) /\ ~Within(p, c)
      BY <1>4, <2>2, <3>1, UncoveredFacts, SMTT(60)
    <3>3. j \in 1..added
      BY <1>5, <1>8, <3>2, Zenon
    <3> QED BY <3>2, <3>3, Zenon DEF PiecesInv
  <2> QED BY <1>6, <2>1, <2>2, Zenon
<1>12. \A c \in Nat : \A j \in 1..n : Within(stack[j].area, c) => \E y \in pieces' : Within(y, c)
  <2> SUFFICES ASSUME NEW c \in Nat, NEW j \in 1..n, Within(stack[j].area, c), ~Within(p, c)
               PROVE  \E y \in pieces' : Within(y, c)
    BY <1>7, Zenon
  <2>1. j \in 1..added
    BY <1>5, <1>8, Zenon
  <2>2. PICK x \in pieces : Within(x, c) /\ IsArea(x)
    BY <2>1, Zenon DEF PiecesInv
  <2>3. \E y \in Uncovered(p, x) : Within(y, c)
    BY <1>4, <2>2, UncoveredFacts, Zenon
  <2> QED BY <1>7, <2>3, Zenon
<1>13. \A y \in pieces' : \A z \in pieces' : \A c \in Nat : Within(y, c) /\ Within(z, c) => y = z
  <2> SUFFICES ASSUME NEW y \in pieces', NEW z \in pieces', NEW c \in Nat, Within(y, c), Within(z, c)
               PROVE  y = z
    BY Zenon
  <2>1. \A x \in pieces : IsArea(x)
    BY Zenon DEF PiecesInv
  <2>2. \A x \in pieces : \A w \in Uncovered(p, x) : Within(w, c) => Within(x, c) /\ ~Within(p, c)
    BY <1>4, <2>1, UncoveredFacts, Zenon
  <2>3. CASE y = p \/ z = p
    BY <1>6, <2>2, <2>3, Zenon
  <2>4. ASSUME NEW x \in pieces, y \in Uncovered(p, x), NEW w \in pieces, z \in Uncovered(p, w)
        PROVE  y = z
    <3>1. x = w
      BY <2>2, <2>4, Zenon DEF PiecesInv
    <3> QED BY <1>4, <2>1, <2>4, <3>1, UncoveredFacts, SMTT(60)
  <2> QED BY <1>6, <2>3, <2>4, Zenon
<1> HIDE DEF n
<1> QED BY <1>2, <1>9, <1>10, <1>11, <1>12, <1>13, Zenon DEF PiecesInv, Within

(* Putting a layer on the stack makes it the topmost where it is and       *)
(* changes nothing elsewhere.                                              *)
LEMMA TopAfterCover ==
  ASSUME StackInv, NEW b, NEW l, IsArea(b), stack' = Covered(b, l), NEW a
  PROVE  /\ cover(b, l) /\ Within(b, a) =>
              \A n : n = Len(stack) + 1 =>
                n \in 1..Len(stack') /\ IsTop(n, a)' /\ stack'[n] = Entry(b, l)
         /\ ~(cover(b, l) /\ Within(b, a)) =>
              \A i \in 1..Len(stack) : IsTop(i, a) => i \in 1..Len(stack') /\ IsTop(i, a)' /\ stack'[i] = stack[i]
<1>1. /\ ~cover(b, l) => stack' = stack
      /\ cover(b, l) =>
           /\ Len(stack) \in Nat /\ Len(stack') = Len(stack) + 1
           /\ \A i \in 1..Len(stack) : stack'[i] = stack[i]
           /\ stack'[Len(stack) + 1] = Entry(b, l)
  BY CoveredFacts, Zenon
<1>2. Entry(b, l).area = b
  BY Zenon DEF Entry
<1>3. CASE ~cover(b, l)
  BY <1>1, <1>3, Zenon DEF IsTop
<1>4. CASE cover(b, l)
  BY <1>1, <1>2, <1>4, SMTT(60) DEF IsTop
<1> QED BY <1>3, <1>4, Zenon

(* A loader that puts on the stack what the next segment says, or leaves   *)
(* the segment out, keeps the image right.                                 *)
LEMMA LoadKeepsImage ==
  ASSUME StackInv, IsSequence(segments), NEW s, NEW b, NEW l, NEW n, NEW a \in 0..Size - 1,
         IsArea(b), as_opaque(l), n = Len(segments) + 1,
         segments' = Append(segments, s), stack' = Covered(b, l), format' = format,
         cover(b, l) /\ Within(b, a) => OpaqueCell(Entry(b, l), a) \in Says(n, a)',
         ~(cover(b, l) /\ Within(b, a)) => Says(n, a)' = {},
         ImageAt(a)
  PROVE  ImageAt(a)'
<1>1. /\ Len(segments) \in Nat /\ Len(segments') = n
      /\ \A k \in 1..Len(segments) : segments'[k] = segments[k]
  BY AppendFacts, Zenon
<1>2. \A k \in 1..Len(segments) : Says(k, a)' = Says(k, a)
  BY <1>1, Zenon DEF Says
<1>3. /\ n \in 1..Len(segments') /\ \A k \in 1..Len(segments') : k <= n /\ (k = n \/ k \in 1..Len(segments))
      /\ \A k \in 1..Len(segments) : k \in 1..Len(segments')
  BY <1>1, SMTT(60)
<1>4. CASE cover(b, l) /\ Within(b, a)
  <2>1. PICK i : i = Len(stack) + 1
    BY Zenon
  <2>2. i \in 1..Len(stack') /\ IsTop(i, a)' /\ stack'[i] = Entry(b, l)
    BY <1>4, <2>1, TopAfterCover, Zenon
  <2>3. as_opaque(stack'[i].layer)
    <3>1. Entry(b, l).layer = l
      BY Zenon DEF Entry
    <3> QED BY <2>2, <3>1, Zenon
  <2>4. OpaqueCell(stack'[i], a) \in Says(n, a)'
    BY <1>4, <2>2, Zenon
  <2>5. IsLastToSay(n, a)'
    BY <1>3, <2>4, Zenon DEF IsLastToSay
  <2> QED BY <1>3, <2>2, <2>3, <2>4, <2>5, Zenon DEF ImageAt, as_opaque, OpaqueCell
<1>5. CASE ~(cover(b, l) /\ Within(b, a))
  <2>1. PICK i \in 1..Len(stack) :
          /\ IsTop(i, a) /\ as_opaque(stack[i].layer)
          /\ \/ /\ \A k \in 1..Len(segments) : Says(k, a) = {}
                /\ OpaqueCell(stack[i], a) = Undef
             \/ \E k \in 1..Len(segments) : IsLastToSay(k, a) /\ OpaqueCell(stack[i], a) \in Says(k, a)
    BY Zenon DEF ImageAt
  <2>2. i \in 1..Len(stack') /\ IsTop(i, a)' /\ stack'[i] = stack[i]
    BY <1>5, <2>1, TopAfterCover, Zenon
  <2>3. Says(n, a)' = {}
    BY <1>5, Zenon
  <2>4. CASE /\ \A k \in 1..Len(segments) : Says(k, a) = {}
             /\ OpaqueCell(stack[i], a) = Undef
    <3>1. \A k \in 1..Len(segments') : Says(k, a)' = {}
      BY <1>2, <1>3, <2>3, <2>4, Zenon
    <3> QED BY <2>1, <2>2, <2>4, <3>1, Zenon DEF ImageAt, as_opaque, OpaqueCell, Undef
  <2>5. ASSUME NEW k \in 1..Len(segments), IsLastToSay(k, a), OpaqueCell(stack[i], a) \in Says(k, a)
        PROVE  ImageAt(a)'
    <3>1. \A j \in 1..Len(segments') : Says(j, a)' # {} => j <= k
      BY <1>2, <1>3, <2>3, <2>5, Zenon DEF IsLastToSay
    <3>2. IsLastToSay(k, a)' /\ k \in 1..Len(segments')
      BY <1>2, <1>3, <2>5, <3>1, Zenon DEF IsLastToSay
    <3>3. OpaqueCell(stack'[i], a) \in Says(k, a)'
      BY <1>2, <2>2, <2>5, Zenon
    <3> QED BY <2>1, <2>2, <3>2, <3>3, Zenon DEF ImageAt, as_opaque, OpaqueCell
  <2> QED BY <2>1, <2>4, <2>5, Zenon
<1> QED BY <1>4, <1>5, Zenon

(* The bytes of a segment, one for each of its addresses.                  *)
LEMMA FileLayer ==
  ASSUME NEW k, NEW n \in Nat, NEW l, l = OpaqueDefined(Bytes(n, k))
  PROVE  /\ as_opaque(l) /\ OpaqueLen(l) = n
         /\ \A v \in Nat, e \in Nat, a \in Nat :
              v <= a /\ a < v + n => OpaqueCell(Entry(Bound(v, e), l), a) = <<k, a - v>>
<1>1. l.kind = "Defined" /\ l.buf = Bytes(n, k)
  BY Zenon DEF OpaqueDefined
<1>2. Len(Bytes(n, k)) = n /\ \A i \in 1..n : Bytes(n, k)[i] = <<k, i - 1>>
  BY SMTT(60) DEF Bytes
<1>3. as_opaque(l) /\ OpaqueLen(l) = n
  BY <1>1, <1>2, SMTT(60) DEF as_opaque, OpaqueLen
<1>4. ASSUME NEW v \in Nat, NEW e \in Nat, NEW a \in Nat, v <= a, a < v + n
      PROVE  OpaqueCell(Entry(Bound(v, e), l), a) = <<k, a - v>>
  <2>1. Entry(Bound(v, e), l).layer = l /\ Entry(Bound(v, e), l).area.start = v
    BY SMTT(60) DEF Entry, Bound
  <2>2. OpaqueCell(Entry(Bound(v, e), l), a) = Bytes(n, k)[a - v + 1]
    BY <1>1, <2>1, SMTT(60) DEF OpaqueCell
  <2>3. a - v + 1 \in 1..n /\ a - v + 1 - 1 = a - v
    BY <1>4, SMTT(60)
  <2> QED BY <1>2, <2>2, <2>3, SMTT(60)
<1> QED BY <1>3, <1>4, Zenon

(* What the three loaders do for a segment they do not refuse.             *)
Loads(s, b, l, n) ==
  /\ IsArea(b) /\ as_opaque(l) /\ n = Len(segments) + 1
  /\ segments' = Append(segments, s) /\ stack' = Covered(b, l) /\ format' = format
  /\ format \in {"elf", "pe"} => OpaqueLen(l) = b.end - b.start
  /\ \A a \in 0..Size - 1 :
       /\ cover(b, l) /\ Within(b, a) => OpaqueCell(Entry(b, l), a) \in Says(n, a)'
       /\ ~(cover(b, l) /\ Within(b, a)) => Says(n, a)' = {}

(* load_elf: the area is as long as the bytes of the segment.              *)
LEMMA LoadElfLoads ==
  ASSUME StackInv, IsSequence(segments), NEW s \in Segments, LoadElf(s), s.inFile
  PROVE  \E b, l, n : Loads(s, b, l, n)
<1>1. PICK n : n = Len(segments) + 1
  BY Zenon
<1>2. PICK l : l = OpaqueDefined(Bytes(s.filesz, n))
  BY Zenon
<1>3. PICK b : b = Bound(s.vaddr, s.vaddr + s.filesz)
  BY Zenon
<1>4. s.vaddr \in Nat /\ s.filesz \in Nat /\ s.memsz \in Nat /\ Size \in Nat
  BY RegionAssumption, SMTT(60)
<1>5. /\ segments' = Append(segments, s) /\ format' = format /\ format = "elf"
      /\ stack' = Covered(b, l)
  BY <1>1, <1>2, <1>3, Zenon DEF LoadElf, Load, FileBytes
<1>6. /\ as_opaque(l) /\ OpaqueLen(l) = s.filesz
      /\ \A v \in Nat, e \in Nat, a \in Nat :
           v <= a /\ a < v + s.filesz => OpaqueCell(Entry(Bound(v, e), l), a) = <<n, a - v>>
  BY <1>2, <1>4, FileLayer, SMTT(60)
<1>7. b.start = s.vaddr /\ b.end = s.vaddr + s.filesz
  BY <1>3, Zenon DEF Bound
<1>8. IsArea(b) /\ OpaqueLen(l) = b.end - b.start
  BY <1>4, <1>6, <1>7, SMTT(60) DEF IsArea
<1>9. cover(b, l) <=> s.vaddr + s.filesz <= Size
  <2>1. cover(b, l) <=> b.end <= Size /\ (as_opaque(l) => b.end - b.start <= OpaqueLen(l))
    BY <1>5, <1>8, CoveredFacts, Zenon
  <2> QED BY <1>4, <1>6, <1>7, <2>1, SMTT(60)
<1>10. segments'[n] = s
  BY <1>1, <1>5, AppendFacts, Zenon
<1>11. ASSUME NEW a \in 0..Size - 1
       PROVE  /\ cover(b, l) /\ Within(b, a) => OpaqueCell(Entry(b, l), a) \in Says(n, a)'
              /\ ~(cover(b, l) /\ Within(b, a)) => Says(n, a)' = {}
  <2>1. Within(b, a) <=> 0 <= a - s.vaddr /\ a - s.vaddr < s.filesz
    BY <1>4, <1>7, SMTT(60) DEF Within
  <2>2. Says(n, a)' = (IF 0 <= a - s.vaddr /\ a - s.vaddr < s.filesz /\ s.vaddr + s.filesz <= Size
                       THEN {<<n, a - s.vaddr>>} ELSE {})
    BY <1>5, <1>10, SMTT(60) DEF Says
  <2>3. Within(b, a) => OpaqueCell(Entry(b, l), a) = <<n, a - s.vaddr>>
    BY <1>3, <1>4, <1>6, <2>1, SMTT(60)
  <2> QED BY <1>9, <2>1, <2>2, <2>3, Zenon
<1> QED BY <1>1, <1>5, <1>6, <1>8, <1>11, Zenon DEF Loads

(* load_mach: the area is as long as the segment in memory.                *)
LEMMA LoadMachLoads ==
  ASSUME StackInv, IsSequence(segments), NEW s \in Segments, LoadMach(s), s.inFile
  PROVE  \E b, l, n : Loads(s, b, l, n)
<1>1. PICK n : n = Len(segments) + 1
  BY Zenon
<1>2. PICK l : l = OpaqueDefined(Bytes(s.filesz, n))
  BY Zenon
<1>3. PICK b : b = Bound(s.vaddr, s.vaddr + s.memsz)
  BY Zenon
<1>4. s.vaddr \in Nat /\ s.filesz \in Nat /\ s.memsz \in Nat /\ Size \in Nat
  BY RegionAssumption, SMTT(60)
<1>5. /\ segments' = Append(segments, s) /\ format' = format /\ format = "mach"
      /\ stack' = Covered(b, l)
  BY <1>1, <1>2, <1>3, Zenon DEF LoadMach, Load, FileBytes
<1>6. /\ as_opaque(l) /\ OpaqueLen(l) = s.filesz
      /\ \A v \in Nat, e \in Nat, a \in Nat :
           v <= a /\ a < v + s.filesz => OpaqueCell(Entry(Bound(v, e), l), a) = <<n, a - v>>
  BY <1>2, <1>4, FileLayer, SMTT(60)
<1>7. b.start = s.vaddr /\ b.end = s.vaddr + s.memsz
  BY <1>3, Zenon DEF Bound
<1>8. IsArea(b)
  BY <1>4, <1>7, SMTT(60) DEF IsArea
<1>9. cover(b, l) <=> s.vaddr + s.memsz <= Size /\ s.memsz <= s.filesz
  <2>1. cover(b, l) <=> b.end <= Size /\ (as_opaque(l) => b.end - b.start <= OpaqueLen(l))
    BY <1>5, <1>8, CoveredFacts, Zenon
  <2> QED BY <1>4, <1>6, <1>7, <2>1, SMTT(60)
<1>10. segments'[n] = s
  BY <1>1, <1>5, AppendFacts, Zenon
<1>11. ASSUME NEW a \in 0..Size - 1
       PROVE  /\ cover(b, l) /\ Within(b, a) => OpaqueCell(Entry(b, l), a) \in Says(n, a)'
              /\ ~(cover(b, l) /\ Within(b, a)) => Says(n, a)' = {}
  <2>1. Within(b, a) <=> 0 <= a - s.vaddr /\ a - s.vaddr < s.memsz
    BY <1>4, <1>7, SMTT(60) DEF Within
  <2>2. Says(n, a)' = (IF /\ 0 <= a - s.vaddr /\ a - s.vaddr < s.memsz /\ s.vaddr + s.memsz <= Size
                          /\ s.memsz <= s.filesz
                       THEN {<<n, a - s.vaddr>>} ELSE {})
    BY <1>5, <1>10, SMTT(60) DEF Says
  <2>3. Within(b, a) /\ s.memsz <= s.filesz => OpaqueCell(Entry(b, l), a) = <<n, a - s.vaddr>>
    BY <1>3, <1>4, <1>6, <2>1, SMTT(60)
  <2> QED BY <1>9, <2>1, <2>2, <2>3, Zenon
<1> QED BY <1>1, <1>5, <1>6, <1>8, <1>11, Zenon DEF Loads

(* An undefined layer has no bytes.                                        *)
LEMMA UndefinedLayer ==
  ASSUME NEW n, NEW l, l = OpaqueUndefined(n)
  PROVE  /\ as_opaque(l) /\ OpaqueLen(l) = n
         /\ \A b, a : OpaqueCell(Entry(b, l), a) = Undef
<1>1. l.kind = "Undefined" /\ l.n = n
  BY Zenon DEF OpaqueUndefined
<1>2. \A b : Entry(b, l).layer = l
  BY Zenon DEF Entry
<1> QED BY <1>1, <1>2, SMTT(60) DEF as_opaque, OpaqueLen, OpaqueCell

(* load_pe: the area is as long as the layer, which is the bytes of the    *)
(* section, undefined or empty.                                            *)
LEMMA LoadPeLoads ==
  ASSUME StackInv, IsSequence(segments), NEW s \in Segments, LoadPe(s)
  PROVE  \E b, l, n : Loads(s, b, l, n)
<1>1. PICK n : n = Len(segments) + 1
  BY Zenon
<1>2. PICK l : l = CASE s.filesz = 0 -> OpaqueUndefined(s.memsz)
                     [] s.filesz > 0 /\ s.inFile -> OpaqueDefined(Bytes(s.filesz, n))
                     [] OTHER -> OpaqueUndefined(0)
  BY Zenon
<1>3. PICK b : b = Bound(s.vaddr, s.vaddr + OpaqueLen(l))
  BY Zenon
<1>4. s.vaddr \in Nat /\ s.filesz \in Nat /\ s.memsz \in Nat /\ Size \in Nat
  BY RegionAssumption, SMTT(60)
<1>5. /\ segments' = Append(segments, s) /\ format' = format /\ format = "pe"
      /\ stack' = Covered(b, l)
  BY <1>1, <1>2, <1>3, Zenon DEF LoadPe, Load, FileBytes
<1>6. /\ s.filesz = 0 => l = OpaqueUndefined(s.memsz)
      /\ s.filesz > 0 /\ s.inFile => l = OpaqueDefined(Bytes(s.filesz, n))
      /\ s.filesz > 0 /\ ~s.inFile => l = OpaqueUndefined(0)
  BY <1>2, <1>4, SMTT(60)
<1>7. /\ as_opaque(l) /\ OpaqueLen(l) \in Nat
      /\ s.filesz = 0 => OpaqueLen(l) = s.memsz
      /\ s.filesz > 0 /\ s.inFile => OpaqueLen(l) = s.filesz
      /\ s.filesz > 0 /\ ~s.inFile => OpaqueLen(l) = 0
  BY <1>4, <1>6, FileLayer, UndefinedLayer, SMTT(60)
<1>8. b.start = s.vaddr /\ b.end = s.vaddr + OpaqueLen(l)
  BY <1>3, Zenon DEF Bound
<1>9. IsArea(b) /\ OpaqueLen(l) = b.end - b.start
  BY <1>4, <1>7, <1>8, SMTT(60) DEF IsArea
<1>10. cover(b, l) <=> s.vaddr + OpaqueLen(l) <= Size
  <2>1. cover(b, l) <=> b.end <= Size /\ (as_opaque(l) => b.end - b.start <= OpaqueLen(l))
    BY <1>5, <1>9, CoveredFacts, Zenon
  <2> QED BY <1>4, <1>7, <1>8, <2>1, SMTT(60)
<1>11. segments'[n] = s
  BY <1>1, <1>5, AppendFacts, Zenon
<1>12. ASSUME NEW a \in 0..Size - 1
       PROVE  /\ cover(b, l) /\ Within(b, a) => OpaqueCell(Entry(b, l), a) \in Says(n, a)'
              /\ ~(cover(b, l) /\ Within(b, a)) => Says(n, a)' = {}
  <2> DEFINE p == a - s.vaddr
  <2>1. Within(b, a) <=> 0 <= p /\ p < OpaqueLen(l)
    BY <1>4, <1>7, <1>8, SMTT(60) DEF Within
  <2>2. Says(n, a)' =
          (IF s.filesz = 0
           THEN IF 0 <= p /\ p < s.memsz /\ s.vaddr + s.memsz <= Size THEN {Undef} ELSE {}
           ELSE IF 0 <= p /\ p < s.filesz /\ s.vaddr + s.filesz <= Size /\ s.inFile
                THEN {<<n, p>>} ELSE {})
    BY <1>5, <1>11, SMTT(60) DEF Says
  <2>3. CASE s.filesz = 0
    <3>1. OpaqueCell(Entry(b, l), a) = Undef /\ OpaqueLen(l) = s.memsz
      BY <1>6, <1>7, <2>3, UndefinedLayer, Zenon
    <3> QED BY <1>10, <2>1, <2>2, <2>3, <3>1, Zenon
  <2>4. CASE s.filesz > 0 /\ s.inFile
    <3>1. OpaqueLen(l) = s.filesz /\ s.filesz # 0
      BY <1>4, <1>7, <2>4, SMTT(60)
    <3>2. Within(b, a) => OpaqueCell(Entry(b, l), a) = <<n, p>>
      <4>1. ASSUME Within(b, a) PROVE s.vaddr <= a /\ a < s.vaddr + s.filesz /\ a \in Nat /\ s.vaddr + s.filesz \in Nat
        BY <1>4, <2>1, <3>1, <4>1, SMTT(60)
      <4> QED BY <1>3, <1>4, <1>6, <2>4, <3>1, <4>1, FileLayer, SMTT(60)
    <3> QED BY <1>10, <2>1, <2>2, <2>4, <3>1, <3>2, Zenon
  <2>5. CASE s.filesz > 0 /\ ~s.inFile
    <3>1. ~Within(b, a) /\ s.filesz # 0
      BY <1>4, <1>7, <2>1, <2>5, SMTT(60)
    <3> QED BY <2>2, <2>5, <3>1, Zenon
  <2> QED BY <1>4, <2>3, <2>4, <2>5, SMTT(60)
<1> QED BY <1>1, <1>5, <1>7, <1>9, <1>12, Zenon DEF Loads

RegionInv ==
  /\ StackInv /\ PcInv /\ PiecesInv
  /\ IsSequence(segments) /\ format \in {"api", "elf", "mach", "pe"}
  /\ LoadedImage /\ LoadedFits

(* A region that was just created is empty of parts and undefined.         *)
LEMMA InitRegionInv ==
  ASSUME Init
  PROVE  RegionInv
<1>1. PICK l : stack = <<Entry(Bound(0, Size), l)>> /\ (format # "api" => l = OpaqueUndefined(Size))
  BY Zenon DEF Init
<1>2. Size \in Nat \ {0} /\ format \in {"api", "elf", "mach", "pe"}
  BY RegionAssumption, Zenon DEF Init
<1>3. Entry(Bound(0, Size), l).area = Bound(0, Size) /\ Entry(Bound(0, Size), l).layer = l
  BY Zenon DEF Entry
<1>4. Bound(0, Size).start = 0 /\ Bound(0, Size).end = Size
  BY Zenon DEF Bound
<1>5. /\ stack \in Seq({Entry(Bound(0, Size), l)}) /\ Len(stack) = 1
      /\ stack[1] = Entry(Bound(0, Size), l)
  BY <1>1, SMTT(60)
<1>6. StackInv
  BY <1>2, <1>3, <1>4, <1>5, SMTT(60) DEF StackInv, IsSequence, IsArea
<1>7. PcInv /\ PiecesInv
  BY <1>5, SMTT(60) DEF Init, PcInv, PiecesInv
<1>8. segments = <<>> /\ IsSequence(segments) /\ Len(segments) = 0
  BY EmptySeq, Zenon DEF Init, IsSequence
<1>9. CASE format # "api"
  <2>1. as_opaque(l) /\ OpaqueLen(l) = Size /\ \A a : OpaqueCell(stack[1], a) = Undef
    BY <1>1, <1>5, <1>9, UndefinedLayer, Zenon
  <2>2. \A a \in 0..Size - 1 : IsTop(1, a)
    BY <1>2, <1>3, <1>4, <1>5, SMTT(60) DEF IsTop, Within
  <2>3. \A a \in 0..Size - 1 : ImageAt(a)
    <3>1. 1 \in 1..Len(stack) /\ 1..Len(segments) = {}
      BY <1>5, <1>8, SMTT(60)
    <3> QED BY <1>3, <1>5, <2>1, <2>2, <3>1, Zenon DEF ImageAt
  <2>4. \A i \in 1..Len(stack) : ~TooLong(stack[i])
    BY <1>2, <1>3, <1>4, <1>5, <2>1, SMTT(60) DEF TooLong
  <2> QED BY <1>2, <1>6, <1>7, <1>8, <2>3, <2>4, Zenon DEF RegionInv, LoadedImage, LoadedFits
<1> QED BY <1>2, <1>6, <1>7, <1>8, <1>9, SMTT(60) DEF RegionInv, LoadedImage, LoadedFits

(* No loader puts a layer on the stack that is longer than its area.       *)
LEMMA LoadKeepsFits ==
  ASSUME StackInv, LoadedFits, NEW s, NEW b, NEW l, NEW n, Loads(s, b, l, n)
  PROVE  LoadedFits'
<1>1. CASE ~cover(b, l)
  <2>1. stack' = stack /\ format' = format
    BY <1>1, CoveredFacts, Zenon DEF Loads
  <2> QED BY <2>1, Zenon DEF LoadedFits, TooLong
<1>2. CASE cover(b, l)
  <2>1. /\ Len(stack) \in Nat /\ Len(stack') = Len(stack) + 1
        /\ \A i \in 1..Len(stack) : stack'[i] = stack[i]
        /\ stack'[Len(stack) + 1] = Entry(b, l)
    BY <1>2, CoveredFacts, Zenon DEF Loads
  <2>2. Entry(b, l).area = b /\ Entry(b, l).layer = l /\ b.start \in Nat /\ b.end \in Nat
    BY Zenon DEF Entry, Loads, IsArea
  <2>3. ASSUME format \in {"elf", "pe"}, NEW i \in 1..Len(stack')
        PROVE  ~TooLong(stack'[i])
    <3>1. CASE i \in 1..Len(stack)
      BY <2>1, <2>3, <3>1, Zenon DEF LoadedFits
    <3>2. CASE i = Len(stack) + 1
      <4>1. stack'[i].layer = l /\ stack'[i].area = b /\ OpaqueLen(l) = b.end - b.start
        BY <2>1, <2>2, <2>3, <3>2, Zenon DEF Loads
      <4> QED BY <2>2, <4>1, SMTT(60) DEF TooLong
    <3> QED BY <2>1, <3>1, <3>2, SMTT(60)
  <2> QED BY <2>3, Zenon DEF LoadedFits, Loads, TooLong
<1> QED BY <1>1, <1>2, Zenon

(* A loader changes neither the parts nor, unless it refuses the file, pc. *)
LEMMA LoadKeepsInv ==
  ASSUME RegionInv, NEW s, NEW b, NEW l, NEW n, Loads(s, b, l, n), pc = "cover",
         pc' \in {"cover", "refused"}, UNCHANGED <<pieces, added>>
  PROVE  RegionInv'
<1>1. StackInv' /\ LoadedFits'
  BY CoveredFacts, LoadKeepsFits, Zenon DEF RegionInv, Loads
<1>2. PcInv'
  BY Zenon DEF RegionInv, PcInv
<1>3. PiecesInv'
  <2>1. pieces' = {} /\ added' = 0 /\ pc' # "flattened"
    BY Zenon DEF RegionInv, PcInv
  <2>2. Len(stack') \in Nat
    BY <1>1, LenProperties, Zenon DEF StackInv, IsSequence
  <2> QED BY <2>1, <2>2, SMTT(60) DEF PiecesInv
<1>4. IsSequence(segments')
  BY AppendFacts, Zenon DEF RegionInv, Loads
<1>5. LoadedImage'
  <2> SUFFICES ASSUME format' # "api", NEW a \in 0..Size - 1
               PROVE  ImageAt(a)'
    BY Zenon DEF LoadedImage
  <2>1. ImageAt(a)
    BY Zenon DEF RegionInv, LoadedImage, Loads
  <2> QED BY <2>1, LoadKeepsImage, Zenon DEF RegionInv, Loads
<1> QED BY <1>1, <1>2, <1>3, <1>4, <1>5, Zenon DEF RegionInv, Loads, IsSequence

(* A step that leaves the stack alone leaves what was said of it.          *)
LEMMA StackUntouched ==
  ASSUME RegionInv, stack' = stack, segments' = segments, format' = format,
         pc = "refused" => pc' = "refused"
  PROVE  StackInv' /\ LoadedFits' /\ LoadedImage'
<1>1. StackInv'
  BY Zenon DEF RegionInv, StackInv
<1>2. LoadedFits'
  BY Zenon DEF RegionInv, LoadedFits
<1>3. ASSUME NEW k, NEW a PROVE Says(k, a)' = Says(k, a)
  BY Zenon DEF Says
<1>4. \A i, a : IsTop(i, a)' <=> IsTop(i, a)
  BY Zenon DEF IsTop
<1>5. \A k, a : IsLastToSay(k, a)' <=> IsLastToSay(k, a)
  BY <1>3, Zenon DEF IsLastToSay
<1>6. ASSUME NEW a, ImageAt(a)
      PROVE  ImageAt(a)'
  <2>1. PICK i \in 1..Len(stack) :
          /\ IsTop(i, a) /\ as_opaque(stack[i].layer)
          /\ \/ /\ \A k \in 1..Len(segments) : Says(k, a) = {}
                /\ OpaqueCell(stack[i], a) = Undef
             \/ \E k \in 1..Len(segments) : IsLastToSay(k, a) /\ OpaqueCell(stack[i], a) \in Says(k, a)
    BY <1>6, Zenon DEF ImageAt
  <2>2. i \in 1..Len(stack') /\ IsTop(i, a)' /\ as_opaque(stack'[i].layer)
    BY <1>4, <2>1, Zenon
  <2>3. \/ /\ \A k \in 1..Len(segments') : Says(k, a)' = {}
           /\ OpaqueCell(stack'[i], a) = Undef
        \/ \E k \in 1..Len(segments') : IsLastToSay(k, a)' /\ OpaqueCell(stack'[i], a) \in Says(k, a)'
    BY <1>3, <1>5, <2>1, Zenon
  <2> QED BY <2>2, <2>3, Zenon DEF ImageAt
<1>7. LoadedImage'
  BY <1>6, Zenon DEF RegionInv, LoadedImage
<1> QED BY <1>1, <1>2, <1>7, Zenon

(* Every step keeps the invariant.                                         *)
LEMMA NextRegionInv ==
  ASSUME RegionInv, [Next]_vars
  PROVE  RegionInv'
<1>1. CASE Cover
  <2>1. format' = format /\ format = "api" /\ UNCHANGED <<segments, pieces, added, pc>> /\ pc = "cover"
    BY <1>1, Zenon DEF Cover
  <2>2. PICK start \in 0..Size : \E end \in start..Size + 1 : \E l : stack' = Covered(Bound(start, end), l)
    BY <1>1, Zenon DEF Cover
  <2>3. PICK end \in start..Size + 1 : \E l : stack' = Covered(Bound(start, end), l)
    BY <2>2, Zenon
  <2>4. IsArea(Bound(start, end))
    BY RegionAssumption, SMTT(60) DEF IsArea, Bound
  <2>5. StackInv'
    BY <2>3, <2>4, CoveredFacts, Zenon DEF RegionInv
  <2>6. PiecesInv'
    <3>1. Len(stack') \in Nat
      BY <2>5, LenProperties, Zenon DEF StackInv, IsSequence
    <3>2. pieces' = {} /\ added' = 0 /\ pc' # "flattened"
      BY <2>1, Zenon DEF RegionInv, PcInv
    <3> QED BY <3>1, <3>2, SMTT(60) DEF PiecesInv
  <2>7. PcInv' /\ IsSequence(segments') /\ LoadedImage' /\ LoadedFits'
    BY <2>1, SMTT(60) DEF RegionInv, PcInv, IsSequence, LoadedImage, LoadedFits
  <2> QED BY <2>1, <2>5, <2>6, <2>7, Zenon DEF RegionInv
<1>2. ASSUME NEW s \in Segments, LoadElf(s) \/ LoadMach(s)
      PROVE  RegionInv'
  <2>1. UNCHANGED <<format, pieces, added>> /\ pc = "cover" /\ segments' = Append(segments, s)
    BY <1>2, Zenon DEF LoadElf, LoadMach, Load
  <2>2. CASE s.inFile
    <3>1. \E b, l, n : Loads(s, b, l, n)
      BY <1>2, <2>2, LoadElfLoads, LoadMachLoads, Zenon DEF RegionInv
    <3>2. pc' = "cover"
      BY <1>2, <2>1, <2>2, Zenon DEF LoadElf, LoadMach
    <3> QED BY <2>1, <3>1, <3>2, LoadKeepsInv, Zenon
  <2>3. CASE ~s.inFile
    <3>1. pc' = "refused" /\ stack' = stack
      BY <1>2, <2>3, Zenon DEF LoadElf, LoadMach
    <3>2. IsSequence(segments')
      BY <2>1, AppendFacts, Zenon DEF RegionInv
    <3>3. PiecesInv' /\ StackInv' /\ PcInv' /\ LoadedFits' /\ LoadedImage'
      BY <2>1, <3>1, SMTT(60) DEF RegionInv, PiecesInv, StackInv, PcInv, LoadedFits, TooLong, LoadedImage, Within, IsSequence
    <3> QED BY <2>1, <3>2, <3>3, Zenon DEF RegionInv
  <2> QED BY <2>2, <2>3, Zenon
<1>3. ASSUME NEW s \in Segments, LoadPe(s)
      PROVE  RegionInv'
  <2>1. UNCHANGED <<format, pieces, added>> /\ pc = "cover" /\ pc' \in {pc, "refused"}
    BY <1>3, Zenon DEF LoadPe, Load
  <2>2. \E b, l, n : Loads(s, b, l, n)
    BY <1>3, LoadPeLoads, Zenon DEF RegionInv
  <2> QED BY <2>1, <2>2, LoadKeepsInv, Zenon
<1>4. CASE Flatten
  <2>1. UNCHANGED <<format, segments, stack>> /\ pc = "cover" /\ pc' = "flatten" /\ pieces' = {} /\ added' = 0
    BY <1>4, Zenon DEF Flatten
  <2>2. StackInv' /\ LoadedFits' /\ LoadedImage'
    BY <2>1, StackUntouched, Zenon
  <2>3. Len(stack') \in Nat
    BY <2>2, LenProperties, Zenon DEF StackInv, IsSequence
  <2>4. PcInv' /\ PiecesInv'
    BY <2>1, <2>3, SMTT(60) DEF PcInv, PiecesInv
  <2> QED BY <2>1, <2>2, <2>4, Zenon DEF RegionInv
<1>5. CASE FlattenLayer
  <2>1. UNCHANGED <<format, segments, stack>> /\ pc = "flatten" /\ pc' \in {"flatten", "flattened"}
    BY <1>5, Zenon DEF FlattenLayer
  <2>2. StackInv' /\ LoadedFits' /\ LoadedImage'
    BY <2>1, StackUntouched, Zenon
  <2>3. PiecesInv'
    BY <1>5, FlattenLayerKeepsPieces, Zenon DEF RegionInv
  <2>4. PcInv'
    BY <2>1, Zenon DEF PcInv
  <2> QED BY <2>1, <2>2, <2>3, <2>4, Zenon DEF RegionInv
<1>6. CASE UNCHANGED vars
  <2>1. UNCHANGED <<format, segments, stack>> /\ pieces' = pieces /\ added' = added /\ pc' = pc
    BY <1>6, Zenon DEF vars
  <2>2. StackInv' /\ LoadedFits' /\ LoadedImage'
    BY <2>1, StackUntouched, Zenon
  <2>3. PiecesInv' /\ PcInv'
    BY <2>1, Zenon DEF RegionInv, PiecesInv, PcInv, Within
  <2> QED BY <2>1, <2>2, <2>3, Zenon DEF RegionInv
<1> QED BY <1>1, <1>2, <1>3, <1>4, <1>5, <1>6, Zenon DEF Next

(* What holds of the parts when flatten has added the last layer.          *)
LEMMA PiecesAreFlat ==
  ASSUME RegionInv
  PROVE  FlattenExact
<1> SUFFICES ASSUME pc = "flattened"
             PROVE  /\ \A a \in 0..Size - 1 :
                         \E x \in pieces : /\ Within(x, a) /\ IsTop(x.layer, a)
                                           /\ \A y \in pieces : Within(y, a) => y = x
                    /\ \A x \in pieces :
                         x.start >= x.end => stack[x.layer].area.start >= stack[x.layer].area.end
  BY Zenon DEF FlattenExact
<1>1. StackInv /\ PiecesInv /\ added = Len(stack) /\ Len(stack) \in Nat
  BY LenProperties, Zenon DEF RegionInv, PiecesInv, StackInv, IsSequence
<1>2. ASSUME NEW a \in 0..Size - 1
      PROVE  \E x \in pieces : /\ Within(x, a) /\ IsTop(x.layer, a)
                               /\ \A y \in pieces : Within(y, a) => y = x
  <2>1. a \in Nat /\ 1 \in 1..Len(stack) /\ Within(Bound(0, Size), a)
    BY <1>1, RegionAssumption, SMTT(60) DEF StackInv, Within, Bound
  <2>2. PICK x \in pieces : Within(x, a)
    BY <1>1, <2>1, Zenon DEF StackInv, PiecesInv
  <2>3. /\ x.layer \in 1..Len(stack) /\ IsArea(x) /\ IsArea(stack[x.layer].area)
        /\ stack[x.layer].area.start <= x.start /\ x.end <= stack[x.layer].area.end
    BY <1>1, Zenon DEF PiecesInv, StackInv
  <2>4. Within(stack[x.layer].area, a)
    BY <2>1, <2>2, <2>3, SMTT(60) DEF Within, IsArea
  <2>5. \A j \in 1..Len(stack) : Within(stack[j].area, a) => j <= x.layer
    BY <1>1, <2>1, <2>2, Zenon DEF PiecesInv
  <2>6. \A y \in pieces : Within(y, a) => y = x
    BY <1>1, <2>1, <2>2, Zenon DEF PiecesInv
  <2> QED BY <2>2, <2>3, <2>4, <2>5, <2>6, Zenon DEF IsTop
<1>3. ASSUME NEW x \in pieces, x.start >= x.end
      PROVE  stack[x.layer].area.start >= stack[x.layer].area.end
  <2>1. /\ IsArea(x) /\ x.layer \in 1..Len(stack)
        /\ x.start = x.end => stack[x.layer].area.start = stack[x.layer].area.end
    BY <1>1, Zenon DEF PiecesInv
  <2>2. IsArea(stack[x.layer].area)
    BY <1>1, <2>1, Zenon DEF StackInv
  <2> QED BY <1>3, <2>1, <2>2, SMTT(60) DEF IsArea
<1> QED BY <1>2, <1>3, Zenon

(***************************************************************************)
(* For a region of any size under any layers: the parts Region::flatten    *)
(* returns cover every address once, and each with the topmost layer.      *)
(***************************************************************************)
THEOREM FlattenIsExact == Spec => []FlattenExact
<1>1. Init => RegionInv
  BY InitRegionInv, Zenon
<1>2. RegionInv /\ [Next]_vars => RegionInv'
  BY NextRegionInv, Zenon
<1>3. RegionInv => FlattenExact
  BY PiecesAreFlat, Zenon
<1> QED BY <1>1, <1>2, <1>3, PTL DEF Spec

(***************************************************************************)
(* For any sequence of segments of any size and position, overlapping or   *)
(* not: what load_elf, load_mach and load_pe leave on top at an address is *)
(* what the last segment that says something about it says.                *)
(***************************************************************************)
THEOREM ImageIsLoaded == Spec => []LoadedImage
<1>1. Init => RegionInv
  BY InitRegionInv, Zenon
<1>2. RegionInv /\ [Next]_vars => RegionInv'
  BY NextRegionInv, Zenon
<1>3. RegionInv => LoadedImage
  BY Zenon DEF RegionInv
<1> QED BY <1>1, <1>2, <1>3, PTL DEF Spec

(***************************************************************************)
(* Whatever its segments are, load_elf and load_pe leave no layer that is  *)
(* longer than its area, so none that Region::iter refuses to read.        *)
(***************************************************************************)
THEOREM LoadedLayersFit == Spec => []LoadedFits
<1>1. Init => RegionInv
  BY InitRegionInv, Zenon
<1>2. RegionInv /\ [Next]_vars => RegionInv'
  BY NextRegionInv, Zenon
<1>3. RegionInv => LoadedFits
  BY Zenon DEF RegionInv
<1> QED BY <1>1, <1>2, <1>3, PTL DEF Spec
=============================================================================
