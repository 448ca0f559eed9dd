------------------------------ MODULE Domains ------------------------------
(* A straight-line run of RREIL operations, followed in lockstep by the real *)
(* values of the registers, by the constant folder il::execute and by the    *)
(* two abstract domains that approximate() is used with.                     *)
EXTENDS Rreil, FiniteSets

CONSTANTS
    Registers,      \* register -> its size in bits
    MaxSteps,       \* operations of a run
    KSET_MAXIMAL_CARDINALITY, VERSION_LIMIT

K == INSTANCE Kset
B == INSTANCE BoundedAddrTrack

VARIABLES
    val,        \* the value each register really holds
    folded,     \* what il::execute knows of it
    kset, bat,  \* its abstract values
    inputs,     \* the registers computed from inputs or memory
    sliced,     \* the registers computed from a slice of another
    steps

vars == <<val, folded, kset, bat, inputs, sliced, steps>>

Reg == DOMAIN Registers
Values(s) == {Constant(v, s) : v \in 0 .. Modulus(s) - 1}

----------------------------------------------------------------------------
\* What an operation means, written down without the masks and casts of the
\* code.  A left shift takes its count modulo the word, as Wrapping does.

Signed(x) == IF x.value >= 2^(x.size - 1) THEN x.value - 2^x.size ELSE x.value
Bits(x) == {i \in 0 .. x.size - 1 : (x.value \div 2^i) % 2 = 1}
RECURSIVE Number(_)
Number(is) == IF is = {} THEN 0
              ELSE LET i == CHOOSE i \in is : TRUE IN 2^i + Number(is \ {i})
Truncate(v, s) == Constant(v % 2^s, s)
FromBits(is, s) == Constant(Number(is), s)

Meaning(op, x, y) ==
    LET s == x.size
    IN CASE op = "Add" -> Truncate(x.value + y.value, s)
         [] op = "Subtract" -> Truncate(x.value - y.value, s)
         [] op = "Multiply" -> Truncate(Signed(x) * Signed(y), s)
         [] op = "DivideUnsigned" ->
              CHOOSE q \in Values(s) :
                  x.value - q.value * y.value \in 0 .. y.value - 1
         [] op = "DivideSigned" -> Truncate(Quot(Signed(x), Signed(y)), s)
         [] op = "Modulo" ->
              CHOOSE r \in Values(s) :
                  r.value < y.value /\ \E q \in Values(s) : x.value = q.value * y.value + r.value
         [] op = "ShiftLeft" ->
              FromBits({i + (y.value % WORD) : i \in Bits(x)} \cap 0 .. s - 1, s)
         [] op = "ShiftRightUnsigned" ->
              FromBits({i - y.value : i \in Bits(x)} \cap 0 .. s - 1, s)
         [] op = "ShiftRightSigned" -> Truncate(Signed(x) \div 2^y.value, s)
         [] op = "And" -> FromBits(Bits(x) \cap Bits(y), s)
         [] op = "InclusiveOr" -> FromBits(Bits(x) \cup Bits(y), s)
         [] op = "ExclusiveOr" ->
              FromBits((Bits(x) \cup Bits(y)) \ (Bits(x) \cap Bits(y)), s)
         [] op = "Equal" -> Bit(Bits(x) = Bits(y))
         [] op = "LessOrEqualUnsigned" -> Bit(x.value <= y.value)
         [] op = "LessOrEqualSigned" -> Bit(Signed(x) <= Signed(y))
         [] op = "LessUnsigned" -> Bit(x.value < y.value)
         [] op = "LessSigned" -> Bit(Signed(x) < Signed(y))

\* A division by zero has no result to be right about.
HasMeaning(op, y) ==
    op \in {"DivideUnsigned", "DivideSigned", "Modulo"} => y.value # 0

----------------------------------------------------------------------------
Init ==
    /\ val = [r \in Reg |-> Constant(0, Registers[r])]
    /\ folded = val
    /\ kset = [r \in Reg |-> K!abstract_value(val[r])]
    /\ bat = [r \in Reg |-> B!abstract_value(val[r])]
    /\ inputs = {} /\ sliced = {}
    /\ steps = 0

\* An operand is a register or a constant.  A slice of a register is read by
\* a Move first, as a register of its size.
WholeRegister == [reg : Reg, size : {0}, offset : {0}]
Operand == WholeRegister \cup UNION {Values(Registers[r]) : r \in Reg}
SliceOperand == [reg : Reg, size : 1 .. WORD, offset : 0 .. WORD]
IsReg(o) == "reg" \in DOMAIN o
Whole(o) == IsReg(o) => o.size = 0
OperandSize(o) == IF IsReg(o) /\ Whole(o) THEN Registers[o.reg] ELSE o.size
Readable(o) == ~Whole(o) => o.size + o.offset <= Registers[o.reg]
From(os, regs) == \E i \in DOMAIN os : IsReg(os[i]) /\ os[i].reg \in regs
AnySlice(os) == \E i \in DOMAIN os : ~Whole(os[i])
Marked(regs, d, p) == IF p THEN regs \cup {d} ELSE regs \ {d}

\* An operand as the machine reads it, as the folder sees it, and as
\* approximate's res() gives it to the domains.
Value(o) == IF ~IsReg(o) THEN o
            ELSE IF Whole(o) THEN val[o.reg] ELSE Extract(val[o.reg], o.size, o.offset)
Fd(o) == IF ~IsReg(o) THEN o
         ELSE IF Whole(o) THEN folded[o.reg]
         ELSE IF CanExtract(folded[o.reg], o.size, o.offset)
              THEN Extract(folded[o.reg], o.size, o.offset) ELSE Undefined
Ks(o) == IF ~IsReg(o) THEN K!abstract_value(o)
         ELSE IF Whole(o) THEN kset[o.reg] ELSE K!extract(kset[o.reg], o.size, o.offset)
Ba(o) == IF ~IsReg(o) THEN B!abstract_value(o)
         ELSE IF Whole(o) THEN bat[o.reg] ELSE B!extract(bat[o.reg], o.size, o.offset)

Assign(d, v, op, n, os) ==
    /\ val' = [val EXCEPT ![d] = v]
    /\ folded' = [folded EXCEPT ![d] = execute(op, n, [i \in DOMAIN os |-> Fd(os[i])])]
    /\ kset' = [kset EXCEPT ![d] = K!execute(op, n, [i \in DOMAIN os |-> Ks(os[i])])]
    /\ bat' = [bat EXCEPT ![d] = B!execute(op, n, [i \in DOMAIN os |-> Ba(os[i])])]
    /\ inputs' = Marked(inputs, d, From(os, inputs))
    /\ sliced' = Marked(sliced, d, From(os, sliced) \/ AnySlice(os))

Binary(d, op, a, b) ==
    /\ OperandSize(a) = OperandSize(b)
    /\ Registers[d] = IF op \in CompareOps THEN 1 ELSE OperandSize(a)
    /\ HasMeaning(op, Value(b))
    /\ Assign(d, Meaning(op, Value(a), Value(b)), op, 0, <<a, b>>)

Extend(d, op, a) ==
    /\ Readable(a) /\ OperandSize(a) <= Registers[d]
    /\ Assign(d, Truncate(IF op = "SignExtend" THEN Signed(Value(a)) ELSE Value(a).value,
                          Registers[d]), op, Registers[d], <<a>>)

Move(d, a) ==
    /\ Readable(a) /\ OperandSize(a) = Registers[d]
    /\ Assign(d, Value(a), "Move", 0, <<a>>)

\* sel/n d, a: the bits of d from n on are replaced.
SelectBits(d, n, a) ==
    /\ Readable(a) /\ n + OperandSize(a) <= Registers[d]
    /\ LET high == {i \in Bits(val[d]) : i < n \/ i >= n + OperandSize(a)}
       IN Assign(d, FromBits(high \cup {i + n : i \in Bits(Value(a))}, Registers[d]),
                 "Select", n, <<[reg |-> d, size |-> 0, offset |-> 0], a>>)

\* Two paths meet; the run came along one of them.
Phi(d, a, b) ==
    /\ OperandSize(a) = Registers[d] /\ OperandSize(b) = Registers[d]
    /\ \E x \in {a, b} : Assign(d, Value(x), "Phi", 0, <<a, b>>)

\* A register of the caller, or a cell of memory: any value.  The caller of
\* approximate() may have fixed the register as the base of a region.
Input(d, op, a) ==
    /\ \E v \in Values(Registers[d]) : val' = [val EXCEPT ![d] = v]
    /\ folded' = [folded EXCEPT ![d] = Variable(d, Registers[d])]
    /\ kset' = [kset EXCEPT ![d] = K!execute(op, Registers[d], <<Ks(a)>>)]
    /\ \E x \in {B!execute(op, Registers[d], <<Ba(a)>>),
                 B!Offset([name |-> d, version |-> 0], Constant(0, Registers[d]))} :
          bat' = [bat EXCEPT ![d] = x]
    /\ inputs' = Marked(inputs, d, TRUE)
    /\ sliced' = Marked(sliced, d, op = "Load" /\ From(<<a>>, sliced))

\* A branch taken because the register equals a constant.
Assume(r, c) ==
    /\ c.size = Registers[r] /\ val[r] = c
    /\ kset' = [kset EXCEPT ![r] = K!narrow(@, K!abstract_constraint("Equal", c))]
    /\ bat' = [bat EXCEPT ![r] = B!narrow(@, B!abstract_constraint("Equal", c))]
    /\ UNCHANGED <<val, folded, inputs, sliced>>

Next ==
    /\ steps < MaxSteps
    /\ steps' = steps + 1
    /\ \/ \E d \in Reg, o \in SliceOperand : Move(d, o)
       \/ \E d \in Reg, a \in Operand :
          \/ \E op \in ExtendOps : Extend(d, op, a)
          \/ Move(d, a)
          \/ \E n \in 0 .. WORD : SelectBits(d, n, a)
          \/ ~IsReg(a) /\ Assume(d, a)
       \/ \E d \in Reg, a \in WholeRegister :
          \/ \E op \in {"Load", "Initialize"} : Input(d, op, a)
          \/ \E b \in WholeRegister :
                Phi(d, a, b) \/ \E op \in ArithOps \cup CompareOps : Binary(d, op, a, b)

Spec == Init /\ [][Next]_vars

----------------------------------------------------------------------------
(* Whatever masks and casts il::execute goes through, a constant it folds an *)
(* operation to is the value the machine computes, in normal form, however   *)
(* many operations and slices it was folded through (il.rs, execute and      *)
(* Rvalue::extract).                                                         *)
FoldExact == \A r \in Reg : IsConst(folded[r]) => folded[r] = val[r]

(* The set of values Kset reports for a register holds the value the         *)
(* register really has: no join, cardinality limit or narrowing on the way   *)
(* loses it, and no set outgrows KSET_MAXIMAL_CARDINALITY.  Registers        *)
(* computed from inputs or memory are left out: their Kset is Meet, the      *)
(* empty set; so are those computed from a slice, of which extract drops the *)
(* top bit (kset.rs, execute and combine).                                   *)
KsetSound ==
    /\ \A r \in Reg \ (inputs \cup sliced) : K!Contains(kset[r], val[r])
    /\ \A r \in Reg : kset[r].kind = "Set" =>
          Cardinality(kset[r].elems) <= KSET_MAXIMAL_CARDINALITY

(* An absolute address that Bounded Address Tracking reports is the one the  *)
(* register holds, on every path and in spite of the versioned regions: the  *)
(* target of an indirect jump resolved from it is the target of the program  *)
(* (bounded_addr_track.rs, execute and combine).  No region gets more than   *)
(* VERSION_LIMIT versions.  What is computed from a slice is left out, as in *)
(* KsetSound.                                                                *)
AbsoluteExact ==
    /\ \A r \in Reg \ sliced : B!InGlobal(bat[r]) => bat[r].offset = val[r]
    /\ \A r \in Reg : bat[r].kind \in {"Offset", "Region"} => bat[r].region.version <= VERSION_LIMIT
============================================================================
