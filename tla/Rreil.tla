------------------------------- MODULE Rreil -------------------------------
(* The intermediate language of core/src/il.rs: its values, its statements, *)
(* the size rules a statement must obey and the evaluator that folds        *)
(* constants.                                                               *)
(*                                                                          *)
(* A value of u64 is a number below 2^WORD, so that the border between      *)
(* "smaller than the machine word" and "exactly the machine word" is        *)
(* reached with small numbers; the code has WORD = 64.                      *)
EXTENDS Integers, Sequences, Bitwise

CONSTANT WORD

ASSUME WORDAssumption == WORD \in Nat \ {0, 1}

----------------------------------------------------------------------------
\* Values.  A size of None is that of the undefined value; None is smaller
\* than every size, as it is for Rust's Option.

None == -1
Undefined == [kind |-> "Undefined"]
Constant(v, s) == [kind |-> "Constant", value |-> v, size |-> s]
Slice(n, s, o) == [kind |-> "Variable", name |-> n, size |-> s, offset |-> o]
Variable(n, s) == Slice(n, s, 0)

Size(rv) == IF rv.kind = "Undefined" THEN None ELSE rv.size
SizeOr0(rv) == IF rv.kind = "Undefined" THEN 0 ELSE rv.size
IsConst(rv) == rv.kind = "Constant"
IsConstOf(rv, v) == IsConst(rv) /\ rv.value = v

\* Rvalue::extract: the s bits from bit o on; FALSE where the code returns Err.
CanExtract(rv, s, o) == s > 0 /\ (rv.kind = "Undefined" \/ rv.size >= s + o)
Extract(rv, s, o) ==
    CASE rv.kind = "Undefined" -> Undefined
      [] rv.kind = "Constant"  -> Constant((rv.value \div 2^o) % 2^s, s)
      [] rv.kind = "Variable"  -> Slice(rv.name, s, rv.offset + o)

\* Guards: Predicate(f, e) holds when the flag f has the value e.
Always == [kind |-> "True"]
Never == [kind |-> "False"]
Predicate(f, e) == [kind |-> "Predicate", flag |-> f, expected |-> e]
NotAFlag == [kind |-> "Err"]
from_flag(f) ==
    CASE f.kind = "Undefined" \/ (f.kind = "Variable" /\ f.size = 1) ->
           Predicate(f, TRUE)
      [] f = Constant(0, 1) -> Never
      [] f = Constant(1, 1) -> Always
      [] OTHER -> NotAFlag
negation(g) ==
    CASE g.kind = "True" -> Never
      [] g.kind = "False" -> Always
      [] g.kind = "Predicate" -> Predicate(g.flag, ~g.expected)

----------------------------------------------------------------------------
\* Statements.  n is the extra number of an operation: the size of an
\* extension or of a memory access, the offset of Select.

ArithOps == {"Add", "Subtract", "Multiply", "DivideUnsigned", "DivideSigned",
             "ShiftLeft", "ShiftRightUnsigned", "ShiftRightSigned", "Modulo",
             "And", "InclusiveOr", "ExclusiveOr"}
CompareOps == {"Equal", "LessOrEqualUnsigned", "LessOrEqualSigned",
               "LessUnsigned", "LessSigned"}
ExtendOps == {"ZeroExtend", "SignExtend"}

Statement(assignee, op, n, operands) ==
    [assignee |-> assignee, op |-> op, n |-> n, operands |-> operands]

add(d, a, b) == Statement(d, "Add", 0, <<a, b>>)
sub(d, a, b) == Statement(d, "Subtract", 0, <<a, b>>)
mul(d, a, b) == Statement(d, "Multiply", 0, <<a, b>>)
div(d, a, b) == Statement(d, "DivideUnsigned", 0, <<a, b>>)
divs(d, a, b) == Statement(d, "DivideSigned", 0, <<a, b>>)
shl(d, a, b) == Statement(d, "ShiftLeft", 0, <<a, b>>)
shr(d, a, b) == Statement(d, "ShiftRightUnsigned", 0, <<a, b>>)
shrs(d, a, b) == Statement(d, "ShiftRightSigned", 0, <<a, b>>)
mod(d, a, b) == Statement(d, "Modulo", 0, <<a, b>>)
and(d, a, b) == Statement(d, "And", 0, <<a, b>>)
or(d, a, b) == Statement(d, "InclusiveOr", 0, <<a, b>>)
xor(d, a, b) == Statement(d, "ExclusiveOr", 0, <<a, b>>)
cmpeq(d, a, b) == Statement(d, "Equal", 0, <<a, b>>)
cmpleu(d, a, b) == Statement(d, "LessOrEqualUnsigned", 0, <<a, b>>)
cmples(d, a, b) == Statement(d, "LessOrEqualSigned", 0, <<a, b>>)
cmpltu(d, a, b) == Statement(d, "LessUnsigned", 0, <<a, b>>)
cmplts(d, a, b) == Statement(d, "LessSigned", 0, <<a, b>>)
zext(n, d, a) == Statement(d, "ZeroExtend", n, <<a>>)
sext(n, d, a) == Statement(d, "SignExtend", n, <<a>>)
mov(d, a) == Statement(d, "Move", 0, <<a>>)
sel(n, d, a) == Statement(d, "Select", n, <<d, a>>)
call(a) == Statement(Undefined, "Call", 0, <<a>>)
load(n, d, ptr) == Statement(d, "Load", n, <<ptr>>)
store(n, val, ptr) == Statement(Undefined, "Store", n, <<ptr, val>>)

\* Statement::sanity_check, which every statement of the rreil! macro passes
\* through: FALSE where it returns Err.
Agree(a, b) == Size(a) = None \/ Size(b) = None \/ Size(a) = Size(b)
typecheck_binop(a, b, d) ==
    /\ Agree(a, b)
    /\ Size(d) \in {None, IF SizeOr0(a) > SizeOr0(b) THEN SizeOr0(a) ELSE SizeOr0(b)}
typecheck_cmpop(a, b, d) == Agree(a, b) /\ Size(d) \in {None, 1}
typecheck_unop(a, d) == Size(a) = None \/ Size(d) = None \/ Size(d) <= Size(a)
sanity_check(s) ==
    LET d == s.assignee
        a == s.operands[1]
        b == s.operands[2]
    IN /\ CASE s.op \in ArithOps -> typecheck_binop(a, b, d)
            [] s.op \in CompareOps -> typecheck_cmpop(a, b, d)
            [] s.op \in ExtendOps ->
                 Size(a) = None \/ Size(d) = None \/ Size(d) = s.n
            [] s.op = "Move" -> typecheck_unop(a, d)
            [] s.op = "Select" ->
                 Size(d) = Size(a) /\ s.n + SizeOr0(b) <= SizeOr0(a)
            [] s.op = "Initialize" -> Size(d) \in {None, s.n}
            [] s.op = "Call" -> d = Undefined
            [] s.op = "Load" ->
                 Size(d) \in {None, s.n} /\ s.n # 0 /\ s.n % 8 = 0
            [] s.op = "Store" ->
                 Agree(b, d) /\ s.n # 0 /\ Size(b) \in {None, s.n} /\ s.n % 8 = 0
            [] s.op = "Phi" ->
                 /\ Size(d) # None
                 /\ \A i \in DOMAIN s.operands : Size(s.operands[i]) = Size(d)
       /\ \A i \in DOMAIN s.operands : Size(s.operands[i]) # 0
       /\ Size(d) # 0

----------------------------------------------------------------------------
\* il::execute.  Wrapping arithmetic is arithmetic modulo 2^WORD; AsI64
\* reinterprets a word as signed and Rem is Rust's %, which truncates.

Word == 2^WORD
Modulus(s) == IF s < WORD THEN 2^s ELSE Word
AsI64(v) == IF v % Word >= 2^(WORD - 1) THEN (v % Word) - Word ELSE v % Word
Rem(a, m) == IF a >= 0 THEN a % m ELSE -((-a) % m)
Quot(a, b) == LET q == (IF a < 0 THEN -a ELSE a) \div (IF b < 0 THEN -b ELSE b)
              IN IF (a < 0) = (b < 0) THEN q ELSE -q
SignBit(v, s) == (v \div 2^(s - 1)) % 2 = 1
\* The operand of a signed operation, narrower than a word: subtract 2^s when
\* the sign bit is set.
ToSigned_Unsigned(v, s) == v
ToSigned(v, s) ==
    IF s < WORD
    THEN Rem(IF SignBit(v, s) THEN AsI64(AsI64(v) - 2^s) ELSE AsI64(v), 2^s)
    ELSE AsI64(v)
Bit(p) == Constant(IF p THEN 1 ELSE 0, 1)

ShiftRightSigned(a, b, s) ==
    LET x == ToSigned(a, s)
    IN IF b >= s THEN IF x < 0 THEN Modulus(s) - 1 ELSE 0
       ELSE (x \div 2^b) % Modulus(s)
\* Below the word the sign bits are compared first; at the word's own size
\* sign_mask is 0 and the comparison is unsigned.
LessOrEqualSigned(a, b, s) ==
    IF s < WORD /\ SignBit(a, s) # SignBit(b, s) THEN SignBit(a, s)
    ELSE LET m == IF s < WORD THEN 2^(s - 1) ELSE Word IN a % m <= b % m

FoldArith(op, a, b, s) ==
    LET m == Modulus(s)
        C(v) == Constant(v, s)
    IN CASE op = "Add" -> C((a + b) % m)
         [] op = "Subtract" -> C((a - b) % m)
         [] op = "Multiply" -> C((a * b) % m)
         [] op = "DivideUnsigned" ->
              IF b % m = 0 THEN Undefined ELSE C((a \div b) % m)
         [] op = "DivideSigned" ->
              IF b = 0 \/ ToSigned(b, s) = 0 THEN Undefined
              ELSE C(Quot(ToSigned(a, s), ToSigned(b, s)) % m)
         [] op = "Modulo" -> IF b = 0 THEN Undefined ELSE C((a % b) % m)

FoldShift(op, a, b, s) ==
    LET m == Modulus(s)
    IN Constant(CASE op = "ShiftLeft" -> (a * 2^(b % WORD)) % m
                  [] op = "ShiftRightUnsigned" ->
                       IF b >= s THEN 0 ELSE (a \div 2^b) % m
                  [] op = "ShiftRightSigned" -> ShiftRightSigned(a, b, s), s)

FoldBitwise(op, a, b, s) ==
    LET m == Modulus(s)
    IN Constant(CASE op = "And" -> (a % m) & (b % m)
                  [] op = "InclusiveOr" -> (a % m) | (b % m)
                  [] op = "ExclusiveOr" -> (a % m) ^^ (b % m), s)

FoldCompare(op, a, b, s) ==
    LET m == Modulus(s)
    IN Bit(CASE op = "Equal" -> a % m = b % m
             [] op = "LessOrEqualUnsigned" -> a % m <= b % m
             [] op = "LessOrEqualSigned" -> LessOrEqualSigned(a, b, s)
             [] op = "LessUnsigned" -> a % m < b % m
             [] op = "LessSigned" -> ToSigned(a, s) < ToSigned(b, s))

ShiftOps == {"ShiftLeft", "ShiftRightUnsigned", "ShiftRightSigned"}
BitwiseOps == {"And", "InclusiveOr", "ExclusiveOr"}
Fold(op, a, b, s) ==
    CASE op \in ShiftOps -> FoldShift(op, a, b, s)
      [] op \in BitwiseOps -> FoldBitwise(op, a, b, s)
      [] op \in CompareOps -> FoldCompare(op, a, b, s)
      [] OTHER -> FoldArith(op, a, b, s)

\* The simplifications that need only one constant operand.
FoldPartly(op, a, b) ==
    LET zero(x) == IsConstOf(x, 0)
        one(x) == IsConstOf(x, 1)
        keep(x, y) == IF zero(x) THEN Constant(0, x.size) ELSE y
    IN CASE op = "Add" -> IF zero(a) THEN b ELSE IF zero(b) THEN a ELSE Undefined
         [] op = "Subtract" -> IF zero(b) THEN a ELSE Undefined
         [] op = "Multiply" ->
              keep(a, keep(b, IF one(a) THEN b ELSE IF one(b) THEN a ELSE Undefined))
         [] op \in {"DivideUnsigned", "DivideSigned"} ->
              IF zero(b) THEN Undefined
              ELSE IF one(b) THEN a ELSE keep(a, Undefined)
         [] op = "Modulo" ->
              IF zero(b) THEN Undefined
              ELSE keep(a, IF one(b) THEN Constant(0, b.size) ELSE Undefined)
         [] op \in ShiftOps ->
              keep(a, IF zero(b) THEN a ELSE Undefined)
         [] op = "And" -> keep(b, keep(a, Undefined))
         [] op = "InclusiveOr" ->
              IF zero(b) THEN a ELSE IF zero(a) THEN b ELSE Undefined
         [] op = "LessOrEqualUnsigned" /\ zero(a) -> Bit(TRUE)
         [] OTHER -> Undefined

ExecuteExtend(op, n, a) ==
    CASE a.kind = "Undefined" -> Undefined
      [] a.kind = "Variable" -> Variable(a.name, n)
      [] a.kind = "Constant" ->
           LET low == a.value % Modulus(a.size)
               negative == a.size < WORD /\ SignBit(a.value, a.size)
           IN Constant(CASE op = "ZeroExtend" \/ ~negative -> low % Modulus(n)
                         [] n > a.size -> low + Modulus(n) - Modulus(a.size)
                         [] OTHER -> low, n)

ExecuteSelect(n, a, b) ==
    IF IsConst(a) /\ IsConst(b) /\ n + b.size < WORD
    THEN Constant(((a.value % 2^n) | ((b.value * 2^n) % Word))
                    | ((a.value \div 2^(n + b.size)) * 2^(n + b.size)), a.size)
    ELSE Undefined

execute(op, n, ops) ==
    CASE op \in ArithOps \cup CompareOps ->
           IF IsConst(ops[1]) /\ IsConst(ops[2])
           THEN Fold(op, ops[1].value, ops[2].value, ops[1].size)
           ELSE FoldPartly(op, ops[1], ops[2])
      [] op \in ExtendOps -> ExecuteExtend(op, n, ops[1])
      [] op = "Move" -> IF IsConst(ops[1])
                        THEN Constant(ops[1].value % Modulus(ops[1].size), ops[1].size)
                        ELSE ops[1]
      [] op = "Select" -> ExecuteSelect(n, ops[1], ops[2])
      [] op = "Phi" -> IF ops # <<>> /\ \A i \in DOMAIN ops : ops[i] = ops[1]
                       THEN ops[1] ELSE Undefined
      [] op \in {"Initialize", "Call", "Load", "Store"} -> Undefined
============================================================================
