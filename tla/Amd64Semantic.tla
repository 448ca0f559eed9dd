--------------------------- MODULE Amd64Semantic ---------------------------
(* amd64/src/semantic.rs: the RREIL statements of the AMD64 instructions     *)
(* that have any, and where execution continues after them.  A u64 constant  *)
(* is represented by its signed reading; the constants whose bits matter     *)
(* only as a mask are written as the range of bits they clear.               *)
EXTENDS Decoder

Flag(name) == Variable(name, 1)
Zero(sz) == Constant(0, sz)
Ones(sz) == Constant(-1, sz)
Low4(rv) == Extract(rv, 4, 0)

\* The statements of an instruction and its JumpSpec; ok is FALSE where the
\* semantic function returns Err.
Effect(stmts, flow, guard) == [stmts |-> stmts, flow |-> flow, guard |-> guard, ok |-> TRUE]
FallThru(stmts) == Effect(stmts, "FallThru", Always)
Refused == [FallThru(<<>>) EXCEPT !.ok = FALSE]

----------------------------------------------------------------------------
\* Flags

set_adj_flag(res, a) ==
    <<cmpltu(Flag("AF"), Low4(res), Low4(a)), and(Flag("af1"), Flag("af1"), Flag("AF"))>>
set_sub_adj_flag(res, a) == <<cmpltu(Flag("AF"), Low4(a), Low4(res))>>
set_parity_flag_Unset(res) == <<mov(Flag("PF"), Slice("half_res", 1, 0))>>
set_parity_flag(res) ==
    LET half(k) == Slice("half_res", 1, k)
    IN <<mov(Variable("half_res", 8), Extract(res, 8, 0)), mov(Flag("PF"), half(0))>>
         \o [k \in 1 .. 7 |-> xor(Flag("PF"), Flag("PF"), half(k))]
         \o <<xor(Flag("PF"), Flag("PF"), Constant(1, 1))>>
CarryFrom(compared) ==
    compared \o <<and(Flag("cf1"), Flag("cf1"), Flag("CF")), or(Flag("CF"), Flag("cf1"), Flag("cf2"))>>
set_carry_flag(res, a) == CarryFrom(<<cmpeq(Flag("cf1"), res, a), cmpltu(Flag("cf2"), res, a)>>)
set_sub_carry_flag(res, a) == CarryFrom(<<cmpeq(Flag("cf1"), res, a), cmpltu(Flag("cf2"), a, res)>>)
set_overflow_flag(res, a, b, sz) ==
    LET of1 == Variable("of1", sz)
        of2 == Variable("of2", sz)
    IN <<xor(of1, a, b), xor(of1, of1, Ones(sz)), xor(of2, a, res),
         and(Flag("OF"), Slice("of1", 1, sz - 1), Slice("of2", 1, sz - 1))>>
set_sub_overflow_flag(res, a, b, sz) ==
    LET of1 == Variable("of1", sz)
        of2 == Variable("of2", sz)
    IN <<xor(of1, a, b), xor(of2, b, res), xor(of2, of2, Ones(sz)),
         and(Flag("OF"), Slice("of1", 1, sz - 1), Slice("of2", 1, sz - 1))>>

----------------------------------------------------------------------------
\* Operands of different sizes.

Ext(x, s) ==
    CASE x.kind = "Variable" /\ x.size # s -> Slice(x.name \o "_ext", s + x.offset, x.offset)
      [] x.kind = "Constant" -> Constant(x.value, s)
      [] OTHER -> x
\* extend, for signed and unsigned operands.  Both statements read a.
extend(a, b, sign_ext) ==
    LET sz == IF SizeOr0(a) > SizeOr0(b) THEN SizeOr0(a) ELSE SizeOr0(b)
        widened(x) == IF Size(x) # Size(Ext(x, sz)) /\ IsVar(x)
                      THEN <<IF sign_ext THEN sext(sz, Ext(x, sz), a) ELSE zext(sz, Ext(x, sz), a)>> ELSE <<>>
    IN [a |-> Ext(a, sz), b |-> Ext(b, sz), sz |-> sz, stmts |-> widened(a) \o widened(b)]
sign_extend(a, b) == extend(a, b, TRUE)
zero_extend(a, b) == extend(a, b, FALSE)

----------------------------------------------------------------------------
\* Registers that overlap.

Variants ==
    {<<"AL", "AH", "AX", "EAX", "RAX">>, <<"BL", "BH", "BX", "EBX", "RBX">>,
     <<"CL", "CH", "CX", "ECX", "RCX">>, <<"DL", "DH", "DX", "EDX", "RDX">>,
     <<"SIL", "SIH", "SI", "ESI", "RSI">>, <<"DIL", "DIH", "DI", "EDI", "RDI">>,
     <<"BPL", "?", "BP", "EBP", "RBP">>, <<"SPL", "?", "SP", "ESP", "RSP">>,
     <<"?", "?", "IP", "EIP", "RIP">>}
    \cup {<<r \o "B", "?", r \o "W", r \o "D", r>> :
            r \in {"R8", "R9", "R10", "R11", "R12", "R13", "R14", "R15"}}
reg_variants(name) == {v \in Variants : name # "?" /\ \E k \in 1 .. 5 : v[k] = name}

\* The bits from .. to - 1 of the register family are the variable dst; the bits
\* lo .. hi - 1 of it change.  A mask is written as the bits it clears.
Mask(lo, hi, size) == [kind |-> "Constant", size |-> size, clears |-> <<lo, hi>>]
\* The offset of the register in its family is forgotten.
Update_LowByte(dst, from, to, lo, hi) ==
    IF hi <= from \/ lo >= to \/ dst = "?" THEN <<>>
    ELSE <<mov(Variable(dst, to - from), Slice("val", to - from, 0))>>
Update(dst, from, to, lo, hi) ==
    LET l == IF lo > from THEN lo ELSE from
        h == IF hi < to THEN hi ELSE to
        d == Variable(dst, to - from)
        v == Slice("val", to - from, from)
    IN CASE l >= h \/ dst = "?" -> <<>>
         [] l = from /\ h = to -> <<mov(d, v)>>
         [] OTHER -> <<and(d, d, Mask(l - from, h - from, to - from)), or(d, d, v)>>

write_reg(reg, val) ==
    LET family == CHOOSE v \in reg_variants(reg.name) : TRUE
        high == reg = Variable(family[2], 8)
        lo == reg.offset + IF high THEN 8 ELSE 0
        hi == reg.offset + reg.size + IF high THEN 8 ELSE 0
        val64 == Variable("val", 64)
    IN IF reg_variants(reg.name) = {} THEN <<mov(Variable(reg.name, reg.size), val)>>
       ELSE (IF lo = 0 /\ hi = 64 /\ Size(val) = 64 THEN <<mov(val64, val)>>
             ELSE <<zext(64, val64, val)>>)
            \o (IF lo > 0 THEN <<mul(val64, val64, Constant(2^lo, 64))>> ELSE <<>>)
            \o Update(family[1], 0, 8, lo, hi)
            \o Update(family[2], 8, 16, lo, hi)
            \o Update(family[3], 0, 16, lo, hi)
            \o Update(family[4], 0, 32, lo, hi)
            \o (IF lo = 0 /\ hi = 32 THEN <<mov(Variable(family[5], 64), val64)>>
                ELSE Update(family[5], 0, 64, lo, hi))

----------------------------------------------------------------------------
\* Arithmetic.  x is the pair of extended operands, reg the destination.

Result(x) == Variable("res", x.sz)
SignAndZero(res) ==
    <<cmplts(Flag("SF"), res, Zero(res.size)), cmpeq(Flag("ZF"), res, Zero(res.size))>>
WithCarry(x, op) ==
    <<Statement(Result(x), op, 0, <<x.a, x.b>>), zext(x.sz, Variable("cf", x.sz), Flag("CF")),
      Statement(Result(x), op, 0, <<Result(x), Variable("cf", x.sz)>>)>>
AdjustCarry(x, less) ==
    <<cmpeq(Flag("af1"), Low4(Result(x)), Low4(x.a)), less,
      and(Flag("af1"), Flag("af1"), Flag("CF")), or(Flag("AF"), Flag("af1"), Flag("af2"))>>

adc(reg, x) ==
    LET res == Result(x)
    IN FallThru(x.stmts \o WithCarry(x, "Add") \o SignAndZero(res)
                \o AdjustCarry(x, cmpltu(Flag("af2"), Low4(res), Low4(x.a)))
                \o set_carry_flag(res, x.a) \o set_overflow_flag(res, x.a, x.b, x.sz)
                \o set_parity_flag(res) \o write_reg(reg, res))
add_(reg, x) ==
    LET res == Result(x)
    IN FallThru(x.stmts \o <<add(res, x.a, x.b)>> \o SignAndZero(res)
                \o <<cmpltu(Flag("CF"), res, x.a)>> \o set_adj_flag(res, x.a)
                \o set_overflow_flag(res, x.a, x.b, x.sz) \o set_parity_flag(res)
                \o write_reg(reg, res))
adcx(reg, x) ==
    FallThru(x.stmts \o WithCarry(x, "Add") \o set_carry_flag(Result(x), x.a) \o write_reg(reg, Result(x)))
sbb(reg, x) ==
    LET res == Result(x)
    IN FallThru(x.stmts \o WithCarry(x, "Subtract") \o SignAndZero(res)
                \o AdjustCarry(x, cmpltu(Flag("af2"), Low4(x.a), Low4(res)))
                \o set_sub_carry_flag(res, x.a) \o set_sub_overflow_flag(res, x.a, x.b, x.sz)
                \o set_parity_flag(res) \o write_reg(reg, res))
cmp(x) ==
    LET res == Result(x)
    IN FallThru(x.stmts \o <<sub(res, x.a, x.b)>> \o SignAndZero(res)
                \o set_sub_carry_flag(res, x.a) \o set_sub_adj_flag(res, x.a)
                \o set_sub_overflow_flag(res, x.a, x.b, x.sz) \o set_parity_flag(res))
sub_(reg, x) == FallThru(cmp(x).stmts \o write_reg(reg, Result(x)))

NoCarry == <<mov(Flag("CF"), Zero(1)), mov(Flag("OF"), Zero(1)), mov(Flag("AF"), Undefined)>>
Logic(reg, x, op) ==
    LET res == Result(x)
    IN FallThru(x.stmts \o <<Statement(res, op, 0, <<x.a, x.b>>)>> \o SignAndZero(res) \o NoCarry
                \o set_parity_flag(res) \o write_reg(reg, res))
and_(reg, x) == Logic(reg, x, "And")
or_(reg, x) == Logic(reg, x, "InclusiveOr")
xor_(reg, x) ==
    LET res == Result(x)
    IN IF x.a = x.b
       THEN FallThru(x.stmts \o <<mov(res, Zero(x.sz)), mov(Flag("SF"), Zero(1)),
                                  mov(Flag("ZF"), Constant(1, 1))>> \o NoCarry
                     \o set_parity_flag(res) \o write_reg(reg, res))
       ELSE Logic(reg, x, "ExclusiveOr")
\* The largest signed number of sz bits is a constant known by its name.
imul2(reg, x) ==
    LET double(n) == Variable(n, 2 * x.sz)
        res == Result(x)
    IN FallThru(x.stmts
                \o <<zext(2 * x.sz, double("aa"), x.a), zext(2 * x.sz, double("bb"), x.b),
                     mul(double("dres"), double("aa"), double("bb")), mov(res, double("dres")),
                     cmplts(Flag("SF"), res, Zero(x.sz)), mov(Flag("ZF"), Undefined),
                     mov(Flag("AF"), Undefined), mov(Flag("PF"), Undefined),
                     cmpltu(Flag("CF"), Constant("max", 2 * x.sz), double("dres")),
                     mov(Flag("OF"), Flag("CF"))>>
                \o write_reg(reg, res))

----------------------------------------------------------------------------
\* Moves and the stack.  mov, movzx and lea zero extend, movsx and movsxd sign
\* extend; push and pop move 64 bits in every mode.

Move(reg, x) == FallThru(x.stmts \o write_reg(reg, x.b))
sahf ==
    LET AH(k) == Slice("AH", 1, k)
    IN FallThru(<<mov(Flag("CF"), AH(0)), mov(Flag("PF"), AH(2)), mov(Flag("AF"), AH(4)),
                  mov(Flag("ZF"), AH(6)), mov(Flag("SF"), AH(7))>>)

RSP == Variable("RSP", 64)
Stack == Variable("stack", 64)
Whole(a) == IF Size(a) \in {None, 64} THEN [stmts |-> <<>>, a |-> a]
            ELSE [stmts |-> <<IF Size(a) < 64 THEN sext(64, Variable("res", 64), a)
                              ELSE mov(Variable("res", 64), Extract(a, 64, 0))>>,
                  a |-> Variable("res", 64)]
push(a) ==
    FallThru(Whole(a).stmts
             \o <<sub(Stack, RSP, Constant(8, 64)), store(64, Whole(a).a, Stack)>>
             \o write_reg(RSP, Stack))
pop(a) ==
    IF ~IsVar(a) THEN Refused
    ELSE FallThru(Whole(a).stmts
                  \o <<mov(Stack, RSP), load(64, Variable("val", 64), Stack), add(Stack, RSP, Constant(8, 64))>>
                  \o write_reg(Whole(a).a, Variable("val", 64))
                  \o write_reg(RSP, Stack))

----------------------------------------------------------------------------
\* Control flow

jcc(sem) ==
    CASE sem = "jo" -> from_flag(Flag("OF"))
      [] sem = "jno" -> negation(from_flag(Flag("OF")))
      [] sem = "jae" -> negation(from_flag(Flag("CF")))
      [] sem = "je" -> from_flag(Flag("ZF"))
      [] sem = "jne" -> negation(from_flag(Flag("ZF")))
      [] sem = "js" -> from_flag(Flag("SF"))
      [] sem = "jns" -> negation(from_flag(Flag("SF")))
      [] sem = "jp" -> from_flag(Flag("PF"))
      [] sem = "jnp" -> negation(from_flag(Flag("PF")))
      [] OTHER -> Always
Jumps == {"jo", "jno", "jb", "jae", "je", "jne", "jbe", "ja", "js", "jns", "jp", "jnp",
          "jl", "jge", "jle", "jg"}

\* The instructions that compute a value and write_reg it to their first operand
Writers == {"adc", "add", "adcx", "and", "or", "sbb", "sub", "xor", "imul2", "mov", "movsx", "movzx",
            "movsxd", "lea"}

\* Opcode::call: the semantic function of a row, applied to its operands.
Semantic(sem, ops) ==
    LET a == ops[1]
        b == ops[2]
        signed == sign_extend(a, b)
    IN CASE sem \in Writers /\ ~IsVar(a) -> Refused
         [] sem \in Writers /\ IsVar(a) ->
              (CASE sem = "adc" -> adc(a, signed)
                 [] sem = "add" -> add_(a, signed)
                 [] sem = "adcx" -> adcx(a, signed)
                 [] sem = "and" -> and_(a, signed)
                 [] sem = "or" -> or_(a, signed)
                 [] sem = "sbb" -> sbb(a, signed)
                 [] sem = "sub" -> sub_(a, signed)
                 [] sem = "xor" -> xor_(a, signed)
                 [] sem = "imul2" -> imul2(a, signed)
                 [] sem \in {"movsx", "movsxd"} -> Move(a, signed)
                 [] sem \in {"mov", "movzx", "lea"} -> Move(a, zero_extend(a, b)))
         [] sem = "cmp" -> cmp(signed)
         [] sem = "sahf" -> sahf
         [] sem = "push" -> push(a)
         [] sem = "pop" -> pop(a)
         [] sem = "call" -> FallThru(<<call(a)>>)
         [] sem = "jmp" -> Effect(<<>>, "Jump", Always)
         [] sem \in Jumps -> Effect(<<>>, "Branch", jcc(sem))
         [] sem \in {"ret", "retn", "retf", "retnf", "iretw", "hlt"} -> Effect(<<>>, "DeadEnd", Always)
         [] sem = "stub" -> FallThru(<<>>)
============================================================================
