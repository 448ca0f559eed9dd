-------------------------------- MODULE Avr --------------------------------
(* The AVR disassembler: avr/src/semantic.rs (what an instruction does),      *)
(* disassembler.rs (its operands and the jumps after it) and syntax.rs (the   *)
(* bit patterns).  A token is a 16 bit word.                                  *)
EXTENDS Decoder, TLC

CONSTANT flashend        \* address of the last word of the flash

\* Mcu::new and Mcu::wrap
pc_bits == IF flashend >= 65536 THEN 22 ELSE 16
pc_mod == (flashend + 1) * 2
wrap(a) == Constant(a % pc_mod, pc_bits)

RegisterNames ==
    <<"R0", "R1", "R2", "R3", "R4", "R5", "R6", "R7", "R8", "R9", "R10", "R11", "R12",
      "R13", "R14", "R15", "R16", "R17", "R18", "R19", "R20", "R21", "R22", "R23", "R24",
      "R25", "R26", "R27", "R28", "R29", "R30", "R31">>
resolv(r) == Variable(RegisterNames[r + 1], 8)
Flag(n) == Variable(n, 1)
C == Flag("C")
Z == Flag("Z")
N == Flag("N")
V == Flag("V")
S == Flag("S")
H == Flag("H")
T == Flag("T")
Registers ==
    [i \in {RegisterNames[j] : j \in 1 .. 32} \cup {"RAMPZ", "spl", "sph"} |-> 8]
        @@ [i \in {"C", "Z", "N", "V", "S", "H", "T", "I"} |-> 1] @@ ("EIND" :> 6)

Byte(v) == Constant(v, 8)
Word16(v) == Constant(v, 16)
res == Variable("res", 8)
res16 == Variable("res", 16)
Low4(rv) == Extract(rv, 4, 0)
Low(n) == Slice(n, 8, 0)
High(n) == Slice(n, 8, 8)

----------------------------------------------------------------------------
\* semantic.rs

\* The carry and half carry of adc and cpc, with the carry that came in.
CarryIn(rd) ==
    <<cmpeq(Flag("cf1"), res, rd), cmpltu(Flag("cf2"), res, rd),
      and(Flag("cf1"), Flag("cf1"), C), or(C, Flag("cf1"), Flag("cf2")),
      cmpeq(Flag("h1"), Slice("res", 4, 0), Low4(rd)),
      cmpltu(Flag("h2"), Slice("res", 4, 0), Low4(rd)),
      and(Flag("h1"), Flag("h1"), H), or(H, Flag("h1"), Flag("h2"))>>
BothOverflows ==
    <<and(Flag("v1"), Flag("s1"), Flag("s2")), and(Flag("v1"), Flag("v1"), Flag("s3")),
      and(Flag("v2"), Flag("t1"), Flag("t2")), and(Flag("v2"), Flag("v2"), Flag("t3")),
      or(V, Flag("v1"), Flag("v2"))>>
AddOverflow(a, b, r, zero) ==
    <<cmples(Flag("s1"), zero, a), cmples(Flag("s2"), zero, b), cmplts(Flag("s3"), r, zero),
      cmplts(Flag("t1"), a, zero), cmplts(Flag("t2"), b, zero), cmples(Flag("t3"), zero, r)>>
    \o BothOverflows
CompareOverflow(rd, rr) ==
    <<cmples(Flag("s1"), rd, Byte(0)), cmples(Flag("s2"), rr, Byte(0)),
      cmplts(Flag("s3"), Byte(0), res),
      cmplts(Flag("t1"), Byte(0), rd), cmplts(Flag("t2"), Byte(0), rr),
      cmples(Flag("t3"), res, Byte(0))>> \o BothOverflows
ZeroNegative(r, zero) == <<cmpeq(Z, r, zero), cmples(N, r, zero)>>
Carry == zext(8, Variable("carry", 8), C)

adc(rd, rr) ==
    <<Carry, add(res, rd, rr), add(res, res, Variable("carry", 8))>> \o ZeroNegative(res, Byte(0))
    \o CarryIn(rd) \o AddOverflow(rd, rr, res, Byte(0)) \o <<xor(S, N, V), mov(rd, res)>>
add_(rd, rr) ==
    <<add(res, rd, rr)>> \o ZeroNegative(res, Byte(0))
    \o <<cmpltu(C, res, rd), cmpltu(H, Slice("res", 4, 0), Low4(rd))>>
    \o AddOverflow(rd, rr, res, Byte(0)) \o <<xor(S, N, V), mov(rd, res)>>
and_(rd, rr) ==
    <<and(res, rd, rr), mov(V, Constant(0, 1)), cmpeq(Z, res, Byte(0)),
      cmples(N, res, Byte(0)), cmples(S, res, Byte(0))>>
asr(rd) ==
    <<mov(Flag("lsb"), C), cmpltu(C, Byte(127), rd), shl(rd, rd, Byte(1)),
      sel(0, rd, Flag("lsb"))>> \o ZeroNegative(res, Byte(0))
    \o <<xor(V, N, C), mov(S, C)>>
com(rd) ==
    <<sub(res, Byte(255), rd), mov(C, Constant(0, 1)), cmpeq(Z, Byte(0), res),
      cmplts(N, res, Byte(0)), mov(V, Constant(0, 1)), mov(S, N)>>
\* The flags at the end of cp, cpc, dec, inc and eor
ComparedFlags == <<cmpeq(Z, res, Byte(0)), cmpltu(N, res, Byte(0)), xor(S, V, N)>>
cp(rd, rr) ==
    <<sub(res, rd, rr), cmpltu(C, rd, res), cmpltu(H, Low4(rd), Slice("res", 4, 0))>>
    \o CompareOverflow(rd, rr) \o ComparedFlags
cpc(rd, rr) ==
    <<Carry, sub(res, rd, rr), sub(res, res, Variable("carry", 8))>>
    \o CarryIn(rd) \o CompareOverflow(rd, rr) \o ComparedFlags
\* dec and inc
Step1(rd, op) ==
    <<cmpeq(V, rd, Byte(128)), Statement(rd, op, 0, <<rd, Byte(1)>>)>> \o ComparedFlags
eor(rd, rr) == <<xor(res, rd, rr), mov(V, Constant(0, 1))>> \o ComparedFlags
eicall_load ==
    <<zext(22, Variable("p", 22), resolv(30)), sel(8, Variable("p", 22), resolv(31)),
      sel(16, Variable("p", 22), Variable("EIND", 6)),
      load(24, Variable("q", 24), Variable("p", 22))>>

\* mul, muls, mulsu (fractional = FALSE) and fmul, fmuls, fmulsu
Product(rd, rr, extd, extr, fractional) ==
    LET d == Variable("rd", 16)
        r == Variable("rr", 16)
    IN <<Statement(d, extd, 16, <<rd>>), Statement(r, extr, 16, <<rr>>), mul(res16, d, r), mov(C, Slice("res", 1, 16))>>
       \o (IF fractional THEN <<shl(res16, res16, Word16(1))>> ELSE <<>>)
       \o <<mov(resolv(0), Low("res")), mov(resolv(1), High("res")), cmpeq(Z, res16, Word16(0))>>
Fractional(rd, rr, extd, extr) == Product(rd, rr, extd, extr, TRUE)
neg(rd) ==
    <<sub(res, Byte(0), rd), cmplts(N, res, Byte(0)), cmpeq(Z, res, Byte(0)),
      cmpeq(V, res, Byte(128)), or(H, Slice("res", 1, 3), Extract(rd, 1, 3)),
      xor(S, V, N), mov(rd, res)>>
or_(rd, rr) ==
    <<or(res, rd, rr), cmplts(N, res, Byte(0)), cmpeq(Z, res, Byte(0)),
      mov(V, Constant(0, 1)), xor(S, V, N), mov(rd, res)>>
ShiftFlags(rd) ==
    <<mov(N, Constant(0, 1)), cmpeq(Z, rd, Byte(0)), xor(V, C, N), xor(S, V, N)>>
lsr(rd) == <<mov(C, Extract(rd, 1, 0)), shr(rd, rd, Byte(1))>> \o ShiftFlags(rd)
ror(rd) ==
    <<mov(Flag("nc"), Extract(rd, 1, 7)), shr(rd, rd, Byte(1)), sel(1, rd, C),
      mov(C, Flag("nc"))>> \o ShiftFlags(rd)
\* push loads as pop does.
StackPointer == Variable("stack", 16)
Stack(rd, before, after) ==
    <<zext(16, StackPointer, Variable("spl", 8)), sel(8, StackPointer, Variable("sph", 8))>>
       \o before \o <<load(8, rd, StackPointer)>> \o after
       \o <<mov(Variable("spl", 8), Low("stack")), mov(Variable("sph", 8), High("stack"))>>
pop(rd) == Stack(rd, <<add(StackPointer, StackPointer, Word16(1))>>, <<>>)
push(rd) == Stack(rd, <<>>, <<sub(StackPointer, StackPointer, Word16(1))>>)
\* The flags of sub, and those of sbc after Z
SubtractFlags(rd, rr) ==
    <<cmples(N, res, Byte(0)), cmpltu(C, rd, rr), cmpltu(H, Low4(rd), Low4(rr)),
      cmplts(V, rd, rr), xor(S, N, V), mov(rd, res)>>
sbc(rd, rr) ==
    <<Carry, sub(res, rd, rr), sub(res, res, Variable("carry", 8)),
      cmpeq(Flag("maybe_z"), res, Byte(0)), and(Z, Z, Flag("maybe_z"))>>
    \o SubtractFlags(rd, rr)
sub_(rd, rr) == <<sub(res, rd, rr), cmpeq(Z, res, Byte(0))>> \o SubtractFlags(rd, rr)
swap(rd) ==
    <<mov(Variable("tmp", 4), Low4(rd)), sel(0, rd, Extract(rd, 4, 4)),
      sel(4, rd, Variable("tmp", 4))>>

\* The semantic functions with two, one and no operands
Binary(sem, rd, rr) ==
    CASE sem = "adc" -> adc(rd, rr)
      [] sem = "add" -> add_(rd, rr)
      [] sem = "and" -> and_(rd, rr)
      [] sem = "cp" -> cp(rd, rr)
      [] sem = "cpc" -> cpc(rd, rr)
      [] sem = "eor" -> eor(rd, rr)
      [] sem = "mov" -> <<mov(rd, rr)>>
      [] sem = "mul" -> Product(rd, rr, "ZeroExtend", "ZeroExtend", FALSE)
      [] sem = "muls" -> Product(rd, rr, "SignExtend", "SignExtend", FALSE)
      [] sem = "mulsu" -> Product(rd, rr, "SignExtend", "ZeroExtend", FALSE)
      [] sem = "fmul" -> Fractional(rd, rr, "ZeroExtend", "ZeroExtend")
      [] sem = "fmuls" -> Fractional(rd, rr, "SignExtend", "SignExtend")
      [] sem = "fmulsu" -> Fractional(rd, rr, "SignExtend", "ZeroExtend")
      [] sem = "or" -> or_(rd, rr)
      [] sem = "sbc" -> sbc(rd, rr)
      [] sem = "sub" -> sub_(rd, rr)
Unary(sem, rd) ==
    CASE sem = "asr" -> asr(rd)
      [] sem = "com" -> com(rd)
      [] sem = "dec" -> Step1(rd, "Subtract")
      [] sem = "inc" -> Step1(rd, "Add")
      [] sem = "lsr" -> lsr(rd)
      [] sem = "neg" -> neg(rd)
      [] sem = "pop" -> pop(rd)
      [] sem = "push" -> push(rd)
      [] sem = "ror" -> ror(rd)
      [] sem = "swap" -> swap(rd)
\* bld, bst, cbx, sbi and ldi
Immediate(sem, rd, k) ==
    CASE sem = "bld" -> <<sel(k, rd, T)>>
      [] sem = "bst" -> <<mov(T, Extract(rd, 1, k))>>
      [] sem = "cbx" -> <<sel(k, rd, Constant(0, 1))>>
      [] sem = "sbi" -> <<sel(k, rd, Constant(1, 1))>>
      [] sem = "ldi" -> <<mov(rd, Byte(k))>>
\* lac, las, lat, ld, st and xch
Pointer(sem, ptr, reg) ==
    LET zcont == Variable("zcont", 8)
        nreg == Variable("nreg", 8)
    IN CASE sem = "ld" -> <<load(8, reg, ptr)>>
         [] sem = "st" -> <<store(8, reg, ptr)>>
         [] sem = "lac" -> <<load(8, zcont, ptr), xor(nreg, reg, Byte(255)),
                             and(reg, zcont, nreg), store(8, reg, ptr)>>
         [] sem = "las" -> <<load(8, zcont, ptr), or(reg, reg, zcont), store(8, reg, ptr)>>
         [] sem = "lat" -> <<load(8, zcont, ptr), xor(reg, reg, zcont), store(8, reg, ptr)>>
         [] sem = "xch" -> <<load(8, zcont, ptr), store(8, reg, ptr), mov(reg, zcont)>>

----------------------------------------------------------------------------
\* disassembler.rs and the handlers of semantic.rs.  skip is the field of the
\* configuration that a skip instruction leaves for the instruction after it.

NoSkip == [kind |-> "None"]
NewMatch(address, len) == NewState(address, len) @@ ("skip" :> NoSkip)
optional_skip(next, st) ==
    IF st.skip = NoSkip THEN st ELSE jump_from(st, st.skip.origin, next, st.skip.guard)
Next(st) == wrap(st.address + st.len)
Continue(st) == jump(optional_skip(Next(st), st), Next(st), Always)

ioreg == Variable("ioreg", 8)
FetchIoreg(st, a) == mnemonic(st, 0, <<load(8, ioreg, Constant(a, 6))>>)

\* The end of skip and cpse.  Only a lone word is skipped over: two bytes.
SkipJumps(st, g) ==
    LET skipped == IF st.len = 2 THEN jump(st, wrap(st.address + 4), g)
                   ELSE [st EXCEPT !.skip = [kind |-> "Some", guard |-> g, origin |-> st.address]]
    IN jump(skipped, wrap(st.address + 2), negation(g))
skip(st, source, expect) ==
    LET g == from_flag(Flag("skip_flag"))
    IN SkipJumps(mnemonic(st, 2, <<mov(Flag("skip_flag"), source)>>),
                 IF expect THEN g ELSE negation(g))
cpse(st, rd, rr) ==
    SkipJumps(optional_skip(wrap(st.address + 2),
                            mnemonic(st, 2, <<cmpeq(Flag("skip_flag"), rr, rd)>>)),
              from_flag(Flag("skip_flag")))

binary(st, sem, rd, rr) == Continue(mnemonic(st, 2, Binary(sem, rd, rr)))
binary_imm(st, sem, rd, k) == Continue(mnemonic(st, st.len, Immediate(sem, rd, k)))
nonary(st, stmts) == Continue(mnemonic(st, 2, stmts))
unary(st, sem, rd) == Continue(mnemonic(st, 2, Unary(sem, rd)))
flag(st, f, val) == Continue(mnemonic(st, 2, <<mov(f, Constant(val, 1))>>))

\* The address registers X, Y and Z are pairs of registers.  The variable is
\* named as the operand is written: X, -X, X+ or Y+q.
Pair(ar) == CASE ar = "X" -> 26 [] ar = "Y" -> 28 [] ar = "Z" -> 30
WideReg(v, r) == <<zext(v.size, v, resolv(r)), sel(8, v, resolv(r + 1))>>
WriteBack(v, r) == <<mov(resolv(r), Extract(v, 8, 0)), mov(resolv(r + 1), Extract(v, 8, 8))>>
PointerName(ar, off) ==
    CASE off = "None" -> ar
      [] off = "Predecrement" -> "-" \o ar
      [] off = "Postincrement" -> ar \o "+"
      [] off = "Displacement" -> ar \o "+q"
binary_ptr(st, sem, ar, off, reg, q) ==
    LET v == Variable(PointerName(ar, off), 16)
        step(a) == IF off = a THEN <<sub(v, v, Word16(1))>> ELSE <<>>
        after == CASE off = "Postincrement" -> <<add(v, v, Word16(1))>>
                   [] off = "Displacement" -> <<add(v, v, Word16(q))>>
                   [] OTHER -> <<>>
        body == step("Predecrement") \o Pointer(sem, v, reg) \o after \o WriteBack(v, Pair(ar))
    IN Continue(mnemonic(mnemonic(st, 0, WideReg(v, Pair(ar))), 2, body))

\* The statement before the guarded jumps writes the flag they test.
branch(st, f, val, k) ==
    LET signed == IF k >= 32 THEN ((k % 32) - 32) * 2 ELSE k * 2
        target == wrap(st.address + st.len + signed)
        m == optional_skip(Next(st), mnemonic(st, 2, <<mov(f, Constant(val, 1))>>))
        g == from_flag(f)
    IN IF val = 1 THEN jump(jump(m, Next(st), negation(g)), target, g)
       ELSE jump(jump(m, target, negation(g)), Next(st), g)

\* adiw and sbiw
Wide(st, r, stmts) ==
    Continue(mnemonic(mnemonic(st, 0, WideReg(Variable("reg", 16), r)), 2,
                      stmts \o <<mov(resolv(r), Low("res")), mov(resolv(r + 1), High("res"))>>))
imm == Variable("imm", 16)
reg16 == Variable("reg", 16)
adiw(st, r, k) ==
    Wide(st, r, <<zext(16, imm, Byte(k)), add(res16, reg16, imm)>>
                \o ZeroNegative(res16, Word16(0)) \o <<cmpltu(C, res16, reg16)>>
                \o AddOverflow(reg16, imm, res16, Word16(0)))
sbiw(st, r) ==
    Wide(st, r, WideReg(reg16, r) \o <<zext(16, imm, Variable("k", 8)), sub(res16, reg16, imm)>>
                \o ZeroNegative(res16, Word16(0))
                \o <<cmpltu(C, reg16, imm), cmplts(V, res16, imm), xor(S, N, V)>>)

call_(st, k) == Continue(mnemonic(st, 4, <<call(wrap(k * 2))>>))
jmp(st, k) == jump(optional_skip(Next(st), mnemonic(st, 4, <<>>)), wrap(k * 2), Always)
\* rcall and rjmp take their twelve bits as an unsigned number of words.
Relative(st, k) == wrap(st.address + k * 2 + 2)
rcall(st, k) == Continue(mnemonic(st, 2, <<call(Relative(st, k))>>))
rjmp(st, k) == jump(optional_skip(Next(st), mnemonic(st, 2, <<>>)), Relative(st, k), Always)
eijmp(st) ==
    LET q == Variable("q", 24)
    IN jump(optional_skip(q, mnemonic(st, 2, eicall_load)), q, Always)
ijmp(st) ==
    LET p == Variable("p", 22)
        next == Variable("R30:R31", 22)
        m == mnemonic(st, 2, <<zext(22, p, resolv(30)), sel(8, p, resolv(31)),
                               sel(16, p, Constant(0, 6)), mov(next, p)>>)
    IN jump(optional_skip(next, m), next, Always)
icall(st) ==
    LET z == Variable("Z", 16)
        ptr == Variable("ptr", 24)
    IN Continue(mnemonic(mnemonic(st, 0, WideReg(z, 30)), 2, <<load(24, ptr, z), call(ptr)>>))

\* elpm (24 bit pointer), lpm and spm; every caller passes off = 0 or 1.
ProgramMemory(st, rd, z, wide) ==
    LET ptr == Variable("ptr", z.size)
    IN Continue(mnemonic(
           mnemonic(st, 0, WideReg(z, 30)
                           \o (IF wide THEN <<sel(16, z, Variable("RAMPZ", 8))>> ELSE <<>>)),
           2, <<load(z.size, ptr, z), load(8, rd, ptr), add(z, z, Constant(1, z.size))>>
              \o WriteBack(z, 30)
              \o (IF wide THEN <<mov(Variable("RAMPZ", 8), Extract(z, 8, 16))>> ELSE <<>>)))
elpm(st, rd) == ProgramMemory(st, rd, Variable("Z", 24), TRUE)
lpm(st, rd) == ProgramMemory(st, rd, Variable("Z", 16), FALSE)
spm1(st) == ProgramMemory(st, resolv(0), Variable("Z", 16), FALSE)
\* The pattern of spm2 has no group D, which reg(st, "D") unwraps.
spm2(st) == [st EXCEPT !.ok = FALSE]

\* in, out, lds and sts
Access(st, stmt) == Continue(mnemonic(st, st.len, <<stmt>>))
in(st, d, a) == Access(st, load(8, d, a))
out(st, a, r) == Access(st, store(8, a, r))
lds1(st, d, k) == Access(st, load(8, d, k))
lds2(st, d, k) == Access(st, load(8, d, k))
sts1(st, r, k) == Access(st, store(8, r, k))
sts2(st, r, k) == Access(st, store(8, r, k))
des(st) == Continue(mnemonic(st, 2, [i \in 1 .. 16 |-> mov(resolv(i - 1), Undefined)]))
movw(st, d, r) == Continue(mnemonic(st, 2, <<mov(resolv(d * 2), resolv(r * 2)),
                                             mov(resolv(d * 2 + 1), resolv(r * 2 + 1))>>))

----------------------------------------------------------------------------
\* syntax.rs.  A rule matches the words that agree with pattern on the bits of
\* mask; a rule of two words takes the second one as it is.

\* The bits of a mask, as ranges from a high to a low bit
Whole == {<<15, 0>>}
Top4 == {<<15, 12>>}
Top5 == {<<15, 11>>}
Top6 == {<<15, 10>>}
Top8 == {<<15, 8>>}
Top6Low3 == {<<15, 10>>, <<2, 0>>}
Top7Bit3 == {<<15, 9>>, <<3, 3>>}
Top7Low4 == {<<15, 9>>, <<3, 0>>}
Top7Mid3 == {<<15, 9>>, <<3, 1>>}
Top8Low4 == {<<15, 8>>, <<3, 0>>}
Top9Bit3 == {<<15, 7>>, <<3, 3>>}
Displaced == {<<15, 14>>, <<12, 12>>, <<9, 9>>, <<3, 3>>}
Bits(w, hi, lo) == (w \div 2^lo) % 2^(hi - lo + 1)
Agree16(w, pattern, mask) == \A b \in mask : Bits(w, b[1], b[2]) = Bits(pattern, b[1], b[2])

Rule(mask, pattern, mode, sem) ==
    [mask |-> mask, pattern |-> pattern, words |-> 1, mode |-> mode, sem |-> sem]
Rule2(mask, pattern, mode) ==
    [mask |-> mask, pattern |-> pattern, words |-> 2, mode |-> mode, sem |-> mode]
RegReg(pattern, sem) == Rule(Top6, pattern, "binary DR", sem)
RegImm(pattern, sem) == Rule(Top4, pattern, "binary dK", sem)
OneReg(pattern, sem) == Rule(Top7Low4, pattern, "unary", sem)
Exact(pattern, mode) == Rule(Whole, pattern, mode, "")
Branch(pattern, f, val) ==
    [Rule(Top6Low3, pattern, "branch", f) EXCEPT !.mode = IF val THEN "branch 1" ELSE "branch 0"]
SetFlag(pattern, f) == Rule(Whole, pattern, "flag 1", f)
ClearFlag(pattern, f) == Rule(Whole, pattern, "flag 0", f)
Ptr(mask, pattern, sem, ar, off) ==
    Rule(mask, pattern, "ptr", sem) @@ [ar |-> ar, off |-> off]
PtrD(pattern, sem, ar, off) == Ptr(Top7Low4, pattern, sem, ar, off)
PtrQ(pattern, sem, ar) == Ptr(Displaced, pattern, sem, ar, "Displacement")

SkipRules ==
    <<Rule(Top7Bit3, \hfc00, "skip reg", "sbrc"), Rule(Top7Bit3, \hfe00, "skip reg", "sbrs"),
      Rule(Top6, \h1000, "cpse", ""),
      Rule(Top8, \h9900, "skip io", "sbic"), Rule(Top8, \h9b00, "skip io", "sbis")>>

\* main, from adc to jmp
MainRulesAdcJmp ==
    <<RegReg(\h1c00, "adc"), RegReg(\h0c00, "add"), Rule(Top8, \h9600, "adiw", ""),
      RegReg(\h2000, "and"), RegImm(\h7000, "and"),
      Branch(\hf000, "C", TRUE), Branch(\hf400, "C", FALSE),
      Branch(\hf001, "Z", TRUE), Branch(\hf401, "Z", FALSE),
      Branch(\hf002, "N", TRUE), Branch(\hf402, "N", FALSE),
      Branch(\hf003, "V", TRUE), Branch(\hf403, "V", FALSE),
      Branch(\hf404, "S", FALSE), Branch(\hf004, "S", TRUE),
      Branch(\hf005, "H", TRUE), Branch(\hf405, "H", FALSE),
      Branch(\hf006, "T", TRUE), Branch(\hf406, "T", FALSE),
      Branch(\hf007, "I", TRUE), Branch(\hf407, "I", FALSE),
      Rule(Top7Bit3, \hf800, "imm Db", "bld"), Exact(\h9598, "nonary"),
      Rule(Top7Bit3, \hfa00, "imm Db", "bst"), Rule2(Top7Mid3, \h940e, "call"),
      Rule(Top8, \h9800, "imm Ab", "cbx"),
      ClearFlag(\h9488, "C"), ClearFlag(\h94d8, "H"), ClearFlag(\h94f8, "I"),
      ClearFlag(\h94a8, "N"), ClearFlag(\h94c8, "S"), ClearFlag(\h94e8, "T"),
      ClearFlag(\h94b8, "V"), ClearFlag(\h9498, "Z"),
      OneReg(\h9400, "com"), RegReg(\h1400, "cp"), RegReg(\h0400, "cpc"),
      RegImm(\h3000, "cp"), OneReg(\h940a, "dec"), Rule(Top8Low4, \h940b, "des", ""),
      Exact(\h9519, "eicall"), Exact(\h9419, "eijmp"),
      Exact(\h95d8, "elpm R0"), Rule(Top7Low4, \h9006, "elpm", ""), Rule(Top7Low4, \h9007, "elpm", ""),
      RegReg(\h2400, "eor"),
      Rule(Top9Bit3, \h0308, "binary dr3", "fmul"), Rule(Top9Bit3, \h0380, "binary dr3", "fmuls"),
      Rule(Top9Bit3, \h0388, "binary dr3", "fmulsu"),
      Exact(\h9509, "icall"), Exact(\h9409, "ijmp"), Rule(Top5, \hb000, "in", ""),
      OneReg(\h9403, "inc"), Rule2(Top7Mid3, \h940c, "jmp")>>

\* main, from lac to the end
MainRulesLacXch ==
    <<PtrD(\h9206, "lac", "Z", "None"), PtrD(\h9205, "las", "Z", "None"),
      PtrD(\h9207, "lat", "Z", "None"),
      PtrD(\h900c, "ld", "X", "None"), PtrD(\h900e, "ld", "X", "Predecrement"),
      PtrD(\h900d, "ld", "X", "Postincrement"),
      PtrD(\h8008, "ld", "Y", "None"), PtrD(\h900a, "ld", "Y", "Predecrement"),
      PtrD(\h9009, "ld", "Y", "Postincrement"),
      PtrD(\h8000, "ld", "Z", "None"), PtrD(\h9002, "ld", "Z", "Predecrement"),
      PtrD(\h9001, "ld", "Z", "Postincrement"),
      PtrQ(\h8008, "ld", "Y"), PtrQ(\h8000, "ld", "Z"),
      Rule(Top4, \he000, "imm dk", "ldi"), Rule2(Top7Low4, \h9000, "lds1"),
      Rule(Top5, \ha000, "lds2", ""),
      Exact(\h95c8, "lpm R0"), Rule(Top7Low4, \h9004, "lpm", ""), Rule(Top7Low4, \h9005, "lpm", ""),
      OneReg(\h9406, "lsr"), RegReg(\h2c00, "mov"), Rule(Top8, \h0100, "movw", ""),
      RegReg(\h9c00, "mul"), Rule(Top8, \h0200, "binary dr4", "muls"),
      Rule(Top9Bit3, \h0300, "binary dr3", "mulsu"), OneReg(\h9401, "neg"), OneReg(\h9405, "asr"),
      Exact(\h0000, "nonary"), RegReg(\h2800, "or"), RegImm(\h6000, "or"),
      Rule(Top5, \hb800, "out", ""), OneReg(\h900f, "pop"), OneReg(\h920f, "push"),
      Rule(Top4, \hd000, "rcall", ""), Exact(\h9508, "nonary"), Exact(\h9518, "nonary"),
      Rule(Top4, \hc000, "rjmp", ""), OneReg(\h9407, "ror"),
      RegReg(\h0800, "sbc"), RegImm(\h4000, "sbc"), Rule(Top8, \h9a00, "imm Ab", "sbi"),
      Rule(Top8, \h9700, "sbiw", ""),
      SetFlag(\h9408, "C"), SetFlag(\h9458, "H"), SetFlag(\h9478, "I"), SetFlag(\h9428, "N"),
      SetFlag(\h9448, "S"), SetFlag(\h9468, "T"), SetFlag(\h9438, "V"), SetFlag(\h9418, "Z"),
      Exact(\h9588, "nonary"), Exact(\h95e8, "spm1"), Exact(\h95f8, "spm2"),
      PtrD(\h920c, "st", "X", "None"), PtrD(\h920e, "st", "X", "Predecrement"),
      PtrD(\h920d, "st", "X", "Postincrement"),
      PtrD(\h8208, "st", "Y", "None"), PtrD(\h9209, "st", "Y", "Postincrement"),
      PtrD(\h920a, "st", "Y", "Predecrement"), PtrQ(\h8208, "st", "Y"),
      PtrD(\h8200, "st", "Z", "None"), PtrD(\h9201, "st", "Z", "Postincrement"),
      PtrD(\h9202, "st", "Z", "Predecrement"), PtrQ(\h8200, "st", "Z"),
      Rule2(Top7Low4, \h9200, "sts1"), Rule(Top5, \ha800, "sts2", ""),
      RegReg(\h1800, "sub"), RegImm(\h5000, "sub"), OneReg(\h9402, "swap"),
      Exact(\h95a8, "nonary"), PtrD(\h9204, "xch", "Z", "None")>>

Rules == MainRulesAdcJmp \o MainRulesLacXch \o SkipRules

\* next_match: of the rules that match, the longest, and of those the rule
\* added first; 0 when there is none.
next_match(rules, w, words) ==
    LET is == {i \in DOMAIN rules :
                  rules[i].words <= words /\ Agree16(w, rules[i].pattern, rules[i].mask)}
    IN IF is = {} THEN 0
       ELSE CHOOSE i \in is : \A j \in is :
                \/ rules[i].words > rules[j].words
                \/ rules[i].words = rules[j].words /\ i <= j

RuleName(w, words) ==
    LET rules == Rules
        k == next_match(rules, w, words)
    IN IF k = 0 THEN "" ELSE IF rules[k].sem = "" THEN rules[k].mode ELSE rules[k].sem

\* Capture groups
D5(w) == resolv(Bits(w, 8, 4))
R5(w) == resolv(Bits(w, 9, 9) * 16 + Bits(w, 3, 0))
d4(w) == resolv(Bits(w, 7, 4) + 16)
K8(w) == Bits(w, 11, 8) * 16 + Bits(w, 3, 0)
K6(w) == Bits(w, 7, 6) * 16 + Bits(w, 3, 0)
A6(w) == Byte(Bits(w, 10, 9) * 16 + Bits(w, 3, 0))
Q6(w) == Bits(w, 13, 13) * 32 + Bits(w, 11, 10) * 8 + Bits(w, 2, 0)
K22(w, w2) == (Bits(w, 8, 4) * 2 + Bits(w, 0, 0)) * 65536 + w2
\* lds2 and sts2
K7(w) ==
    LET k == Bits(w, 10, 8) * 16 + Bits(w, 3, 0)
    IN Word16(IF k <= 31 THEN k + 32 ELSE k)

\* The word the rules match, the word after it and the number of words left.
Decode(address, w, w2, words) ==
    LET rules == Rules
        k == next_match(rules, w, words)
    IN IF k = 0 THEN NewMatch(address, 0)
    ELSE LET r == rules[k]
             st == NewMatch(address, 2 * r.words)
             b == Bits(w, 2, 0)
             io == FetchIoreg(st, Bits(w, 7, 3))
         IN CASE r.mode = "binary DR" -> binary(st, r.sem, D5(w), R5(w))
              [] r.mode = "binary dK" -> binary(st, r.sem, d4(w), Byte(K8(w)))
              [] r.mode = "binary dr4" -> binary(st, r.sem, d4(w), resolv(Bits(w, 3, 0) + 16))
              [] r.mode = "binary dr3" ->
                    binary(st, r.sem, resolv(Bits(w, 6, 4) + 16), resolv(b + 16))
              [] r.mode = "imm Db" -> binary_imm(st, r.sem, D5(w), b)
              [] r.mode = "imm dk" -> binary_imm(st, r.sem, d4(w), K8(w))
              [] r.mode = "imm Ab" -> binary_imm(io, r.sem, ioreg, b)
              [] r.mode = "ptr" -> binary_ptr(st, r.sem, r.ar, r.off, D5(w), Q6(w))
              [] r.mode = "unary" -> unary(st, r.sem, D5(w))
              [] r.mode = "nonary" -> nonary(st, <<>>)
              [] r.mode = "eicall" -> nonary(st, eicall_load \o <<call(Variable("q", 24))>>)
              [] r.mode = "flag 0" -> flag(st, Flag(r.sem), 0)
              [] r.mode = "flag 1" -> flag(st, Flag(r.sem), 1)
              [] r.mode = "branch 0" -> branch(st, Flag(r.sem), 0, Bits(w, 9, 3))
              [] r.mode = "branch 1" -> branch(st, Flag(r.sem), 1, Bits(w, 9, 3))
              [] r.mode = "skip reg" -> skip(st, Extract(D5(w), 1, b), r.sem = "sbrs")
              [] r.mode = "skip io" -> skip(io, Slice("ioreg", 1, b), r.sem = "sbis")
              [] r.mode = "cpse" -> cpse(st, D5(w), R5(w))
              [] r.mode = "adiw" -> adiw(st, Bits(w, 5, 4) * 2 + 24, K6(w))
              [] r.mode = "sbiw" -> sbiw(st, Bits(w, 5, 4) * 2 + 24)
              [] r.mode = "call" -> call_(st, K22(w, w2))
              [] r.mode = "jmp" -> jmp(st, K22(w, w2))
              [] r.mode = "rcall" -> rcall(st, Bits(w, 11, 0))
              [] r.mode = "rjmp" -> rjmp(st, Bits(w, 11, 0))
              [] r.mode = "icall" -> icall(st)
              [] r.mode = "ijmp" -> ijmp(st)
              [] r.mode = "eijmp" -> eijmp(st)
              [] r.mode = "elpm R0" -> elpm(st, resolv(0))
              [] r.mode = "elpm" -> elpm(st, D5(w))
              [] r.mode = "lpm R0" -> lpm(st, resolv(0))
              [] r.mode = "lpm" -> lpm(st, D5(w))
              [] r.mode = "spm1" -> spm1(st)
              [] r.mode = "spm2" -> spm2(st)
              [] r.mode = "in" -> in(st, D5(w), A6(w))
              [] r.mode = "out" -> out(st, A6(w), D5(w))
              [] r.mode = "lds1" -> lds1(st, D5(w), Word16(w2))
              [] r.mode = "lds2" -> lds2(st, d4(w), K7(w))
              [] r.mode = "sts1" -> sts1(st, D5(w), Word16(w2))
              [] r.mode = "sts2" -> sts2(st, d4(w), K7(w))
              [] r.mode = "des" -> des(st)
              [] r.mode = "movw" -> movw(st, Bits(w, 7, 4), Bits(w, 3, 0))
============================================================================
