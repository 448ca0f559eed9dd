------------------------------ MODULE Mos6502 ------------------------------
(* The MOS 6502 disassembler: mos6502/src/semantic.rs (what an instruction    *)
(* does), disassembler.rs (the addressing modes) and syntax.rs (the opcodes). *)
EXTENDS Decoder, TLC

A == Variable("A", 8)
X == Variable("X", 8)
Y == Variable("Y", 8)
S == Variable("S", 8)
SP == Variable("SP", 8)
N == Variable("N", 1)
V == Variable("V", 1)
Z == Variable("Z", 1)
C == Variable("C", 1)
I == Variable("I", 1)
D == Variable("D", 1)
B == Variable("B", 1)
Registers ==
    [r \in {"A", "X", "Y", "S", "SP"} |-> 8] @@ [r \in {"N", "V", "Z", "C", "I", "D", "B"} |-> 1]

Byte(v) == Constant(v, 8)
res == Variable("res", 8)
val == Variable("val", 8)
flags == Variable("flags", 8)
sp == Variable("sp", 9)
addr == Variable("addr", 16)
short_addr == Variable("short_addr", 8)
Temp(n) == Variable(n, 1)

----------------------------------------------------------------------------
\* semantic.rs

\* adc and sbc differ in the first operation only.
AddWithCarry(op, r) ==
    LET carry == Variable("carry", 8)
    IN <<zext(8, carry, C), Statement(res, op, 0, <<A, r>>), add(res, res, carry),
         cmpeq(Z, Byte(0), res),
         cmpleu(Temp("c1"), res, A), cmpeq(Temp("c2"), res, A),
         and(Temp("c2"), Temp("c2"), C), and(C, Temp("c1"), Temp("c2")),
         cmples(N, res, Byte(0)),
         cmples(Temp("v1"), res, A), cmpeq(Temp("v2"), res, A),
         and(Temp("v2"), Temp("v2"), C), and(V, Temp("v1"), Temp("v2")),
         mov(A, res)>>
adc(r) == AddWithCarry("Add", r)
sbc(r) == AddWithCarry("Subtract", r)
and_(r) == <<and(A, A, r), cmpeq(Z, A, Byte(0)), cmples(N, A, Byte(0))>>
asl == <<mov(C, Slice("A", 1, 7)), shl(A, A, Byte(1)),
         cmpeq(Z, A, Byte(0)), cmples(N, A, Byte(0))>>
bit(r) == <<and(res, A, r), cmpeq(Z, res, Byte(0)), cmples(N, res, Byte(0)),
            mov(V, Slice("res", 1, 7))>>
\* clc, cli, cld, sec, sei, clv, sed
SetFlag(f, v) == <<mov(f, Constant(v, 1))>>
cmp(r1, r2) == <<cmpltu(C, r1, r2), mov(N, C), cmpeq(Z, r1, r2)>>
dec(l, r) == <<sub(l, r, Byte(1)), cmpeq(Z, l, Byte(0)), cmplts(N, r, Byte(0))>>
eor(r) == <<xor(A, r, A), cmpeq(Z, A, Byte(0)), cmplts(N, A, Byte(0))>>
inc(l, r) == <<add(l, r, Byte(1)), cmpeq(Z, l, Byte(0)), cmplts(N, l, Byte(0))>>
ld(l, r) == <<mov(l, r), cmpeq(Z, l, Byte(0)), cmplts(N, l, Byte(0))>>
lsr(r) == <<mov(C, Slice("A", 1, 0)), shl(A, A, r), cmpeq(Z, A, Byte(0)),
            mov(N, Constant(0, 1))>>
ora(r) == <<or(A, r, A), cmpeq(Z, A, Byte(0)), cmplts(N, A, Byte(0))>>

StackPointer == <<zext(9, sp, S), add(sp, sp, Constant(256, 9))>>
NextCell == <<add(sp, sp, Constant(1, 9))>>
SaveStack == <<mov(S, Slice("sp", 8, 0))>>
pha == StackPointer \o <<store(8, A, sp)>> \o NextCell \o SaveStack
php == StackPointer
    \o <<zext(8, flags, C), sel(1, flags, Z), sel(2, flags, I), sel(3, flags, D),
         sel(4, flags, B), sel(5, flags, Undefined), sel(6, flags, V), sel(7, flags, N),
         store(8, flags, sp)>>
    \o NextCell \o SaveStack
pla == StackPointer \o NextCell \o <<load(8, A, sp)>> \o SaveStack
    \o <<cmpeq(Z, A, Byte(0)), cmplts(N, A, Byte(0))>>
plp == StackPointer \o NextCell
    \o <<load(8, flags, sp), mov(C, Slice("flags", 1, 0)), mov(Z, Slice("flags", 1, 1)),
         mov(I, Slice("flags", 1, 2)), mov(D, Slice("flags", 1, 3)),
         mov(V, Slice("flags", 1, 6)), mov(N, Slice("flags", 1, 7))>>
    \o SaveStack
    \o <<cmpeq(Z, A, Byte(0)), cmplts(N, A, Byte(0))>>

rol(r) == <<mov(Temp("hb"), Slice(r.name, 1, 7)), shl(r, r, Byte(1)), sel(7, r, C),
            mov(C, Temp("hb")), cmpeq(Z, r, Byte(0)), cmples(N, r, Byte(0))>>
ror(r) == <<mov(Temp("lb"), Slice(r.name, 1, 0)), shr(r, r, Byte(1)), sel(7, r, C),
            mov(C, Temp("lb")), cmpeq(Z, r, Byte(0)), cmples(N, r, Byte(0))>>
st_(reg, ptr) == <<store(8, reg, ptr)>>
trr(src, dst) == <<mov(dst, src), cmpeq(Z, dst, Byte(0)), cmplts(N, dst, Byte(0))>>

\* The semantic function an opcode is paired with, applied to its operand.
Semantic(sem, r) ==
    CASE sem = "adc" -> adc(r)
      [] sem = "sbc" -> sbc(r)
      [] sem = "and" -> and_(r)
      [] sem = "asl" -> asl
      [] sem = "bit" -> bit(r)
      [] sem = "clc" -> SetFlag(C, 0)
      [] sem = "cli" -> SetFlag(I, 0)
      [] sem = "cld" -> SetFlag(D, 0)
      [] sem = "clv" -> SetFlag(V, 0)
      [] sem = "sec" -> SetFlag(C, 1)
      [] sem = "sei" -> SetFlag(I, 1)
      [] sem = "sed" -> SetFlag(D, 1)
      [] sem = "cpx" -> cmp(X, r)
      [] sem = "cpy" -> cmp(Y, r)
      [] sem = "cpa" -> cmp(A, r)
      [] sem = "dea" -> dec(A, r)
      [] sem = "dex" -> dec(X, X)
      [] sem = "dey" -> dec(Y, Y)
      [] sem = "eor" -> eor(r)
      [] sem = "ina" -> inc(A, r)
      [] sem = "inx" -> inc(X, X)
      [] sem = "iny" -> inc(Y, Y)
      [] sem = "lda" -> ld(A, r)
      [] sem = "ldx" -> ld(X, r)
      [] sem = "ldy" -> ld(Y, r)
      [] sem = "lsr" -> lsr(r)
      [] sem = "ora" -> ora(r)
      [] sem = "pha" -> pha
      [] sem = "php" -> php
      [] sem = "pla" -> pla
      [] sem = "plp" -> plp
      [] sem = "rol" -> rol(r)
      [] sem = "ror" -> ror(r)
      [] sem = "sta" -> st_(A, r)
      [] sem = "stx" -> st_(X, r)
      [] sem = "sty" -> st_(Y, r)
      [] sem = "tax" -> trr(A, X)
      [] sem = "tay" -> trr(A, Y)
      [] sem = "tsx" -> trr(SP, X)
      [] sem = "txa" -> trr(X, A)
      [] sem = "txs" -> trr(X, SP)
      [] sem = "tya" -> trr(Y, A)
      [] sem = "nop" -> <<>>

----------------------------------------------------------------------------
\* disassembler.rs: the addressing modes.  Operand bytes are not told apart;
\* indexed is the variable the code names after the operand, "$10,X".

Address16(a) == Constant(a % 65536, 16)
Imm8 == Byte(0)
Imm16 == Constant(0, 16)
indexed == Variable("$arg", 16)
FallThrough(st) == jump(st, Address16(st.address + st.len), Always)

\* nonary, implied and immediate: one mnemonic, then the next instruction.
nonary(st, sem, r) == FallThrough(mnemonic(st, st.len, Semantic(sem, r)))
ret(st) == mnemonic(st, st.len, <<>>)
zpage(st, sem) ==
    FallThrough(mnemonic(st, st.len,
        <<zext(16, addr, Imm8), load(8, val, addr)>> \o Semantic(sem, val)))
absolute(st, sem) ==
    FallThrough(mnemonic(st, st.len, <<load(8, val, Imm16)>> \o Semantic(sem, val)))

\* The modes with an index register load through a mnemonic of no size.
Fetched(st, fetch, sem) ==
    FallThrough(mnemonic(mnemonic(st, 0, fetch), st.len, Semantic(sem, val)))
zpage_offset(st, index, sem) ==
    Fetched(st, <<add(short_addr, Imm8, index), zext(16, indexed, short_addr),
                  load(8, val, indexed)>>, sem)
zpage_index(st, index, sem) ==
    Fetched(st, <<add(short_addr, Imm8, index), zext(16, addr, short_addr),
                  load(16, indexed, addr), load(8, val, indexed)>>, sem)
absolute_offset(st, index, sem) ==
    Fetched(st, <<zext(16, indexed, index), add(indexed, indexed, Imm16),
                  load(8, val, indexed)>>, sem)

\* The guard is the flag itself; set only enters a temporary nobody reads.
branch(st, f, set, rel) ==
    LET g == from_flag(f)
        m == mnemonic(st, 2, <<cmpeq(Temp("flag"), Constant(set, 1), f)>>)
    IN jump(jump(m, Address16(st.address + st.len), negation(g)),
            Address16(st.address + rel), g)

jmp_direct(st, target) == jump(mnemonic(st, 3, <<>>), Address16(target), Always)
jmp_indirect(st) ==
    LET ptr == Variable("res", 16)
    IN jump(mnemonic(mnemonic(st, 0, <<load(16, ptr, Imm16)>>), 3, <<>>), ptr, Always)
jsr(st) == jump(mnemonic(st, 3, <<call(Imm16)>>), Address16(st.address + 3), Always)

----------------------------------------------------------------------------
\* syntax.rs: the opcodes.

Row(op, mode, reg, sem) == op :> [mode |-> mode, reg |-> reg, sem |-> sem]
Plain(op, sem) == Row(op, "nonary", A, sem)

\* The eight modes of an accumulator instruction, at their usual distances.
Family(op, sem) ==
       Row(op, "zpage_index", X, sem) @@ Row(op + 4, "zpage", A, sem)
    @@ Row(op + 8, "immediate", A, sem) @@ Row(op + 12, "absolute", A, sem)
    @@ Row(op + 16, "zpage_index", Y, sem) @@ Row(op + 20, "zpage_offset", X, sem)
    @@ Row(op + 24, "absolute_offset", Y, sem) @@ Row(op + 28, "absolute_offset", X, sem)
\* The four memory modes of a shift, decrement or increment.
Memory(op, sem) ==
       Row(op, "zpage", A, sem) @@ Row(op + 8, "absolute", A, sem)
    @@ Row(op + 16, "zpage_offset", X, sem) @@ Row(op + 24, "absolute_offset", X, sem)
Each(ops, mode, reg, sem) == [op \in ops |-> [mode |-> mode, reg |-> reg, sem |-> sem]]
Branch(clear, set, f) == Row(clear, "branch0", f, "nop") @@ Row(set, "branch1", f, "nop")

\* ADC to CLx and SEx
OpcodesAdcSed ==
       Family(\h61, "adc") @@ Family(\h21, "and")
    @@ Each({\h02, \h12}, "ret", A, "nop") @@ Row(\h0a, "implied", A, "asl")
    @@ Plain(\h1a, "nop") @@ Memory(\h06, "asl")
    @@ Branch(\h90, \hb0, C) @@ Branch(\hd0, \hf0, Z)
    @@ Row(\h24, "zpage", A, "bit") @@ Row(\h2c, "absolute", A, "bit")
    @@ Branch(\h10, \h30, N) @@ Branch(\h50, \h70, V)
    @@ Row(\h00, "brk", A, "nop")
    @@ Plain(\h18, "clc") @@ Plain(\h58, "cli") @@ Plain(\hd8, "cld")
    @@ Plain(\h38, "sec") @@ Plain(\h78, "sei") @@ Plain(\hb8, "clv") @@ Plain(\hf8, "sed")

\* CMP to LSR
OpcodesCmpLsr ==
       Family(\hc1, "cpa")
    @@ Row(\hc0, "immediate", A, "cpy") @@ Row(\hc4, "zpage", A, "cpy")
    @@ Row(\hcc, "absolute", A, "cpy") @@ Row(\he0, "immediate", A, "cpx")
    @@ Row(\he4, "zpage", A, "cpx") @@ Row(\hec, "absolute", A, "cpx")
    @@ Memory(\hc6, "dea") @@ Plain(\hca, "dex") @@ Plain(\h88, "dey")
    @@ Family(\h41, "eor")
    @@ Memory(\he6, "ina") @@ Plain(\he8, "inx") @@ Plain(\hc8, "iny")
    @@ Row(\h4c, "jmp_direct", A, "nop") @@ Row(\h6c, "jmp_indirect", A, "nop")
    @@ Row(\h20, "jsr", A, "nop")
    @@ Family(\ha1, "lda")
    @@ Row(\ha2, "immediate", A, "ldx") @@ Row(\ha6, "zpage", A, "ldx")
    @@ Row(\hae, "absolute", A, "ldx") @@ Row(\hb2, "ret", A, "nop")
    @@ Row(\hb6, "zpage_offset", Y, "ldx") @@ Row(\hbe, "absolute_offset", Y, "ldx")
    @@ Row(\ha0, "immediate", A, "ldy") @@ Row(\ha4, "zpage", A, "ldy")
    @@ Row(\hac, "absolute", A, "ldy") @@ Row(\hb4, "zpage_offset", X, "ldy")
    @@ Row(\hbc, "absolute_offset", X, "ldy")
    @@ Each({\h42, \h52}, "ret", A, "nop") @@ Row(\h4a, "implied", A, "lsr")
    @@ Plain(\h5a, "nop") @@ Memory(\h46, "lsr")

\* NOP to Txy
OpcodesNopTya ==
       Plain(\hea, "nop") @@ Family(\h01, "ora")
    @@ Plain(\h48, "pha") @@ Plain(\h08, "php") @@ Plain(\h68, "pla") @@ Plain(\h28, "plp")
    @@ Each({\h22, \h32, \h62, \h72}, "ret", A, "nop")
    @@ Row(\h2a, "implied", A, "rol") @@ Row(\h6a, "implied", A, "ror")
    @@ Each({\h3a, \h7a}, "nonary", A, "nop")
    @@ Memory(\h26, "rol") @@ Memory(\h66, "ror")
    @@ Each({\h40, \h60}, "ret", A, "nop")
    @@ Family(\he1, "sbc")
    @@ Row(\h89, "immediate", A, "nop") @@ Family(\h81, "sta")
    @@ Row(\h86, "zpage", A, "stx") @@ Row(\h96, "zpage_offset", Y, "stx")
    @@ Row(\h8e, "absolute", A, "stx") @@ Row(\h9e, "absolute_offset", Y, "nop")
    @@ Row(\h84, "zpage", A, "sty") @@ Row(\h8c, "absolute", A, "sty")
    @@ Row(\h94, "zpage_offset", X, "sty") @@ Row(\h9c, "absolute_offset", X, "nop")
    @@ Plain(\haa, "tax") @@ Plain(\ha8, "tay") @@ Plain(\hba, "tsx")
    @@ Plain(\h8a, "txa") @@ Plain(\h9a, "txs") @@ Plain(\h98, "tya")

\* The illegal opcodes, which do nothing but have operands.
OpcodesIllegal ==
       Each({\h80, \h82, \hc2, \he2}, "immediate", A, "nop")
    @@ Each({\hd2, \hf2, \h92}, "ret", A, "nop")
    @@ Each({\hda, \hfa}, "nonary", A, "nop")
    @@ Each({\h04, \h44, \h64}, "zpage", A, "nop") @@ Row(\h0c, "absolute", A, "nop")
    @@ Each({\hd4, \hf4, \h14, \h34, \h54, \h74}, "zpage_offset", X, "nop")
    @@ Each({\hdc, \hfc, \h1c, \h3c, \h5c, \h7c}, "absolute_offset", X, "nop")
    @@ Family(\h03, "nop") @@ Family(\h23, "nop") @@ Family(\h43, "nop") @@ Family(\h63, "nop")
    @@ Row(\h97, "zpage_offset", Y, "nop") @@ Row(\h9f, "absolute_offset", Y, "nop")
    @@ Family(\h83, "nop")
    @@ Row(\hb7, "zpage_offset", Y, "nop") @@ Row(\hbf, "absolute_offset", Y, "nop")
    @@ Family(\ha3, "nop") @@ Family(\hc3, "nop") @@ Family(\he3, "nop")

Opcodes == OpcodesAdcSed @@ OpcodesCmpLsr @@ OpcodesNopTya @@ OpcodesIllegal

\* Bytes of an instruction: the opcode, and imm8, imm16 or rel.
Length(mode) ==
    CASE mode \in {"nonary", "implied", "ret"} -> 1
      [] mode \in {"absolute", "absolute_offset", "jmp_direct", "jmp_indirect", "jsr"} -> 3
      [] OTHER -> 2

\* Architecture::decode: an opcode that is not in the table, or whose operands
\* are cut off by the end of the region, takes the default action.
Decode(address, opcode, bytes, rel, target) ==
    LET row == Opcodes[opcode]
        st == NewState(address, Length(row.mode))
    IN IF opcode \notin DOMAIN Opcodes \/ bytes < st.len
       THEN nonary(NewState(address, 1), "nop", A)
       ELSE CASE row.mode \in {"nonary", "implied", "brk"} -> nonary(st, row.sem, A)
              [] row.mode = "immediate" -> nonary(st, row.sem, Imm8)
              [] row.mode = "ret" -> ret(st)
              [] row.mode = "zpage" -> zpage(st, row.sem)
              [] row.mode = "absolute" -> absolute(st, row.sem)
              [] row.mode = "zpage_offset" -> zpage_offset(st, row.reg, row.sem)
              [] row.mode = "zpage_index" -> zpage_index(st, row.reg, row.sem)
              [] row.mode = "absolute_offset" -> absolute_offset(st, row.reg, row.sem)
              [] row.mode = "branch0" -> branch(st, row.reg, 0, rel)
              [] row.mode = "branch1" -> branch(st, row.reg, 1, rel)
              [] row.mode = "jmp_direct" -> jmp_direct(st, target)
              [] row.mode = "jmp_indirect" -> jmp_indirect(st)
              [] row.mode = "jsr" -> jsr(st)
============================================================================
