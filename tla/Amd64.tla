------------------------------- MODULE Amd64 -------------------------------
(* The AMD64 decoder: amd64/src/architecture.rs (decode), disassembler.rs    *)
(* (prefixes, opcode selection, operands, their translation to RREIL) and    *)
(* semantic.rs (the statements of the implemented instructions).             *)
(*                                                                           *)
(* A u64 is represented by its signed reading, so that a negative            *)
(* displacement stays a small number.  A result is "Ok", or "Err" where the  *)
(* code returns Err, or "Panic" where it unwraps an Err or indexes past the  *)
(* end of the buffer.                                                        *)
EXTENDS Amd64Semantic, Amd64Tables, TLC

Minimum(a, b) == IF a < b THEN a ELSE b
Maximum(a, b) == IF a > b THEN a ELSE b
Flagged(value, mask) == (value \div mask) % 2 = 1

----------------------------------------------------------------------------
\* Registers, by size and number.

Extended(suffix) == [k \in 1 .. 8 |-> "R" \o ToString(k + 7) \o suffix]
Numbered(name, n) == [k \in 1 .. n |-> name \o ToString(k - 1)]
Reg64 == <<"RAX", "RCX", "RDX", "RBX", "RSP", "RBP", "RSI", "RDI">> \o Extended("")
Reg32 == <<"EAX", "ECX", "EDX", "EBX", "ESP", "EBP", "ESI", "EDI">> \o Extended("D")
Reg16 == <<"AX", "CX", "DX", "BX", "SP", "BP", "SI", "DI">> \o Extended("W")
Reg8 == <<"AL", "CL", "DL", "BL", "AH", "CH", "DH", "BH">> \o Extended("B")
Reg8Rex == <<"AL", "CL", "DL", "BL", "SPL", "BPL", "SIL", "DIL">> \o Extended("B")
RegSt == Numbered("ST", 8)
Segments == {"ES", "CS", "SS", "DS", "FS", "GS"}
GeneralRegisters(rex_present, opsz) ==
    CASE opsz = 8 -> IF rex_present THEN Reg8Rex ELSE Reg8
      [] opsz = 16 -> Reg16
      [] opsz = 32 -> Reg32
      [] opsz = 64 -> Reg64
      [] opsz = 80 -> RegSt
      [] OTHER -> <<>>
SimdRegisters(opsz) ==
    CASE opsz = 32 -> Numbered("MM", 8) \o Numbered("MM", 8)
      [] opsz = 64 -> Numbered("MMX", 8) \o Numbered("MMX", 8)
      [] opsz = 128 -> Numbered("XMM", 16)
      [] opsz = 256 -> Numbered("YMM", 16)
      [] OTHER -> <<>>

Members(seq) == {seq[k] : k \in DOMAIN seq}
\* Register::width; Register::None, written "", has none.
WidthTable ==
    [r \in UNION {Members(Reg64), Members(SimdRegisters(64))} |-> 64]
    @@ [r \in UNION {Members(Reg32), Members(SimdRegisters(32)), Members(Numbered("CR", 16)),
                     Members(Numbered("DR", 16))} |-> 32]
    @@ [r \in Members(Reg16) \cup Segments |-> 16]
    @@ [r \in Members(Reg8) \cup Members(Reg8Rex) |-> 8]
    @@ [r \in Members(RegSt) |-> 80]
    @@ [r \in Members(SimdRegisters(128)) |-> 128]
    @@ [r \in Members(SimdRegisters(256)) |-> 256]
    @@ ("" :> 0)
width(r) == WidthTable[r]

----------------------------------------------------------------------------
\* Operands, and the bytes after the opcode they are read from.

Optional == [kind |-> "Optional"]
Register(r) == [kind |-> "Register", reg |-> r]
Immediate(v, s) == [kind |-> "Immediate", value |-> v, size |-> s]
Address(seg, base, index, scale, disp, dispsz) ==
    [kind |-> "Address", seg |-> seg, base |-> base, index |-> index, scale |-> scale,
     disp |-> disp, dispsz |-> dispsz, width |-> 0]
Indirect(address, w) == [address EXCEPT !.kind = "Indirect", !.width = w]

\* Tail: the cursor, and the ModRM and SIB bytes once they have been read.
\* Every read operator returns a Tail; op is the operand the last one produced.
NewTail(bytes) ==
    [bytes |-> bytes, pos |-> 0, modrm |-> <<>>, sib |-> <<>>, op |-> Optional, result |-> "Ok"]
Fail(t, result) == [t EXCEPT !.result = result]
Give(t, op) == [t EXCEPT !.op = op]

\* ReadBytesExt: n bytes, little endian, without and with a sign.
Fetch(t, n) == IF t.result # "Ok" THEN t
               ELSE IF t.pos + n > Len(t.bytes) THEN Fail(t, "Err")
               ELSE [t EXCEPT !.pos = @ + n]
RECURSIVE LittleEndian(_, _, _)
LittleEndian(bytes, from, n) ==
    IF n = 0 THEN 0 ELSE bytes[from + 1] + 256 * LittleEndian(bytes, from + 1, n - 1)
Unsigned(t, n) == LittleEndian(t.bytes, t.pos, n)
Top(b) == IF b >= 128 THEN b - 256 ELSE b
Signed(t, n) ==
    LittleEndian([t.bytes EXCEPT ![t.pos + n] = Top(@)], t.pos, n)
\* `.ok().unwrap()` on what has just been read
Unwrapped(t) == IF t.result = "Err" THEN Fail(t, "Panic") ELSE t

FromRegisters(t, names, number) ==
    IF t.result # "Ok" THEN t
    ELSE IF number + 1 \in DOMAIN names THEN Give(t, Register(names[number + 1])) ELSE Fail(t, "Err")
read_register(t, c, number, opsz) == FromRegisters(t, GeneralRegisters(c.rex.present, opsz), number)
read_simd_register(t, number, opsz) == FromRegisters(t, SimdRegisters(opsz), number)

\* The ModRM byte is read again for every operand.
read_modrm_Again(t, c) ==
    LET u == Fetch(t, 1)
        b == Unsigned(t, 1)
    IN IF u.result # "Ok" THEN u
       ELSE [u EXCEPT !.modrm = <<b \div 64, (b \div 8) % 8, b % 8>>]
\* read_modrm and Tail::modrm
read_modrm(t, c) ==
    LET u == Fetch(t, 1)
        b == Unsigned(t, 1)
        sib_present == b \div 64 # 3 /\ b % 8 = 4
    IN IF t.modrm # <<>> \/ u.result # "Ok" THEN IF t.modrm # <<>> THEN t ELSE u
       ELSE [u EXCEPT !.modrm =
               <<b \div 64,
                 ((b \div 8) % 8) + IF c.rex.r THEN 8 ELSE 0,
                 (b % 8) + IF c.rex.b /\ ~sib_present THEN 8 ELSE 0>>]

\* sign_ext_u8 and sign_ext_u32
sign_ext_u8(t, w) == IF w = 8 THEN Unsigned(t, 1) ELSE Signed(t, 1)
sign_ext_u32(t, w) ==
    CASE w = 8 -> Unsigned(t, 1)
      [] w = 16 -> Unsigned(t, 2)
      [] w = 32 -> Unsigned(t, 4)
      [] OTHER -> Signed(t, 4)

\* read_sib and Tail::sib: the SIB byte, and the displacement that replaces
\* the base register when mod is 00.
read_sib(t, c, mo) ==
    LET u == Fetch(t, 1)
        b == Unsigned(t, 1)
        number(n, extended) == n + IF extended THEN 8 ELSE 0
        nobase == mo = 0 /\ b % 8 = 5
        v == IF nobase THEN Fetch(u, 4) ELSE u
        names == GeneralRegisters(c.rex.present, c.addrsz)
        base == CASE nobase -> ""
                  [] b % 8 = 5 -> IF c.addrsz = 32 THEN "EBP" ELSE "RBP"
                  [] OTHER -> names[number(b % 8, c.rex.b) + 1]
        index == IF (b \div 8) % 8 = 4 THEN "" ELSE names[number((b \div 8) % 8, c.rex.x) + 1]
    IN CASE t.sib # <<>> -> Give(t, t.sib[1])
         [] t.sib = <<>> /\ v.result # "Ok" -> v
         [] OTHER ->
              LET op == Address(c.seg, base, index, 2^(b \div 64),
                                IF nobase THEN sign_ext_u32(u, c.addrsz) ELSE 0,
                                IF nobase THEN 32 ELSE c.addrsz)
              IN Give([v EXCEPT !.sib = <<op>>], op)

\* mod 01 and 10: a base register or a SIB byte, and a displacement.
Displaced(t, c, mo, rm) ==
    LET n == IF mo = 1 THEN 1 ELSE 4
        u == IF rm % 8 = 4 THEN read_sib(t, c, mo)
             ELSE LET r == read_register(t, c, rm, c.addrsz)
                  IN IF r.result = "Ok" THEN Give(r, Address(c.seg, r.op.reg, "", 0, 0, c.addrsz))
                     ELSE r
        v == Fetch(u, n)
    IN IF v.result # "Ok" THEN v
       ELSE Give(v, [u.op EXCEPT
                       !.disp = IF mo = 1 THEN sign_ext_u8(u, c.addrsz) ELSE sign_ext_u32(u, c.addrsz),
                       !.dispsz = IF mo = 2 /\ rm % 8 = 4 THEN 32 ELSE c.addrsz])

\* mod 00, r/m 101: relative to the instruction pointer in Long mode.
Absolute(t, c, relative, size) ==
    LET u == Fetch(t, 4)
    IN IF u.result # "Ok" THEN u
       ELSE Give(u, Address(c.seg, "", "", 0,
                            sign_ext_u32(t, c.addrsz)
                              + (IF c.mode = "Long" THEN c.ip + IF relative THEN u.pos ELSE 0 ELSE 0),
                            size))

AnyRegister(t, c, simd, number, size) ==
    IF simd THEN read_simd_register(t, number, size) ELSE read_register(t, c, number, size)

\* Only the general form is relative to the instruction pointer.
EffectiveAddress(t, c, simd, size) ==
    LET u == read_modrm(t, c)
        mo == u.modrm[1]
        rm == u.modrm[3]
    IN IF t.result # "Ok" \/ u.result # "Ok" THEN u
       ELSE CASE mo = 0 /\ rm % 8 = 4 -> read_sib(u, c, mo)
              [] mo = 0 /\ rm % 8 = 5 -> Absolute(u, c, ~simd, IF simd THEN c.addrsz ELSE 32)
              [] mo \in {1, 2} -> Displaced(u, c, mo, rm)
              [] OTHER -> AnyRegister(u, c, simd, rm, IF mo = 0 THEN c.addrsz ELSE size)

read_effective_address(t, c, opsz) == EffectiveAddress(t, c, FALSE, opsz)
read_effective_simd_address(t, c, simdsz) == EffectiveAddress(t, c, TRUE, simdsz)

\* indirect dereferences an Address and leaves a Register alone.
indirect(t, w) == IF t.result = "Ok" /\ t.op.kind = "Address" THEN Give(t, Indirect(t.op, w)) ELSE t

\* The operands read_operand knows, by addressing method, and the sizes it reads
\* them with; 0 where a type is known for other operand sizes only.
Typed(method, types) == {method \o "/" \o x : x \in types}
MethodE == Typed("E", {"v", "z", "y", "b", "w", "d", "dq"})
MethodG == Typed("G", {"v", "z", "y", "b", "w", "d", "dq"})
MethodM == Typed("M", {"p", "w", "d", "q", "s", "b", "None", "a", "y", "x"})
MethodH == Typed("H", {"x", "qq", "dq", "ps", "pd", "ss", "sd"})
AnyH == MethodH \cup {"H/q"}
SimdReg == Typed("P", {"pi", "ps", "q", "d"})
             \cup Typed("V", {"pi", "ps", "pd", "ss", "x", "dq", "qq", "q", "sd", "y"})
SimdRm == {"N/q"} \cup Typed("U", {"ps", "pi", "pd", "q", "x", "dq"})
SimdMemory == Typed("Q", {"d", "pi", "q"})
                \cup Typed("W", {"pd", "ps", "q", "d", "dq", "qq", "x", "sd", "ss"})
BySize(c, small, large) == CASE c.opsz = 32 -> small [] c.opsz = 64 -> large [] OTHER -> 0
GeneralSize(c, spec) ==
    CASE spec \in {"E/v", "G/v", "M/p", "M/None", "O/v"} -> c.opsz
      [] spec \in {"E/z", "G/z", "M/y"} -> Minimum(32, c.opsz)
      [] spec \in {"E/y", "G/y", "B/y"} -> Maximum(32, c.opsz)
      [] spec \in {"E/b", "G/b", "M/b", "O/b"} -> 8
      [] spec \in {"E/w", "G/w", "M/w", "S/w"} -> 16
      [] spec \in {"E/d", "G/d", "M/d", "R/d"} -> 32
      [] spec \in {"E/dq", "G/dq", "M/q", "R/q"} -> 64
      [] spec = "M/s" -> IF c.opsz = 64 THEN 80 ELSE 48
      [] spec = "M/a" -> CASE c.opsz = 16 -> 32 [] c.opsz = 32 -> 64 [] OTHER -> 0
      [] spec = "M/x" -> BySize(c, 128, 256)
SimdSize(c, spec) ==
    CASE spec \in {"P/d", "Q/d", "Q/q", "W/d"} -> 32
      [] spec \in {"N/q", "P/pi", "P/q", "U/pi", "U/q", "V/pi", "V/q", "W/q"} -> 64
      [] spec \in {"H/dq", "H/ss", "H/sd", "U/dq", "V/ss", "V/dq", "V/sd", "W/dq", "W/sd", "W/ss"} -> 128
      [] spec \in {"H/qq", "V/qq", "W/qq"} -> 256
      [] spec \in {"U/x", "V/x", "W/x"} -> BySize(c, 128, 256)
      [] spec = "H/x" -> c.opsz
      [] spec = "V/y" -> Minimum(32, c.opsz)
      [] OTHER -> c.simdsz

\* read_spec_register: a register that the opcode names, by operand size and REX.B
read_spec_register(t, c, spec) ==
    LET names == GeneralRegisters(FALSE, c.opsz)
        pick(table, regs, b) ==
            LET k == CHOOSE k \in 1 .. 8 : table[k] = spec
            IN Give(t, Register(regs[k + IF b THEN 8 ELSE 0]))
    IN CASE spec \in Members(RegistersR) -> pick(RegistersR, names, FALSE)
         [] spec \in Members(RegistersE) ->
              IF c.opsz = 64 THEN Fail(t, "Err") ELSE pick(RegistersE, names, FALSE)
         [] spec \in Members(RegistersRex) -> pick(RegistersRex, names, c.rex.b)
         [] spec \in Members(RegistersByte) -> pick(RegistersByte, Reg8, c.rex.b)
         [] OTHER -> Give(t, Register(spec))

\* An immediate value: reading past the end of the bytes panics.  The selector of a
\* far pointer, above bit 32 of its value, is left out.
Literal(t, n, op) == LET u == Unwrapped(Fetch(t, n)) IN IF u.result = "Ok" THEN Give(u, op) ELSE u
Constants(c, t, spec) ==
    LET imm(n, v, s) == Literal(t, n, Immediate(v, s))
        relative(n) == imm(n, c.ip + Signed(t, n) + n, c.addrsz)
        bytes == c.opsz \div 8
    IN CASE spec \in {"A/v", "I/v"} -> imm(bytes, Unsigned(t, bytes), c.opsz)
         [] spec = "A/p" /\ c.opsz = 16 -> imm(4, Unsigned(t, 4), 32)
         [] spec = "A/p" /\ c.opsz = 32 -> imm(6, Unsigned([t EXCEPT !.pos = @ + 2], 4), 48)
         [] spec = "A/p" /\ c.opsz = 64 -> imm(10, Unsigned([t EXCEPT !.pos = @ + 2], 8), 64)
         [] spec = "I/b" -> imm(1, Signed(t, 1), c.opsz)
         [] spec = "I/w" -> imm(2, Unsigned(t, 2), 16)
         [] spec = "I/z" -> IF c.opsz = 16 THEN imm(2, Unsigned(t, 2), 16) ELSE imm(4, Unsigned(t, 4), 32)
         [] spec = "I/one" -> imm(0, 1, c.opsz)
         [] spec = "J/b" -> relative(1)
         [] spec = "J/z" -> relative(IF c.opsz = 16 THEN 2 ELSE 4)
ConstantSpecs == {"A/v", "A/p", "I/v", "I/b", "I/w", "I/z", "I/one", "J/b", "J/z"}
NamedRegisters ==
    UNION {Members(RegistersR), Members(RegistersE), Members(RegistersRex), Members(RegistersByte),
           Members(RegSt), Segments, {"AX", "DX", "AL", "CL"}}

read_operand(t, c, spec) ==
    LET m == Unwrapped(read_modrm(t, c))
        memory(n) == Literal(t, n, Indirect(Address(c.seg, "", "", 0, Unsigned(t, n), c.addrsz),
                                            GeneralSize(c, spec)))
    IN CASE spec \in NamedRegisters -> read_spec_register(t, c, spec)
         [] spec \in ConstantSpecs -> Constants(c, t, spec)
         [] spec = "B/y" /\ c.vvvv >= 0 -> read_register(t, c, c.vvvv, GeneralSize(c, spec))
         [] spec = "C/d" -> FromRegisters(m, Numbered("CR", 16), m.modrm[2])
         [] spec = "D/d" -> FromRegisters(m, Numbered("DR", 16), m.modrm[2])
         [] spec \in MethodE -> indirect(read_effective_address(t, c, GeneralSize(c, spec)), GeneralSize(c, spec))
         [] spec \in MethodG -> read_register(m, c, m.modrm[2], GeneralSize(c, spec))
         [] spec \in MethodM /\ GeneralSize(c, spec) > 0 -> read_effective_address(t, c, GeneralSize(c, spec))
         [] spec \in AnyH /\ c.vvvv < 0 -> Give(t, Optional)
         [] spec \in MethodH /\ c.vvvv >= 0 -> read_simd_register(t, c.vvvv, SimdSize(c, spec))
         [] spec = "L/x" ->
              LET u == Unwrapped(Fetch(t, 1))
              IN read_simd_register(u, Unsigned(t, 1) % (IF c.opsz = 32 THEN 8 ELSE 16), c.simdsz)
         [] spec \in {"O/b", "O/v"} -> memory(c.addrsz \div 8)
         [] spec \in {"S/w", "R/d", "R/q"} -> memory(2)
         [] spec \in SimdReg /\ SimdSize(c, spec) > 0 -> read_simd_register(m, m.modrm[2], SimdSize(c, spec))
         [] spec \in SimdRm /\ SimdSize(c, spec) > 0 -> read_simd_register(m, m.modrm[3], SimdSize(c, spec))
         [] spec \in SimdMemory /\ SimdSize(c, spec) > 0 ->
              indirect(read_effective_simd_address(t, c, SimdSize(c, spec)),
                       IF spec = "W/d" THEN 64 ELSE SimdSize(c, spec))
         [] OTHER -> Fail(t, "Err")
----------------------------------------------------------------------------
\* to_rreil: the value of an operand, the statements that compute it and the
\* ones that write it back.  A temporary is named after the operand it holds.

Wide(r) == Variable(r, width(r))
Translation(rv, read, write) ==
    [rv |-> rv, read |-> read, write |-> write,
     result |-> IF SaneAll(read) /\ SaneAll(write) THEN "Ok" ELSE "Err"]
Pointer(op) ==
    LET name == ToString(op)
        w == width(op.index)
        bw == width(op.base)
        scaled ==
            IF op.scale = 0 \/ op.index = ""
            THEN [rv |-> IF op.base = "" THEN Undefined ELSE Wide(op.base), stmts |-> <<>>]
            ELSE [rv |-> Variable(name, w),
                  stmts |-> IF op.base = "" THEN <<mul(Variable(name, w), Wide(op.index), Constant(op.scale, w))>>
                            ELSE <<mul(Variable("t", w), Constant(op.scale, w), Wide(op.index)),
                                   zext(bw, Variable("t1", bw), Variable("t", w)),
                                   add(Variable(name, w), Wide(op.base), Variable("t1", bw))>>]
        d == Constant(op.disp, op.dispsz)
        n == Size(scaled.rv)
    IN CASE op.disp = 0 -> scaled
         [] op.disp # 0 /\ scaled.rv = Undefined -> [rv |-> d, stmts |-> <<>>]
         [] OTHER -> [rv |-> Variable(name, n),
                      stmts |-> scaled.stmts \o <<zext(n, Variable("d", n), d),
                                                  add(Variable(name, n), scaled.rv, Variable("d", n))>>]
to_rreil(op) ==
    CASE op.kind = "Optional" -> Translation(Undefined, <<>>, <<>>)
      [] op.kind = "Register" -> Translation(Wide(op.reg), <<>>, <<>>)
      [] op.kind = "Immediate" -> Translation(Constant(op.value, op.size), <<>>, <<>>)
      [] op.kind = "Address" -> Translation(Pointer(op).rv, Pointer(op).stmts, <<>>)
      [] op.kind = "Indirect" ->
           LET p == Pointer([op EXCEPT !.kind = "Address", !.width = 0])
               ret == Variable(ToString(op), op.width)
           IN Translation(ret, p.stmts \o <<load(op.width, ret, p.rv)>>, <<store(op.width, ret, p.rv)>>)

----------------------------------------------------------------------------
\* Prefixes.  A record of the prefixes read so far; i is the index of the next
\* byte, counted from 0 like the source's.

NoRex == [present |-> FALSE, r |-> FALSE, x |-> FALSE, b |-> FALSE]
NewPrefix(mode) ==
    [i |-> 0, mode |-> mode, opsz |-> IF mode = "Real" THEN 16 ELSE 32,
     addrsz |-> CASE mode = "Real" -> 16 [] mode = "Protected" -> 32 [] mode = "Long" -> 64,
     simdsz |-> 128, seg |-> "", group1 |-> FALSE, simd |-> "None", escape |-> "None",
     vvvv |-> -1, rex |-> NoRex, vex |-> FALSE, result |-> "Ok"]

SegmentOverride ==
    \h2e :> "CS" @@ \h36 :> "SS" @@ \h3e :> "DS" @@ \h26 :> "ES" @@ \h64 :> "FS" @@ \h65 :> "GS"
LegacyPrefixes == {\hf0, \hf2, \hf3, \h66, \h67} \cup DOMAIN SegmentOverride
LegacyPrefix(p, b) ==
    LET mandatory(simd) == IF p.i = 0 THEN simd ELSE p.simd
    IN CASE b \in {\hf0, \hf2, \hf3} /\ ~p.group1 ->
              [p EXCEPT !.group1 = TRUE,
                        !.simd = CASE b = \hf2 -> mandatory("F2") [] b = \hf3 -> mandatory("F3") [] OTHER -> @]
         [] b \in DOMAIN SegmentOverride /\ p.seg = "" -> [p EXCEPT !.seg = SegmentOverride[b]]
         [] b = \h66 -> [p EXCEPT !.opsz = IF p.mode = "Real" THEN 32 ELSE 16, !.simd = mandatory("66")]
         [] b = \h67 -> [p EXCEPT !.addrsz = IF p.mode = "Protected" THEN 16 ELSE 32]
         [] OTHER -> p

\* VEX, EVEX and XOP: the length of the prefix, its opcode escapes, and the byte
\* with the mandatory prefix, vvvv and the vector length.
VexLength == \hc5 :> 2 @@ \hc4 :> 3 @@ \h62 :> 4 @@ \h8f :> 3
VexEscapes == 1 :> "0F" @@ 2 :> "0F38" @@ 3 :> "0F3A"
XopEscapes == 8 :> "Xop8" @@ 9 :> "Xop9" @@ 10 :> "XopA"
EscapeIn(escapes, k) == IF k \in DOMAIN escapes THEN escapes[k] ELSE "Unknown"
VexPrefix(p, b, buf) ==
    LET p0 == buf[2]
        vex == IF b = \hc5 THEN p0 ELSE buf[3]
        escape == CASE b = \hc5 -> "0F"
                    [] b = \hc4 -> EscapeIn(VexEscapes, p0 % 16)
                    [] b = \h62 -> EscapeIn(VexEscapes, p0 % 4)
                    [] b = \h8f -> EscapeIn(XopEscapes, p0 % 16)
        large == IF b = \h62 THEN Flagged(buf[4], 32) ELSE Flagged(vex, 4)
        clear(mask) == b # \hc5 /\ ~Flagged(p0, mask)
        q == [p EXCEPT !.i = VexLength[b], !.vex = TRUE, !.escape = escape,
                       !.simd = <<"None", "66", "F3", "F2">>[(vex % 4) + 1],
                       !.result = IF escape = "Unknown" THEN "Err" ELSE @]
    IN IF b = \h8f THEN q
       ELSE [q EXCEPT !.simdsz = IF large THEN 256 ELSE @,
                      !.vvvv = 15 - ((vex \div 8) % 16),
                      !.rex = [present |-> TRUE, r |-> ~Flagged(p0, 64), x |-> clear(32), b |-> clear(16)]]
RexPrefix(p, b) ==
    [p EXCEPT !.i = @ + 1, !.opsz = IF Flagged(b, 8) /\ @ = 32 THEN 64 ELSE @,
              !.rex = [present |-> TRUE, r |-> Flagged(b, 4), x |-> Flagged(b, 2), b |-> Flagged(b, 1)]]

\* buf.get(i), -1 past the end of the buffer
Get(buf, i) == IF i < Len(buf) THEN buf[i + 1] ELSE -1
RECURSIVE Prefixes(_, _)
Prefixes(p, buf) ==
    LET b == Get(buf, p.i)
    IN CASE p.i < 15 /\ b \in LegacyPrefixes -> Prefixes([LegacyPrefix(p, b) EXCEPT !.i = @ + 1], buf)
         [] p.i = 0 /\ b \in DOMAIN VexLength /\ p.mode = "Long" ->
              IF Len(buf) < VexLength[b] THEN Fail(p, "Panic") ELSE VexPrefix(p, b, buf)
         [] p.i < 15 /\ b \in \h40 .. \h4f /\ p.mode = "Long" -> RexPrefix(p, b)
         [] OTHER -> p

----------------------------------------------------------------------------
\* The opcode

OpcodeEscape(p, buf) ==
    LET b == Get(buf, p.i + 1)
        take(escape, n) == [p EXCEPT !.escape = escape, !.i = @ + n]
    IN CASE p.result # "Ok" \/ p.vex \/ Get(buf, p.i) # \h0f -> p
         [] p.result = "Ok" /\ ~p.vex /\ Get(buf, p.i) = \h0f ->
              (CASE b = \h38 -> take("0F38", 2)
                 [] b = \h3a -> take("0F3A", 2)
                 [] b \in {\h0f, -1} -> Fail(p, "Err")
                 [] OTHER -> take("0F", 1))

\* The opcodes after 0F whose prefix is not part of the opcode
NonMandatory(simd) ==
    UNION {\h00 .. \h0f, \h18 .. \h27, \h30 .. \h4f, \h80 .. \hb7,
           IF simd = "F3" THEN {} ELSE \hb8 .. \hbf, {\hc0, \hc1}, \hc8 .. \hcf}
RemovePrefix(p, b) ==
    IF p.escape = "0F" /\ b \in NonMandatory(p.simd) THEN [p EXCEPT !.simd = "None"] ELSE p

Tables ==
    <<"0F", "None">> :> TWOBYTE_TABLE @@ <<"0F", "66">> :> TWOBYTE_66_TABLE
    @@ <<"0F", "F2">> :> TWOBYTE_F2_TABLE @@ <<"0F", "F3">> :> TWOBYTE_F3_TABLE
    @@ <<"0F3A", "None">> :> THREEBYTE_3A_TABLE @@ <<"0F3A", "66">> :> THREEBYTE_3A66_TABLE
    @@ <<"0F3A", "F2">> :> THREEBYTE_3AF2_TABLE
    @@ <<"0F38", "None">> :> THREEBYTE_38_TABLE @@ <<"0F38", "66">> :> THREEBYTE_3866_TABLE
    @@ <<"0F38", "F2">> :> THREEBYTE_38F2_TABLE @@ <<"0F38", "F3">> :> THREEBYTE_38F3_TABLE
    @@ <<"Xop8", "None">> :> XOP8_TABLE @@ <<"Xop9", "None">> :> XOP9_TABLE
    @@ <<"XopA", "None">> :> XOPA_TABLE
TableRow(p, b) ==
    CASE p.escape = "None" /\ b = \h63 /\ p.mode = "Long" -> OpIf("Only64", {b}, "movsxd", <<"G/v", "E/z">>)
      [] p.escape = "None" /\ ~(b = \h63 /\ p.mode = "Long") -> Lookup(ONEBYTE_TABLE, b)
      [] <<p.escape, p.simd>> \in DOMAIN Tables -> Lookup(Tables[<<p.escape, p.simd>>], b)
      [] OTHER -> Unused
\* The tables of prefix 66 reset the operand size.
TableSize(p) ==
    IF p.escape \in {"0F", "0F3A", "0F38"} /\ p.simd = "66"
    THEN [p EXCEPT !.opsz = CASE p.mode = "Real" -> 16 [] p.mode = "Protected" -> 32 [] p.mode = "Long" -> 64]
    ELSE p

X87Memory == <<X87_D8_TABLE2, X87_D9_TABLE2, X87_DA_TABLE2, X87_DB_TABLE2,
               X87_DC_TABLE2, X87_DD_TABLE2, X87_DE_TABLE2, X87_DF_TABLE2>>
X87Register == <<X87_D8_TABLE, X87_D9_TABLE, X87_DA_TABLE, X87_DB_TABLE,
                 X87_DC_TABLE, X87_DD_TABLE, X87_DE_TABLE, X87_DF_TABLE>>

\* The groups whose rows depend on nothing but the prefix and the opcode
Groups ==
    <<1, "None", \h80>> :> GROUP1_OPC80 @@ <<1, "None", \h81>> :> GROUP1_OPC81
    @@ <<1, "None", \h82>> :> GROUP1_OPC82 @@ <<1, "None", \h83>> :> GROUP1_OPC83
    @@ <<101, "None", \h8f>> :> GROUP101_OPC8F
    @@ <<2, "None", \hc0>> :> GROUP2_OPCC0 @@ <<2, "None", \hc1>> :> GROUP2_OPCC1
    @@ <<2, "None", \hd0>> :> GROUP2_OPCD0 @@ <<2, "None", \hd1>> :> GROUP2_OPCD1
    @@ <<2, "None", \hd2>> :> GROUP2_OPCD2 @@ <<2, "None", \hd3>> :> GROUP2_OPCD3
    @@ <<3, "None", \hf6>> :> GROUP3_OPCF6 @@ <<3, "None", \hf7>> :> GROUP3_OPCF7
    @@ <<4, "None", \hfe>> :> GROUP4_OPCFE @@ <<5, "None", \hff>> :> GROUP5_OPCFF
    @@ <<6, "None", \h00>> :> GROUP6_OPC00 @@ <<8, "None", \hba>> :> GROUP8_OPCBA
    @@ <<10, "None", \hb9>> :> GROUP10_OPCB9
    @@ <<11, "None", \hc6>> :> GROUP11_OPCC6 @@ <<11, "None", \hc7>> :> GROUP11_OPCC7
    @@ <<102, "None", \h01>> :> GROUP102_OPC01
VectorGroups ==
    <<12, "None", \h71>> :> GROUP12_OPC71 @@ <<12, "66", \h71>> :> GROUP12_OPC6671
    @@ <<13, "None", \h72>> :> GROUP13_OPC72 @@ <<13, "66", \h72>> :> GROUP13_OPC6672
    @@ <<14, "None", \h73>> :> GROUP14_OPC73 @@ <<14, "66", \h73>> :> GROUP14_OPC6673
\* Group 7 with a register operand: r/m selects an instruction without operands
Group7Register(reg, rm) ==
    CASE reg = 2 /\ rm = 0 -> Stub({}, <<"E/v">>)
      [] reg \in {4, 6} -> Lookup(GROUP7_OPC01_MEM, reg)
      [] rm \in <<{1, 2, 3, 4}, {0, 1, 2, 3, 7}, {1, 4, 5, 6, 7}, {}, {}, {}, {}, {0, 1}>>[reg + 1] -> Stub({}, <<>>)
      [] OTHER -> Unused
Group9(mo, reg, mode) ==
    CASE mo = 3 /\ reg \in {6, 7} -> Stub({}, <<"R/v">>)
      [] reg = 1 -> Stub({}, <<IF mode = "Long" THEN "M/q" ELSE "M/dq">>)
      [] mo # 3 /\ reg \in {6, 7} -> Stub({}, <<"M/q">>)
      [] OTHER -> Unused
Group15(mo, reg, pfx) ==
    CASE pfx = "None" /\ (mo # 3 \/ reg \in 5 .. 7) -> Stub({}, <<>>)
      [] pfx = "F3" /\ mo = 3 /\ reg \in 0 .. 3 -> Stub({}, <<"R/y">>)
      [] OTHER -> Unused

select_opcode_ext(grp, opc, modrm, pfx, mode, vex) ==
    LET reg == (modrm \div 8) % 8
        mo == modrm \div 64
        rm == modrm % 8
        key == <<grp, pfx, opc>>
    IN CASE grp = 11 /\ pfx = "None" /\ modrm = \hf8 -> Stub({}, <<"I/b">>)
         [] key \in DOMAIN Groups /\ ~(grp = 11 /\ modrm = \hf8) -> Lookup(Groups[key], reg)
         [] key \in DOMAIN VectorGroups /\ mo = 3 -> Lookup(VectorGroups[key], reg)
         [] key = <<7, "None", \h01>> -> IF mo = 3 THEN Group7Register(reg, rm) ELSE Lookup(GROUP7_OPC01_MEM, reg)
         [] key = <<9, "None", \hc7>> -> Group9(mo, reg, mode)
         [] grp = 15 /\ opc = \hae -> Group15(mo, reg, pfx)
         [] key = <<16, "None", \h18>> /\ mo # 3 /\ reg \in 0 .. 3 -> Stub({}, <<"M/None">>)
         [] grp = 17 /\ opc = \hf3 /\ vex /\ reg \in 1 .. 3 -> Stub({}, <<"B/y", "E/y">>)
         [] OTHER -> Unused

\* The row after the escapes to the x87 tables and to the groups
Select(p, row, buf) ==
    LET opc == Get(buf, p.i)
        modrm == Get(buf, p.i + 1)
        fpu == opc - \hd7
        found(q, r) == [p |-> q, row |-> r]
    IN CASE row.kind \in {"Single", "Undefined"} -> found(p, row)
         [] row.kind \in {"Escape", "ModRM"} /\ modrm = -1 -> found(p, Unused)
         [] row.kind = "Escape" /\ modrm # -1 ->
              IF modrm < \hc0 THEN found(p, Lookup(X87Memory[fpu], (modrm \div 8) % 8))
              ELSE found([p EXCEPT !.i = @ + 1], Lookup(X87Register[fpu], modrm - \hc0))
         [] row.kind = "ModRM" /\ modrm # -1 ->
              found(p, select_opcode_ext(row.group, opc, modrm, IF p.escape = "None" THEN "None" ELSE p.simd,
                                         p.mode, p.vex))
ApplyOption(p, option) ==
    CASE option = "Default64" /\ p.mode = "Long" /\ p.opsz = 32 -> [p EXCEPT !.opsz = 64]
      [] option = "Force64" /\ p.mode = "Long" -> [p EXCEPT !.opsz = 64]
      [] option = "Only64" /\ p.mode # "Long" -> Fail(p, "Err")
      [] option = "Invalid64" /\ p.mode = "Long" -> Fail(p, "Err")
      [] OTHER -> p

----------------------------------------------------------------------------
\* disassembler::read and Amd64::decode

\* The operands of a row, read one after the other
RECURSIVE Operands(_, _, _)
NoOperands(t) == [tail |-> t, ops |-> <<>>]
Prepend(op, rest) == [rest EXCEPT !.ops = <<op>> \o @]
Translated(u, x, c, specs) ==
    IF x.result # "Ok" THEN NoOperands(Fail(u, x.result))
    ELSE Prepend([op |-> u.op, rv |-> x.rv, read |-> x.read, write |-> x.write], Operands(u, c, specs))
Operand(u, c, specs) ==
    IF u.result # "Ok" THEN NoOperands(u) ELSE Translated(u, to_rreil(u.op), c, specs)
Operands(t, c, specs) ==
    IF specs = <<>> THEN NoOperands(t)
    ELSE Operand(read_operand(t, c, specs[1]), c, Tail(specs))

Refuse(result, row) ==
    [result |-> result, st |-> NewState(0, 0), row |-> row, ops |-> <<>>, prefix |-> NewPrefix("Real")]

Jumping(st, addr, next, ops, effect) ==
    CASE effect.flow = "DeadEnd" -> st
      [] effect.flow = "FallThru" -> jump_from(st, addr, next, Always)
      [] effect.flow = "Jump" -> jump_from(st, addr, ops[1].rv, Always)
      [] effect.flow = "Branch" ->
           jump_from(jump_from(st, addr, next, negation(effect.guard)), addr, ops[1].rv, effect.guard)
\* The statements read the operands, then compute, then write the first operand
\* back when the instruction has two or more.
Instruction(p, row, addr, ops, len, effect) ==
    LET reads == [k \in DOMAIN ops |-> [stmts |-> ops[k].read]]
        stmts == Statements(reads) \o effect.stmts \o IF Len(ops) >= 2 THEN ops[1].write ELSE <<>>
        st == mnemonic(NewState(addr, len), len, stmts)
    IN IF ~effect.ok \/ ~SaneAll(effect.stmts) THEN Refuse("Err", row)
       ELSE [result |-> "Ok", st |-> Jumping(st, addr, Constant(addr + len, 64), ops, effect),
             row |-> row, ops |-> ops, prefix |-> p]

WithOperands(p, row, addr, read) ==
    IF read.tail.result # "Ok" THEN Refuse(read.tail.result, row)
    ELSE Instruction(p, row, addr, read.ops, read.tail.pos + p.i + 1,
                     Semantic(row.semantic, [k \in DOMAIN read.ops |-> read.ops[k].rv]))
WithOption(p, row, buf, addr) ==
    LET c == [mode |-> p.mode, seg |-> p.seg, vvvv |-> p.vvvv, rex |-> p.rex, opsz |-> p.opsz,
              addrsz |-> p.addrsz, simdsz |-> p.simdsz, ip |-> addr + p.i + 1]
    IN IF p.result # "Ok" THEN Refuse(p.result, row)
       ELSE WithOperands(p, row, addr, Operands(NewTail(SubSeq(buf, p.i + 2, Len(buf))), c, row.operands))
WithRow(found, buf, addr) ==
    IF found.row.kind # "Single" THEN Refuse("Err", Unused)
    ELSE WithOption(ApplyOption(found.p, found.row.option), found.row, buf, addr)
WithPrefix(p, b, buf, addr) ==
    LET q == RemovePrefix(p, b)
    IN CASE p.result # "Ok" -> Refuse(p.result, Unused)
         [] p.result = "Ok" /\ b = -1 -> Refuse("Err", Unused)
         [] OTHER -> WithRow(Select(TableSize(q), TableRow(q, b), buf), buf, addr)
WithEscape(p, buf, addr) == WithPrefix(p, Get(buf, p.i), buf, addr)
Decode(mode, addr, buf) == WithEscape(OpcodeEscape(Prefixes(NewPrefix(mode), buf), buf), buf, addr)
============================================================================
