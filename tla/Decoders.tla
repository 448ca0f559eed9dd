------------------------------ MODULE Decoders ------------------------------
(* The three disassemblers behind Architecture::decode, each asked to decode  *)
(* one instruction, and what the rest of Panopticon relies on in the answer:  *)
(* the recursive descent in core/src/function.rs follows the jumps of a match *)
(* and continues after its last byte, and the abstract interpreter executes   *)
(* its statements.                                                            *)
EXTENDS Amd64

CONSTANTS
    flashend,        \* AVR: the last word of the flash
    Mos6502Inputs,   \* records [address, opcode, bytes, rel, target]
    AvrInputs,       \* records [address, w, w2, words]
    Amd64Inputs      \* records [mode, address, lead, opcodes, forms, fill]

VARIABLES
    arch,    \* the architecture
    input,   \* what is decoded; AMD64: a group of encodings, then one of them
    match    \* the result, <<>> before it
vars == <<arch, input, match>>

Mos == INSTANCE Mos6502
Mcu == INSTANCE Avr
Bytes == INSTANCE ByteExecution

Init ==
    /\ match = <<>>
    /\ \/ arch = "mos6502" /\ input \in Mos6502Inputs
       \/ arch = "avr" /\ input \in AvrInputs
       \/ arch = "amd64" /\ input \in Amd64Inputs

Asked(a) == arch = a /\ match = <<>> /\ UNCHANGED arch

DecodeMos6502 ==
    /\ Asked("mos6502")
    /\ match' = [st |-> Mos!Decode(input.address, input.opcode, input.bytes, input.rel, input.target)]
    /\ UNCHANGED input
DecodeAvr ==
    /\ Asked("avr")
    /\ match' = [st |-> Mcu!Decode(input.address, input.w, input.w2, input.words),
                 rule |-> Mcu!RuleName(input.w, input.words)]
    /\ UNCHANGED input
\* The prefixes and escapes, the opcode, the ModRM and SIB bytes, and what follows
Buffer(i) == SubSeq(i.lead \o <<i.opcode>> \o i.form \o i.fill, 1, 15)
DecodeAmd64 ==
    /\ Asked("amd64")
    /\ \E opcode \in input.opcodes, form \in input.forms :
          LET i == [mode |-> input.mode, address |-> input.address, lead |-> input.lead, opcode |-> opcode,
                    form |-> form, fill |-> input.fill]
          IN input' = i /\ match' = Decode(i.mode, i.address, Buffer(i))

Next == DecodeMos6502 \/ DecodeAvr \/ DecodeAmd64
Spec == Init /\ [][Next]_vars

Decoded == match # <<>> /\ (arch = "amd64" => match.result = "Ok")
OfAmd64 == Decoded /\ arch = "amd64"

----------------------------------------------------------------------------
\* All architectures

AmdFlags == {"CF", "PF", "AF", "ZF", "SF", "OF"}
\* The registers of an architecture with their sizes.  amd64's set_adj_flag
\* combines af1 with a value from before the instruction, like a register.
Registers ==
    CASE arch = "mos6502" -> Mos!Registers
      [] arch = "avr" -> Mcu!Registers
      [] arch = "amd64" -> WidthTable @@ [f \in AmdFlags \cup {"af1"} |-> 1]

\* AVR writes the pointer Z (R31:R30) and the flag Z under the same name.
ZPointer ==
    \E i \in DOMAIN match.st.mnemonics : \E j \in DOMAIN match.st.mnemonics[i].stmts :
        LET d == match.st.mnemonics[i].stmts[j].assignee IN IsVar(d) /\ d.name = "Z" /\ d.size > 1
\* AVR semantics that read a temporary they do not write
AvrStale == {"dec", "inc", "asr", "mul", "muls", "mulsu", "fmul", "fmuls", "fmulsu", "sbiw"}
Excepted == arch = "avr" /\ (ZPointer \/ match.rule \in AvrStale)

\* The statements of a match read registers and what an earlier statement of
\* the same match computed, at no more than the size it was written with, so
\* that their effect does not depend on the instruction executed before; and a
\* register is written as a whole, which data flow analysis assumes when it
\* takes variables for equal that have the same name.
OperandsDefined ==
    Decoded /\ ~Excepted => ReadsDefined(match.st, Registers) /\ WritesWhole(match.st, Registers)

Holds(guard, env) ==
    CASE guard.kind = "True" -> TRUE
      [] guard.kind = "False" -> FALSE
      [] OTHER -> env[guard.flag] = guard.expected
Flags(st) == {st.jumps[i].guard.flag : i \in {j \in DOMAIN st.jumps : st.jumps[j].guard.kind = "Predicate"}}
\* What `State` in core/src/disassembler.rs promises Function: the mnemonics of
\* a match cover its bytes in order and without a gap, every jump leaves from
\* one of them that has a size, and whatever the flags are the guards let
\* exactly one jump be taken.  amd64's read never reaches the end of its 15
\* bytes, where the immediates are unwrapped.  The rule of AVR's spm2 reads an
\* operand its pattern does not have, and panics.
WellFormed ==
    /\ arch = "amd64" /\ match # <<>> => match.result \in {"Ok", "Err"}
    /\ Decoded /\ ~(arch = "avr" /\ match.rule = "spm2") =>
          match.st.ok /\ Tiles(match.st) /\ JumpsLeave(match.st)
    /\ Decoded /\ match.st.jumps # <<>> =>
          \A env \in [Flags(match.st) -> BOOLEAN] :
              Cardinality({i \in DOMAIN match.st.jumps : Holds(match.st.jumps[i].guard, env)}) = 1

----------------------------------------------------------------------------
\* The length of an AMD64 instruction, from its encoding

Specs == {match.row.operands[k] : k \in DOMAIN match.row.operands}
MemorySpecs == UNION {MethodE, MethodM, SimdMemory}
RegisterSpecs == UNION {MethodG, SimdReg, SimdRm, {"C/d", "D/d"}}
Fpu == match.prefix.escape = "None" /\ input.opcode \in \hd8 .. \hdf
DisplacementBytes(form) ==
    CASE form[1] \div 64 = 1 -> 1
      [] form[1] \div 64 = 2 -> 4
      [] form[1] \div 64 = 0 -> IF form[1] % 8 = 5 \/ (form[1] % 8 = 4 /\ form[2] % 8 = 5) THEN 4 ELSE 0
      [] OTHER -> 0
AddressBytes ==
    CASE Specs \cap MemorySpecs # {} -> Len(input.form) + DisplacementBytes(input.form)
      [] Specs \cap (MemorySpecs \cup RegisterSpecs) = {} -> IF Fpu THEN 1 ELSE 0
      [] OTHER -> 1
ImmediateBytes(spec) ==
    LET p == match.prefix
    IN CASE spec \in {"I/b", "J/b", "L/x"} -> 1
         [] spec = "I/w" -> 2
         [] spec \in {"I/z", "J/z"} -> Minimum(p.opsz, 32) \div 8
         [] spec \in {"I/v", "A/v"} -> p.opsz \div 8
         [] spec = "A/p" -> 2 + p.opsz \div 8
         [] spec \in {"O/b", "O/v"} -> p.addrsz \div 8
         [] OTHER -> 0
RECURSIVE Total(_)
Total(specs) == IF specs = <<>> THEN 0 ELSE ImmediateBytes(specs[1]) + Total(Tail(specs))

\* The encodings that read_operand takes apart as the processor does.  It reads
\* segment, control and test registers from two bytes of their own; it has no
\* 16 bit addresses; a group whose row has no operand leaves the ModRM byte
\* unread; and cvtpd2pi's row names two memory operands.
Encoded ==
    /\ Specs \cap {"S/w", "R/d", "R/q"} = {} /\ match.prefix.addrsz # 16
    /\ \A j, k \in DOMAIN match.row.operands :
          {match.row.operands[j], match.row.operands[k]} \subseteq MemorySpecs => j = k
    /\ TableRow(match.prefix, input.opcode).kind = "ModRM" => Specs \cap (MemorySpecs \cup RegisterSpecs) # {}

\* The displacement of a relative jump, from the bytes behind the opcode.
Displacement ==
    Signed([bytes |-> Buffer(input), pos |-> Len(input.lead) + 1],
           match.st.len - Len(input.lead) - 1)
AvrTarget ==
    IF match.rule = "rcall" THEN match.st.mnemonics[1].stmts[1].operands[1] ELSE match.st.jumps[1].target
AvrWords == LET k == input.w % 4096 IN IF k >= 2048 THEN k - 4096 ELSE k

\* Disassembly continues at the right place.  The length that read returns is
\* that of the prefixes, the escape and the opcode, of the ModRM and SIB bytes
\* and the displacement if an operand is encoded there, however many of them
\* are, and of the immediates.  A relative jump or call counts from the end of
\* its instruction, forward or backward; AVR counts in words and wraps at the
\* end of the flash.
LengthExact ==
    /\ OfAmd64 /\ Encoded =>
          match.st.len = Len(input.lead) + 1 + AddressBytes + Total(match.row.operands)
    /\ OfAmd64 /\ Specs \cap {"J/b", "J/z"} # {} =>
          match.ops[1].rv.value = input.address + match.st.len + Displacement
    /\ Decoded /\ arch = "avr" /\ match.rule \in {"rjmp", "rcall"} =>
          AvrTarget.value = (input.address + 2 + 2 * AvrWords) % (2 * (flashend + 1))

----------------------------------------------------------------------------
\* The AMD64 registers that overlap, byte by byte

Aliased(v) ==
    LET bytes == Bytes!Named(v[5], 8)
    IN (v[1] :> SubSeq(bytes, 1, 1)) @@ (v[2] :> SubSeq(bytes, 2, 2)) @@ (v[3] :> SubSeq(bytes, 1, 2))
       @@ (v[4] :> SubSeq(bytes, 1, 4)) @@ (v[5] :> bytes)
RECURSIVE AllAliased(_)
AllAliased(vs) ==
    IF vs = {} THEN <<>> ELSE LET v == CHOOSE w \in vs : TRUE IN Aliased(v) @@ AllAliased(vs \ {v})
Before == AllAliased(Variants)
After == Bytes!Run(Before, Statements(match.st.mnemonics), 1)
Agrees(env, v) ==
    LET whole == env[v[5]]
    IN /\ v[1] # "?" => env[v[1]] = SubSeq(whole, 1, 1)
       /\ v[2] # "?" => env[v[2]] = SubSeq(whole, 2, 2)
       /\ env[v[3]] = SubSeq(whole, 1, 2)
       /\ env[v[4]] = SubSeq(whole, 1, 4)

\* write_reg keeps the low bits of a value that is wider than its register.  Such
\* a value comes from a byte immediate, which read_operand widens to the operand
\* size, and from a memory operand without displacement, which it reads as the
\* address register.
NoneWider == \A k \in DOMAIN match.ops : SizeOr0(match.ops[k].rv) <= SizeOr0(match.ops[1].rv)

Writes == match.row.semantic \in Writers
Destination ==
    IF (Writes \/ match.row.semantic = "pop") /\ match.ops[1].op.kind = "Register" THEN match.ops[1].op.reg ELSE ""
\* The bytes of the 64 bit register v[5] that writing reg may change
Changed(v, reg) ==
    CASE reg \in {v[4], v[5]} \/ (v[5] = "RSP" /\ match.row.semantic \in {"push", "pop"}) -> 1 .. 8
      [] OTHER -> {k \in 1 .. 2 : reg \in {v[k], v[3]}}

Assigns(stmts, name) == {i \in DOMAIN stmts : IsVar(stmts[i].assignee) /\ stmts[i].assignee.name = name}
LastOf(is) == CHOOSE i \in is : \A j \in is : j <= i

\* An instruction has the effect of its destination.  AL, AH, AX, EAX and RAX,
\* and the other families of registers, that agree before it agree after it
\* ("This makes sure that e.g. EAX, AX, AH and AL are written when RAX is",
\* amd64/src/semantic.rs); no byte of a general register changes but those the
\* destination names, and a 32 bit destination clears the upper half of its
\* register; and what is computed reaches the first operand: the register, or
\* the temporary that to_rreil loads and then the memory it was loaded from.
EffectExact ==
    /\ OfAmd64 /\ NoneWider =>
          \E env \in {After} : \A v \in Variants :
              /\ Agrees(env, v)
              /\ \A k \in (1 .. 8) \ Changed(v, Destination) : env[v[5]][k] = Before[v[5]][k]
              /\ Writes /\ Destination = v[4] => SubSeq(env[v[5]], 5, 8) = <<"0", "0", "0", "0">>
    /\ OfAmd64 /\ Writes =>
          LET ss == Statements(match.st.mnemonics)
              is == Assigns(ss, match.ops[1].rv.name)
          IN /\ is # {} /\ ss[LastOf(is)].op # "Load"
             /\ match.ops[1].op.kind = "Indirect" =>
                   \E i \in DOMAIN ss : i > LastOf(is) /\ ss[i].op = "Store" /\ ss[i].operands[2] = match.ops[1].rv

=============================================================================
