----------------------------- MODULE MCDecoders -----------------------------
EXTENDS Decoders, FiniteSetsExt

MCMos6502Inputs ==
    [address : {0, 512, 65533}, opcode : 0 .. 255, bytes : 1 .. 3, rel : {127, 128}, target : {4660}]
\* For every rule, the operand bits all zero and all one
OperandBits(rule) ==
    FoldSet(LAMBDA k, acc : acc + 2^k, 0, {k \in 0 .. 15 : \A b \in rule.mask : k \notin b[2] .. b[1]})
Words == UNION {{r.pattern, r.pattern + OperandBits(r)} : r \in Members(Mcu!Rules)}
MCAvrInputs == [address : {0, 100, 8190}, w : Words, w2 : {258}, words : {1, 2}]

Fill(s) == s \o [k \in 1 .. 13 |-> 0]
\* Every way to encode a memory operand, and a register operand for every
\* extension of the opcode
Forms ==
    {<<\h01>>, <<\h04, \h88>>, <<\h04, \h25>>, <<\h05>>, <<\h41>>, <<\h44, \h88>>, <<\h81>>, <<\h84, \h88>>}
Registers8 == {<<\hc1 + 8 * k>> : k \in 0 .. 7}
Memory8 == {<<\h01 + 8 * k>> : k \in 1 .. 7}
\* A lead byte sequence and the opcodes it leaves
OneByte == (0 .. 255) \ UNION {LegacyPrefixes, \h40 .. \h4f, DOMAIN VexLength, {\h0f}}
TwoByte == (0 .. 255) \ {\h0f, \h38, \h3a}
Leads ==
    {<<l, OneByte>> : l \in {<<>>, <<\h66>>, <<\h67>>, <<\h48>>, <<\h41>>, <<\h64>>, <<\h66, \h44>>,
                         <<\hf0, \h2e, \h67, \h48>>}}
    \cup {<<l \o <<\h0f>>, TwoByte>> : l \in {<<>>, <<\h66>>, <<\hf3>>, <<\hf2>>, <<\h66, \h48>>}}
    \cup {<<l, 0 .. 255>> : l \in {<<\h0f, \h38>>, <<\h0f, \h3a>>, <<\h66, \h0f, \h38>>, <<\h66, \h0f, \h3a>>,
                                 <<\hf2, \h0f, \h38>>, <<\hf3, \h0f, \h38>>, <<\hf2, \h0f, \h3a>>,
                                 <<\hc5, \hf8>>, <<\hc5, \h71>>, <<\hc4, \he1, \h7d>>, <<\hc4, \h42, \h78>>,
                                 <<\hc4, \he3, \h79>>, <<\h62, \hf1, \h7c, \h28>>, <<\h8f, \he8, \h78>>,
                                 <<\h8f, \he9, \h78>>, <<\h8f, \hea, \h78>>}}
\* Outside Long mode the VEX and REX bytes are opcodes of their own.
ShortLeads ==
    {<<l, (0 .. 255) \ (LegacyPrefixes \cup {\h0f})>> : l \in {<<>>, <<\h66>>, <<\h67>>}}
    \cup {<<l, TwoByte>> : l \in {<<\h0f>>, <<\h66, \h0f>>}}
Inputs(mode, leads, forms, fill) ==
    {[mode |-> mode, address |-> 1000, lead |-> l[1], opcodes |-> l[2], forms |-> forms, fill |-> Fill(fill)] :
        l \in leads}
MCAmd64Inputs ==
    UNION {Inputs("Long", Leads, Forms \cup Registers8 \cup Memory8, <<2>>),
           Inputs("Long", {<<<<>>, {\he8, \he9}>>, <<<<\h0f>>, \h80 .. \h8f>>}, Registers8, <<255, 255, 255>>),
           Inputs("Protected", ShortLeads, Forms \cup Registers8, <<2>>),
           Inputs("Real", ShortLeads, Forms \cup Registers8, <<2>>)}
=============================================================================
