---------------------------- MODULE Amd64Tables ----------------------------
\* The opcode tables of the AMD64 disassembler, amd64/src/tables.rs.  A table is
\* a set of rows; a row stands for every opcode byte that the source gives the
\* same operands, the same mode option and the same semantic.  An operand is
\* written the way the `opcode!` macro reads it: addressing method and operand
\* type ("E/v"), or a register name.  Most of amd64/src/semantic.rs consists of
\* functions that return no statement and fall through; a row of one of those
\* is a Stub, and its mnemonic text is left out.  A byte that no row covers is
\* an `unused!()` row of the source.
EXTENDS Integers, Sequences

Row(kind, option, opcodes, semantic, operands, group) ==
    [kind |-> kind, option |-> option, opcodes |-> opcodes, semantic |-> semantic,
     operands |-> operands, group |-> group]
OpIf(option, opcodes, semantic, operands) == Row("Single", option, opcodes, semantic, operands, 0)
Op(opcodes, semantic, operands) == OpIf("None", opcodes, semantic, operands)
StubIf(option, opcodes, operands) == OpIf(option, opcodes, "stub", operands)
Stub(opcodes, operands) == OpIf("None", opcodes, "stub", operands)
\* The row of a group names the group only: select_opcode_ext supplies the opcode.
Group(opcodes, group) == Row("ModRM", "None", opcodes, "stub", <<>>, group)
Escape(opcodes) == Row("Escape", "None", opcodes, "stub", <<>>, 0)
Unused == Row("Undefined", "None", {}, "stub", <<>>, 0)

\* The row a table holds at index b.
Lookup(table, b) ==
    LET rows == {r \in table : b \in r.opcodes}
    IN  IF rows = {} THEN Unused ELSE CHOOSE r \in rows : TRUE

\* The families the tables repeat: the eight arithmetic operations, the sixteen
\* conditional jumps, and the eight registers the low bits of an opcode select.
Arithmetic == <<"add", "or", "adc", "sbb", "and", "sub", "xor", "cmp">>
Conditional == <<"jo", "jno", "jb", "jae", "je", "jne", "jbe", "ja",
                 "js", "jns", "jp", "jnp", "jl", "jge", "jle", "jg">>
RegistersR == <<"rAX", "rCX", "rDX", "rBX", "rSP", "rBP", "rSI", "rDI">>
RegistersE == <<"eAX", "eCX", "eDX", "eBX", "eSP", "eBP", "eSI", "eDI">>
RegistersRex == <<"rAXr8", "rCXr9", "rDXr10", "rBXr11", "rSPr12", "rBPr13", "rSIr14", "rDIr15">>
RegistersByte == <<"ALR8B", "CLR9B", "DLR10B", "BLR11B", "AHR12B", "CHR13B", "DHR14B", "BHR15B">>
RegistersSt == <<"ST0", "ST1", "ST2", "ST3", "ST4", "ST5", "ST6", "ST7">>

ArithmeticRows(b, semantic) ==
    {Op({b}, semantic, <<"E/b", "G/b">>), Op({b + 1}, semantic, <<"E/v", "G/v">>),
     Op({b + 2}, semantic, <<"G/b", "E/b">>), Op({b + 3}, semantic, <<"G/v", "E/v">>),
     Op({b + 4}, semantic, <<"AL", "I/b">>), Op({b + 5}, semantic, <<"rAX", "I/z">>)}

ONEBYTE_TABLE_0 ==
    UNION {ArithmeticRows(8 * (k - 1), Arithmetic[k]) : k \in 1 .. 8}
    \cup UNION {{StubIf("Invalid64", {\h3f + k, \h47 + k}, <<RegistersE[k]>>),
                 OpIf("Default64", {\h4f + k}, "push", <<RegistersRex[k]>>),
                 OpIf("Default64", {\h57 + k}, "pop", <<RegistersRex[k]>>)} : k \in 1 .. 8}
    \cup {OpIf("Force64", {\h6f + k}, Conditional[k], <<"J/b">>) : k \in 1 .. 16}
    \cup {OpIf("Invalid64", {\h06}, "push", <<"ES">>),
          OpIf("Invalid64", {\h07}, "pop", <<"ES">>),
          OpIf("Invalid64", {\h0e}, "push", <<"CS">>),
          OpIf("Invalid64", {\h16}, "push", <<"SS">>),
          OpIf("Invalid64", {\h17}, "pop", <<"SS">>),
          OpIf("Invalid64", {\h1e}, "push", <<"DS">>),
          OpIf("Invalid64", {\h1f}, "pop", <<"DS">>),
          StubIf("Invalid64", {\h27, \h2f, \h37, \h3f, \h60, \h61}, <<>>),
          StubIf("Invalid64", {\h62}, <<"G/v", "M/a">>),
          StubIf("Invalid64", {\h63}, <<"E/w", "G/w">>),
          OpIf("Default64", {\h68}, "push", <<"I/z">>),
          OpIf("Default64", {\h6a}, "push", <<"I/b">>),
          Stub({\h69}, <<"G/v", "E/v", "I/z">>),
          Stub({\h6b}, <<"G/v", "E/v", "I/b">>),
          Stub(\h6c .. \h6f, <<>>)}
ONEBYTE_TABLE_8 ==
    UNION {{Stub({\h8f + k}, <<RegistersRex[k], "rAX">>),
            Op({\haf + k}, "mov", <<RegistersByte[k], "I/b">>),
            Op({\hb7 + k}, "mov", <<RegistersRex[k], "I/v">>)} : k \in 1 .. 8}
    \cup {
     Group(\h80 .. \h83, 1),
     Stub({\h84, \h86}, <<"E/b", "G/b">>),
     Stub({\h85, \h87}, <<"E/v", "G/v">>),
     Op({\h88}, "mov", <<"E/b", "G/b">>),
     Op({\h89}, "mov", <<"E/v", "G/v">>),
     Op({\h8a}, "mov", <<"G/b", "E/b">>),
     Op({\h8b}, "mov", <<"G/v", "E/v">>),
     Op({\h8c}, "mov", <<"E/v", "S/w">>),
     Op({\h8d}, "lea", <<"G/v", "M/None">>),
     Op({\h8e}, "mov", <<"S/w", "E/w">>),
     Group({\h8f}, 101),
     Stub({\h98, \h99, \h9b, \h9f, \hcc, \hd6, \hd7, \hf5} \cup (\ha4 .. \ha7)
         \cup (\haa .. \haf) \cup (\hf0 .. \hf3) \cup (\hf8 .. \hfd), <<>>),
     OpIf("Invalid64", {\h9a}, "call", <<"A/v">>),
     StubIf("Default64", {\h9c, \h9d, \hc9}, <<>>),
     Op({\h9e}, "sahf", <<>>),
     Op({\ha0}, "mov", <<"AL", "O/b">>),
     Op({\ha1}, "mov", <<"rAX", "O/v">>),
     Op({\ha2}, "mov", <<"O/b", "AL">>),
     Op({\ha3}, "mov", <<"O/v", "rAX">>),
     Stub({\ha8, \he4}, <<"AL", "I/b">>),
     Stub({\ha9}, <<"rAX", "I/z">>),
     Group({\hc0, \hc1} \cup (\hd0 .. \hd3), 2),
     OpIf("Force64", {\hc2}, "retn", <<"I/w">>),
     OpIf("Force64", {\hc3}, "ret", <<>>),
     StubIf("Invalid64", {\hc4, \hc5}, <<"G/z", "M/p">>),
     Group({\hc6, \hc7}, 11),
     Stub({\hc8}, <<"I/w", "I/b">>),
     Op({\hca}, "retnf", <<"I/w">>),
     Op({\hcb}, "retf", <<>>),
     Stub({\hcd}, <<"I/b">>),
     StubIf("Invalid64", {\hce}, <<>>),
     Op({\hcf}, "iretw", <<>>),
     StubIf("Invalid64", {\hd4, \hd5}, <<"I/b">>),
     Escape(\hd8 .. \hdf),
     StubIf("Force64", \he0 .. \he3, <<"J/b">>),
     Stub({\he5}, <<"eAX", "I/b">>),
     Stub({\he6}, <<"I/b", "AL">>),
     Stub({\he7}, <<"I/b", "eAX">>),
     OpIf("Force64", {\he8}, "call", <<"J/z">>),
     OpIf("Force64", {\he9}, "jmp", <<"J/z">>),
     OpIf("Force64", {\hea}, "jmp", <<"A/p">>),
     OpIf("Force64", {\heb}, "jmp", <<"J/b">>),
     Stub({\hec}, <<"AL", "DX">>),
     Stub({\hed}, <<"eAX", "DX">>),
     Stub({\hee}, <<"DX", "AL">>),
     Stub({\hef}, <<"DX", "eAX">>),
     Op({\hf4}, "hlt", <<>>),
     Group({\hf6, \hf7}, 3),
     Group({\hfe}, 4),
     Group({\hff}, 5)}
ONEBYTE_TABLE == ONEBYTE_TABLE_0 \cup ONEBYTE_TABLE_8

TWOBYTE_TABLE_0 == {
     Group({\h00}, 6),
     Group({\h01}, 7),
     Stub({\h02, \h03}, <<"G/v", "E/w">>),
     StubIf("Only64", {\h05, \h07}, <<>>),
     Stub({\h06, \h08, \h09, \h0b, \h37, \h77} \cup (\h30 .. \h35), <<>>),
     Stub({\h0d, \h1f}, <<"E/v">>),
     Stub({\h10, \h28} \cup (\h51 .. \h53), <<"V/ps", "W/ps">>),
     Stub({\h11, \h29}, <<"W/ps", "V/ps">>),
     Stub({\h12}, <<"V/q", "H/q", "M/q">>),
     Stub({\h13, \h17}, <<"M/q", "V/q">>),
     Stub({\h14, \h15}, <<"V/x", "H/x", "W/x">>),
     Stub({\h16}, <<"V/dq", "H/q", "M/q">>),
     Group({\h18}, 16),
     Op({\h20}, "mov", <<"R/d", "C/d">>),
     Op({\h21}, "mov", <<"R/d", "D/d">>),
     Op({\h22}, "mov", <<"C/d", "R/d">>),
     Op({\h23}, "mov", <<"D/d", "R/d">>),
     Stub({\h2a}, <<"V/ps", "Q/pi">>),
     Stub({\h2b}, <<"M/ps", "V/ps">>),
     Stub({\h2c}, <<"P/pi", "W/ps">>),
     Stub({\h2d}, <<"P/ps", "W/ps">>),
     Stub({\h2e, \h2f}, <<"V/ss", "W/ss">>),
     Stub(\h40 .. \h4f, <<"G/v", "E/v">>),
     Stub({\h50}, <<"G/y", "U/ps">>),
     Stub((\h54 .. \h59) \cup (\h5c .. \h5f), <<"V/ps", "H/ps", "W/ps">>),
     Stub({\h5a}, <<"V/pd", "W/ps">>),
     Stub({\h5b}, <<"V/ps", "W/dq">>),
     Stub(\h60 .. \h62, <<"P/q", "Q/d">>),
     Stub({\h6f} \cup (\h63 .. \h67) \cup (\h74 .. \h76), <<"P/q", "Q/q">>),
     Stub(\h68 .. \h6b, <<"P/d", "Q/q">>),
     Stub({\h6e}, <<"P/d", "E/y">>),
     Stub({\h70}, <<"P/q", "Q/q", "I/b">>),
     Group({\h71}, 12),
     Group({\h72}, 13),
     Group({\h73}, 14),
     Stub({\h78}, <<"E/y", "G/y">>),
     Stub({\h79}, <<"G/y", "E/y">>),
     Stub({\h7e}, <<"E/y", "P/d">>),
     Stub({\h7f}, <<"Q/q", "P/q">>)}
TWOBYTE_TABLE_8 ==
    {OpIf("Force64", {\h7f + k}, Conditional[k], <<"J/z">>) : k \in 1 .. 16}
    \cup {Stub({\hc7 + k}, <<RegistersR[k]>>) : k \in 1 .. 8}
    \cup {
     Stub(\h90 .. \h9f, <<"E/b">>),
     OpIf("Default64", {\ha0}, "push", <<"FS">>),
     OpIf("Default64", {\ha1}, "pop", <<"FS">>),
     Stub({\ha2, \ha6, \ha7, \haa}, <<>>),
     Stub({\ha3, \hab, \hb1, \hb3, \hbb, \hc1}, <<"E/v", "G/v">>),
     Stub({\ha4, \hac}, <<"E/v", "G/v", "I/b">>),
     Stub({\ha5, \had}, <<"E/v", "G/v", "CL">>),
     OpIf("Default64", {\ha8}, "push", <<"GS">>),
     OpIf("Default64", {\ha9}, "pop", <<"GS">>),
     Group({\hae}, 15),
     Op({\haf}, "imul2", <<"G/v", "E/v">>),
     Stub({\hb0, \hc0}, <<"E/b", "G/b">>),
     Stub({\hb2}, <<"G/v", "M/p">>),
     Stub({\hb4, \hb5}, <<"G/z", "M/p">>),
     Op({\hb6}, "movzx", <<"G/v", "E/b">>),
     Op({\hb7}, "movzx", <<"G/y", "E/w">>),
     Group({\hb9}, 10),
     Group({\hba}, 8),
     Stub({\hbc, \hbd}, <<"G/v", "E/v">>),
     Op({\hbe}, "movsx", <<"G/v", "E/b">>),
     Op({\hbf}, "movsx", <<"G/v", "E/w">>),
     Stub({\hc2, \hc6}, <<"V/ps", "H/ps", "W/ps", "I/b">>),
     Stub({\hc3}, <<"M/y", "G/y">>),
     Stub({\hc4}, <<"P/q", "R/y">>),
     Stub({\hc5}, <<"G/d", "N/q", "I/b">>),
     Group({\hc7}, 9),
     Stub((\hd1 .. \hd5) \cup (\hd8 .. \he5) \cup (\he8 .. \hef) \cup (\hf1 .. \hf6)
         \cup (\hf8 .. \hfe), <<"P/q", "Q/q">>),
     Stub({\hd7}, <<"G/d", "N/q">>),
     Stub({\he7}, <<"M/q", "P/q">>),
     Stub({\hf7}, <<"P/q", "N/q">>)}
TWOBYTE_TABLE == TWOBYTE_TABLE_0 \cup TWOBYTE_TABLE_8

TWOBYTE_66_TABLE_0 == {
     Stub({\h10, \h28, \h51}, <<"V/pd", "W/pd">>),
     Stub({\h11, \h29}, <<"W/pd", "V/pd">>),
     Stub({\h12}, <<"V/q", "H/q", "M/q">>),
     Stub({\h13, \h17}, <<"M/q", "V/q">>),
     Stub({\h14, \h15} \cup (\h60 .. \h6d) \cup (\h74 .. \h76), <<"V/x", "H/x", "W/x">>),
     Stub({\h16}, <<"V/dq", "H/q", "M/q">>),
     Stub({\h2a}, <<"V/pd", "Q/pi">>),
     Stub({\h2b}, <<"M/pd", "V/pd">>),
     Stub({\h2c}, <<"P/pi", "W/pd">>),
     Stub({\h2d}, <<"Q/pi", "W/pd">>),
     Stub({\h2e, \h2f}, <<"V/sd", "W/sd">>),
     Stub({\h50}, <<"G/d", "U/pd">>),
     Stub({\h7c, \h7d} \cup (\h54 .. \h59) \cup (\h5c .. \h5f), <<"V/pd", "H/pd", "W/pd">>),
     Stub({\h5a}, <<"V/ps", "W/pd">>),
     Stub({\h5b}, <<"V/dq", "W/pd">>),
     Stub({\h6e}, <<"V/y", "E/y">>),
     Stub({\h6f}, <<"V/x", "W/x">>),
     Stub({\h70}, <<"V/x", "W/x", "I/b">>),
     Group({\h71}, 12),
     Group({\h72}, 13),
     Group({\h73}, 14),
     Stub({\h7e}, <<"E/y", "V/y">>),
     Stub({\h7f}, <<"W/x", "V/x">>)}
TWOBYTE_66_TABLE_8 == {
     Stub({\hc2, \hc6}, <<"V/pd", "H/pd", "W/pd", "I/b">>),
     Stub({\hc4}, <<"V/pd", "H/dq", "I/b">>),
     Stub({\hc5}, <<"G/d", "U/dq", "I/b">>),
     Group({\hc7}, 9),
     Stub({\hd0}, <<"V/pd", "H/pd", "W/pd">>),
     Stub({\hf5, \hf6} \cup (\hd1 .. \hd5) \cup (\hd8 .. \he5) \cup (\he8 .. \hef)
         \cup (\hf8 .. \hfe), <<"V/x", "H/x", "W/x">>),
     Stub({\hd6}, <<"W/q", "V/q">>),
     Stub({\hd7}, <<"G/d", "U/x">>),
     Stub({\he6}, <<"V/x", "W/pd">>),
     Stub({\he7}, <<"M/x", "V/x">>),
     Stub(\hf1 .. \hf4, <<"V/x", "W/x">>),
     Stub({\hf7}, <<"V/dq", "U/dq">>)}
TWOBYTE_66_TABLE == TWOBYTE_66_TABLE_0 \cup TWOBYTE_66_TABLE_8

TWOBYTE_F3_TABLE_0 == {
     Stub({\h10}, <<"V/x", "H/x", "W/ss">>),
     Stub({\h11}, <<"W/ss", "H/x", "V/ss">>),
     Stub({\h12, \h16, \h6f}, <<"V/x", "W/x">>),
     Stub({\h2a}, <<"V/ss", "H/ss", "E/y">>),
     Stub({\h2c, \h2d}, <<"G/y", "W/ss">>),
     Stub({\h58, \h59} \cup (\h51 .. \h53) \cup (\h5c .. \h5f), <<"V/ss", "H/ss", "W/ss">>),
     Stub({\h5a}, <<"V/sd", "H/x", "W/ss">>),
     Stub({\h5b}, <<"V/dq", "W/ps">>),
     Stub({\h70}, <<"V/x", "W/x", "I/b">>),
     Stub({\h7e}, <<"V/q", "W/q">>),
     Stub({\h7f}, <<"W/x", "V/x">>)}
TWOBYTE_F3_TABLE_8 == {
     Group({\hae}, 15),
     Stub({\hb8, \hbc, \hbd}, <<"G/v", "E/v">>),
     Stub({\hc2}, <<"V/ss", "H/ss", "W/ss", "I/b">>),
     Group({\hc7}, 9),
     Stub({\hd6}, <<"V/dq", "N/q">>),
     Stub({\he6}, <<"V/x", "W/pd">>)}
TWOBYTE_F3_TABLE == TWOBYTE_F3_TABLE_0 \cup TWOBYTE_F3_TABLE_8

TWOBYTE_F2_TABLE_0 == {
     Stub({\h10}, <<"V/x", "H/x", "W/sd">>),
     Stub({\h11}, <<"W/sd", "H/x", "V/sd">>),
     Stub({\h12}, <<"V/x", "W/x">>),
     Stub({\h2a}, <<"V/sd", "H/sd", "E/y">>),
     Stub({\h2c, \h2d}, <<"G/y", "W/sd">>),
     Stub({\h38}, <<"G/y", "E/b">>),
     Stub({\h51, \h58, \h59} \cup (\h5c .. \h5f), <<"V/sd", "H/sd", "W/sd">>),
     Stub({\h5a}, <<"V/ss", "H/x", "W/sd">>),
     Stub({\h70}, <<"V/x", "W/x", "I/b">>),
     Stub({\h7c, \h7d}, <<"V/ps", "H/ps", "W/ps">>)}
TWOBYTE_F2_TABLE_8 == {
     Stub({\hc2}, <<"V/sd", "H/sd", "W/sd", "I/b">>),
     Stub({\hd0}, <<"V/ps", "H/ps", "W/ps">>),
     Stub({\hd6}, <<"P/q", "U/q">>),
     Stub({\he6}, <<"V/x", "W/pd">>),
     Stub({\hf0}, <<"V/x", "M/x">>)}
TWOBYTE_F2_TABLE == TWOBYTE_F2_TABLE_0 \cup TWOBYTE_F2_TABLE_8

THREEBYTE_38_TABLE == {
     Stub((\h00 .. \h0b) \cup (\h1c .. \h1e), <<"P/q", "Q/q">>),
     Stub(\hc8 .. \hcd, <<"V/dq", "W/dq">>),
     Stub({\hf0}, <<"G/y", "M/y">>),
     Stub({\hf1}, <<"M/y", "G/y">>),
     Stub({\hf2}, <<"G/y", "B/y", "E/y">>),
     Stub({\hf5, \hf7}, <<"G/y", "E/y", "B/y">>)}

THREEBYTE_3866_TABLE_0 == {
     Stub({\h28, \h29, \h2b} \cup (\h00 .. \h0d) \cup (\h37 .. \h40), <<"V/x", "H/x", "W/x">>),
     Stub({\h0e, \h0f, \h17, \h58, \h59, \h78, \h79} \cup (\h1c .. \h1e), <<"V/x", "W/x">>),
     Stub({\h10, \h14, \h15, \h41, \h5a}, <<"V/dq", "W/dq">>),
     Stub({\h13}, <<"V/x", "W/x", "I/b">>),
     Stub({\h18}, <<"V/x", "W/d">>),
     Stub({\h19}, <<"W/q">>),
     Stub({\h1a}, <<"M/dq">>),
     Stub({\h20, \h23, \h25, \h30, \h33, \h35}, <<"V/x", "M/q">>),
     Stub({\h21, \h24, \h31, \h34}, <<"V/x", "M/d">>),
     Stub({\h22, \h32}, <<"V/x", "M/w">>),
     Stub({\h2a}, <<"V/x", "M/dq">>),
     Stub({\h2c, \h2d}, <<"V/x", "H/x", "M/x">>),
     Stub({\h2e, \h2f}, <<"M/x", "H/x", "V/x">>),
     Stub({\h36}, <<"V/qq", "H/qq", "W/qq">>)}
THREEBYTE_3866_TABLE_8 == {
     Stub(\h80 .. \h82, <<"G/y", "M/dq">>),
     Stub({\h8c}, <<"V/x", "H/x", "M/x">>),
     Stub({\h8e}, <<"M/x", "V/x", "H/x">>),
     Stub((\h90 .. \h93) \cup (\h96 .. \h9f) \cup (\ha6 .. \haf) \cup (\hb6 .. \hbf), <<"V/x",
         "H/x", "W/x">>),
     Stub({\hdb, \hdc, \hdf}, <<"V/dq", "W/dq">>),
     Stub({\hdd, \hde}, <<"V/dq", "H/dq", "W/dq">>),
     Stub({\hf0, \hf1}, <<"G/w", "M/w">>),
     Group({\hf3}, 17),
     Op({\hf6}, "adcx", <<"G/y", "E/y">>),
     Stub({\hf7}, <<"G/y", "E/y", "B/y">>)}
THREEBYTE_3866_TABLE == THREEBYTE_3866_TABLE_0 \cup THREEBYTE_3866_TABLE_8

THREEBYTE_38F2_TABLE == {
     Stub({\hf0}, <<"G/y", "E/b">>),
     Stub({\hf1}, <<"G/y", "E/v">>)}

THREEBYTE_38F3_TABLE == {}

THREEBYTE_3A_TABLE == {
     Stub({\h0f}, <<"P/q", "Q/q", "I/b">>),
     Stub({\hcc}, <<"V/dq", "W/dq", "I/b">>)}

THREEBYTE_3A66_TABLE_0 == {
     Stub({\h00, \h01}, <<"V/qq", "W/qq", "I/b">>),
     Stub({\h02, \h40, \h42} \cup (\h0c .. \h0f), <<"V/x", "H/x", "W/x", "I/b">>),
     Stub({\h04, \h05, \h08, \h09}, <<"V/x", "W/x", "I/b">>),
     Stub({\h06, \h18, \h38, \h46}, <<"V/qq", "H/qq", "W/qq", "I/b">>),
     Stub({\h0a}, <<"V/ss", "W/ss", "I/b">>),
     Stub({\h0b}, <<"V/sd", "W/sd", "I/b">>),
     Stub({\h14}, <<"M/b", "V/dq", "I/b">>),
     Stub({\h15}, <<"M/w", "V/dq", "I/b">>),
     Stub({\h16}, <<"E/y", "V/dq", "I/b">>),
     Stub({\h17}, <<"E/d", "V/dq", "I/b">>),
     Stub({\h19, \h39}, <<"W/dq", "V/qq", "I/b">>),
     Stub({\h20, \h21}, <<"V/dq", "H/dq", "M/d", "I/b">>),
     Stub({\h22}, <<"V/dq", "H/dq", "E/y", "I/b">>),
     Stub({\h41, \h44}, <<"V/dq", "H/dq", "W/dq", "I/b">>),
     Stub(\h4a .. \h4c, <<"V/x", "H/x", "W/x", "L/x">>),
     Stub(\h60 .. \h63, <<"V/dq", "W/dq", "I/b">>)}
THREEBYTE_3A66_TABLE_8 == {
     Stub({\hdf}, <<"V/dq", "W/dq", "I/b">>)}
THREEBYTE_3A66_TABLE == THREEBYTE_3A66_TABLE_0 \cup THREEBYTE_3A66_TABLE_8

THREEBYTE_3AF2_TABLE == {}

XOP8_TABLE == {}

XOP9_TABLE == {}

XOPA_TABLE == {}

GROUP1_OPC80 == {Op({k - 1}, Arithmetic[k], <<"E/b", "I/b">>) : k \in 1 .. 8}
GROUP1_OPC81 == {Op({k - 1}, Arithmetic[k], <<"E/v", "I/z">>) : k \in 1 .. 8}
GROUP1_OPC82 == {Op({k - 1}, Arithmetic[k], <<"E/b", "I/b">>) : k \in 1 .. 8}
GROUP1_OPC83 == {Op({k - 1}, Arithmetic[k], <<"E/v", "I/b">>) : k \in 1 .. 8}
GROUP101_OPC8F == {Op({\h00}, "pop", <<"E/v">>)}
GROUP2_OPCC0 == {Stub(\h00 .. \h07, <<"E/b", "I/b">>)}
GROUP2_OPCC1 == {Stub(\h00 .. \h07, <<"E/v", "I/b">>)}
GROUP2_OPCD0 == {Stub(\h00 .. \h07, <<"E/b", "I/one">>)}
GROUP2_OPCD1 == {Stub(\h00 .. \h07, <<"E/v", "I/one">>)}
GROUP2_OPCD2 == {Stub(\h00 .. \h07, <<"E/b", "CL">>)}
GROUP2_OPCD3 == {Stub(\h00 .. \h07, <<"E/v", "CL">>)}
GROUP3_OPCF6 == {
     Stub({\h00, \h01}, <<"E/b", "I/b">>),
     Stub(\h02 .. \h07, <<"E/b">>)}
GROUP3_OPCF7 == {
     Stub({\h00, \h01}, <<"E/v", "I/z">>),
     Stub(\h02 .. \h07, <<"E/v">>)}
GROUP4_OPCFE == {Stub({\h00, \h01}, <<"E/b">>)}
GROUP5_OPCFF == {
     Stub({\h00, \h01}, <<"E/v">>),
     OpIf("Force64", {\h02}, "call", <<"E/v">>),
     Op({\h03}, "call", <<"E/p">>),
     OpIf("Force64", {\h04}, "jmp", <<"E/v">>),
     OpIf("Default64", {\h05}, "jmp", <<"M/p">>),
     OpIf("Default64", {\h06}, "push", <<"E/v">>)}
GROUP6_OPC00 == {
     Stub({\h00, \h01}, <<"M/w">>),
     Stub(\h02 .. \h05, <<"E/w">>)}
GROUP7_OPC01_MEM == {
     Stub(\h00 .. \h03, <<"M/s">>),
     Stub({\h04}, <<"M/w">>),
     Stub({\h06}, <<"E/w">>),
     Stub({\h07}, <<"M/b">>)}
GROUP8_OPCBA == {Stub(\h04 .. \h07, <<"E/v", "I/b">>)}
GROUP10_OPCB9 == {Stub(\h00 .. \h07, <<>>)}
GROUP11_OPCC6 == {Op({\h00}, "mov", <<"E/b", "I/b">>)}
GROUP11_OPCC7 == {Op({\h00}, "mov", <<"E/v", "I/z">>)}
GROUP12_OPC71 == {Stub({\h02, \h04, \h06}, <<"N/q", "I/b">>)}
GROUP12_OPC6671 == {Stub({\h02, \h04, \h06}, <<"H/x", "U/x", "I/b">>)}
GROUP13_OPC72 == {Stub({\h02, \h04, \h06}, <<"N/q", "I/b">>)}
GROUP13_OPC6672 == {Stub({\h02, \h04, \h06}, <<"H/x", "U/x", "I/b">>)}
GROUP14_OPC73 == {Stub({\h02, \h06}, <<"N/q", "I/b">>)}
GROUP14_OPC6673 == {Stub({\h02, \h03, \h06, \h07}, <<"H/x", "U/x", "I/b">>)}
GROUP102_OPC01 == {
     Stub({\h00, \h02, \h07}, <<"M/x">>),
     Stub({\h01, \h03}, <<>>),
     Stub({\h04}, <<"M/w">>),
     Stub({\h06}, <<"E/w">>)}

\* The escape tables of the x87 coprocessor, indexed by ModRM - 0xc0: eight
\* registers in every line of eight.
StRows(lines, operands(_)) ==
    {Stub({8 * l + i : l \in lines}, operands(RegistersSt[i + 1])) : i \in 0 .. 7}
X87_D8_TABLE ==
    StRows(0 .. 7, LAMBDA r : <<"ST0", r>>)
X87_D9_TABLE ==
    StRows({0, 1}, LAMBDA r : <<"ST0", r>>)
    \cup {Stub({\h10, \h20, \h21, \h24, \h25} \cup (\h28 .. \h2e) \cup (\h30 .. \h3f), <<>>)}
X87_DA_TABLE ==
    StRows(0 .. 3, LAMBDA r : <<"ST0", r>>)
    \cup {Stub({\h29}, <<>>)}
X87_DB_TABLE ==
    StRows((0 .. 3) \cup {5, 6}, LAMBDA r : <<"ST0", r>>)
    \cup {Stub({\h22, \h23}, <<>>)}
X87_DC_TABLE ==
    StRows({0, 1} \cup (4 .. 7), LAMBDA r : <<r, "ST0">>)
X87_DD_TABLE ==
    StRows({0, 2, 3}, LAMBDA r : <<r>>)
    \cup StRows({4, 5}, LAMBDA r : <<r, "ST0">>)
X87_DE_TABLE ==
    StRows({0, 1} \cup (4 .. 7), LAMBDA r : <<r, "ST0">>)
    \cup {Stub({\h19}, <<>>)}
X87_DF_TABLE ==
    StRows({5, 6}, LAMBDA r : <<"ST0", r>>)
    \cup {Stub({\h20}, <<"AX">>)}
X87_D8_TABLE2 == {Stub(\h00 .. \h07, <<"E/d", "G/d">>)}
X87_D9_TABLE2 == {Stub({\h00} \cup (\h02 .. \h07), <<"E/d", "G/d">>)}
X87_DA_TABLE2 == {Stub(\h00 .. \h07, <<"E/d", "G/d">>)}
X87_DB_TABLE2 == {
     Stub(\h00 .. \h03, <<"E/d", "G/d">>),
     Stub({\h05, \h07}, <<"E/dq", "G/dq">>)}
X87_DC_TABLE2 == {Stub(\h00 .. \h07, <<"E/dq", "G/dq">>)}
X87_DD_TABLE2 == {
     Stub({\h00, \h06, \h07} \cup (\h02 .. \h04), <<"E/dq", "G/dq">>),
     Stub({\h01}, <<"E/d", "G/d">>)}
X87_DE_TABLE2 == {Stub(\h00 .. \h07, <<"E/w", "G/w">>)}
X87_DF_TABLE2 == {
     Stub({\h06} \cup (\h00 .. \h04), <<"E/w", "G/w">>),
     Stub({\h05, \h07}, <<"E/dq", "G/dq">>)}
=============================================================================
