---------------------------- MODULE MCControlFlow ----------------------------
(***************************************************************************)
(* A region of four bytes: enough for a block of three opcodes, opcodes    *)
(* that overlap, entries with code on both sides and jumps to the end of   *)
(* the region, where nothing can be decoded.                               *)
(***************************************************************************)
EXTENDS ControlFlow

MCStarts == {0, 2}
MCPrefixed == {1}

=============================================================================
