------------------------------ MODULE Decoder ------------------------------
(* What a decode function hands to the disassembler: core/src/disassembler.rs, *)
(* struct State.  A match is a run of mnemonics that follow each other in the  *)
(* instruction stream, each with the RREIL statements that implement it, and   *)
(* the jumps that leave it.                                                    *)
EXTENDS Rreil, FiniteSets

\* State::new.  len is the number of bytes of the matched tokens; ok turns
\* FALSE where the code returns Err, which every caller unwraps.
NewState(address, len) ==
    [address |-> address, len |-> len, mnemonics |-> <<>>, jumps |-> <<>>,
     mnemonic_origin |-> address, jump_origin |-> address, ok |-> TRUE]

SaneAll(stmts) == \A i \in DOMAIN stmts : sanity_check(stmts[i])

mnemonic_Fixed(st, len, stmts) ==
    [st EXCEPT
        !.mnemonics = Append(@, [start |-> st.mnemonic_origin, len |-> len, stmts |-> stmts]),
        !.jump_origin = st.mnemonic_origin,
        !.mnemonic_origin = st.address + st.len,
        !.ok = @ /\ SaneAll(stmts)]
mnemonic(st, len, stmts) ==
    [st EXCEPT
        !.mnemonics = Append(@, [start |-> st.mnemonic_origin, len |-> len, stmts |-> stmts]),
        !.jump_origin = st.mnemonic_origin,
        !.mnemonic_origin = @ + len,
        !.ok = @ /\ SaneAll(stmts)]

jump_from(st, origin, target, guard) ==
    [st EXCEPT !.jumps = Append(@, [origin |-> origin, target |-> target, guard |-> guard]),
               !.ok = @ /\ guard # NotAFlag]

\* "A basic block mustn't end w/ a zero sized mnemonic"
jump(st, target, guard) ==
    [jump_from(st, st.jump_origin, target, guard) EXCEPT
        !.ok = @ /\ (st.mnemonics = <<>> \/ st.mnemonics[Len(st.mnemonics)].len > 0)]

----------------------------------------------------------------------------
\* What the rest of Panopticon relies on.

RECURSIVE Statements(_)
Statements(ms) == IF ms = <<>> THEN <<>> ELSE ms[1].stmts \o Statements(Tail(ms))

\* The mnemonics cover the bytes of the match, without a gap, in order.
Tiles(st) ==
    /\ \A i \in DOMAIN st.mnemonics :
          st.mnemonics[i].start = IF i = 1 THEN st.address
                                  ELSE st.mnemonics[i - 1].start + st.mnemonics[i - 1].len
    /\ st.mnemonics # <<>> => st.mnemonic_origin = st.address + st.len

\* Every jump leaves from a mnemonic of the match that has a size.
JumpsLeave(st) ==
    \A i \in DOMAIN st.jumps :
        \E j \in DOMAIN st.mnemonics :
            st.mnemonics[j].start = st.jumps[i].origin /\ st.mnemonics[j].len > 0

IsVar(rv) == rv.kind = "Variable"
Fits(rv, size) == rv.offset + rv.size <= size
LastWrite(stmts, i, name) ==
    LET js == {j \in 1 .. i - 1 : IsVar(stmts[j].assignee) /\ stmts[j].assignee.name = name}
    IN IF js = {} THEN 0
       ELSE stmts[CHOOSE j \in js : \A k \in js : k <= j].assignee.size

\* A value read at statement i is a register, or a temporary that an earlier
\* statement of the same match wrote at least as wide.
ReadsWritten(stmts, i, rv, registers) ==
    IsVar(rv) =>
        IF rv.name \in DOMAIN registers THEN Fits(rv, registers[rv.name])
        ELSE Fits(rv, LastWrite(stmts, i, rv.name))

ReadsDefined(st, registers) ==
    LET ss == Statements(st.mnemonics)
        n == Len(ss) + 1
    IN /\ \A i \in DOMAIN ss : \A k \in DOMAIN ss[i].operands :
             ReadsWritten(ss, i, ss[i].operands[k], registers)
       /\ \A i \in DOMAIN st.jumps :
             /\ ReadsWritten(ss, n, st.jumps[i].target, registers)
             /\ st.jumps[i].guard.kind = "Predicate" =>
                    ReadsWritten(ss, n, st.jumps[i].guard.flag, registers)

\* A register is always written with its own size.
WritesWhole(st, registers) ==
    LET ss == Statements(st.mnemonics)
    IN \A i \in DOMAIN ss :
          IsVar(ss[i].assignee) /\ ss[i].assignee.name \in DOMAIN registers =>
              ss[i].assignee.size = registers[ss[i].assignee.name]
============================================================================
