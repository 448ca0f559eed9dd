--------------------------- MODULE ByteExecution ---------------------------
(* Runs RREIL statements on symbolic bytes, to see which bytes of which       *)
(* register an instruction reaches.  A byte is a name: "0" is the zero byte,  *)
(* and every byte an operation computes gets a name of its own.  Moves, zero  *)
(* extensions, masks and shifts by whole bytes are exact.  Flags and other    *)
(* values that are not made of whole bytes are left out.                      *)
EXTENDS Rreil, TLC

WholeBytes(size) == size > 0 /\ size % 8 = 0
Named(what, n) == [k \in 1 .. n |-> what \o "." \o ToString(k)]
\* env maps variables to sequences of bytes.  A variable that is not in env, or
\* a read past the end of one, has bytes of its own.
BytesOf(env, rv, label) ==
    LET n == rv.size \div 8
        from == rv.offset \div 8
    IN IF rv.kind = "Variable" /\ rv.name \in DOMAIN env /\ rv.offset % 8 = 0
            /\ from + n <= Len(env[rv.name])
       THEN SubSeq(env[rv.name], from + 1, from + n)
       ELSE Named(label, n)
Pad(bytes, n) == [k \in 1 .. n |-> IF k <= Len(bytes) THEN bytes[k] ELSE "0"]
\* A mask constant clears the bits of a range.
Masked(bytes, range) ==
    [k \in DOMAIN bytes |-> IF range[1] <= 8 * (k - 1) /\ 8 * k <= range[2] THEN "0" ELSE bytes[k]]
Merged(a, b, label) ==
    [k \in DOMAIN a |-> CASE b[k] = "0" -> a[k]
                          [] a[k] = "0" -> b[k]
                          [] OTHER -> label \o "." \o ToString(k)]
IsMask(rv) == "clears" \in DOMAIN rv

Step(env, s, label) ==
    LET a == s.operands[1]
        b == s.operands[2]
        n == s.assignee.size \div 8
        value == CASE s.op = "Move" /\ a.kind # "Undefined" -> SubSeq(BytesOf(env, a, label), 1, n)
                   [] s.op = "ZeroExtend" /\ a.kind # "Undefined" /\ WholeBytes(a.size) ->
                        Pad(BytesOf(env, a, label), n)
                   [] s.op = "And" /\ IsMask(b) -> Masked(BytesOf(env, a, label), b.clears)
                   [] s.op = "InclusiveOr" -> Merged(BytesOf(env, a, label), BytesOf(env, b, label), label)
                   [] s.op = "Multiply" /\ b = Constant(256, 64) -> SubSeq(<<"0">> \o BytesOf(env, a, label), 1, n)
                   [] OTHER -> Named(label, n)
    IN IF s.assignee.kind # "Variable" \/ ~WholeBytes(s.assignee.size) THEN env
       ELSE (s.assignee.name :> value) @@ env

RECURSIVE Run(_, _, _)
Run(env, stmts, k) ==
    IF k > Len(stmts) THEN env ELSE Run(Step(env, stmts[k], ToString(k)), stmts, k + 1)
============================================================================
