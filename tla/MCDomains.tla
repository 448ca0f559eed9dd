----------------------------- MODULE MCDomains -----------------------------
(* Two registers one bit short of the word, which may be exchanged, and a    *)
(* flag.                                                                     *)
EXTENDS Domains, TLC

CONSTANTS r1, r2, zf

MCRegisters == [r \in {r1, r2, zf} |-> IF r = zf THEN 1 ELSE WORD - 1]
Exchange == Permutations({r1, r2})
============================================================================
