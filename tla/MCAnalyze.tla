------------------------------ MODULE MCAnalyze ------------------------------
EXTENDS Analyze, TLC

CONSTANTS w1, w2, w3, s1, s2, s3

(* Rvalues: <<address, width>> for constants, <<0, 0>> for a register. *)
MCAddr == 1..4
MCRvalue == {<<1, 64>>, <<2, 64>>, <<2, 32>>, <<3, 64>>, <<4, 64>>, <<0, 0>>}
MCConstAddr == [a \in MCRvalue |-> IF a[1] = 0 THEN NoAddr ELSE a[1]]

Sym(a, s) == Todo(<<a, 64>>, <<"sym", s>>)

C(a) == <<a, 64>>

(***************************************************************************)
(* 1: main, with two names, calls 2 through a narrow constant, 3 and       *)
(*    itself;  2 calls 3, 4 and through a register;  3 is a stub that      *)
(*    loads from the slot of an import;  4 cannot be disassembled.         *)
(***************************************************************************)
Layered ==
  [symbols |-> <<Sym(1, s1), Sym(1, s2), Symbolic(<<"sym", s3>>)>>,
   decodes |-> {1, 2, 3},
   calls   |-> <<{C(1), <<2, 32>>, C(3)}, {C(3), C(4), <<0, 0>>}, {}, {}>>,
   load    |-> <<NoAddr, NoAddr, 4, NoAddr>>, imports |-> {4}]

(* A chain of calls back to the start, and a symbol for its last link. *)
Chain ==
  [symbols |-> <<Sym(1, s1), Sym(4, s2), Sym(4, s2)>>,
   decodes |-> {1, 2, 3, 4},
   calls   |-> <<{C(2)}, {C(3)}, {C(4)}, {C(1), C(2), <<2, 32>>}>>,
   load    |-> <<NoAddr, 1, NoAddr, 2>>, imports |-> {1, 2}]

(***************************************************************************)
(* Every call structure over two functions, the first of which may also    *)
(* call through a register, with an entry that has two symbols or a symbol *)
(* for each entry; both functions load from the slot of an import or       *)
(* neither does.                                                           *)
(***************************************************************************)
Pairs ==
  {[symbols |-> s, decodes |-> d,
    calls |-> <<c1, c2, {}, {}>>, load |-> [e \in MCAddr |-> l], imports |-> {1}] :
     s \in {<<Sym(1, s1), Sym(1, s2)>>, <<Sym(1, s1), Sym(2, s1)>>},
     d \in SUBSET {1, 2},
     c1 \in SUBSET {C(1), C(2), <<0, 0>>}, c2 \in SUBSET {C(1), C(2)},
     l \in {NoAddr, 1}}

MCBinaries == {Layered, Chain} \cup Pairs
=============================================================================
