------------------------------ MODULE MCPipeline ------------------------------
EXTENDS Pipeline, TLC

CONSTANTS s1, s2

(* Rvalues: <<address, width>> for constants, <<0, 0>> for a register. *)
MCAddr == 1..3
MCRvalue == {<<1, 64>>, <<2, 64>>, <<3, 64>>, <<0, 0>>}
MCConstAddr == [a \in MCRvalue |-> IF a[1] = 0 THEN NoAddr ELSE a[1]]

Sym(a, s) == Todo(<<a, 64>>, <<"sym", s>>)

(* One entry; an entry with two symbols; two entries and an import. *)
MCSymbols ==
  {<<Sym(1, s1)>>, <<Sym(1, s1), Sym(1, s2)>>,
   <<Sym(1, s1), Sym(2, s1), Symbolic(<<"sym", s2>>)>>}

(* Calls of main, of a helper and of a leaf that may call back. *)
MCCalls ==
  {c \in [MCAddr -> SUBSET MCRvalue] :
     /\ c[1] \in {{<<2, 64>>}, {<<2, 64>>, <<3, 64>>}, {<<1, 64>>, <<2, 64>>, <<0, 0>>}}
     /\ <<1, 64>> \notin c[2]
     /\ c[3] \in {{}, {<<1, 64>>, <<0, 0>>}, {<<3, 64>>, <<2, 64>>}}}

MCBinaries ==
  [symbols : MCSymbols, decodes : {MCAddr, {1, 2}, {1, 3}}, calls : MCCalls,
   load : {[e \in MCAddr |-> NoAddr]}, imports : {{}}]
=============================================================================
