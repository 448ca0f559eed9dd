------------------------------ MODULE MCSession ------------------------------
EXTENDS Session

CONSTANTS f, g, c1, c2, n1, v1, lf, lg, shared

(* Rvalues: <<address, width>> for constants, <<0, 0>> for a register. *)
MCRvalue == {<<1, 64>>, <<2, 64>>, <<0, 0>>}
MCConstAddr == [a \in MCRvalue |-> IF a[1] = 0 THEN NoAddr ELSE a[1]]

(* f calls g and itself, g calls through a register; both end alike. *)
MCFunc ==
  [u \in {f, g} |->
     IF u = f
       THEN [start |-> 1, name |-> DefaultName(1), calls |-> {<<1, 64>>, <<2, 64>>},
             lines |-> {lf, shared}]
       ELSE [start |-> 2, name |-> DefaultName(2), calls |-> {<<0, 0>>},
             lines |-> {lg, shared}]]

(* A function that calls itself. *)
MCOne ==
  [u \in {f} |-> [start |-> 1, name |-> DefaultName(1), calls |-> {<<1, 64>>}, lines |-> {lf}]]
=============================================================================
