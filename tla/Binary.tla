-------------------------------- MODULE Binary --------------------------------
(***************************************************************************)
(* The input of the analyses: what the loader and the disassembler find in *)
(* a binary, and which functions it has.                                   *)
(***************************************************************************)
EXTENDS Naturals, Sequences

CONSTANTS
  Addr,       \* the addresses that occur as function entries (u64)
  NoAddr,     \* absence of an address
  Rvalue,     \* the operands of Call statements
  ConstAddr,  \* value of a constant Rvalue, NoAddr for any other Rvalue
  Symbol,     \* the symbol names a binary may carry
  NoName,     \* None as a function name
  Binaries    \* the inputs

(***************************************************************************)
(* Two Rvalues may have the same address: Rvalue::Constant also carries a  *)
(* width, and equality of Rvalues compares it.                             *)
(***************************************************************************)
ASSUME AddrAssumption ==
  /\ NoAddr \notin Addr
  /\ ConstAddr \in [Rvalue -> Addr \cup {NoAddr}]

(***************************************************************************)
(* Function names: a symbol, the name made up from the entry address, or   *)
(* the name of an import with "@plt" appended.                             *)
(***************************************************************************)
Name == ({"sym"} \X Symbol) \cup ({"func", "plt"} \X Addr)

(* A function without a name has none of them (Option<String>). *)
ASSUME NameAssumption == NoName \notin Name

DefaultName(entry) == <<"func", entry>>

Todo(a, name) == [kind |-> "Todo", rvalue |-> a, name |-> name]

Symbolic(name) == [kind |-> "Symbolic", name |-> name]

TodoTarget ==
  [kind : {"Todo"}, rvalue : Rvalue, name : Name \cup {NoName}]

SymbolicTarget == [kind : {"Symbolic"}, name : Name]

(***************************************************************************)
(* symbols: the call targets the loader put into the call graph            *)
(* decodes: the entries Function::new succeeds for                         *)
(* calls:   the operands of the Call statements of the function at e       *)
(* load:    see UpdatePlt                                                  *)
(* imports: the addresses with an entry in Program::imports                *)
(***************************************************************************)
BinaryType ==
  [symbols : Seq(TodoTarget \cup SymbolicTarget),
   decodes : SUBSET Addr,
   calls   : [Addr -> SUBSET Rvalue],
   load    : [Addr -> Addr \cup {NoAddr}],
   imports : SUBSET Addr]

ASSUME BinariesAssumption == Binaries \subseteq BinaryType

(* Function::collect_call_addresses *)
CallAddresses(b, e) == {ConstAddr[a] : a \in b.calls[e]} \cap Addr

(***************************************************************************)
(* The functions a binary has: the least set of addresses that contains    *)
(* the entries of the loader and is closed under calls.                    *)
(***************************************************************************)
Roots(b) ==
  {ConstAddr[b.symbols[i].rvalue] :
     i \in {j \in DOMAIN b.symbols : b.symbols[j].kind = "Todo"}} \cap Addr

Closed(b, S) ==
  /\ Roots(b) \subseteq S
  /\ \A e \in S \cap b.decodes : CallAddresses(b, e) \subseteq S

Reachable(b) == {e \in Addr : \A S \in SUBSET Addr : Closed(b, S) => e \in S}

Wanted(b) == Reachable(b) \cap b.decodes

=============================================================================
