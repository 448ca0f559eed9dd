------------------------------ MODULE Discovery ------------------------------
(***************************************************************************)
(* What discovering the functions of a binary promises, whoever does it    *)
(* and in whatever order: functions turn up one after the other, each of   *)
(* them can be reached by calls from the entry points the loader found     *)
(* and can be disassembled, and the search ends only when none is missing. *)
(***************************************************************************)
CONSTANT
  Wanted(_)  \* Wanted(b): the functions of binary b that can be found

VARIABLES
  input,     \* the binary, fixed from the start
  found,     \* entries of the functions found so far
  complete   \* whether the search has ended

vars == <<input, found, complete>>

Init ==
  /\ found = {}
  /\ complete = FALSE

Find ==
  /\ ~complete
  /\ \E e \in Wanted(input) \ found : found' = found \cup {e}
  /\ UNCHANGED <<input, complete>>

Finish ==
  /\ ~complete
  /\ found = Wanted(input)
  /\ complete' = TRUE
  /\ UNCHANGED <<input, found>>

Next == Find \/ Finish

Spec == Init /\ [][Next]_vars /\ WF_vars(Next)

=============================================================================
