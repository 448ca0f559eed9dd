------------------------------ MODULE CallTable ------------------------------
(***************************************************************************)
(* The functions a session knows and who calls them: the fields functions, *)
(* by_entry, unresolved_calls and resolved_calls of Panopticon             *)
(* (qt/src/singleton.rs) and new_function, which keeps them.               *)
(*                                                                         *)
(* A call site is <<caller, operand>>: the basic block of the call is      *)
(* named by the operand it calls.  A MultiMap is a set of <<key, site>>.   *)
(***************************************************************************)
EXTENDS Binary

VARIABLES
  functions,         \* UUID -> function
  by_entry,          \* entry -> UUID
  unresolved_calls,  \* set of <<address called or NoAddr, site>>
  resolved_calls     \* set of <<UUID of the callee, site>>

tableVars == <<functions, by_entry, unresolved_calls, resolved_calls>>

EmptyTable ==
  /\ functions = <<>>
  /\ by_entry = <<>>
  /\ unresolved_calls = {}
  /\ resolved_calls = {}

Known == DOMAIN functions

StartsAt(e) == {u \in Known : functions[u].start = e}

Target(site) == ConstAddr[site[2]]

Sites(uuid, f) == {<<uuid, a>> : a \in f.calls}

(* f with the UUID is put into map m, over what is there. *)
Put(m, key, val) == [k \in DOMAIN m \cup {key} |-> IF k = key THEN val ELSE m[k]]

(* The sites that wait for f: earlier calls to its entry and its own. *)
Waiting(uuid, f) ==
  {p[2] : p \in {q \in unresolved_calls : q[1] = f.start}}
  \cup {s \in Sites(uuid, f) :
          Target(s) = f.start /\ f.start \notin DOMAIN by_entry}

(***************************************************************************)
(* Panopticon::new_function, up to the refreshing of the nodes.            *)
(***************************************************************************)
NewFunction_KeepsWaiting(uuid, f) ==
  LET own   == Sites(uuid, f)
      known == {s \in own : Target(s) \in DOMAIN by_entry}
  IN  /\ resolved_calls' = resolved_calls
           \cup {<<by_entry[Target(s)], s>> : s \in known}
           \cup {<<uuid, s>> : s \in Waiting(uuid, f)}
      /\ unresolved_calls' =
           unresolved_calls \cup {<<Target(s), s>> : s \in own \ known}
      /\ by_entry' = Put(by_entry, f.start, uuid)
      /\ functions' = Put(functions, uuid, f)

NewFunction(uuid, f) ==
  LET own   == Sites(uuid, f)
      known == {s \in own : Target(s) \in DOMAIN by_entry}
  IN  /\ resolved_calls' = resolved_calls
           \cup {<<by_entry[Target(s)], s>> : s \in known}
           \cup {<<uuid, s>> : s \in Waiting(uuid, f)}
      /\ unresolved_calls' =
           {p \in unresolved_calls \cup {<<Target(s), s>> : s \in own \ known} :
              p[1] # f.start}
      /\ by_entry' = Put(by_entry, f.start, uuid)
      /\ functions' = Put(functions, uuid, f)

(* The callers whose nodes new_function refreshes. *)
Refreshed(uuid, f) ==
  {s[1] : s \in Waiting(uuid, f)}
  \cup {p[2][1] : p \in {q \in unresolved_calls : q[1] = NoAddr}}
  \cup {s[1] : s \in {t \in Sites(uuid, f) : Target(t) = NoAddr}}
-----------------------------------------------------------------------------
(* by_entry is an index of functions. *)
IndexRight ==
  /\ DOMAIN by_entry = {functions[u].start : u \in Known}
  /\ \A e \in DOMAIN by_entry : by_entry[e] \in StartsAt(e)

(***************************************************************************)
(* The tables tell who calls whom, in whatever order functions arrived:    *)
(* by_entry finds a function for every known entry, and a call is booked   *)
(* exactly once: under a function that starts at the address called when   *)
(* there is one, as unresolved under that address when there is none, and  *)
(* as indirect when the operand is no constant.                            *)
(***************************************************************************)
CallsBooked ==
  /\ IndexRight
  /\ \A u \in Known : \A s \in Sites(u, functions[u]) :
       LET d == Target(s)
       IN  IF d # NoAddr /\ StartsAt(d) # {}
             THEN /\ \E v \in StartsAt(d) :
                       {p \in resolved_calls : p[2] = s} = {<<v, s>>}
                  /\ \A p \in unresolved_calls : p[2] # s
             ELSE /\ {p \in unresolved_calls : p[2] = s} = {<<d, s>>}
                  /\ \A p \in resolved_calls : p[2] # s
  /\ \A p \in unresolved_calls \cup resolved_calls :
       /\ p[2][1] \in Known
       /\ p[2] \in Sites(p[2][1], functions[p[2][1]])

=============================================================================
