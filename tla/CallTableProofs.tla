--------------------------- MODULE CallTableProofs ---------------------------
(***************************************************************************)
(* What the tables of a session tell about calls, for every caller of      *)
(* new_function: each call stays booked once, and the tables find the      *)
(* functions whose text changes when a function arrives or is renamed.     *)
(***************************************************************************)
EXTENDS CallTable, TLAPS

(***************************************************************************)
(* new_function books calls correctly: with a function under a new UUID    *)
(* put into the tables, each call is still booked once and where it        *)
(* belongs, whoever of caller and callee arrived first.                    *)
(***************************************************************************)
LEMMA Booking ==
  ASSUME CallsBooked,
         NEW uuid, NEW f, uuid \notin Known, f.start \in Addr, f.calls \subseteq Rvalue,
         \A u \in Known : functions[u].start \in Addr,
         NewFunction(uuid, f)
  PROVE  CallsBooked'
<1> DEFINE own == Sites(uuid, f)
           e == f.start
<1>1. /\ Known' = Known \cup {uuid}
      /\ functions'[uuid] = f
      /\ \A u \in Known : functions'[u] = functions[u]
  BY DEF NewFunction, Put, Known
<1>2. /\ DOMAIN by_entry' = DOMAIN by_entry \cup {e}
      /\ by_entry'[e] = uuid
      /\ \A d \in DOMAIN by_entry \ {e} : by_entry'[d] = by_entry[d]
  BY DEF NewFunction, Put
<1>3. \A d : StartsAt(d)' = StartsAt(d) \cup (IF d = e THEN {uuid} ELSE {})
  BY <1>1 DEF StartsAt
<1>4. IndexRight'
  BY <1>1, <1>2, <1>3 DEF IndexRight, CallsBooked
<1>5. NoAddr \notin DOMAIN by_entry /\ e # NoAddr
  BY AddrAssumption DEF CallsBooked, IndexRight
<1>6. \A d : d \in DOMAIN by_entry <=> StartsAt(d) # {}
  BY DEF CallsBooked, IndexRight, StartsAt
<1>7. \A p \in unresolved_calls \cup resolved_calls : p[2] \notin own
  BY DEF CallsBooked, Sites
<1>8. \A s : s \in Waiting(uuid, f) <=>
        \/ \E q \in unresolved_calls : q[1] = e /\ q[2] = s
        \/ s \in own /\ Target(s) = e /\ e \notin DOMAIN by_entry
  BY DEF Waiting
<1>9. \A p : p \in resolved_calls' <=>
        \/ p \in resolved_calls
        \/ \E s \in own : Target(s) \in DOMAIN by_entry /\ p = <<by_entry[Target(s)], s>>
        \/ \E s \in Waiting(uuid, f) : p = <<uuid, s>>
  BY DEF NewFunction
<1>10. \A p : p \in unresolved_calls' <=>
         /\ p[1] # e
         /\ \/ p \in unresolved_calls
            \/ \E s \in own : Target(s) \notin DOMAIN by_entry /\ p = <<Target(s), s>>
  BY DEF NewFunction
<1> DEFINE Booked(s, d) ==
             IF d # NoAddr /\ StartsAt(d) # {}
               THEN /\ \E v \in StartsAt(d) : {p \in resolved_calls : p[2] = s} = {<<v, s>>}
                    /\ \A p \in unresolved_calls : p[2] # s
               ELSE /\ {p \in unresolved_calls : p[2] = s} = {<<d, s>>}
                    /\ \A p \in resolved_calls : p[2] # s
<1>11. ASSUME NEW u \in Known, NEW s \in Sites(u, functions[u])
       PROVE  Booked(s, Target(s))'
  <2> DEFINE d == Target(s)
  <2>1. Booked(s, d)
    BY DEF CallsBooked
  <2>2. s \notin own /\ d' = d
    BY DEF Sites, Target
  <2> HIDE DEF d, own
  <2>3. CASE d # NoAddr /\ StartsAt(d) # {}
    <3>1. PICK v \in StartsAt(d) : {p \in resolved_calls : p[2] = s} = {<<v, s>>}
      BY <2>1, <2>3
    <3>2. \A p \in unresolved_calls : p[2] # s
      BY <2>1, <2>3
    <3>3. s \notin Waiting(uuid, f)
      BY <1>8, <2>2, <3>2
    <3>4. {p \in resolved_calls' : p[2] = s} = {<<v, s>>}
      BY <1>9, <2>2, <3>1, <3>3
    <3>5. \A p \in unresolved_calls' : p[2] # s
      BY <1>10, <2>2, <3>2
    <3>6. v \in StartsAt(d)'
      BY <1>3
    <3> QED
      BY <2>2, <2>3, <3>4, <3>5, <3>6 DEF d
  <2>4. CASE d = e /\ StartsAt(d) = {}
    <3>1. /\ {p \in unresolved_calls : p[2] = s} = {<<d, s>>}
          /\ \A p \in resolved_calls : p[2] # s
      BY <2>1, <2>4
    <3>2. s \in Waiting(uuid, f)
      <4>1. <<d, s>> \in unresolved_calls
        BY <3>1
      <4> QED
        BY <1>8, <2>4, <4>1
    <3>3. {p \in resolved_calls' : p[2] = s} = {<<uuid, s>>}
      BY <1>9, <2>2, <3>1, <3>2
    <3>4. \A p \in unresolved_calls' : p[2] # s
      BY <1>10, <2>2, <2>4, <3>1
    <3>5. uuid \in StartsAt(d)' /\ d # NoAddr
      BY <1>3, <1>5, <2>4
    <3> QED
      BY <2>2, <3>3, <3>4, <3>5 DEF d
  <2>5. CASE d # e /\ ~(d # NoAddr /\ StartsAt(d) # {})
    <3>1. /\ {p \in unresolved_calls : p[2] = s} = {<<d, s>>}
          /\ \A p \in resolved_calls : p[2] # s
      BY <2>1, <2>5
    <3>2. s \notin Waiting(uuid, f)
      BY <1>8, <2>2, <2>5, <3>1
    <3>3. {p \in unresolved_calls' : p[2] = s} = {<<d, s>>}
      BY <1>10, <2>2, <2>5, <3>1
    <3>4. \A p \in resolved_calls' : p[2] # s
      BY <1>9, <2>2, <3>1, <3>2
    <3>5. StartsAt(d)' = StartsAt(d)
      BY <1>3, <2>5
    <3> QED
      BY <2>2, <2>5, <3>3, <3>4, <3>5 DEF d
  <2> QED
    BY <1>5, <2>3, <2>4, <2>5
<1>12. ASSUME NEW s \in own
       PROVE  Booked(s, Target(s))'
  <2> DEFINE d == Target(s)
  <2>1. d' = d
    BY DEF Target
  <2>2. \A p \in unresolved_calls \cup resolved_calls : p[2] # s
    BY <1>7
  <2> HIDE DEF d, own
  <2>3. CASE d \in DOMAIN by_entry
    <3>1. d # NoAddr /\ by_entry[d] \in StartsAt(d)
      BY <1>5, <2>3 DEF CallsBooked, IndexRight
    <3>2. s \notin Waiting(uuid, f)
      BY <1>8, <2>2, <2>3 DEF d
    <3>3. {p \in resolved_calls' : p[2] = s} = {<<by_entry[d], s>>}
      BY <1>9, <2>2, <2>3, <3>2 DEF d
    <3>4. \A p \in unresolved_calls' : p[2] # s
      BY <1>10, <2>2, <2>3 DEF d
    <3>5. by_entry[d] \in StartsAt(d)'
      BY <1>3, <3>1
    <3> QED
      BY <2>1, <3>1, <3>3, <3>4, <3>5 DEF d
  <2>4. CASE d \notin DOMAIN by_entry /\ d = e
    <3>1. s \in Waiting(uuid, f)
      BY <1>8, <2>4 DEF d
    <3>2. {p \in resolved_calls' : p[2] = s} = {<<uuid, s>>}
      BY <1>9, <2>2, <2>4, <3>1 DEF d
    <3>3. \A p \in unresolved_calls' : p[2] # s
      BY <1>10, <2>2, <2>4 DEF d
    <3>4. uuid \in StartsAt(d)' /\ d # NoAddr
      BY <1>3, <1>5, <2>4
    <3> QED
      BY <2>1, <3>2, <3>3, <3>4 DEF d
  <2>5. CASE d \notin DOMAIN by_entry /\ d # e
    <3>1. s \notin Waiting(uuid, f)
      BY <1>8, <2>2, <2>5 DEF d
    <3>2. {p \in unresolved_calls' : p[2] = s} = {<<d, s>>}
      BY <1>10, <2>2, <2>5 DEF d
    <3>3. \A p \in resolved_calls' : p[2] # s
      BY <1>9, <2>2, <2>5, <3>1 DEF d
    <3>4. StartsAt(d)' = {}
      BY <1>3, <1>6, <2>5
    <3> QED
      BY <2>1, <3>2, <3>3, <3>4 DEF d
  <2> QED
    BY <2>3, <2>4, <2>5
<1>13. ASSUME NEW p \in (unresolved_calls \cup resolved_calls)'
       PROVE  p[2][1] \in Known' /\ p[2] \in Sites(p[2][1], functions[p[2][1]])'
  <2>1. CASE p \in unresolved_calls \cup resolved_calls
    BY <1>1, <2>1 DEF CallsBooked, Sites
  <2>2. CASE p[2] \in own
    BY <1>1, <2>2 DEF own, Sites
  <2>3. CASE \E q \in unresolved_calls : q[2] = p[2]
    BY <1>1, <2>3 DEF CallsBooked, Sites
  <2> HIDE DEF own
  <2> QED
    BY <1>8, <1>9, <1>10, <2>1, <2>2, <2>3
<1>14. ASSUME NEW u \in Known', NEW s \in Sites(u, functions[u])'
       PROVE  Booked(s, Target(s))'
  <2>1. CASE u \in Known
    BY <1>1, <1>11, <2>1 DEF Sites
  <2>2. CASE u = uuid
    BY <1>1, <1>12, <2>2 DEF Sites, own
  <2> QED
    BY <1>1, <2>1, <2>2
<1> QED
  BY <1>4, <1>13, <1>14 DEF CallsBooked

(* Calls stay booked when functions keep their starts and their calls, as  *)
(* they do when one is renamed.                                            *)
LEMMA BookedAnyway ==
  ASSUME CallsBooked, Known' = Known, UNCHANGED <<by_entry, unresolved_calls, resolved_calls>>,
         \A u \in Known : functions'[u].start = functions[u].start /\ functions'[u].calls = functions[u].calls
  PROVE  CallsBooked'
<1>1. \A d : StartsAt(d)' = StartsAt(d)
  BY DEF StartsAt
<1>2. \A u \in Known : Sites(u, functions[u])' = Sites(u, functions[u])
  BY DEF Sites
<1>3. IndexRight'
  BY <1>1 DEF CallsBooked, IndexRight
<1> QED BY <1>1, <1>2, <1>3 DEF CallsBooked

(* resolved_calls leads from a function to everyone who calls its entry.   *)
LEMMA CallersFound ==
  ASSUME CallsBooked, NEW u \in Known, NEW a \in functions[u].calls, NEW v \in Known,
         ConstAddr[a] = functions[v].start, functions[v].start # NoAddr,
         \A w \in Known : functions[w].start = functions[v].start => w = v
  PROVE  <<v, <<u, a>>>> \in resolved_calls
<1> DEFINE s == <<u, a>>
<1>1. s \in Sites(u, functions[u]) /\ Target(s) = functions[v].start
  BY DEF Sites, Target
<1>2. StartsAt(Target(s)) = {v}
  BY <1>1 DEF StartsAt
<1>3. {p \in resolved_calls : p[2] = s} = {<<v, s>>}
  BY <1>1, <1>2 DEF CallsBooked
<1> QED BY <1>3

(* new_function refreshes everyone who calls the entry of the function.    *)
LEMMA WaitersRefreshed ==
  ASSUME CallsBooked, NEW u \in Known, NEW a \in functions[u].calls, NEW uuid, NEW f,
         ConstAddr[a] = f.start, f.start # NoAddr, StartsAt(f.start) = {}
  PROVE  u \in Refreshed(uuid, f)
<1> DEFINE s == <<u, a>>
<1>1. s \in Sites(u, functions[u]) /\ Target(s) = f.start
  BY DEF Sites, Target
<1>2. {p \in unresolved_calls : p[2] = s} = {<<f.start, s>>}
  BY <1>1 DEF CallsBooked
<1>3. <<f.start, s>> \in unresolved_calls
  BY <1>2
<1>4. s \in Waiting(uuid, f)
  BY <1>3 DEF Waiting
<1> QED BY <1>4 DEF Refreshed

=============================================================================
