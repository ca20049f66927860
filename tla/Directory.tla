------------------------------ MODULE Directory ------------------------------
(***************************************************************************)
(* What the registry promises its clients (rdmanet/registry.go: "an        *)
(* in-memory name->Addr directory"): a call takes effect at most once, at  *)
(* one moment, and is answered with what it found at that moment or fails. *)
(* A call that has failed may still take effect, and later.                *)
(***************************************************************************)
CONSTANTS
  Conns,    \* calls, one connection each
  Requests, \* what they may ask for
  Names, Addrs,
  NoName,   \* the empty name
  None      \* nothing yet: no request, effect, answer; no address in the table

VARIABLES
  table,    \* table[name]: the address registered, or None
  request,  \* request[k]: what call k asked for
  effect,   \* effect[k]: what it found when it took effect
  answer    \* answer[k]: what it returned; "error" if it failed

vars == <<table, request, effect, answer>>

Init ==
  /\ table = [n \in Names |-> None]
  /\ request = [k \in Conns |-> None]
  /\ effect = [k \in Conns |-> None]
  /\ answer = [k \in Conns |-> None]

Invoke(k) ==
  /\ request[k] = None
  /\ \E r \in Requests : request' = [request EXCEPT ![k] = r]
  /\ UNCHANGED <<table, effect, answer>>

Register(k, r) ==
  /\ r.op = "register" /\ r.name # NoName
  /\ table' = [table EXCEPT ![r.name] = r.addr]
  /\ effect' = [effect EXCEPT ![k] = "ok"]

Refuse(k, r) ==
  /\ r.op = "register" /\ r.name = NoName
  /\ effect' = [effect EXCEPT ![k] = "missing name"]
  /\ UNCHANGED table

Lookup(k, r) ==
  /\ r.op = "lookup"
  /\ effect' = [effect EXCEPT ![k] =
                  IF r.name = NoName \/ table[r.name] = None THEN "not found"
                  ELSE table[r.name]]
  /\ UNCHANGED table

TakeEffect(k) ==
  /\ request[k] # None /\ effect[k] = None
  /\ LET r == request[k] IN Register(k, r) \/ Refuse(k, r) \/ Lookup(k, r)
  /\ UNCHANGED <<request, answer>>

Return(k) ==
  /\ request[k] # None /\ answer[k] = None
  /\ \E a \in {effect[k], "error"} \ {None} :
       answer' = [answer EXCEPT ![k] = a]
  /\ UNCHANGED <<table, request, effect>>

Next == \E k \in Conns : Invoke(k) \/ TakeEffect(k) \/ Return(k)

Spec == Init /\ [][Next]_vars
=============================================================================
