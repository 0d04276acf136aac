---------------------------- MODULE DurableStore ----------------------------
(***************************************************************************)
(* What a client of the storage engine is promised: a map whose requests   *)
(* take effect one at a time, each at some moment between its call and its *)
(* return, and which a crash does not change, except that each request it  *)
(* interrupts either takes effect or does not.                             *)
(***************************************************************************)
EXTENDS Naturals

CONSTANTS Keys, Values, NoVal, Clients, NoOp

VARIABLES
  store,      \* store[k]: the value of k and when it expires (0: never)
  request     \* request[c]: the request client c waits for, or NoOp

vars == <<store, request>>

NoEntry == [val |-> NoVal, exp |-> 0]
Request == [kind: {"put", "update", "delete"}, key: Keys,
            val: Values \cup {NoVal}, ttl: Nat]

Init ==
  /\ store = [k \in Keys |-> NoEntry]
  /\ request = [c \in Clients |-> NoOp]

\* A put replaces value and expiry, an update the value of a key that is
\* there, and a delete leaves nothing.
Outcome(e, r) ==
  IF r.kind = "put" THEN [val |-> r.val, exp |-> r.ttl]
  ELSE IF r.kind = "delete" THEN NoEntry
  ELSE IF e.val # NoVal THEN [e EXCEPT !.val = r.val]
  ELSE e

Call(c) ==
  /\ request[c] = NoOp
  /\ request'[c] \in Request
  /\ request' = [request EXCEPT ![c] = request'[c]]
  /\ UNCHANGED store

Return(c) ==
  /\ request[c] # NoOp
  /\ store' = [store EXCEPT ![request[c].key] = Outcome(@, request[c])]
  /\ request' = [request EXCEPT ![c] = NoOp]

Crash ==
  /\ request' = [c \in Clients |-> NoOp]
  /\ DOMAIN store' = Keys
  /\ \A k \in Keys :
       \/ store'[k] = store[k]
       \/ \E c \in Clients :
            /\ request[c] # NoOp
            /\ request[c].key = k
            /\ store'[k] = Outcome(store[k], request[c])

Next == (\E c \in Clients : Call(c) \/ Return(c)) \/ Crash

Spec == Init /\ [][Next]_vars

=============================================================================
