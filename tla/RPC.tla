-------------------------------- MODULE RPC --------------------------------
(***************************************************************************)
(* How a call of the client library reaches a handler of the server and    *)
(* comes back: client.go, the handlers of server.go, and what they rely on *)
(* in net/rpc.                                                             *)
(*                                                                         *)
(* The goroutines of a client share one connection.  The server runs each  *)
(* call in a goroutine of its own, which goes on when the connection is    *)
(* gone.  A request over HTTP is a client of its own that makes one call.  *)
(* What the handlers do is left to the modules that extend this one.       *)
(***************************************************************************)
EXTENDS Naturals, Sequences, FiniteSets

CONSTANTS
  Clients,   \* KVClients: each has one connection, opened by Dial
  Calls,     \* goroutines of the clients, each of which makes one call
  ClientOf,  \* the client that a call is made through
  Request,   \* what may be called, with its arguments
  NoCall     \* the request of a goroutine that calls nothing

ASSUME ClientAssumption == ClientOf \in [Calls -> Clients]
ASSUME NoCallAssumption == NoCall \notin Request

VARIABLES
  up,     \* the clients whose connection is open
  req,    \* req[c]: what call c asks for
  stage,  \* stage[c]: where call c is on the server
  result, \* result[c]: what its handler has come to
  told    \* told[c]: what its caller has heard

rpcVars == <<up, req, stage, result, told>>

Stages == {"new", "sent", "sort", "encode", "serve", "reply", "over"}

\* "errs": the errors of a transaction, as a list; "none": no outcome yet.
Outcomes == {"none", "ok", "error", "errs"}

Nothing == [outcome |-> "none", vals |-> <<>>]

RPCInit ==
  /\ up = Clients
  /\ req \in [Calls -> Request \cup {NoCall}]
  /\ stage = [c \in Calls |-> "new"]
  /\ result = [c \in Calls |-> Nothing]
  /\ told = [c \in Calls |-> "none"]

\* A method of KVClient: the request is sent, or refused because the
\* connection is known to be gone.
Call(c) ==
  /\ stage[c] = "new" /\ req[c] # NoCall
  /\ \/ /\ ClientOf[c] \in up
        /\ stage' = [stage EXCEPT ![c] = "sent"]
        /\ told' = [told EXCEPT ![c] = "waiting"]
     \/ /\ ClientOf[c] \notin up
        /\ stage' = [stage EXCEPT ![c] = "over"]
        /\ told' = [told EXCEPT ![c] = "broken"]
  /\ UNCHANGED <<up, req, result>>

\* The connection of n is gone: every call that waits on it is given up.
Disconnected(n) ==
  /\ up' = up \ {n}
  /\ told' = [c \in Calls |-> IF ClientOf[c] = n /\ told[c] = "waiting"
                              THEN "broken" ELSE told[c]]

\* Close, or a failure of the network.
Drop(n) ==
  /\ n \in up /\ Disconnected(n)
  /\ UNCHANGED <<req, stage, result>>

\* A request that the server had not read is gone with its connection.
Lose(c) ==
  /\ stage[c] = "sent" /\ ClientOf[c] \notin up
  /\ stage' = [stage EXCEPT ![c] = "over"]
  /\ UNCHANGED <<up, req, result, told>>

\* The handler of c has returned: outcome and values go back.
Handled(c, outcome, vals) ==
  /\ stage' = [stage EXCEPT ![c] = "reply"]
  /\ result' = [result EXCEPT ![c] = [outcome |-> outcome, vals |-> vals]]
  /\ UNCHANGED <<up, req, told>>

\* A []error that holds an error cannot be encoded: the type of the errors
\* the code makes is not registered with gob.
Encodable(c) == result[c].outcome # "errs"

\* net/rpc closes the connection when a reply cannot be encoded.
Reply(c) ==
  /\ stage[c] = "reply"
  /\ stage' = [stage EXCEPT ![c] = "over"]
  /\ \/ /\ ClientOf[c] \notin up
        /\ UNCHANGED <<up, told>>
     \/ /\ ClientOf[c] \in up /\ Encodable(c)
        /\ told' = [told EXCEPT ![c] = IF result[c].outcome = "error"
                                       THEN "error" ELSE "ok"]
        /\ UNCHANGED up
     \/ /\ ClientOf[c] \in up /\ ~Encodable(c) /\ Disconnected(ClientOf[c])
  /\ UNCHANGED <<req, result>>

=============================================================================
