---- MODULE MCPubSub ----
(* A small instance of PubSub for model checking. *)
EXTENDS PubSub, TLC

CONSTANTS s1, s2, p1, p2, t1, t2

\* Two connections on one topic; nobody subscribes to t2.
OneTopic == [c \in Conns |-> t1]

\* Three messages, two of them by one publisher.
TwoAndOne == p1 :> 2 @@ p2 :> 1
====
