---- MODULE MCStorageWAL ----
(* Small instances of StorageWAL for model checking. *)
EXTENDS StorageWALDurable, TLC

CONSTANTS k1, k2, v1, v2, c1, c2, g1, g2

\* Two keys in two shards, both clients writing both.
TwoShards == k1 :> 1 @@ k2 :> 2
Shared    == [c \in Clients |-> Keys]
\* Each client its own key.
Disjoint  == c1 :> {k1} @@ c2 :> {k2}

\* Goroutine identities and payloads are interchangeable; with Shared, so are
\* the clients.
Symmetry == Permutations(Compactors) \cup Permutations(Clients)
              \cup Permutations(Values)
====
