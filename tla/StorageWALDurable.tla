-------------------------- MODULE StorageWALDurable --------------------------
(***************************************************************************)
(* The storage engine against the contract of DurableStore, and the claims *)
(* that the repository's documents and comments make for it.               *)
(***************************************************************************)
EXTENDS StorageWAL

\* The map a client sees is memory once the server is up; before that it is
\* what the log will be replayed to.
Store == IF phase = "replay" THEN [k \in Keys |-> Recovered(log, k)] ELSE mem

\* A request is outstanding until it has been applied.
Outstanding == [c \in Clients |-> IF pc[c] = "idle" THEN NoOp ELSE op[c]]

Promise == INSTANCE DurableStore WITH store <- Store, request <- Outstanding

\* What callers and machine must be like: no two clients write the same key,
\* every put has a ttl, and a crash is one of the process.  Of each of these,
\* LogMatchesMemory or a claim below shows what happens if not.
Careful ==
  /\ \A c, d \in Clients : c # d => Touches[c] \cap Touches[d] = {}
  /\ \A t \in TTLs : t > 0
  /\ ~PowerLoss

\* No write has failed, and every compaction has left in the log all that
\* memory holds: it missed no write and dropped no expired entry.
Spared == faults = 0 /\ (stray # {} => WALLocked)

\* The behaviours that are spared, and in which the process does not die
\* between CompactRemove and CompactRename, when there is no log.
SparedSpec == Init /\ [][Next /\ Spared' /\ (Crash => ~WALLocked)]_vars

\* The engine implements the promised map: no request is lost, applied twice
\* or half, and no crash loses a completed one.
DurableMap == Promise!Spec

-----------------------------------------------------------------------------
(* Claims of the documents, and of comments in the code, that it breaks.   *)

Quiet == phase = "up" /\ \A c \in Clients : pc[c] = "idle"

\* What a Get returns for an entry.
View(e) == IF Visible(e) THEN e.val ELSE NoVal

Recoverable == \A k \in Keys : View(Recovered(log, k)) = View(mem[k])

\* With no request and no compaction under way, a crash would recover for
\* every key what Get returns now ("100% data recovery on crash").
QuietRecovery == Quiet /\ ~compacting => Recoverable

\* Compaction puts its snapshot in the place of the old log ("completely
\* replaces the bloated old WAL file"): when it has missed no write, a crash
\* at any moment of it recovers every key.
SwapKeepsData == Quiet /\ skipped = {} => Recoverable

\* Replay does not stop short of a complete record: what was logged after an
\* earlier crash is recovered by the next restart ("restored every single
\* transaction").
ReplayReachesEnd ==
  [][ReplayEnds => \A i \in rpos..Len(log) : log[i].torn]_vars

\* A put on an expired key makes the key readable again ("Background cleanup
\* or next write will delete it", it being the expired entry).
WriteRenewsExpired ==
  [][\A c \in Clients :
       Apply(c) /\ op[c].kind = "put" /\ op[c].ttl = 0
         => Visible(mem'[op[c].key])]_vars

=============================================================================
