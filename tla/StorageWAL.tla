----------------------------- MODULE StorageWAL -----------------------------
(***************************************************************************)
(* The storage engine of Hrux-DB: the sharded in-memory map of storage.go  *)
(* and the write-ahead log of wal.go, as client goroutines, the background *)
(* compaction goroutine, the clock and crashes interleave on them.         *)
(*                                                                         *)
(* One step is one critical section (w.mu or a shard's mu) or one file     *)
(* system call that a crash can separate from the next.  A key stands for  *)
(* a (bucket, key) pair; a log record for the bytes Append writes.         *)
(***************************************************************************)
EXTENDS Naturals, Sequences, FiniteSets

CONSTANTS
  Keys,         \* (bucket, key) pairs
  Values,       \* payloads a caller may write
  NoVal,        \* no value in shard.Buckets
  Garbage,      \* a payload misread from the middle of a torn record
  Clients,      \* goroutines that serve requests
  Touches,      \* Touches[c]: the keys client c writes
  Compactors,   \* identities of compaction goroutines
  NoOp,         \* no request being served
  NShards,      \* ShardCount
  ShardOf,      \* getShardIndex
  TTLs,         \* the ttlSeconds callers pass (0: none)
  Threshold,    \* CompactionThreshold
  PowerLoss,    \* TRUE: a crash may lose what was never fsynced
  MaxCalls, MaxNow, MaxCrashes, MaxFaults   \* bounds for model checking

ASSUME DataAssumption ==
  /\ NoVal \notin Values
  /\ Garbage \notin Values \cup {NoVal}
  /\ TTLs \subseteq Nat

\* Buckets and keys have lengths of 16 bits in the log.
ASSUME KeyAssumption == IsFiniteSet(Keys)

ASSUME ShardAssumption ==
  /\ NShards \in Nat \ {0}
  /\ ShardOf \in [Keys -> 1..NShards]

ASSUME GoroutineAssumption ==
  /\ Touches \in [Clients -> SUBSET Keys]
  /\ Threshold \in Nat \ {0}
  /\ PowerLoss \in BOOLEAN

ASSUME BoundAssumption ==
  /\ MaxCalls \in Nat /\ MaxNow \in Nat
  /\ MaxCrashes \in Nat /\ MaxFaults \in Nat

VARIABLES
  mem,          \* mem[k]: the entry of k in its shard's Buckets and TTL
  now,          \* time.Now().Unix()
  log,          \* the records in the file called w.filename
  synced,       \* how many leading records of log a power loss cannot take
  tmp,          \* the records in w.filename + ".tmp"
  walOpen,      \* w.file is an open handle on that file
  opCount,      \* w.opCount
  compacting,   \* w.compacting
  pc, op,       \* pc[c], op[c]: where client c is, and in which request
  cpc,          \* cpc[g]: where compaction goroutine g is
  cshard,       \* cshard[g]: the shard it locks next, or holds
  ckeys,        \* ckeys[g]: the keys of the held shard still to be copied
  phase, rpos,  \* "replay", "up" or "nolog"; the next record Replay reads
  calls, crashes, faults,   \* how much of each bound is used up
  skipped,      \* history: keys whose latest write tmp does not hold
  stray,        \* history: keys whose log and memory may tell apart
  uncounted     \* history: records of log that opCount has not counted

memVars   == <<mem, now>>
fileVars  == <<log, synced, tmp, walOpen>>
walVars   == <<opCount, compacting>>
cliVars   == <<pc, op>>
compVars  == <<cpc, cshard, ckeys>>
bootVars  == <<phase, rpos>>
boundVars == <<calls, crashes, faults>>
histVars  == <<skipped, stray, uncounted>>
vars == <<memVars, fileVars, walVars, cliVars, compVars, bootVars,
          boundVars, histVars>>

-----------------------------------------------------------------------------
(* Entries, requests and log records.                                      *)

Stored  == Values \cup {Garbage}
Entry   == [val: Stored \cup {NoVal}, exp: Nat]   \* exp = 0: no TTL entry
NoEntry == [val |-> NoVal, exp |-> 0]

Request == [kind: {"put", "update", "delete"}, key: Keys,
            val: Values \cup {NoVal}, ttl: Nat]
Record  == [op: {"put", "del"}, key: Keys, val: Stored \cup {NoVal},
            ttl: Nat, torn: BOOLEAN]

ASSUME NoOpAssumption == NoOp \notin Request

\* Mutant of putInternal: an entry that has an expiry keeps it.
putInternal_KeepsExpiry(e, v, ttl) ==
  [val |-> v, exp |-> IF e.exp > 0 THEN e.exp ELSE ttl]

\* putInternal: a positive ttl is stored, ttl 0 leaves shard.TTL alone.
putInternal(e, v, ttl) ==
  [val |-> v, exp |-> IF ttl > 0 THEN ttl ELSE e.exp]

\* Mutant of deleteInternal: the TTL entry is forgotten.
deleteInternal_KeepsTTL(e) == [e EXCEPT !.val = NoVal]

\* deleteInternal drops the TTL entry only together with a value.
deleteInternal(e) == IF e.val # NoVal THEN NoEntry ELSE e

\* Mutant of Effect: LoadFromFile's callback handles OpPut only.
Effect_PutOnly(e, r) == IF r.op = "put" THEN putInternal(e, r.val, r.ttl)
                                        ELSE e

Effect(e, r) == IF r.op = "put" THEN putInternal(e, r.val, r.ttl)
                                ELSE deleteInternal(e)

\* What Append writes for a request: Update is a Put without a ttl.
RecordOf(o) ==
  [op |-> IF o.kind = "delete" THEN "del" ELSE "put",
   key |-> o.key, val |-> o.val, ttl |-> o.ttl, torn |-> FALSE]

\* Mutant of SnapshotOf: compaction forgets the expiry.
SnapshotOf_NoTTL(k) ==
  [op |-> "put", key |-> k, val |-> mem[k].val, ttl |-> 0, torn |-> FALSE]

\* What compaction writes for a key: its value and its absolute expiry.
SnapshotOf(k) ==
  [op |-> "put", key |-> k, val |-> mem[k].val, ttl |-> mem[k].exp,
   torn |-> FALSE]

checkTTL(e) == ~(e.exp > 0 /\ now > e.exp)

\* Get succeeds.
Visible(e) == e.val # NoVal /\ checkTTL(e)

\* A goroutine holds w.mu across more than one step only in the swap.
WALLocked  == \E g \in Compactors : cpc[g] = "rename"
RLocked(s) == \E g \in Compactors : cpc[g] = "locked" /\ cshard[g] = s

\* Mutant of ShouldCompact: Append ignores the compacting flag.
ShouldCompact_Unguarded == opCount + 1 >= Threshold

\* The append under way brings opCount to the threshold, first of all.
ShouldCompact == opCount + 1 >= Threshold /\ ~compacting

\* Mutant of MoreShards: Compact's loop runs one shard too far.
MoreShards_OffByOne(g) == cshard[g] <= NShards + 1

MoreShards(g) == cshard[g] <= NShards

PendingOn(k) == {c \in Clients : pc[c] = "apply" /\ op[c].key = k}

\* Goroutine g has taken, or is taking, its copy of k's shard.
Scanned(g, k) ==
  \/ cpc[g] = "scan" /\ ShardOf[k] < cshard[g]
  \/ cpc[g] = "locked" /\ ShardOf[k] <= cshard[g]
  \/ cpc[g] = "rename"

-----------------------------------------------------------------------------
(* A start on an empty directory: NewWAL has created the file.             *)

Init ==
  /\ mem = [k \in Keys |-> NoEntry] /\ now = 1
  /\ log = <<>> /\ synced = 0 /\ tmp = <<>> /\ walOpen = TRUE
  /\ opCount = 0 /\ compacting = FALSE
  /\ pc = [c \in Clients |-> "idle"] /\ op = [c \in Clients |-> NoOp]
  /\ cpc = [g \in Compactors |-> "idle"]
  /\ cshard = [g \in Compactors |-> 1]
  /\ ckeys = [g \in Compactors |-> {}]
  /\ phase = "replay" /\ rpos = 1
  /\ calls = 0 /\ crashes = 0 /\ faults = 0
  /\ skipped = {} /\ stray = {} /\ uncounted = 0

Tick ==
  /\ now < MaxNow
  /\ now' = now + 1
  /\ UNCHANGED <<mem, fileVars, walVars, cliVars, compVars, bootVars,
                 boundVars, histVars>>

-----------------------------------------------------------------------------
(* Client goroutines: Put, PutWithTTL, Update, Delete.                     *)

Call(c, o) ==
  /\ phase # "replay" /\ pc[c] = "idle" /\ calls < MaxCalls
  /\ o.key \in Touches[c]
  /\ pc' = [pc EXCEPT ![c] = "append"]
  /\ op' = [op EXCEPT ![c] = o]
  /\ calls' = calls + 1
  /\ UNCHANGED <<memVars, fileVars, walVars, compVars, bootVars,
                 crashes, faults, histVars>>

\* The expiry is computed here, before the request waits for w.mu.
CallPut(c, k, v, t) ==
  Call(c, [kind |-> "put", key |-> k, val |-> v,
           ttl |-> IF t > 0 THEN now + t ELSE 0])

CallDelete(c, k) ==
  Call(c, [kind |-> "delete", key |-> k, val |-> NoVal, ttl |-> 0])

\* Update's Get: an error returns at once and changes nothing.
CallUpdate(c, k, v) ==
  /\ Visible(mem[k])
  /\ Call(c, [kind |-> "update", key |-> k, val |-> v, ttl |-> 0])

\* Append, the record written whole.  The goroutine that takes opCount to
\* the threshold claims the compaction and starts its goroutine.
AppendOK(c) ==
  LET r == RecordOf(op[c])
      racing == PendingOn(r.key) # {}
  IN /\ pc[c] = "append" /\ phase = "up" /\ ~WALLocked /\ walOpen
     /\ log' = Append(log, r)
     /\ opCount' = opCount + 1
     /\ \/ /\ ShouldCompact
           /\ compacting' = TRUE
           /\ \E g \in Compactors :
                cpc[g] = "idle" /\ cpc' = [cpc EXCEPT ![g] = "open"]
        \/ /\ ~ShouldCompact
           /\ UNCHANGED <<compacting, cpc>>
     /\ pc' = [pc EXCEPT ![c] = "apply"]
     /\ skipped' = IF \E g \in Compactors : Scanned(g, r.key)
                   THEN skipped \cup {r.key} ELSE skipped
     /\ stray' = IF racing THEN stray \cup {r.key}
                 ELSE IF r.op = "del" \/ r.ttl > 0 THEN stray \ {r.key}
                 ELSE stray
     /\ UNCHANGED <<memVars, synced, tmp, walOpen, op, cshard, ckeys,
                    bootVars, boundVars, uncounted>>

\* Append, the write failing: always on a closed handle, else by a disk
\* fault that may leave part of the record behind.  The request returns.
AppendFails(c) ==
  /\ pc[c] = "append" /\ phase = "up" /\ ~WALLocked
  /\ \/ ~walOpen /\ UNCHANGED <<log, faults>>
     \/ /\ walOpen /\ faults < MaxFaults /\ faults' = faults + 1
        /\ \/ log' = Append(log, [RecordOf(op[c]) EXCEPT !.torn = TRUE])
           \/ log' = log
  /\ pc' = [pc EXCEPT ![c] = "idle"]
  /\ op' = [op EXCEPT ![c] = NoOp]
  /\ UNCHANGED <<memVars, synced, tmp, walOpen, walVars, compVars,
                 bootVars, calls, crashes, histVars>>

\* Without a log (s.wal is nil) a request goes straight to memory.
Unlogged(c) ==
  /\ pc[c] = "append" /\ phase = "nolog"
  /\ pc' = [pc EXCEPT ![c] = "apply"]
  /\ UNCHANGED <<memVars, fileVars, walVars, op, compVars, bootVars,
                 boundVars, histVars>>

\* putInternal or deleteInternal under the shard's lock, and the return.
Apply(c) ==
  /\ pc[c] = "apply"
  /\ ~RLocked(ShardOf[op[c].key])
  /\ mem' = [mem EXCEPT ![op[c].key] = Effect(@, RecordOf(op[c]))]
  /\ pc' = [pc EXCEPT ![c] = "idle"]
  /\ op' = [op EXCEPT ![c] = NoOp]
  /\ UNCHANGED <<now, fileVars, walVars, compVars, bootVars, boundVars,
                 histVars>>

-----------------------------------------------------------------------------
(* The compaction goroutine: Compact.                                      *)

\* The temporary file is created, or truncated, ...
CompactOpen(g) ==
  /\ cpc[g] = "open"
  /\ tmp' = <<>>
  /\ cpc' = [cpc EXCEPT ![g] = "scan"]
  /\ cshard' = [cshard EXCEPT ![g] = 1]
  /\ skipped' = {}
  /\ UNCHANGED <<memVars, log, synced, walOpen, walVars, cliVars, ckeys,
                 bootVars, boundVars, stray, uncounted>>

\* Mutant of CompactOpenFails: the error path leaves the flag set.
CompactOpenFails_KeepsFlag(g) ==
  /\ cpc[g] = "open" /\ ~WALLocked
  /\ faults < MaxFaults /\ faults' = faults + 1
  /\ cpc' = [cpc EXCEPT ![g] = "idle"]
  /\ UNCHANGED <<memVars, fileVars, walVars, cliVars, cshard, ckeys,
                 bootVars, calls, crashes, histVars>>

\* ... or cannot be, and the compaction is given up.
CompactOpenFails(g) ==
  /\ cpc[g] = "open" /\ ~WALLocked
  /\ faults < MaxFaults /\ faults' = faults + 1
  /\ compacting' = FALSE
  /\ cpc' = [cpc EXCEPT ![g] = "idle"]
  /\ UNCHANGED <<memVars, fileVars, opCount, cliVars, cshard, ckeys,
                 bootVars, calls, crashes, histVars>>

LockShard(g) ==
  /\ cpc[g] = "scan" /\ MoreShards(g)
  /\ cpc' = [cpc EXCEPT ![g] = "locked"]
  /\ ckeys' = [ckeys EXCEPT ![g] =
                 {k \in Keys : ShardOf[k] = cshard[g] /\ mem[k].val # NoVal}]
  /\ skipped' = skipped \cup
       {k \in Keys : ShardOf[k] = cshard[g] /\ PendingOn(k) # {}}
  /\ UNCHANGED <<memVars, fileVars, walVars, cliVars, cshard, bootVars,
                 boundVars, stray, uncounted>>

\* One round of the loop over the shard's keys, in the map's random order.
\* An expired key is left out; writeOpToTemp ignores a failed write.
CopyKey(g, k) ==
  /\ cpc[g] = "locked" /\ k \in ckeys[g]
  /\ ckeys' = [ckeys EXCEPT ![g] = @ \ {k}]
  /\ \/ /\ checkTTL(mem[k])
        /\ tmp' = Append(tmp, SnapshotOf(k))
        /\ UNCHANGED <<faults, skipped>>
     \/ /\ ~checkTTL(mem[k])
        /\ skipped' = skipped \cup {k}
        /\ UNCHANGED <<tmp, faults>>
     \/ /\ checkTTL(mem[k]) /\ faults < MaxFaults
        /\ faults' = faults + 1
        /\ tmp' \in {tmp, Append(tmp, [SnapshotOf(k) EXCEPT !.torn = TRUE])}
        /\ skipped' = skipped \cup {k}
  /\ UNCHANGED <<memVars, log, synced, walOpen, walVars, cliVars, cpc,
                 cshard, bootVars, calls, crashes, stray, uncounted>>

UnlockShard(g) ==
  /\ cpc[g] = "locked" /\ ckeys[g] = {}
  /\ cpc' = [cpc EXCEPT ![g] = "scan"]
  /\ cshard' = [cshard EXCEPT ![g] = @ + 1]
  /\ UNCHANGED <<memVars, fileVars, walVars, cliVars, ckeys, bootVars,
                 boundVars, histVars>>

\* Sync, w.mu.Lock, close the old file and remove it: until the rename no
\* file is called w.filename.
CompactRemove(g) ==
  /\ cpc[g] = "scan" /\ ~MoreShards(g) /\ ~WALLocked
  /\ log' = <<>> /\ synced' = 0 /\ walOpen' = FALSE
  /\ cpc' = [cpc EXCEPT ![g] = "rename"]
  /\ stray' = Keys
  /\ UNCHANGED <<memVars, tmp, walVars, cliVars, cshard, ckeys, bootVars,
                 boundVars, skipped, uncounted>>

\* Or Remove fails, unnoticed: the old file keeps its name.
CompactRemoveFails(g) ==
  /\ cpc[g] = "scan" /\ ~MoreShards(g) /\ ~WALLocked
  /\ faults < MaxFaults /\ faults' = faults + 1
  /\ walOpen' = FALSE
  /\ cpc' = [cpc EXCEPT ![g] = "rename"]
  /\ UNCHANGED <<memVars, log, synced, tmp, walVars, cliVars, cshard, ckeys,
                 bootVars, calls, crashes, histVars>>

\* Mutant of SwapDone: the operation count is not reset.
SwapDone_KeepsCount(g) ==
  /\ cpc[g] = "rename"
  /\ compacting' = FALSE
  /\ cpc' = [cpc EXCEPT ![g] = "idle"]
  /\ cshard' = [cshard EXCEPT ![g] = 1]
  /\ skipped' = {}
  /\ UNCHANGED <<memVars, opCount, cliVars, ckeys, bootVars, calls, crashes>>

\* Mutant of SwapDone: w.mu is not released.
SwapDone_HoldsLock(g) ==
  /\ cpc[g] = "rename"
  /\ opCount' = 0 /\ compacting' = FALSE
  /\ cshard' = [cshard EXCEPT ![g] = 1]
  /\ skipped' = {}
  /\ UNCHANGED <<memVars, cpc, cliVars, ckeys, bootVars, calls, crashes>>

\* The end of the swap, whose steps release w.mu as they return.
SwapDone(g) ==
  /\ cpc[g] = "rename"
  /\ opCount' = 0 /\ compacting' = FALSE
  /\ cpc' = [cpc EXCEPT ![g] = "idle"]
  /\ cshard' = [cshard EXCEPT ![g] = 1]
  /\ skipped' = {}
  /\ UNCHANGED <<memVars, cliVars, ckeys, bootVars, calls, crashes>>

\* Rename and reopen.
CompactRename(g) ==
  /\ SwapDone(g)
  /\ log' = tmp /\ synced' = Len(tmp) /\ walOpen' = TRUE
  /\ tmp' = <<>>
  /\ stray' = skipped /\ uncounted' = 0
  /\ UNCHANGED faults

\* Rename fails, unnoticed: OpenFile finds under the name the old file, if
\* Remove failed too, or creates an empty one.  Or Rename succeeds, but Sync
\* had failed, unnoticed.  OpenFile may fail: w.file stays the closed handle.
CompactSwapFails(g) ==
  /\ SwapDone(g)
  /\ faults < MaxFaults /\ faults' = faults + 1
  /\ \/ /\ walOpen' \in BOOLEAN
        /\ uncounted' = Len(log)
        /\ UNCHANGED <<log, synced, tmp, stray>>
     \/ /\ log' = tmp /\ tmp' = <<>>
        /\ stray' = skipped /\ uncounted' = 0
        /\ \/ synced' = Len(tmp) /\ walOpen' = FALSE
           \/ synced' = 0 /\ walOpen' = TRUE

-----------------------------------------------------------------------------
(* Crash, restart and Replay.                                              *)

\* The process dies, and the file keeps what was written to it.  Or, with
\* PowerLoss, the machine does: the file keeps its synced records and any
\* number of those after them, the last perhaps in part: Append never syncs.
\* A restart begins with an empty memory and replays the log; it never reads
\* a .tmp file, which the next compaction truncates.
Crash ==
  /\ crashes < MaxCrashes /\ crashes' = crashes + 1
  /\ \/ UNCHANGED <<log, synced>>
     \/ /\ PowerLoss
        /\ \E n \in synced..Len(log) :
             \/ log' = SubSeq(log, 1, n)
             \/ /\ n < Len(log)
                /\ log' = Append(SubSeq(log, 1, n),
                                 [log[n + 1] EXCEPT !.torn = TRUE])
        /\ synced' = Len(log')
  /\ walOpen' = TRUE
  /\ mem' = [k \in Keys |-> NoEntry]
  /\ opCount' = 0 /\ compacting' = FALSE
  /\ pc' = [c \in Clients |-> "idle"] /\ op' = [c \in Clients |-> NoOp]
  /\ cpc' = [g \in Compactors |-> "idle"]
  /\ cshard' = [g \in Compactors |-> 1]
  /\ ckeys' = [g \in Compactors |-> {}]
  /\ phase' = "replay" /\ rpos' = 1
  /\ skipped' = {} /\ stray' = {} /\ uncounted' = 0
  /\ tmp' = <<>>
  /\ UNCHANGED <<now, calls, faults>>

ReplayUnchanged ==
  UNCHANGED <<now, fileVars, compacting, cliVars, compVars, calls, crashes,
              skipped>>

\* NewWAL cannot open the file: LoadFromFile ignores it, s.wal stays nil, and
\* the server runs without a log.
NewWALFails ==
  /\ phase = "replay" /\ rpos = 1
  /\ faults < MaxFaults /\ faults' = faults + 1
  /\ phase' = "nolog"
  /\ UNCHANGED <<mem, opCount, rpos, stray, uncounted>>
  /\ ReplayUnchanged

\* Mutant of NextIsWhole: end of file is reported one record early.
NextIsWhole_Early == rpos < Len(log) /\ ~log[rpos].torn

NextIsWhole == rpos <= Len(log) /\ ~log[rpos].torn

\* One round of Replay's loop: apply the record, count it.
ReplayRecord ==
  /\ phase = "replay" /\ NextIsWhole
  /\ mem' = [mem EXCEPT ![log[rpos].key] = Effect(@, log[rpos])]
  /\ opCount' = opCount + 1
  /\ rpos' = rpos + 1
  /\ UNCHANGED <<phase, faults, stray, uncounted>>
  /\ ReplayUnchanged

\* EOF between records, or an error inside a torn one: main logs the error
\* and serves requests all the same.
ReplayEnds ==
  /\ phase = "replay" /\ ~NextIsWhole
  /\ phase' = "up" /\ rpos' = 1
  /\ UNCHANGED <<mem, opCount, faults, stray, uncounted>>
  /\ ReplayUnchanged

\* Seek fails, or the read of a record that is whole: main logs that error,
\* too, and serves from what has been loaded, without the records unread.
ReplayFails ==
  /\ phase = "replay"
  /\ faults < MaxFaults /\ faults' = faults + 1
  /\ phase' = "up" /\ rpos' = 1
  /\ stray' = {log[i].key : i \in rpos..Len(log)}
  /\ uncounted' = Len(log) - (rpos - 1)
  /\ UNCHANGED <<mem, opCount>>
  /\ ReplayUnchanged

\* A torn record followed by others takes its missing bytes from them: it
\* puts garbage under its key, or hits a key no caller knows, and parsing may
\* fall into step again at a later record or at the end of the file.
ReplayMisreads ==
  /\ phase = "replay" /\ rpos < Len(log) /\ log[rpos].torn
  /\ LET r == log[rpos]
         misread == IF r.op = "put" THEN [r EXCEPT !.val = Garbage] ELSE r
     IN mem' \in {mem, [mem EXCEPT ![r.key] = Effect(@, misread)]}
  /\ opCount' = opCount + 1
  /\ rpos' \in rpos + 2 .. Len(log) + 1
  /\ UNCHANGED <<phase, faults, stray, uncounted>>
  /\ ReplayUnchanged

-----------------------------------------------------------------------------
ClientStep(c) == AppendOK(c) \/ AppendFails(c) \/ Unlogged(c) \/ Apply(c)

Arrive(c) ==
  \E k \in Keys : \/ \E v \in Values, t \in TTLs : CallPut(c, k, v, t)
                  \/ \E v \in Values : CallUpdate(c, k, v)
                  \/ CallDelete(c, k)

CompactStep(g) ==
  \/ CompactOpen(g) \/ CompactOpenFails(g)
  \/ LockShard(g) \/ UnlockShard(g)
  \/ \E k \in Keys : CopyKey(g, k)
  \/ CompactRemove(g) \/ CompactRemoveFails(g)
  \/ CompactRename(g) \/ CompactSwapFails(g)

ReplayStep ==
  \/ ReplayRecord \/ ReplayMisreads
  \/ ReplayEnds \/ ReplayFails \/ NewWALFails

Next ==
  \/ \E c \in Clients : Arrive(c) \/ ClientStep(c)
  \/ \E g \in Compactors : CompactStep(g)
  \/ Tick \/ Crash \/ ReplayStep

Spec == Init /\ [][Next]_vars

\* A goroutine that can run is run; callers may stop calling and nobody has
\* to crash.
Fairness ==
  /\ \A c \in Clients : WF_vars(ClientStep(c))
  /\ \A g \in Compactors : WF_vars(CompactStep(g))
  /\ WF_vars(ReplayStep)

FairSpec == Spec /\ Fairness

-----------------------------------------------------------------------------
(* What a replay of the records s would leave in memory, in closed form.   *)

On(s, k)       == {i \in 1..Len(s) : s[i].key = k}
Decisive(s, k) == {i \in On(s, k) : s[i].op = "del" \/ s[i].ttl > 0}
Latest(I)      == CHOOSE i \in I : \A j \in I : j <= i

RecoveredVal(s, k) ==
  IF On(s, k) = {} THEN NoVal
  ELSE LET r == s[Latest(On(s, k))] IN IF r.op = "del" THEN NoVal ELSE r.val

RecoveredExp(s, k) ==
  IF Decisive(s, k) = {} THEN 0
  ELSE LET r == s[Latest(Decisive(s, k))] IN IF r.op = "del" THEN 0 ELSE r.ttl

Recovered(s, k) == [val |-> RecoveredVal(s, k), exp |-> RecoveredExp(s, k)]

Whole(s) == \A i \in 1..Len(s) : ~s[i].torn

-----------------------------------------------------------------------------
(* Properties.                                                             *)

\* Every variable keeps its type: in particular the compaction loop stays
\* within the shards and Replay within the file.
TypeOK ==
  /\ mem \in [Keys -> Entry] /\ now \in Nat
  /\ log \in Seq(Record) /\ tmp \in Seq(Record)
  /\ synced \in 0..Len(log) /\ walOpen \in BOOLEAN
  /\ opCount \in Nat /\ compacting \in BOOLEAN
  /\ pc \in [Clients -> {"idle", "append", "apply"}]
  /\ op \in [Clients -> Request \cup {NoOp}]
  /\ \A c \in Clients : pc[c] # "idle" => op[c] \in Request
  /\ cpc \in [Compactors -> {"idle", "open", "scan", "locked", "rename"}]
  /\ cshard \in [Compactors -> 1..NShards + 1]
  /\ \A g \in Compactors : cpc[g] = "locked" => cshard[g] <= NShards
  /\ ckeys \in [Compactors -> SUBSET Keys]
  /\ phase \in {"replay", "up", "nolog"} /\ rpos \in 1..Len(log) + 1
  /\ phase # "replay" => rpos = 1
  /\ calls \in Nat /\ crashes \in Nat /\ faults \in Nat
  /\ skipped \subseteq Keys /\ stray \subseteq Keys /\ uncounted \in Nat

\* wal.go's compacting flag lets one compaction run at a time (two would
\* write the same .tmp file), and is never left set with none running, which
\* would end compaction until the next restart.
CompactionExclusive ==
  /\ compacting <=> \E g \in Compactors : cpc[g] # "idle"
  /\ \A g, h \in Compactors : cpc[g] # "idle" /\ cpc[h] # "idle" => g = h

\* A crash now would recover k: a whole log holds what memory holds of k, or
\* what memory will hold once the one pending request on k is applied.
Durable(k) ==
  \/ PendingOn(k) = {} /\ Recovered(log, k) = mem[k]
  \/ \E c \in Clients :
       PendingOn(k) = {c} /\
       Recovered(log, k) = Effect(mem[k], RecordOf(op[c]))

\* The log and memory can only drift apart on a stray key: one that two
\* requests wrote at once, whose write or expiry a compaction missed, or that
\* has a record behind the one at which a read error ended Replay.  Every
\* other key a crash would recover as it is, while the server has a log.
LogMatchesMemory ==
  phase = "up" /\ Whole(log) => \A k \in Keys \ stray : Durable(k)

\* While Replay reads a whole log, memory is what the records read so far
\* amount to: the loop of LoadFromFile computes the closed form.
ReplayExact ==
  phase = "replay" /\ Whole(log) =>
    \A k \in Keys : mem[k] = Recovered(SubSeq(log, 1, rpos - 1), k)

\* opCount, which triggers compaction, counts the records of the file but for
\* the at most one per key that the last compaction wrote, across restarts,
\* and for those that a replay cut short by a read error, or a swap whose
\* Remove and Rename both failed, left uncounted.
OpCountTracksLog ==
  phase = "up" /\ Whole(log) /\ ~WALLocked =>
    /\ opCount <= Len(log)
    /\ Len(log) <= opCount + uncounted + Cardinality(Keys)

\* A compaction that was triggered ends, whatever the writers and the disk
\* do, and w.mu is free again.
CompactionEnds == compacting ~> ~compacting

\* Every request returns: nothing it waits for (w.mu during the swap, the
\* shard being copied) is held for ever.
RequestsReturn == \A c \in Clients : pc[c] # "idle" ~> pc[c] = "idle"

=============================================================================
