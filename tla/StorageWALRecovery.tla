------------------------- MODULE StorageWALRecovery -------------------------
(***************************************************************************)
(* Proof that a crash recovers what memory holds: LogMatchesMemory and     *)
(* ReplayExact, and that the operation count bounds the log, for every     *)
(* value of the constants of StorageWAL.                                   *)
(***************************************************************************)
EXTENDS StorageWALProofs, FiniteSetTheorems

-----------------------------------------------------------------------------
(* The inductive invariant.                                                *)

\* Puts carry values, in the files and in the requests under way.
Carried ==
  /\ PutsCarry(log) /\ PutsCarry(tmp)
  /\ \A c \in Clients :
       pc[c] # "idle" /\ op[c].kind # "delete" => op[c].val # NoVal

NoOrphans == \A k \in Keys : NoOrphan(mem[k])

ToCopy(g, k) == cpc[g] = "locked" /\ k \in ckeys[g]

\* The keys a compaction is about to copy are keys of the shard it holds, and
\* are still there.
HeldKeys ==
  \A g \in Compactors, k \in Keys :
    ToCopy(g, k) => ShardOf[k] = cshard[g] /\ mem[k].val # NoVal

\* The snapshot has no record of a key the compaction has not come to.
SnapshotFresh ==
  \A g \in Compactors, k \in Keys :
    /\ cpc[g] \in {"scan", "locked"}
    /\ ~Scanned(g, k) \/ ToCopy(g, k)
    => On(tmp, k) = {}

\* Of a key it has come to and not missed, it amounts to what memory holds,
\* and no request on the key is under way.
SnapshotExact ==
  \A g \in Compactors, k \in Keys :
    Scanned(g, k) /\ k \notin skipped =>
      /\ PendingOn(k) = {}
      /\ ~ToCopy(g, k) => Recovered(tmp, k) = mem[k]

RecoveryInv ==
  /\ TypeInv /\ CompactionExclusive
  /\ Carried /\ NoOrphans /\ HeldKeys /\ SnapshotFresh /\ SnapshotExact
  /\ LogMatchesMemory /\ ReplayExact

-----------------------------------------------------------------------------
(* Lemmas on logs.                                                         *)

\* An empty log recovers nothing.
LEMMA RecoveredNone ==
  ASSUME NEW s, NEW k, On(s, k) = {}
  PROVE  Recovered(s, k) = NoEntry
BY DEF Recovered, RecoveredVal, RecoveredExp, Decisive, NoEntry

\* Appending a put that carries a value, or a delete, keeps PutsCarry.
LEMMA PutsCarryAppend ==
  ASSUME NEW s \in Seq(Record), NEW r \in Record, PutsCarry(s),
         r.op = "put" => r.val # NoVal
  PROVE  PutsCarry(Append(s, r))
<1>1. /\ Len(s) \in Nat /\ Len(Append(s, r)) = Len(s) + 1
      /\ \A i \in 1..Len(s) : Append(s, r)[i] = s[i]
      /\ Append(s, r)[Len(s) + 1] = r
  BY AppendFacts
<1>2. \A i \in 1..Len(s) + 1 : i \in 1..Len(s) \/ i = Len(s) + 1
  BY <1>1
<1> QED BY <1>1, <1>2 DEF PutsCarry

\* So does cutting a log short.
LEMMA PutsCarryPrefix ==
  ASSUME NEW s \in Seq(Record), NEW n \in 0..Len(s), PutsCarry(s)
  PROVE  PutsCarry(SubSeq(s, 1, n))
<1>1. /\ Len(SubSeq(s, 1, n)) = n
      /\ \A i \in 1..n : SubSeq(s, 1, n)[i] = s[i]
  BY PrefixType
<1>2. \A i \in 1..n : i \in 1..Len(s)
  OBVIOUS
<1> QED BY <1>1, <1>2 DEF PutsCarry

\* The records behind a prefix do not matter to a key they do not mention.
LEMMA RecoveredPrefix ==
  ASSUME NEW s \in Seq(Record), NEW n \in 0..Len(s), NEW k,
         \A i \in n + 1..Len(s) : s[i].key # k
  PROVE  Recovered(SubSeq(s, 1, n), k) = Recovered(s, k)
<1> DEFINE t == SubSeq(s, 1, n)
<1>1. /\ Len(s) \in Nat /\ n \in Nat /\ Len(t) = n
      /\ \A i \in 1..n : t[i] = s[i]
  BY PrefixType
<1> HIDE DEF t
<1>2. \A i \in 1..Len(s) : i \in 1..n \/ i \in n + 1..Len(s)
  BY <1>1
<1>3. \A i \in 1..n : i \in 1..Len(s)
  OBVIOUS
<1>4. On(t, k) = On(s, k) /\ On(t, k) \subseteq 1..n
  BY <1>1, <1>2, <1>3 DEF On
<1>5. Decisive(t, k) = Decisive(s, k) /\ Decisive(t, k) \subseteq 1..n
  BY <1>1, <1>4 DEF Decisive
<1>6. RecoveredVal(t, k) = RecoveredVal(s, k)
  <2>1. CASE On(s, k) = {}
    BY <1>4, <2>1 DEF RecoveredVal
  <2>2. CASE On(s, k) # {}
    <3>1. Latest(On(s, k)) \in 1..n
      BY <1>1, <1>4, <2>2, LatestIn
    <3> QED BY <1>1, <1>4, <2>2, <3>1 DEF RecoveredVal
  <2> QED BY <2>1, <2>2
<1>7. RecoveredExp(t, k) = RecoveredExp(s, k)
  <2>1. CASE Decisive(s, k) = {}
    BY <1>5, <2>1 DEF RecoveredExp
  <2>2. CASE Decisive(s, k) # {}
    <3>1. Latest(Decisive(s, k)) \in 1..n
      BY <1>1, <1>5, <2>2, LatestIn
    <3> QED BY <1>1, <1>5, <2>2, <3>1 DEF RecoveredExp
  <2> QED BY <2>1, <2>2
<1> QED BY <1>6, <1>7 DEF Recovered, t

\* A log with one more record is whole if it was and the record is.
LEMMA WholeAppend ==
  ASSUME NEW s \in Seq(Record), NEW r \in Record, Whole(Append(s, r))
  PROVE  Whole(s) /\ ~r.torn
<1>1. /\ Len(s) \in Nat /\ Len(Append(s, r)) = Len(s) + 1
      /\ \A i \in 1..Len(s) : Append(s, r)[i] = s[i]
      /\ Append(s, r)[Len(s) + 1] = r
  BY AppendFacts
<1>2. Len(s) + 1 \in 1..Len(s) + 1 /\ \A i \in 1..Len(s) : i \in 1..Len(s) + 1
  BY <1>1
<1> QED BY <1>1, <1>2 DEF Whole

\* Applying a put that carries a value, or a delete, leaves no orphan.
LEMMA EffectNoOrphan ==
  ASSUME NEW e \in Entry, NEW r \in Record, NoOrphan(e),
         r.op = "put" => r.val # NoVal
  PROVE  NoOrphan(Effect(e, r))
BY DEF NoOrphan, Effect, putInternal, deleteInternal, NoEntry, Entry, Record

\* What Append writes for a request that carries its value.
LEMMA RecordOfFacts ==
  ASSUME NEW o \in Request, o.kind # "delete" => o.val # NoVal
  PROVE  /\ RecordOf(o) \in Record /\ RecordOf(o).key = o.key
         /\ o.key \in Keys /\ RecordOf(o).torn = FALSE
         /\ RecordOf(o).op = "put" => RecordOf(o).val # NoVal
BY RecordOfType DEF RecordOf, Request

-----------------------------------------------------------------------------
(* Requests: who is pending on a key.                                      *)

\* Neither a call nor a failed append changes what is pending.
LEMMA PendingCall ==
  ASSUME TypeInv, NEW c \in Clients, Arrive(c) \/ AppendFails(c)
  PROVE  \A k : /\ PendingOn(k)' = PendingOn(k)
                /\ \A d \in PendingOn(k) : op'[d] = op[d]
<1>1. /\ pc[c] # "apply"
      /\ \E v, o : v # "apply" /\ pc' = [pc EXCEPT ![c] = v]
                               /\ op' = [op EXCEPT ![c] = o]
  BY DEF Arrive, CallPut, CallUpdate, CallDelete, Call, AppendFails
<1> QED BY <1>1 DEF PendingOn, TypeInv, TypeOK

\* An append makes its request pending.
LEMMA PendingAppend ==
  ASSUME TypeInv, NEW c \in Clients, AppendOK(c)
  PROVE  /\ op' = op
         /\ \A k : k # op[c].key => PendingOn(k)' = PendingOn(k)
         /\ \A k : k = op[c].key => PendingOn(k)' = PendingOn(k) \cup {c}
BY DEF AppendOK, PendingOn, TypeInv, TypeOK

\* Applying a request ends it.
LEMMA PendingApply ==
  ASSUME TypeInv, NEW c \in Clients, Apply(c)
  PROVE  /\ c \in PendingOn(op[c].key)
         /\ \A k : PendingOn(k)' = PendingOn(k) \ {c}
         /\ \A d \in Clients : d # c => op'[d] = op[d]
BY DEF Apply, PendingOn, TypeInv, TypeOK

-----------------------------------------------------------------------------
(* Puts carry values.                                                      *)

LEMMA CarriedStep ==
  ASSUME RecoveryInv, Next
  PROVE  Carried'
<1> USE DEF memVars, fileVars, walVars, cliVars, compVars, bootVars, boundVars,
            histVars
<1>1. /\ log \in Seq(Record) /\ tmp \in Seq(Record)
      /\ PutsCarry(log) /\ PutsCarry(tmp) /\ PutsCarry(<<>>)
      /\ \A c \in Clients :
           pc[c] # "idle" =>
             op[c] \in Request /\ (op[c].kind # "delete" => op[c].val # NoVal)
      /\ pc \in [Clients -> {"idle", "append", "apply"}]
      /\ op \in [Clients -> Request \cup {NoOp}]
  BY DEF RecoveryInv, TypeInv, TypeOK, Carried, PutsCarry
<1>2. ASSUME PutsCarry(log'), PutsCarry(tmp'), pc' = pc, op' = op
      PROVE  Carried'
  BY <1>1, <1>2 DEF Carried
<1>3. ASSUME UNCHANGED <<log, tmp, pc, op>> PROVE Carried'
  BY <1>1, <1>2, <1>3
<1>4. ASSUME NEW c \in Clients, Arrive(c) PROVE Carried'
  <2>1. PICK o : /\ o.kind # "delete" => o.val # NoVal
                 /\ Call(c, o)
    <3>1. ASSUME NEW k \in Keys, NEW v \in Values, NEW t \in TTLs,
                 CallPut(c, k, v, t)
          PROVE  \E o : (o.kind # "delete" => o.val # NoVal) /\ Call(c, o)
      <4> WITNESS [kind |-> "put", key |-> k, val |-> v,
                   ttl |-> IF t > 0 THEN now + t ELSE 0]
      <4> QED BY <3>1, DataAssumption DEF CallPut
    <3>2. ASSUME NEW k \in Keys, NEW v \in Values, CallUpdate(c, k, v)
          PROVE  \E o : (o.kind # "delete" => o.val # NoVal) /\ Call(c, o)
      <4> WITNESS [kind |-> "update", key |-> k, val |-> v, ttl |-> 0]
      <4> QED BY <3>2, DataAssumption DEF CallUpdate
    <3>3. ASSUME NEW k \in Keys, CallDelete(c, k)
          PROVE  \E o : (o.kind # "delete" => o.val # NoVal) /\ Call(c, o)
      <4> WITNESS [kind |-> "delete", key |-> k, val |-> NoVal, ttl |-> 0]
      <4> QED BY <3>3 DEF CallDelete
    <3> QED BY <1>4, <3>1, <3>2, <3>3 DEF Arrive
  <2>2. /\ log' = log /\ tmp' = tmp
        /\ pc' = [pc EXCEPT ![c] = "append"] /\ op' = [op EXCEPT ![c] = o]
    BY <2>1 DEF Call
  <2> QED BY <1>1, <2>1, <2>2 DEF Carried
<1>5. ASSUME NEW c \in Clients, AppendOK(c) PROVE Carried'
  <2>1. /\ log' = Append(log, RecordOf(op[c])) /\ tmp' = tmp /\ op' = op
        /\ pc[c] = "append" /\ pc' = [pc EXCEPT ![c] = "apply"]
    BY <1>5 DEF AppendOK
  <2>2. PutsCarry(log')
    BY <1>1, <2>1, RecordOfFacts, PutsCarryAppend
  <2> QED BY <1>1, <2>1, <2>2 DEF Carried
<1>6. ASSUME NEW c \in Clients, AppendFails(c) PROVE Carried'
  <2> DEFINE r == [RecordOf(op[c]) EXCEPT !.torn = TRUE]
  <2>1. /\ log' = log \/ log' = Append(log, r)
        /\ tmp' = tmp /\ pc[c] = "append"
        /\ pc' = [pc EXCEPT ![c] = "idle"] /\ op' = [op EXCEPT ![c] = NoOp]
    BY <1>6 DEF AppendFails
  <2>2. r \in Record /\ (r.op = "put" => r.val # NoVal)
    <3>1. /\ RecordOf(op[c]) \in Record
          /\ RecordOf(op[c]).op = "put" => RecordOf(op[c]).val # NoVal
      BY <1>1, <2>1, RecordOfFacts
    <3> QED BY <3>1 DEF Record
  <2>3. PutsCarry(log')
    <3> HIDE DEF r
    <3> QED BY <1>1, <2>1, <2>2, PutsCarryAppend
  <2> QED BY <1>1, <2>1, <2>3 DEF Carried
<1>7. ASSUME NEW c \in Clients, Apply(c) PROVE Carried'
  <2>1. /\ log' = log /\ tmp' = tmp
        /\ pc' = [pc EXCEPT ![c] = "idle"] /\ op' = [op EXCEPT ![c] = NoOp]
    BY <1>7 DEF Apply
  <2> QED BY <1>1, <2>1 DEF Carried
<1>8. ASSUME NEW g \in Compactors, NEW k \in Keys, CopyKey(g, k)
      PROVE  Carried'
  <2> DEFINE r == [SnapshotOf(k) EXCEPT !.torn = TRUE]
  <2>1. mem[k].val # NoVal
    BY <1>8 DEF CopyKey, RecoveryInv, HeldKeys, ToCopy
  <2>2. mem[k] \in Entry
    BY DEF RecoveryInv, TypeInv, TypeOK
  <2>3. /\ SnapshotOf(k) \in Record /\ r \in Record
        /\ SnapshotOf(k).val # NoVal /\ r.val # NoVal
    BY <2>1, <2>2 DEF SnapshotOf, Record, Entry
  <2>4. /\ tmp' \in {tmp, Append(tmp, SnapshotOf(k)), Append(tmp, r)}
        /\ log' = log /\ pc' = pc /\ op' = op
    BY <1>8 DEF CopyKey
  <2> HIDE DEF r
  <2>5. PutsCarry(tmp')
    BY <1>1, <2>3, <2>4, PutsCarryAppend
  <2> QED BY <1>1, <1>2, <2>4, <2>5
<1>9. ASSUME NEW g \in Compactors, CompactStep(g) PROVE Carried'
  <2>1. CASE \E k \in Keys : CopyKey(g, k)
    BY <1>8, <2>1
  <2>2. CASE CompactOpen(g) \/ CompactRemove(g)
    BY <1>1, <1>2, <2>2 DEF CompactOpen, CompactRemove
  <2>3. CASE \/ CompactOpenFails(g) \/ LockShard(g) \/ UnlockShard(g)
             \/ CompactRemoveFails(g)
    BY <1>3, <2>3 DEF CompactOpenFails, LockShard, UnlockShard,
                      CompactRemoveFails
  <2>4. CASE CompactRename(g) \/ CompactSwapFails(g)
    <3>1. /\ log' \in {tmp, log} /\ tmp' \in {tmp, <<>>}
          /\ pc' = pc /\ op' = op
      BY <2>4 DEF CompactRename, CompactSwapFails, SwapDone
    <3> QED BY <1>1, <1>2, <3>1
  <2> QED BY <1>9, <2>1, <2>2, <2>3, <2>4 DEF CompactStep
<1>10. CASE Crash
  <2>0. CASE log' = log
    BY <1>1, <1>10, <2>0 DEF Crash, Carried
  <2>1. SUFFICES ASSUME NEW n \in synced..Len(log),
                        \/ log' = SubSeq(log, 1, n)
                        \/ /\ n < Len(log)
                           /\ log' = Append(SubSeq(log, 1, n),
                                            [log[n + 1] EXCEPT !.torn = TRUE])
                 PROVE  Carried'
    BY <1>10, <2>0 DEF Crash
  <2>2. n \in 0..Len(log)
    BY DEF RecoveryInv, TypeInv, TypeOK
  <2>3. PutsCarry(SubSeq(log, 1, n)) /\ SubSeq(log, 1, n) \in Seq(Record)
    BY <1>1, <2>2, PutsCarryPrefix, PrefixType
  <2>4. CASE log' = SubSeq(log, 1, n)
    BY <1>1, <1>10, <2>3, <2>4 DEF Crash, Carried
  <2>5. CASE /\ n < Len(log)
             /\ log' = Append(SubSeq(log, 1, n),
                              [log[n + 1] EXCEPT !.torn = TRUE])
    <3> DEFINE r == [log[n + 1] EXCEPT !.torn = TRUE]
    <3>1. n + 1 \in 1..Len(log)
      BY <1>1, <2>2, <2>5
    <3>2. log[n + 1] \in Record /\ r \in Record
      BY <1>1, <2>2, <2>5, PrefixType
    <3>3. r.op = "put" => r.val # NoVal
      BY <1>1, <3>1, <3>2 DEF PutsCarry, Record
    <3> HIDE DEF r
    <3>4. PutsCarry(log')
      BY <2>3, <2>5, <3>2, <3>3, PutsCarryAppend DEF r
    <3> QED BY <1>1, <1>10, <3>4 DEF Crash, Carried
  <2> QED BY <2>1, <2>4, <2>5
<1>11. CASE Tick \/ ReplayStep
  BY <1>3, <1>11 DEF Tick, ReplayStep, ReplayRecord, ReplayEnds, ReplayFails,
                     ReplayMisreads, NewWALFails, ReplayUnchanged
<1>12. ASSUME NEW c \in Clients, Unlogged(c) PROVE Carried'
  <2>1. /\ log' = log /\ tmp' = tmp /\ op' = op /\ pc[c] # "idle"
        /\ pc' = [pc EXCEPT ![c] = "apply"]
    BY <1>12 DEF Unlogged
  <2> QED BY <1>1, <2>1 DEF Carried
<1> QED
  BY <1>4, <1>5, <1>6, <1>7, <1>9, <1>10, <1>11, <1>12 DEF Next, ClientStep

-----------------------------------------------------------------------------
(* Memory.                                                                 *)

\* Which steps write memory, and how: all but these leave it alone.
LEMMA MemorySteps ==
  ASSUME Next
  PROVE  \/ mem' = mem
         \/ \E c \in Clients : Apply(c)
         \/ Crash
         \/ ReplayRecord
         \/ ReplayMisreads
BY DEF Next, Arrive, CallPut, CallUpdate, CallDelete, Call, ClientStep,
       AppendOK, AppendFails, Unlogged, CompactStep, CompactOpen,
       CompactOpenFails, LockShard, UnlockShard, CopyKey, CompactRemove,
       CompactRemoveFails, CompactRename, CompactSwapFails, SwapDone, Tick,
       ReplayStep, ReplayEnds, ReplayFails, NewWALFails, ReplayUnchanged,
       memVars

LEMMA NoOrphansStep ==
  ASSUME RecoveryInv, Next
  PROVE  NoOrphans'
<1>1. /\ mem \in [Keys -> Entry] /\ log \in Seq(Record)
      /\ rpos \in 1..Len(log) + 1
      /\ \A k \in Keys : NoOrphan(mem[k])
      /\ \A i \in 1..Len(log) : log[i].op = "put" => log[i].val # NoVal
  BY DEF RecoveryInv, TypeInv, TypeOK, NoOrphans, Carried, PutsCarry
<1>2. ASSUME NEW r \in Record, r.op = "put" => r.val # NoVal,
             mem' = [mem EXCEPT ![r.key] = Effect(@, r)]
      PROVE  NoOrphans'
  <2>1. \A k \in Keys : NoOrphan(Effect(mem[k], r))
    BY <1>1, <1>2, EffectNoOrphan
  <2> QED BY <1>1, <1>2, <2>1 DEF NoOrphans
<1>3. CASE mem' = mem
  BY <1>1, <1>3 DEF NoOrphans
<1>4. ASSUME NEW c \in Clients, Apply(c) PROVE NoOrphans'
  <2>1. op[c] \in Request /\ (op[c].kind # "delete" => op[c].val # NoVal)
    BY <1>4 DEF Apply, RecoveryInv, TypeInv, TypeOK, Carried
  <2>2. /\ RecordOf(op[c]) \in Record /\ RecordOf(op[c]).key = op[c].key
        /\ RecordOf(op[c]).op = "put" => RecordOf(op[c]).val # NoVal
    BY <2>1, RecordOfFacts
  <2>3. mem' = [mem EXCEPT ![op[c].key] = Effect(@, RecordOf(op[c]))]
    BY <1>4 DEF Apply
  <2> QED BY <1>2, <2>2, <2>3
<1>5. CASE Crash
  BY <1>5 DEF Crash, NoOrphans, NoOrphan, NoEntry
<1>6. CASE ReplayRecord
  <2>1. rpos \in 1..Len(log) /\ log[rpos] \in Record
    BY <1>1, <1>6 DEF ReplayRecord, NextIsWhole
  <2> QED BY <1>1, <1>2, <1>6, <2>1 DEF ReplayRecord
<1>7. CASE ReplayMisreads
  <2> DEFINE r == log[rpos]
             misread == IF r.op = "put" THEN [r EXCEPT !.val = Garbage] ELSE r
  <2>1. r \in Record
    BY <1>1, <1>7 DEF ReplayMisreads
  <2>2. /\ misread \in Record /\ misread.key = r.key
        /\ misread.op = "put" => misread.val # NoVal
    BY <2>1, DataAssumption DEF Record, Stored
  <2>3. mem' = mem \/ mem' = [mem EXCEPT ![r.key] = Effect(@, misread)]
    BY <1>7 DEF ReplayMisreads
  <2> HIDE DEF misread, r
  <2> QED BY <1>2, <1>3, <2>2, <2>3
<1> QED BY <1>3, <1>4, <1>5, <1>6, <1>7, MemorySteps

-----------------------------------------------------------------------------
(* The snapshot.                                                           *)

\* A step that is not the compaction's starts one at most, which has scanned
\* nothing; a crash and a replay find none.
LEMMA OtherSteps ==
  ASSUME RecoveryInv, \/ \E c \in Clients : Arrive(c) \/ ClientStep(c)
                      \/ Tick \/ Crash \/ ReplayStep
  PROVE  /\ tmp' = tmp \/ \A g \in Compactors : cpc'[g] = "idle"
         /\ \A g \in Compactors :
              \/ cpc'[g] = cpc[g] /\ cshard'[g] = cshard[g]
                                  /\ ckeys'[g] = ckeys[g]
              \/ cpc'[g] \in {"idle", "open"}
<1> USE DEF fileVars, compVars
<1>1. CASE \E c \in Clients : \/ Arrive(c) \/ AppendFails(c)
                              \/ Unlogged(c) \/ Apply(c)
  BY <1>1 DEF Arrive, CallPut, CallUpdate, CallDelete, Call, AppendFails,
              Unlogged, Apply
<1>2. CASE \E c \in Clients : AppendOK(c)
  BY <1>2 DEF AppendOK, RecoveryInv, TypeInv, TypeOK
<1>3. CASE Crash
  BY <1>3 DEF Crash
<1>4. CASE Tick \/ ReplayStep
  BY <1>4 DEF Tick, ReplayStep, ReplayRecord, ReplayEnds, ReplayMisreads,
              ReplayFails, NewWALFails, ReplayUnchanged
<1> QED BY <1>1, <1>2, <1>3, <1>4 DEF ClientStep

\* A compaction step is the only compaction's.
LEMMA AloneStep ==
  ASSUME RecoveryInv, NEW g \in Compactors, CompactStep(g)
  PROVE  /\ cpc[g] # "idle" /\ phase = "up"
         /\ \A h \in Compactors : h # g => cpc[h] = "idle" /\ cpc'[h] = "idle"
<1>1. cpc[g] # "idle"
  BY DEF CompactStep, CompactOpen, CompactOpenFails, LockShard, UnlockShard,
         CopyKey, CompactRemove, CompactRemoveFails, CompactRename,
         CompactSwapFails, SwapDone
<1>2. \A h \in Compactors : h # g => cpc'[h] = cpc[h]
  <2>1. CASE CompactOpen(g)
    BY <2>1 DEF CompactOpen, RecoveryInv, TypeInv, TypeOK
  <2>2. CASE CompactOpenFails(g)
    BY <2>2 DEF CompactOpenFails, RecoveryInv, TypeInv, TypeOK
  <2>3. CASE LockShard(g) \/ UnlockShard(g)
    BY <2>3 DEF LockShard, UnlockShard, RecoveryInv, TypeInv, TypeOK
  <2>4. CASE \E k \in Keys : CopyKey(g, k)
    BY <2>4 DEF CopyKey
  <2>5. CASE CompactRemove(g) \/ CompactRemoveFails(g)
    BY <2>5 DEF CompactRemove, CompactRemoveFails, RecoveryInv, TypeInv, TypeOK
  <2>6. CASE CompactRename(g) \/ CompactSwapFails(g)
    BY <2>6 DEF CompactRename, CompactSwapFails, SwapDone, RecoveryInv,
                TypeInv, TypeOK
  <2> QED BY <2>1, <2>2, <2>3, <2>4, <2>5, <2>6 DEF CompactStep
<1> QED
  BY <1>1, <1>2
  DEF RecoveryInv, CompactionExclusive, TypeInv, TypeOK, Booting

LEMMA HeldKeysStep ==
  ASSUME RecoveryInv, Next
  PROVE  HeldKeys'
<1>1. /\ \A g \in Compactors, k \in Keys :
           ToCopy(g, k) => ShardOf[k] = cshard[g] /\ mem[k].val # NoVal
      /\ phase # "up" => \A g \in Compactors : cpc[g] = "idle"
  BY DEF RecoveryInv, HeldKeys, TypeInv, Booting
<1>2. ASSUME mem' = mem,
             \A g \in Compactors :
               \/ /\ cpc'[g] = cpc[g] /\ cshard'[g] = cshard[g]
                  /\ ckeys'[g] \subseteq ckeys[g]
               \/ cpc'[g] # "locked"
      PROVE  HeldKeys'
  BY <1>1, <1>2 DEF HeldKeys, ToCopy
<1>3. ASSUME \A g \in Compactors : cpc'[g] # "locked" PROVE HeldKeys'
  BY <1>3 DEF HeldKeys, ToCopy
<1>4. CASE \/ \E c \in Clients : Arrive(c) \/ ClientStep(c)
           \/ Tick \/ Crash \/ ReplayStep
  <2>1. \A g \in Compactors :
          \/ cpc'[g] = cpc[g] /\ cshard'[g] = cshard[g]
                              /\ ckeys'[g] = ckeys[g]
          \/ cpc'[g] \in {"idle", "open"}
    BY <1>4, OtherSteps
  <2>2. CASE mem' = mem
    BY <1>2, <2>1, <2>2
  <2>3. ASSUME NEW c \in Clients, Apply(c) PROVE HeldKeys'
    <3>1. /\ ~RLocked(ShardOf[op[c].key])
          /\ mem' = [mem EXCEPT ![op[c].key] = Effect(@, RecordOf(op[c]))]
          /\ cpc' = cpc /\ cshard' = cshard /\ ckeys' = ckeys
      BY <2>3 DEF Apply, compVars
    <3>2. \A g \in Compactors, k \in Keys : ToCopy(g, k) => k # op[c].key
      BY <1>1, <3>1 DEF RLocked, ToCopy
    <3> QED
      BY <1>1, <3>1, <3>2 DEF HeldKeys, ToCopy, RecoveryInv, TypeInv, TypeOK
  <2>4. CASE Crash
    BY <1>3, <2>4 DEF Crash
  <2>5. CASE ReplayRecord \/ ReplayMisreads
    BY <1>1, <1>3, <2>1, <2>5 DEF ReplayRecord, ReplayMisreads
  <2> QED BY <2>2, <2>3, <2>4, <2>5, MemorySteps
<1>5. ASSUME NEW g \in Compactors, CompactStep(g) PROVE HeldKeys'
  <2>1. \A h \in Compactors : h # g => cpc'[h] = "idle"
    BY <1>5, AloneStep
  <2>2. CASE LockShard(g)
    <3>1. /\ ckeys'[g] = {k \in Keys : ShardOf[k] = cshard[g]
                                        /\ mem[k].val # NoVal}
          /\ cshard' = cshard /\ mem' = mem
      BY <2>2 DEF LockShard, memVars, RecoveryInv, TypeInv, TypeOK
    <3> QED BY <2>1, <3>1 DEF HeldKeys, ToCopy
  <2>3. ASSUME NEW k \in Keys, CopyKey(g, k) PROVE HeldKeys'
    <3>1. /\ ckeys'[g] \subseteq ckeys[g] /\ mem' = mem
          /\ cpc' = cpc /\ cshard' = cshard
      BY <2>3 DEF CopyKey, memVars, RecoveryInv, TypeInv, TypeOK
    <3> QED BY <1>2, <2>1, <3>1
  <2>4. ASSUME cpc'[g] # "locked" PROVE HeldKeys'
    BY <1>3, <2>1, <2>4
  <2>5. \/ LockShard(g) \/ (\E k \in Keys : CopyKey(g, k))
        \/ cpc'[g] # "locked"
    BY <1>5 DEF CompactStep, CompactOpen, CompactOpenFails, UnlockShard,
                CompactRemove, CompactRemoveFails, CompactRename,
                CompactSwapFails, SwapDone,
                RecoveryInv, TypeInv, TypeOK
  <2> QED BY <2>2, <2>3, <2>4, <2>5
<1> QED BY <1>4, <1>5 DEF Next

\* Copying a key leaves the snapshot's records of the others alone.
LEMMA CopyOthers ==
  ASSUME RecoveryInv, NEW g \in Compactors, NEW i \in Keys, CopyKey(g, i),
         NEW k, k # i
  PROVE  On(tmp', k) = On(tmp, k) /\ Recovered(tmp', k) = Recovered(tmp, k)
<1> DEFINE r == SnapshotOf(i)
           t == [SnapshotOf(i) EXCEPT !.torn = TRUE]
<1>1. tmp \in Seq(Record) /\ mem[i] \in Entry
  BY DEF RecoveryInv, TypeInv, TypeOK
<1>2. r \in Record /\ t \in Record /\ r.key = i /\ t.key = i
  BY <1>1 DEF SnapshotOf, Record, Entry
<1>3. tmp' \in {tmp, Append(tmp, r), Append(tmp, t)}
  BY DEF CopyKey
<1> HIDE DEF r, t
<1>4. CASE tmp' = tmp
  BY <1>4
<1>5. CASE tmp' = Append(tmp, r)
  BY <1>1, <1>2, <1>5, IndicesOfAppend, RecoveredOther
<1>6. CASE tmp' = Append(tmp, t)
  BY <1>1, <1>2, <1>6, IndicesOfAppend, RecoveredOther
<1> QED BY <1>3, <1>4, <1>5, <1>6

LEMMA SnapshotFreshStep ==
  ASSUME RecoveryInv, Next
  PROVE  SnapshotFresh'
<1>1. /\ \A g \in Compactors, k \in Keys :
           /\ cpc[g] \in {"scan", "locked"}
           /\ ~Scanned(g, k) \/ ToCopy(g, k)
           => On(tmp, k) = {}
      /\ phase # "up" => \A g \in Compactors : cpc[g] = "idle"
      /\ cpc \in [Compactors -> {"idle", "open", "scan", "locked", "rename"}]
      /\ cshard \in [Compactors -> 1..NShards + 1]
      /\ ckeys \in [Compactors -> SUBSET Keys]
  BY DEF RecoveryInv, SnapshotFresh, TypeInv, TypeOK, Booting
<1>2. ASSUME tmp' = tmp,
             \A g \in Compactors :
               \/ /\ cpc'[g] = cpc[g] /\ cshard'[g] = cshard[g]
                  /\ ckeys'[g] = ckeys[g]
               \/ cpc'[g] \notin {"scan", "locked"}
      PROVE  SnapshotFresh'
  BY <1>1, <1>2 DEF SnapshotFresh, Scanned, ToCopy
<1>3. ASSUME \A g \in Compactors : cpc'[g] \notin {"scan", "locked"}
      PROVE  SnapshotFresh'
  BY <1>3 DEF SnapshotFresh
<1>4. CASE \/ \E c \in Clients : Arrive(c) \/ ClientStep(c)
           \/ Tick \/ Crash \/ ReplayStep
  BY <1>2, <1>3, <1>4, OtherSteps
<1>5. ASSUME NEW g \in Compactors, CompactStep(g) PROVE SnapshotFresh'
  <2>1. \A h \in Compactors : h # g => cpc'[h] = "idle"
    BY <1>5, AloneStep
  <2>2. CASE CompactOpen(g)
    <3>1. \A k : On(tmp', k) = {}
      BY <2>2 DEF CompactOpen, On
    <3> QED BY <3>1 DEF SnapshotFresh
  <2>3. CASE LockShard(g)
    <3>1. /\ cpc[g] = "scan" /\ cpc'[g] = "locked" /\ cshard' = cshard
          /\ \A k \in ckeys'[g] : ShardOf[k] = cshard[g]
          /\ tmp' = tmp
      BY <1>1, <2>3 DEF LockShard, fileVars
    <3>2. ASSUME NEW k \in Keys, ~Scanned(g, k)' \/ ToCopy(g, k)'
          PROVE  ~Scanned(g, k)
      <4>1. ShardOf[k] \in Nat /\ cshard[g] \in Nat
        BY <1>1, ShardAssumption
      <4> QED BY <3>1, <3>2, <4>1 DEF Scanned, ToCopy
    <3> QED BY <1>1, <2>1, <3>1, <3>2 DEF SnapshotFresh
  <2>4. CASE UnlockShard(g)
    <3>1. /\ cpc[g] = "locked" /\ cpc'[g] = "scan"
          /\ cshard'[g] = cshard[g] + 1 /\ tmp' = tmp
      BY <1>1, <2>4 DEF UnlockShard, fileVars
    <3>2. ASSUME NEW k \in Keys, ~Scanned(g, k)' \/ ToCopy(g, k)'
          PROVE  ~Scanned(g, k)
      <4>1. ShardOf[k] \in Nat /\ cshard[g] \in Nat
        BY <1>1, ShardAssumption
      <4> QED BY <3>1, <3>2, <4>1 DEF Scanned, ToCopy
    <3> QED BY <1>1, <2>1, <3>1, <3>2 DEF SnapshotFresh
  <2>5. ASSUME NEW i \in Keys, CopyKey(g, i) PROVE SnapshotFresh'
    <3>1. /\ cpc[g] = "locked" /\ i \in ckeys[g]
          /\ ckeys'[g] = ckeys[g] \ {i} /\ cpc' = cpc /\ cshard' = cshard
      BY <1>1, <2>5 DEF CopyKey
    <3>2. ShardOf[i] = cshard[g]
      BY <3>1 DEF RecoveryInv, HeldKeys, ToCopy
    <3>3. ASSUME NEW k \in Keys, ~Scanned(g, k)' \/ ToCopy(g, k)'
          PROVE  k # i /\ (~Scanned(g, k) \/ ToCopy(g, k))
      <4>1. ShardOf[i] <= cshard[g]
        BY <1>1, <3>2
      <4> QED BY <3>1, <3>3, <4>1 DEF Scanned, ToCopy
    <3>4. \A k \in Keys : k # i => On(tmp', k) = On(tmp, k)
      BY <2>5, CopyOthers
    <3> QED BY <1>1, <2>1, <3>1, <3>3, <3>4 DEF SnapshotFresh
  <2>6. CASE \/ CompactOpenFails(g) \/ CompactRemove(g)
             \/ CompactRemoveFails(g) \/ CompactRename(g)
             \/ CompactSwapFails(g)
    <3>1. cpc'[g] \in {"idle", "rename"}
      BY <1>1, <2>6 DEF CompactOpenFails, CompactRemove, CompactRemoveFails,
                        CompactRename, CompactSwapFails, SwapDone
    <3> QED BY <1>3, <2>1, <3>1
  <2> QED BY <1>5, <2>2, <2>3, <2>4, <2>5, <2>6 DEF CompactStep
<1> QED BY <1>4, <1>5 DEF Next

\* The compaction's own steps keep the snapshot exact.
LEMMA SnapshotExactCompact ==
  ASSUME RecoveryInv, NEW g \in Compactors, CompactStep(g)
  PROVE  SnapshotExact'
<1>1. /\ \A k \in Keys :
           Scanned(g, k) /\ k \notin skipped =>
             /\ PendingOn(k) = {}
             /\ ~ToCopy(g, k) => Recovered(tmp, k) = mem[k]
      /\ cpc \in [Compactors -> {"idle", "open", "scan", "locked", "rename"}]
      /\ cshard \in [Compactors -> 1..NShards + 1]
      /\ ckeys \in [Compactors -> SUBSET Keys]
      /\ mem \in [Keys -> Entry] /\ tmp \in Seq(Record)
  BY DEF RecoveryInv, SnapshotExact, TypeInv, TypeOK
<1>2. ASSUME NEW k \in Keys
      PROVE  ShardOf[k] \in Nat /\ ShardOf[k] <= NShards /\ cshard[g] \in Nat
  BY <1>1, ShardAssumption
<1>3. /\ mem' = mem /\ \A h \in Compactors : h # g => cpc'[h] = "idle"
      /\ \A k : PendingOn(k)' = PendingOn(k)
  <2>1. mem' = mem /\ pc' = pc /\ op' = op
    BY DEF CompactStep, CompactOpen, CompactOpenFails, LockShard, UnlockShard,
           CopyKey, CompactRemove, CompactRemoveFails, CompactRename,
           CompactSwapFails, SwapDone, memVars, cliVars
  <2> QED BY <2>1, AloneStep DEF PendingOn
<1>4. ASSUME \A k \in Keys :
               Scanned(g, k)' /\ k \notin skipped' =>
                 /\ PendingOn(k) = {}
                 /\ ~ToCopy(g, k)' => Recovered(tmp', k) = mem[k]
      PROVE  SnapshotExact'
  <2>1. \A h \in Compactors, k \in Keys : Scanned(h, k)' => h = g
    BY <1>3 DEF Scanned
  <2> QED BY <1>3, <1>4, <2>1 DEF SnapshotExact
<1>5. CASE CompactOpen(g)
  <2>1. cpc'[g] = "scan" /\ cshard'[g] = 1
    BY <1>1, <1>5 DEF CompactOpen
  <2>2. \A k \in Keys : ~(ShardOf[k] < 1)
    BY ShardAssumption
  <2> QED BY <1>4, <2>1, <2>2 DEF Scanned
<1>6. CASE CompactOpenFails(g) \/ CompactRename(g) \/ CompactSwapFails(g)
  <2>1. cpc'[g] = "idle"
    BY <1>1, <1>6 DEF CompactOpenFails, CompactRename, CompactSwapFails,
                      SwapDone
  <2> QED BY <1>4, <2>1 DEF Scanned
<1>7. CASE LockShard(g)
  <2>1. /\ cpc[g] = "scan" /\ cpc'[g] = "locked" /\ cshard' = cshard
        /\ ckeys'[g] = {k \in Keys : ShardOf[k] = cshard[g]
                                      /\ mem[k].val # NoVal}
        /\ skipped' = skipped \cup
             {k \in Keys : ShardOf[k] = cshard[g] /\ PendingOn(k) # {}}
        /\ tmp' = tmp
    BY <1>1, <1>7 DEF LockShard, fileVars
  <2>2. ASSUME NEW k \in Keys, Scanned(g, k)', k \notin skipped'
        PROVE  /\ PendingOn(k) = {}
               /\ ~ToCopy(g, k)' => Recovered(tmp', k) = mem[k]
    <3>1. ShardOf[k] < cshard[g] \/ ShardOf[k] = cshard[g]
      BY <1>2, <2>1, <2>2 DEF Scanned
    <3>2. CASE ShardOf[k] < cshard[g]
      BY <1>1, <2>1, <2>2, <3>2 DEF Scanned, ToCopy
    <3>3. CASE ShardOf[k] = cshard[g]
      <4>1. PendingOn(k) = {}
        BY <2>1, <2>2, <3>3
      <4>2. ASSUME ~ToCopy(g, k)' PROVE Recovered(tmp', k) = mem[k]
        <5>1. mem[k].val = NoVal
          BY <2>1, <3>3, <4>2 DEF ToCopy
        <5>2. mem[k] = NoEntry
          BY <1>1, <5>1 DEF RecoveryInv, NoOrphans, NoOrphan, Entry, NoEntry
        <5>3. ~Scanned(g, k)
          BY <1>2, <2>1, <3>3 DEF Scanned
        <5>4. On(tmp, k) = {}
          BY <2>1, <5>3 DEF RecoveryInv, SnapshotFresh
        <5> QED BY <2>1, <5>2, <5>4, RecoveredNone
      <4> QED BY <4>1, <4>2
    <3> QED BY <3>1, <3>2, <3>3
  <2> QED BY <1>4, <2>2
<1>8. CASE UnlockShard(g)
  <2>1. /\ cpc[g] = "locked" /\ cpc'[g] = "scan" /\ ckeys[g] = {}
        /\ cshard'[g] = cshard[g] + 1 /\ tmp' = tmp /\ skipped' = skipped
    BY <1>1, <1>8 DEF UnlockShard, fileVars, histVars
  <2>2. \A k \in Keys : Scanned(g, k)' => Scanned(g, k) /\ ~ToCopy(g, k)
    BY <1>2, <2>1 DEF Scanned, ToCopy
  <2> QED BY <1>1, <1>4, <2>1, <2>2
<1>9. ASSUME NEW i \in Keys, CopyKey(g, i) PROVE SnapshotExact'
  <2>1. /\ cpc[g] = "locked" /\ i \in ckeys[g]
        /\ ckeys'[g] = ckeys[g] \ {i} /\ cpc' = cpc /\ cshard' = cshard
        /\ skipped' = skipped \/ skipped' = skipped \cup {i}
        /\ skipped' = skipped => tmp' = Append(tmp, SnapshotOf(i))
                                 \/ i \in skipped
    BY <1>1, <1>9 DEF CopyKey
  <2>2. ASSUME NEW k \in Keys, Scanned(g, k)', k \notin skipped'
        PROVE  /\ PendingOn(k) = {}
               /\ ~ToCopy(g, k)' => Recovered(tmp', k) = mem[k]
    <3>1. Scanned(g, k) /\ k \notin skipped
      BY <2>1, <2>2 DEF Scanned
    <3>2. CASE k # i
      <4>1. ToCopy(g, k)' = ToCopy(g, k)
        BY <2>1, <3>2 DEF ToCopy
      <4>2. Recovered(tmp', k) = Recovered(tmp, k)
        BY <1>9, <3>2, CopyOthers
      <4> QED BY <1>1, <3>1, <4>1, <4>2
    <3>3. CASE k = i
      <4> DEFINE r == SnapshotOf(i)
      <4>1. tmp' = Append(tmp, r)
        BY <2>1, <2>2, <3>3
      <4>2. /\ mem[i] \in Entry /\ r \in Record /\ r.key = i /\ r.op = "put"
            /\ r.val = mem[i].val /\ r.ttl = mem[i].exp
        BY <1>1 DEF SnapshotOf, Record, Entry
      <4>3. On(tmp, i) = {}
        BY <2>1 DEF RecoveryInv, SnapshotFresh, ToCopy
      <4>4. RecoveredExp(tmp, i) = 0
        BY <4>3 DEF RecoveredExp, Decisive
      <4> HIDE DEF r
      <4>5. /\ RecoveredVal(tmp', i) = mem[i].val
            /\ RecoveredExp(tmp', i) = mem[i].exp
        <5>1. mem[i].exp \in Nat
          BY <4>2 DEF Entry
        <5> QED BY <1>1, <4>1, <4>2, <4>4, <5>1, RecoveredSame
      <4>6. Recovered(tmp', i) = mem[i]
        BY <4>2, <4>5 DEF Recovered, Entry
      <4> QED BY <1>1, <3>1, <3>3, <4>6
    <3> QED BY <3>2, <3>3
  <2> QED BY <1>4, <2>2
<1>10. CASE CompactRemove(g) \/ CompactRemoveFails(g)
  <2>1. /\ cpc[g] = "scan" /\ cshard[g] > NShards /\ NShards \in Nat
        /\ tmp' = tmp /\ skipped' = skipped
    BY <1>1, <1>10, ShardAssumption
    DEF CompactRemove, CompactRemoveFails, MoreShards, histVars
  <2>2. \A k \in Keys : Scanned(g, k) /\ ~ToCopy(g, k)
    BY <1>2, <2>1 DEF Scanned, ToCopy
  <2> QED BY <1>1, <1>4, <2>1, <2>2
<1> QED
  BY <1>5, <1>6, <1>7, <1>8, <1>9, <1>10 DEF CompactStep

LEMMA SnapshotExactStep ==
  ASSUME RecoveryInv, Next
  PROVE  SnapshotExact'
<1>1. /\ \A g \in Compactors, k \in Keys :
           Scanned(g, k) /\ k \notin skipped =>
             /\ PendingOn(k) = {}
             /\ ~ToCopy(g, k) => Recovered(tmp, k) = mem[k]
      /\ phase # "up" => \A g \in Compactors : cpc[g] = "idle"
      /\ cpc \in [Compactors -> {"idle", "open", "scan", "locked", "rename"}]
      /\ cshard \in [Compactors -> 1..NShards + 1]
      /\ ckeys \in [Compactors -> SUBSET Keys]
      /\ mem \in [Keys -> Entry] /\ tmp \in Seq(Record)
  BY DEF RecoveryInv, SnapshotExact, TypeInv, TypeOK, Booting
<1>2. ASSUME \A g \in Compactors : cpc'[g] \in {"idle", "open"}
      PROVE  SnapshotExact'
  BY <1>2 DEF SnapshotExact, Scanned
<1>3. ASSUME tmp' = tmp, skipped \subseteq skipped',
             \A g \in Compactors :
               \/ /\ cpc'[g] = cpc[g] /\ cshard'[g] = cshard[g]
                  /\ ckeys'[g] = ckeys[g]
               \/ cpc'[g] \in {"idle", "open"},
             \A g \in Compactors, k \in Keys :
               Scanned(g, k) /\ k \notin skipped' =>
                 /\ mem'[k] = mem[k]
                 /\ PendingOn(k) = {} => PendingOn(k)' = {}
      PROVE  SnapshotExact'
  <2>1. ASSUME NEW g \in Compactors, NEW k \in Keys,
               Scanned(g, k)', k \notin skipped'
        PROVE  /\ PendingOn(k)' = {}
               /\ ~ToCopy(g, k)' => Recovered(tmp', k) = mem'[k]
    <3>1. /\ cpc'[g] = cpc[g] /\ cshard'[g] = cshard[g]
          /\ ckeys'[g] = ckeys[g]
      BY <1>3, <2>1 DEF Scanned
    <3>2. Scanned(g, k) /\ k \notin skipped /\ ToCopy(g, k)' = ToCopy(g, k)
      BY <1>3, <2>1, <3>1 DEF Scanned, ToCopy
    <3> QED BY <1>1, <1>3, <2>1, <3>2
  <2> QED BY <2>1 DEF SnapshotExact
<1>4. ASSUME NEW c \in Clients, Arrive(c) \/ ClientStep(c)
      PROVE  SnapshotExact'
  <2>1. /\ tmp' = tmp
        /\ \A g \in Compactors :
             \/ cpc'[g] = cpc[g] /\ cshard'[g] = cshard[g]
                                 /\ ckeys'[g] = ckeys[g]
             \/ cpc'[g] \in {"idle", "open"}
    <3>1. tmp' = tmp
      BY <1>4 DEF Arrive, CallPut, CallUpdate, CallDelete, Call, ClientStep,
                  AppendOK, AppendFails, Unlogged, Apply, fileVars
    <3> QED BY <1>4, <3>1, OtherSteps
  <2>2. CASE Arrive(c) \/ AppendFails(c)
    <3>1. mem' = mem /\ skipped' = skipped
      BY <2>2 DEF Arrive, CallPut, CallUpdate, CallDelete, Call, AppendFails,
                  memVars, histVars
    <3>2. \A k : PendingOn(k)' = PendingOn(k)
      BY <2>2, PendingCall DEF RecoveryInv
    <3> QED BY <1>3, <2>1, <3>1, <3>2
  <2>3. CASE AppendOK(c)
    <3>1. /\ mem' = mem
          /\ skipped' = IF \E g \in Compactors : Scanned(g, op[c].key)
                        THEN skipped \cup {op[c].key} ELSE skipped
      BY <2>3 DEF AppendOK, memVars, RecordOf
    <3>2. \A k : k # op[c].key => PendingOn(k)' = PendingOn(k)
      BY <2>3, PendingAppend DEF RecoveryInv
    <3> QED BY <1>3, <2>1, <3>1, <3>2
  <2>4. CASE Apply(c)
    <3>1. /\ mem' = [mem EXCEPT ![op[c].key] = Effect(@, RecordOf(op[c]))]
          /\ skipped' = skipped
      BY <2>4 DEF Apply, histVars
    <3>2. /\ c \in PendingOn(op[c].key)
          /\ \A k : PendingOn(k)' = PendingOn(k) \ {c}
      BY <2>4, PendingApply DEF RecoveryInv
    <3>3. \A g \in Compactors, k \in Keys :
            Scanned(g, k) /\ k \notin skipped => k # op[c].key
      BY <1>1, <3>2
    <3> QED BY <1>1, <1>3, <2>1, <3>1, <3>2, <3>3
  <2>5. CASE Unlogged(c)
    <3>1. \A g \in Compactors : cpc'[g] = "idle"
      BY <1>1, <2>5 DEF Unlogged, compVars
    <3> QED BY <1>2, <3>1
  <2> QED BY <1>4, <2>2, <2>3, <2>4, <2>5 DEF ClientStep
<1>5. CASE Tick
  BY <1>3, <1>5 DEF Tick, fileVars, compVars, histVars, cliVars, PendingOn
<1>6. CASE Crash
  BY <1>2, <1>6 DEF Crash
<1>7. CASE ReplayStep
  BY <1>1, <1>2, <1>7 DEF ReplayStep, ReplayRecord, ReplayEnds, ReplayFails,
       ReplayMisreads, NewWALFails, ReplayUnchanged, compVars
<1> QED BY <1>4, <1>5, <1>6, <1>7, SnapshotExactCompact DEF Next

-----------------------------------------------------------------------------
(* The log and memory.                                                     *)

LEMMA LogMatchesStep ==
  ASSUME RecoveryInv, Next
  PROVE  LogMatchesMemory'
<1> USE DEF memVars, fileVars, walVars, cliVars, compVars, bootVars, boundVars,
            histVars
<1>1. /\ mem \in [Keys -> Entry] /\ log \in Seq(Record)
      /\ op \in [Clients -> Request \cup {NoOp}]
      /\ \A k \in Keys : NoOrphan(mem[k])
      /\ PutsCarry(log)
  BY DEF RecoveryInv, TypeInv, TypeOK, NoOrphans, Carried
<1>2. ASSUME phase = "up", Whole(log), NEW k \in Keys \ stray
      PROVE  Durable(k)
  BY <1>2 DEF RecoveryInv, LogMatchesMemory
<1>3. ASSUME NEW k, Durable(k), mem'[k] = mem[k],
             Recovered(log', k) = Recovered(log, k),
             PendingOn(k)' = PendingOn(k),
             \A d \in PendingOn(k) : op'[d] = op[d]
      PROVE  Durable(k)'
  BY <1>3 DEF Durable, RecordOf
<1>4. ASSUME phase' = phase, log' = log, mem' = mem, stray \subseteq stray',
             \A k : PendingOn(k)' = PendingOn(k),
             \A k : \A d \in PendingOn(k) : op'[d] = op[d]
      PROVE  LogMatchesMemory'
  <2>1. ASSUME phase = "up", Whole(log), NEW k \in Keys \ stray'
        PROVE  Durable(k)'
    <3>1. Durable(k)
      BY <1>2, <1>4, <2>1
    <3> QED BY <1>3, <1>4, <3>1
  <2> QED BY <1>4, <2>1 DEF LogMatchesMemory, Whole
<1>5. ASSUME NEW c \in Clients, Arrive(c) \/ AppendFails(c)
      PROVE  LogMatchesMemory'
  <2>1. \A k : /\ PendingOn(k)' = PendingOn(k)
               /\ \A d \in PendingOn(k) : op'[d] = op[d]
    BY <1>5, PendingCall DEF RecoveryInv
  <2>2. mem' = mem /\ stray' = stray /\ phase' = phase
    BY <1>5 DEF Arrive, CallPut, CallUpdate, CallDelete, Call, AppendFails
  <2>3. CASE log' = log
    BY <1>4, <2>1, <2>2, <2>3
  <2>4. CASE log' # log
    <3> DEFINE r == [RecordOf(op[c]) EXCEPT !.torn = TRUE]
    <3>1. AppendFails(c)
      BY <1>5, <2>4 DEF Arrive, CallPut, CallUpdate, CallDelete, Call
    <3>2. op[c] \in Request /\ log' = Append(log, r)
      BY <2>4, <3>1 DEF AppendFails, RecoveryInv, TypeInv, TypeOK
    <3>3. r \in Record /\ r.torn = TRUE
      BY <3>2, RecordOfType DEF Record
    <3> HIDE DEF r
    <3>4. ~Whole(log')
      BY <1>1, <3>2, <3>3, WholeAppend
    <3> QED BY <3>4 DEF LogMatchesMemory, Whole
  <2> QED BY <2>3, <2>4
<1>6. ASSUME NEW c \in Clients, AppendOK(c) PROVE LogMatchesMemory'
  <2> DEFINE r == RecordOf(op[c])
             i == op[c].key
  <2>1. /\ op[c] \in Request /\ phase = "up"
        /\ op[c].kind # "delete" => op[c].val # NoVal
    BY <1>6 DEF AppendOK, RecoveryInv, TypeInv, TypeOK, Booting, Carried
  <2>2. /\ r \in Record /\ r.key = i /\ i \in Keys /\ r.torn = FALSE
        /\ r.op = "put" => r.val # NoVal
    BY <2>1, RecordOfFacts
  <2>3. /\ log' = Append(log, r) /\ mem' = mem
        /\ stray' = IF PendingOn(i) # {} THEN stray \cup {i}
                    ELSE IF r.op = "del" \/ r.ttl > 0 THEN stray \ {i}
                    ELSE stray
    <3>1. r.key = i BY <2>2
    <3> QED BY <1>6, <3>1 DEF AppendOK
  <2>4. /\ op' = op
        /\ \A k : k # i => PendingOn(k)' = PendingOn(k)
        /\ \A k : k = i => PendingOn(k)' = PendingOn(k) \cup {c}
    BY <1>6, PendingAppend DEF RecoveryInv
  <2> HIDE DEF r, i
  <2>5. SUFFICES ASSUME Whole(log'), NEW k \in Keys \ stray'
                 PROVE  Durable(k)'
    BY DEF LogMatchesMemory, Whole
  <2>6. Whole(log)
    BY <1>1, <2>2, <2>3, <2>5, WholeAppend
  <2>7. CASE k # i
    <3>1. k \notin stray
      BY <2>3, <2>5, <2>7
    <3>2. Durable(k)
      BY <1>2, <2>1, <2>5, <2>6, <3>1
    <3>3. Recovered(log', k) = Recovered(log, k)
      BY <1>1, <2>2, <2>3, <2>7, RecoveredOther
    <3> QED BY <1>3, <2>3, <2>4, <2>7, <3>2, <3>3
  <2>8. CASE k = i
    <3>1. PendingOn(i) = {} /\ PendingOn(k)' = {c}
      BY <2>3, <2>4, <2>5, <2>8
    <3>2. Recovered(log', i) = Effect(mem[i], r)
      <4>1. CASE i \notin stray
        <5>1. Recovered(log, i) = mem[i]
          BY <1>2, <2>1, <2>2, <2>6, <3>1, <4>1 DEF Durable
        <5> QED BY <1>1, <2>2, <2>3, <5>1, RecoveredAppend
      <4>2. CASE i \in stray
        <5>1. r.op = "del" \/ r.ttl > 0
          BY <2>3, <2>5, <2>8, <3>1, <4>2
        <5>2. /\ RecoveredVal(log', i) = IF r.op = "del" THEN NoVal ELSE r.val
              /\ RecoveredExp(log', i) = IF r.op = "del" THEN 0 ELSE r.ttl
          BY <1>1, <2>2, <2>3, <5>1, RecoveredSame
        <5>3. CASE r.op = "del"
          <6>1. mem[i] \in Entry /\ NoOrphan(mem[i])
            BY <1>1, <2>2
          <6>2. deleteInternal(mem[i]) = NoEntry
            BY <6>1 DEF deleteInternal, NoOrphan, NoEntry, Entry
          <6> QED BY <5>2, <5>3, <6>2 DEF Recovered, Effect, NoEntry
        <5>4. CASE r.op # "del"
          <6>1. r.op = "put" /\ r.ttl > 0
            BY <2>2, <5>1, <5>4 DEF Record
          <6> QED BY <5>2, <6>1 DEF Recovered, Effect, putInternal
        <5> QED BY <5>3, <5>4
      <4> QED BY <4>1, <4>2
    <3>3. Recovered(log', k) = Effect(mem'[k], r)
      BY <2>3, <2>8, <3>2
    <3>4. RecordOf(op[c])' = r
      BY <2>4 DEF r, RecordOf
    <3> QED BY <3>1, <3>3, <3>4 DEF Durable
  <2> QED BY <2>7, <2>8
<1>7. ASSUME NEW c \in Clients, Apply(c) PROVE LogMatchesMemory'
  <2> DEFINE r == RecordOf(op[c])
             i == op[c].key
  <2>1. /\ mem' = [mem EXCEPT ![i] = Effect(@, r)]
        /\ log' = log /\ stray' = stray /\ phase' = phase
    BY <1>7 DEF Apply
  <2>2. /\ c \in PendingOn(i)
        /\ \A k : PendingOn(k)' = PendingOn(k) \ {c}
        /\ \A d \in Clients : d # c => op'[d] = op[d]
    BY <1>7, PendingApply DEF RecoveryInv
  <2>3. SUFFICES ASSUME phase = "up", Whole(log), NEW k \in Keys \ stray
                 PROVE  Durable(k)'
    BY <2>1 DEF LogMatchesMemory, Whole
  <2>4. Durable(k)
    BY <1>2, <2>3
  <2>5. CASE k # i
    <3>1. c \notin PendingOn(k)
      BY <2>5 DEF PendingOn
    <3>2. /\ PendingOn(k)' = PendingOn(k)
          /\ \A d \in PendingOn(k) : op'[d] = op[d]
      BY <2>2, <3>1 DEF PendingOn
    <3>3. mem'[k] = mem[k]
      BY <1>1, <2>1, <2>5
    <3> QED BY <1>3, <2>1, <2>4, <3>2, <3>3
  <2>6. CASE k = i
    <3>1. PendingOn(k) = {c} /\ Recovered(log, k) = Effect(mem[k], r)
      BY <2>2, <2>4, <2>6 DEF Durable
    <3>2. PendingOn(k)' = {} /\ mem'[k] = Effect(mem[k], r)
      BY <1>1, <2>1, <2>2, <2>6, <3>1
    <3> QED BY <2>1, <3>1, <3>2 DEF Durable
  <2> QED BY <2>5, <2>6
<1>8. CASE Crash
  BY <1>8 DEF Crash, LogMatchesMemory
<1>9. CASE Tick
  BY <1>4, <1>9 DEF Tick, PendingOn
<1>10. CASE ReplayRecord \/ ReplayMisreads
  BY <1>10 DEF ReplayRecord, ReplayMisreads, LogMatchesMemory
<1>11. CASE ReplayEnds
  <2>1. /\ phase = "replay" /\ log' = log /\ mem' = mem /\ pc' = pc
        /\ op' = op /\ ~NextIsWhole
    BY <1>11 DEF ReplayEnds, ReplayUnchanged
  <2>2. SUFFICES ASSUME Whole(log), NEW k \in Keys PROVE Durable(k)'
    BY <2>1 DEF LogMatchesMemory, Whole
  <2>3. rpos \in 1..Len(log) + 1 /\ Len(log) \in Nat
    BY <1>1 DEF RecoveryInv, TypeInv, TypeOK
  <2>4. rpos - 1 = Len(log)
    BY <2>1, <2>2, <2>3 DEF NextIsWhole, Whole
  <2>5. SubSeq(log, 1, Len(log)) = log
    BY <1>1
  <2>6. Recovered(log, k) = mem[k]
    BY <2>1, <2>2, <2>4, <2>5 DEF RecoveryInv, ReplayExact
  <2>7. PendingOn(k)' = {}
    BY <2>1 DEF PendingOn, RecoveryInv, TypeInv, Booting
  <2> QED BY <2>1, <2>6, <2>7 DEF Durable
<1>12. ASSUME NEW g \in Compactors, CompactStep(g) PROVE LogMatchesMemory'
  <2>1. /\ mem' = mem /\ pc' = pc /\ op' = op /\ phase' = phase
    BY <1>12 DEF CompactStep, CompactOpen, CompactOpenFails, LockShard,
         UnlockShard, CopyKey, CompactRemove, CompactRemoveFails,
         CompactRename, CompactSwapFails, SwapDone
  <2>2. \A k : PendingOn(k)' = PendingOn(k)
    BY <2>1 DEF PendingOn
  <2>3. CASE \/ CompactOpen(g) \/ CompactOpenFails(g)
             \/ LockShard(g) \/ UnlockShard(g)
             \/ CompactRemoveFails(g)
             \/ \E k \in Keys : CopyKey(g, k)
    <3>1. log' = log /\ stray' = stray
      BY <2>3 DEF CompactOpen, CompactOpenFails, LockShard, UnlockShard,
                  CompactRemoveFails, CopyKey
    <3> QED BY <1>4, <2>1, <2>2, <3>1
  <2>4. CASE stray' = Keys
    BY <2>4 DEF LogMatchesMemory
  <2>5. CASE cpc[g] = "rename" /\ log' = tmp /\ stray' = skipped
    <3>1. \A k \in Keys \ skipped :
            PendingOn(k) = {} /\ Recovered(tmp, k) = mem[k]
      BY <2>5 DEF RecoveryInv, SnapshotExact, Scanned, ToCopy
    <3> QED BY <2>1, <2>2, <2>5, <3>1 DEF LogMatchesMemory, Durable
  <2>6. CASE log' = log /\ stray' = stray
    BY <1>4, <2>1, <2>2, <2>6
  <2>7. CASE CompactRemove(g) \/ CompactRename(g) \/ CompactSwapFails(g)
    BY <2>4, <2>5, <2>6, <2>7 DEF CompactRemove, CompactRename,
                                  CompactSwapFails, SwapDone
  <2> QED BY <1>12, <2>3, <2>7 DEF CompactStep
<1>13. CASE ReplayFails
  <2>1. /\ phase = "replay" /\ log' = log /\ mem' = mem /\ pc' = pc
        /\ op' = op /\ stray' = {log[i].key : i \in rpos..Len(log)}
    BY <1>13 DEF ReplayFails, ReplayUnchanged
  <2>2. SUFFICES ASSUME Whole(log), NEW k \in Keys \ stray'
                 PROVE  Durable(k)'
    BY <2>1 DEF LogMatchesMemory, Whole
  <2>3. rpos \in 1..Len(log) + 1 /\ Len(log) \in Nat
    BY <1>1 DEF RecoveryInv, TypeInv, TypeOK
  <2>4. rpos - 1 \in 0..Len(log) /\ (rpos - 1) + 1 = rpos
    BY <2>3
  <2>5. \A i \in rpos..Len(log) : log[i].key # k
    BY <2>1, <2>2
  <2>6. Recovered(SubSeq(log, 1, rpos - 1), k) = Recovered(log, k)
    BY <1>1, <2>4, <2>5, RecoveredPrefix
  <2>7. Recovered(log, k) = mem[k]
    BY <2>1, <2>2, <2>6 DEF RecoveryInv, ReplayExact
  <2>8. PendingOn(k)' = {}
    BY <2>1 DEF PendingOn, RecoveryInv, TypeInv, Booting
  <2> QED BY <2>1, <2>7, <2>8 DEF Durable
<1>14. CASE NewWALFails \/ \E c \in Clients : Unlogged(c)
  <2>1. phase' = "nolog"
    BY <1>14 DEF NewWALFails, Unlogged
  <2> QED BY <2>1 DEF LogMatchesMemory
<1> QED
  BY <1>5, <1>6, <1>7, <1>8, <1>9, <1>10, <1>11, <1>12, <1>13, <1>14
  DEF Next, ClientStep, ReplayStep

-----------------------------------------------------------------------------
(* Replay.                                                                 *)

LEMMA ReplayExactStep ==
  ASSUME RecoveryInv, Next
  PROVE  ReplayExact'
<1> USE DEF memVars, fileVars, walVars, cliVars, compVars, bootVars, boundVars
<1>1. /\ mem \in [Keys -> Entry] /\ log \in Seq(Record) /\ PutsCarry(log)
      /\ Len(log) \in Nat /\ rpos \in 1..Len(log) + 1
  BY DEF RecoveryInv, TypeInv, TypeOK, Carried
<1>2. ASSUME phase' # "replay" PROVE ReplayExact'
  BY <1>2 DEF ReplayExact
<1>3. CASE \E c \in Clients : Arrive(c) \/ ClientStep(c)
  <2>1. phase' = phase
    BY <1>3 DEF Arrive, CallPut, CallUpdate, CallDelete, Call, ClientStep,
                AppendOK, AppendFails, Unlogged, Apply
  <2>2. phase # "replay"
    BY <1>3 DEF Arrive, CallPut, CallUpdate, CallDelete, Call, ClientStep,
         AppendOK, AppendFails, Unlogged, Apply, RecoveryInv, TypeInv, TypeOK,
         Booting
  <2> QED BY <1>2, <2>1, <2>2
<1>4. ASSUME NEW g \in Compactors, CompactStep(g) PROVE ReplayExact'
  <2>1. phase' = phase
    BY <1>4 DEF CompactStep, CompactOpen, CompactOpenFails, LockShard,
         UnlockShard, CopyKey, CompactRemove, CompactRemoveFails,
         CompactRename, CompactSwapFails, SwapDone
  <2> QED BY <1>2, <1>4, <2>1, AloneStep
<1>5. CASE Tick
  BY <1>5 DEF Tick, RecoveryInv, ReplayExact, Whole
<1>6. CASE Crash
  <2>1. \A k \in Keys : mem'[k] = NoEntry
    BY <1>6 DEF Crash
  <2>2. rpos' - 1 = 0
    BY <1>6 DEF Crash
  <2>3. \A k : On(SubSeq(log', 1, 0), k) = {}
    BY DEF On
  <2> QED BY <2>1, <2>2, <2>3, RecoveredNone DEF ReplayExact
<1>7. CASE ReplayRecord
  <2> DEFINE s == SubSeq(log, 1, rpos - 1)
             r == log[rpos]
  <2>1. /\ rpos \in 1..Len(log) /\ rpos - 1 \in 0..Len(log) /\ r \in Record
        /\ mem' = [mem EXCEPT ![r.key] = Effect(@, r)]
        /\ log' = log /\ phase = "replay" /\ rpos' - 1 = rpos
    BY <1>1, <1>7 DEF ReplayRecord, ReplayUnchanged, NextIsWhole
  <2>2. s \in Seq(Record) /\ PutsCarry(s)
    BY <1>1, <2>1, PrefixType, PutsCarryPrefix
  <2>3. SubSeq(log, 1, rpos) = Append(s, r)
    <3>1. /\ SubSeq(log, 1, rpos) \in Seq(Record)
          /\ Len(SubSeq(log, 1, rpos)) = rpos
          /\ \A i \in 1..rpos : SubSeq(log, 1, rpos)[i] = log[i]
          /\ Len(s) = rpos - 1
          /\ \A i \in 1..rpos - 1 : s[i] = log[i]
      BY <1>1, <2>1, PrefixType
    <3>2. /\ Append(s, r) \in Seq(Record) /\ Len(Append(s, r)) = Len(s) + 1
          /\ \A i \in 1..Len(s) : Append(s, r)[i] = s[i]
          /\ Append(s, r)[Len(s) + 1] = r
      BY <2>1, <2>2, AppendFacts
    <3>3. Len(Append(s, r)) = rpos
      BY <2>1, <3>1, <3>2
    <3>4. \A i \in 1..rpos : Append(s, r)[i] = log[i]
      <4>1. ASSUME NEW i \in 1..rpos PROVE i \in 1..rpos - 1 \/ i = rpos
        BY <2>1
      <4>2. Len(s) + 1 = rpos
        BY <2>1, <3>1
      <4> QED BY <3>1, <3>2, <4>1, <4>2
    <3> HIDE DEF s, r
    <3> QED BY <3>1, <3>2, <3>3, <3>4, SeqEqual
  <2>4. SUFFICES ASSUME Whole(log), NEW k \in Keys
                 PROVE  mem'[k] = Recovered(SubSeq(log, 1, rpos), k)
    BY <2>1 DEF ReplayExact, Whole
  <2>5. mem[k] = Recovered(s, k)
    BY <2>1, <2>4 DEF RecoveryInv, ReplayExact
  <2>6. Recovered(Append(s, r), k) =
          IF r.key = k THEN Effect(Recovered(s, k), r) ELSE Recovered(s, k)
    <3>1. r \in Record
      BY <2>1
    <3> HIDE DEF s, r
    <3> QED BY <2>2, <3>1, RecoveredAppend
  <2> HIDE DEF s, r
  <2> QED BY <1>1, <2>1, <2>3, <2>4, <2>5, <2>6
<1>8. CASE ReplayMisreads
  <2>1. rpos \in 1..Len(log) /\ log[rpos].torn /\ log' = log
    BY <1>1, <1>8 DEF ReplayMisreads, ReplayUnchanged
  <2> QED BY <2>1 DEF ReplayExact, Whole
<1>9. CASE ReplayEnds \/ ReplayFails \/ NewWALFails
  BY <1>2, <1>9 DEF ReplayEnds, ReplayFails, NewWALFails
<1> QED
  BY <1>3, <1>4, <1>5, <1>6, <1>7, <1>8, <1>9 DEF Next, ReplayStep

-----------------------------------------------------------------------------
(* The theorems.                                                           *)

LEMMA RecoveryInit == Init => RecoveryInv
<1> SUFFICES ASSUME Init PROVE RecoveryInv
  OBVIOUS
<1>1. TypeInv
  BY TypeInit
<1>2. CompactionExclusive
  BY DEF Init, CompactionExclusive
<1>3. Carried
  BY DEF Init, Carried, PutsCarry
<1>4. NoOrphans
  BY DEF Init, NoOrphans, NoOrphan, NoEntry
<1>5. HeldKeys /\ SnapshotFresh /\ SnapshotExact
  BY DEF Init, HeldKeys, SnapshotFresh, SnapshotExact, Scanned, ToCopy
<1>6. LogMatchesMemory
  BY DEF Init, LogMatchesMemory
<1>7. ReplayExact
  <2>1. rpos - 1 = 0 /\ \A k \in Keys : mem[k] = NoEntry
    BY DEF Init
  <2>2. \A k : On(SubSeq(log, 1, 0), k) = {}
    BY DEF On
  <2> QED BY <2>1, <2>2, RecoveredNone DEF ReplayExact
<1> QED
  BY <1>1, <1>2, <1>3, <1>4, <1>5, <1>6, <1>7 DEF RecoveryInv

LEMMA RecoveryStep == RecoveryInv /\ [Next]_vars => RecoveryInv'
<1> SUFFICES ASSUME RecoveryInv, [Next]_vars PROVE RecoveryInv'
  OBVIOUS
<1>1. CASE Next
  <2>1. TypeInv'
    BY <1>1, TypeStep DEF RecoveryInv
  <2>2. CompactionExclusive'
    BY <1>1, ExclusiveStep DEF RecoveryInv
  <2>3. Carried' /\ NoOrphans' /\ HeldKeys'
    BY <1>1, CarriedStep, NoOrphansStep, HeldKeysStep
  <2>4. SnapshotFresh' /\ SnapshotExact'
    BY <1>1, SnapshotFreshStep, SnapshotExactStep
  <2>5. LogMatchesMemory' /\ ReplayExact'
    BY <1>1, LogMatchesStep, ReplayExactStep
  <2> QED BY <2>1, <2>2, <2>3, <2>4, <2>5 DEF RecoveryInv
<1>2. CASE UNCHANGED vars
  <2> USE DEF vars, memVars, fileVars, walVars, cliVars, compVars, bootVars,
              boundVars, histVars
  <2>1. TypeInv' /\ CompactionExclusive'
    BY <1>2, TypeStep, ExclusiveStep DEF RecoveryInv
  <2>2. Carried' /\ NoOrphans' /\ HeldKeys'
    BY <1>2 DEF RecoveryInv, Carried, PutsCarry, NoOrphans, HeldKeys, ToCopy
  <2>3. SnapshotFresh'
    BY <1>2 DEF RecoveryInv, SnapshotFresh, Scanned, ToCopy
  <2>4. SnapshotExact'
    BY <1>2 DEF RecoveryInv, SnapshotExact, Scanned, ToCopy, PendingOn
  <2>5. \A k : Durable(k)' <=> Durable(k)
    BY <1>2 DEF Durable, PendingOn, RecordOf
  <2>6. LogMatchesMemory'
    BY <1>2, <2>5 DEF RecoveryInv, LogMatchesMemory, Whole
  <2>7. ReplayExact'
    BY <1>2 DEF RecoveryInv, ReplayExact, Whole
  <2> QED BY <2>1, <2>2, <2>3, <2>4, <2>6, <2>7 DEF RecoveryInv
<1> QED BY <1>1, <1>2

\* What a crash recovers is what memory holds, on every key that is not
\* stray, whatever writers, compactions, crashes and disk faults (read errors
\* in Replay among them) interleave: Append before putInternal, Compact's copy
\* and swap, Replay.
THEOREM LogIsMemory == Spec => []LogMatchesMemory
<1>1. RecoveryInv => LogMatchesMemory
  BY DEF RecoveryInv
<1> QED BY <1>1, RecoveryInit, RecoveryStep, PTL DEF Spec

\* Replay's loop computes the closed form of the records it has read, for a
\* log of any length.
THEOREM ReplayComputes == Spec => []ReplayExact
<1>1. RecoveryInv => ReplayExact
  BY DEF RecoveryInv
<1> QED BY <1>1, RecoveryInit, RecoveryStep, PTL DEF Spec

-----------------------------------------------------------------------------
(* The operation count.                                                    *)

\* A log holds at most one record of each key.
Once(s) == \A i, j \in 1..Len(s) : s[i].key = s[j].key => i = j

\* The snapshot under way does.
SnapshotOnce ==
  \A g \in Compactors :
    cpc[g] \in {"scan", "locked", "rename"} => Once(tmp)

\* While Replay reads a whole log, opCount counts the records it has read.
ReplayCounts == phase = "replay" /\ Whole(log) => opCount = rpos - 1

CountInv == RecoveryInv /\ SnapshotOnce /\ ReplayCounts /\ OpCountTracksLog

\* A log that holds at most one record of each key has no more records than
\* there are keys.
LEMMA OnceBounded ==
  ASSUME NEW s \in Seq(Record), Once(s)
  PROVE  Len(s) \in 0..Cardinality(Keys) /\ Cardinality(Keys) \in Nat
<1> DEFINE f == [i \in 1..Len(s) |-> s[i].key]
<1>0. Len(s) \in Nat /\ \A i \in 1..Len(s) : s[i] \in Record
  OBVIOUS
<1>1. Len(s) \in Nat /\ \A i \in 1..Len(s) : s[i].key \in Keys
  BY <1>0 DEF Record
<1>2. f \in Injection(1..Len(s), Keys)
  BY <1>1 DEF Once, Injection, IsInjective
<1>3. /\ IsFiniteSet(1..Len(s))
      /\ Cardinality(1..Len(s)) <= Cardinality(Keys)
  BY <1>2, KeyAssumption, FS_Injection
<1>4. Cardinality(1..Len(s)) = Len(s)
  BY <1>1, FS_Interval
<1> QED BY <1>1, <1>3, <1>4, KeyAssumption, FS_CardinalityType

\* A record of a new key keeps the others apart.
LEMMA OnceAppend ==
  ASSUME NEW s \in Seq(Record), NEW r \in Record, Once(s), On(s, r.key) = {}
  PROVE  Once(Append(s, r))
<1>1. /\ Len(s) \in Nat /\ Len(Append(s, r)) = Len(s) + 1
      /\ \A i \in 1..Len(s) : Append(s, r)[i] = s[i]
      /\ Append(s, r)[Len(s) + 1] = r
  BY AppendFacts
<1>2. \A i \in 1..Len(s) : s[i].key # r.key
  BY DEF On
<1>3. \A i \in 1..Len(s) + 1 : i \in 1..Len(s) \/ i = Len(s) + 1
  BY <1>1
<1> QED BY <1>1, <1>2, <1>3 DEF Once

\* Compact's loops visit every key of every shard once.
LEMMA SnapshotOnceStep ==
  ASSUME CountInv, Next
  PROVE  SnapshotOnce'
<1>1. /\ RecoveryInv /\ tmp \in Seq(Record)
      /\ \A g \in Compactors :
           cpc[g] \in {"scan", "locked", "rename"} => Once(tmp)
  BY DEF CountInv, SnapshotOnce, RecoveryInv, TypeInv, TypeOK
<1>2. CASE \/ \E c \in Clients : Arrive(c) \/ ClientStep(c)
           \/ Tick \/ Crash \/ ReplayStep
  BY <1>1, <1>2, OtherSteps DEF SnapshotOnce
<1>3. ASSUME NEW g \in Compactors, CompactStep(g) PROVE SnapshotOnce'
  <2>1. \A h \in Compactors : h # g => cpc'[h] = "idle"
    BY <1>1, <1>3, AloneStep
  <2>2. CASE CompactOpen(g)
    BY <2>2 DEF CompactOpen, SnapshotOnce, Once
  <2>3. ASSUME NEW k \in Keys, CopyKey(g, k) PROVE SnapshotOnce'
    <3> DEFINE r == SnapshotOf(k)
               t == [SnapshotOf(k) EXCEPT !.torn = TRUE]
    <3>1. cpc' = cpc /\ cpc[g] = "locked" /\ ToCopy(g, k)
      BY <2>3 DEF CopyKey, ToCopy
    <3>2. On(tmp, k) = {} /\ Once(tmp)
      BY <1>1, <3>1 DEF RecoveryInv, SnapshotFresh
    <3>3. mem[k] \in Entry
      BY <1>1 DEF RecoveryInv, TypeInv, TypeOK
    <3>4. r \in Record /\ t \in Record /\ r.key = k /\ t.key = k
      BY <3>3 DEF SnapshotOf, Record, Entry
    <3>5. tmp' \in {tmp, Append(tmp, r), Append(tmp, t)}
      BY <2>3 DEF CopyKey
    <3> HIDE DEF r, t
    <3>6. Once(Append(tmp, r)) /\ Once(Append(tmp, t))
      BY <1>1, <3>2, <3>4, OnceAppend
    <3>7. Once(tmp') BY <3>2, <3>5, <3>6
    <3> QED BY <3>7 DEF SnapshotOnce, Once
  <2>4. CASE \/ LockShard(g) \/ UnlockShard(g)
             \/ CompactRemove(g) \/ CompactRemoveFails(g)
    <3>1. tmp' = tmp /\ cpc[g] \in {"scan", "locked", "rename"}
      BY <2>4 DEF LockShard, UnlockShard, CompactRemove, CompactRemoveFails,
                  fileVars
    <3> QED BY <1>1, <3>1 DEF SnapshotOnce, Once
  <2>5. CASE CompactOpenFails(g) \/ CompactRename(g) \/ CompactSwapFails(g)
    <3>1. cpc'[g] = "idle"
      BY <1>1, <2>5 DEF CompactOpenFails, CompactRename, CompactSwapFails,
                        SwapDone, RecoveryInv, TypeInv, TypeOK
    <3> QED BY <2>1, <3>1 DEF SnapshotOnce
  <2> QED BY <1>3, <2>2, <2>3, <2>4, <2>5 DEF CompactStep
<1> QED BY <1>2, <1>3 DEF Next

\* A step that keeps the log, its count and who holds w.mu keeps both.
LEMMA CountFrame ==
  ASSUME CountInv, UNCHANGED <<phase, rpos, log, opCount, uncounted>>,
         WALLocked => WALLocked'
  PROVE  ReplayCounts' /\ OpCountTracksLog'
BY DEF CountInv, ReplayCounts, OpCountTracksLog, Whole

\* Clients count the records they append.
LEMMA CountClient ==
  ASSUME CountInv, NEW c \in Clients, Arrive(c) \/ ClientStep(c)
  PROVE  ReplayCounts' /\ OpCountTracksLog'
<1>1. /\ RecoveryInv /\ log \in Seq(Record) /\ opCount \in Nat
      /\ Len(log) \in Nat /\ Cardinality(Keys) \in Nat
      /\ uncounted \in Nat
  BY KeyAssumption, FS_CardinalityType
     DEF CountInv, RecoveryInv, TypeInv, TypeOK
<1> USE DEF bootVars, walVars, fileVars, compVars, histVars
<1>2. CASE Arrive(c) \/ Unlogged(c) \/ Apply(c)
  <2>1. UNCHANGED <<phase, rpos, log, opCount, cpc, uncounted>>
    BY <1>2 DEF Arrive, CallPut, CallUpdate, CallDelete, Call, Unlogged, Apply
  <2>2. WALLocked => WALLocked'
    BY <2>1 DEF WALLocked
  <2> QED BY <2>1, <2>2, CountFrame
<1>3. CASE AppendOK(c)
  <2> DEFINE r == RecordOf(op[c])
  <2>1. /\ UNCHANGED <<phase, rpos, uncounted>>
        /\ pc[c] = "append" /\ phase = "up" /\ ~WALLocked
        /\ log' = Append(log, r) /\ opCount' = opCount + 1
    BY <1>3 DEF AppendOK
  <2>2. r \in Record /\ phase = "up"
    BY <1>1, <2>1, RecordOfType
       DEF RecoveryInv, TypeInv, TypeOK, Booting
  <2> HIDE DEF r
  <2>3. Len(log') = Len(log) + 1 /\ (Whole(log') => Whole(log))
    BY <1>1, <2>1, <2>2, AppendFacts, WholeAppend
  <2>4. Whole(log)' => Whole(log)
    BY <2>3 DEF Whole
  <2> QED
    BY <1>1, <2>1, <2>2, <2>3, <2>4
    DEF CountInv, ReplayCounts, OpCountTracksLog
<1>4. CASE AppendFails(c)
  <2> DEFINE t == [RecordOf(op[c]) EXCEPT !.torn = TRUE]
  <2>1. /\ UNCHANGED <<phase, rpos, opCount, cpc, uncounted>>
        /\ pc[c] = "append"
        /\ log' = log \/ log' = Append(log, t)
    BY <1>4 DEF AppendFails
  <2>2. WALLocked => WALLocked'
    BY <2>1 DEF WALLocked
  <2>3. CASE log' = log
    BY <2>1, <2>2, <2>3, CountFrame
  <2>4. CASE log' = Append(log, t)
    <3>1. RecordOf(op[c]) \in Record
      BY <1>1, <2>1, RecordOfType DEF RecoveryInv, TypeInv, TypeOK
    <3>2. t \in Record /\ t.torn = TRUE
      BY <3>1 DEF Record
    <3> HIDE DEF t
    <3>3. ~Whole(log')
      BY <1>1, <2>4, <3>2, WholeAppend
    <3>4. ~Whole(log)'
      BY <3>3 DEF Whole
    <3> QED BY <3>4 DEF ReplayCounts, OpCountTracksLog
  <2> QED BY <2>1, <2>3, <2>4
<1> QED BY <1>2, <1>3, <1>4 DEF ClientStep

\* The swap starts the count again from a file with a record per key at most.
LEMMA CountCompact ==
  ASSUME CountInv, NEW g \in Compactors, CompactStep(g)
  PROVE  ReplayCounts' /\ OpCountTracksLog'
<1>1. /\ RecoveryInv /\ tmp \in Seq(Record) /\ log \in Seq(Record)
      /\ phase = "up" /\ Cardinality(Keys) \in Nat
  BY AloneStep, KeyAssumption, FS_CardinalityType
     DEF CountInv, RecoveryInv, TypeInv, TypeOK
<1> USE DEF bootVars, walVars, fileVars, compVars, histVars
<1>2. CASE \/ CompactOpen(g) \/ CompactOpenFails(g) \/ LockShard(g)
           \/ UnlockShard(g) \/ \E k \in Keys : CopyKey(g, k)
  <2>1. UNCHANGED <<phase, rpos, log, opCount, uncounted>> /\ cpc[g] # "rename"
    BY <1>2 DEF CompactOpen, CompactOpenFails, LockShard, UnlockShard,
                CopyKey
  <2>2. ~WALLocked
    BY <1>1, <2>1, AloneStep DEF WALLocked
  <2> QED BY <2>1, <2>2, CountFrame
<1>3. CASE CompactRemove(g) \/ CompactRemoveFails(g)
  <2>1. UNCHANGED <<phase, rpos>> /\ cpc'[g] = "rename"
    BY <1>3, <1>1 DEF CompactRemove, CompactRemoveFails, RecoveryInv, TypeInv,
                      TypeOK
  <2>2. WALLocked'
    BY <2>1 DEF WALLocked
  <2> QED BY <1>1, <2>1, <2>2 DEF ReplayCounts, OpCountTracksLog
<1>4. CASE CompactRename(g) \/ CompactSwapFails(g)
  <2>1. /\ UNCHANGED <<phase, rpos>> /\ opCount' = 0 /\ cpc[g] = "rename"
        /\ \/ log' = tmp /\ uncounted' = 0
           \/ log' = log /\ uncounted' = Len(log)
    BY <1>4 DEF CompactRename, CompactSwapFails, SwapDone
  <2>2. Len(tmp) \in 0..Cardinality(Keys) /\ Len(log) \in Nat
    BY <1>1, <2>1, OnceBounded DEF CountInv, SnapshotOnce
  <2>3. /\ Len(log') \in Nat /\ uncounted' \in Nat
        /\ Len(log') <= uncounted' + Cardinality(Keys)
    BY <1>1, <2>1, <2>2
  <2>4. /\ opCount' <= Len(log)'
        /\ Len(log)' <= opCount' + uncounted' + Cardinality(Keys)
    BY <1>1, <2>1, <2>3
  <2> QED BY <1>1, <2>1, <2>4 DEF ReplayCounts, OpCountTracksLog
<1> QED BY <1>2, <1>3, <1>4 DEF CompactStep

\* Crashes, restarts and the clock.
LEMMA CountBoot ==
  ASSUME CountInv, Tick \/ Crash \/ ReplayStep
  PROVE  ReplayCounts' /\ OpCountTracksLog'
<1>1. /\ RecoveryInv /\ log \in Seq(Record) /\ opCount \in Nat
      /\ Len(log) \in Nat /\ Cardinality(Keys) \in Nat
      /\ rpos \in 1..Len(log) + 1 /\ uncounted \in Nat
  BY KeyAssumption, FS_CardinalityType
     DEF CountInv, RecoveryInv, TypeInv, TypeOK
<1> USE DEF bootVars, walVars, fileVars, compVars, histVars
<1>2. CASE Tick
  <2>1. UNCHANGED <<phase, rpos, log, opCount, cpc, uncounted>>
    BY <1>2 DEF Tick
  <2>2. WALLocked => WALLocked'
    BY <2>1 DEF WALLocked
  <2> QED BY <2>1, <2>2, CountFrame
<1>3. CASE Crash
  BY <1>3 DEF Crash, ReplayCounts, OpCountTracksLog
<1>4. CASE ReplayRecord
  BY <1>1, <1>4 DEF ReplayRecord, ReplayUnchanged, ReplayCounts, CountInv,
                    OpCountTracksLog, Whole
<1>5. CASE ReplayEnds
  <2>1. /\ log' = log /\ phase' = "up" /\ phase = "replay"
        /\ opCount' = opCount /\ uncounted' = uncounted /\ ~NextIsWhole
    BY <1>5 DEF ReplayEnds, ReplayUnchanged
  <2>2. Whole(log) => rpos = Len(log) + 1
    BY <1>1, <2>1 DEF NextIsWhole, Whole
  <2>3. Whole(log) => opCount = Len(log)
    BY <1>1, <2>1, <2>2 DEF CountInv, ReplayCounts
  <2>4. Whole(log)' <=> Whole(log)
    BY <2>1 DEF Whole
  <2> QED BY <1>1, <2>1, <2>3, <2>4 DEF ReplayCounts, OpCountTracksLog
<1>6. CASE ReplayMisreads
  <2>1. log' = log /\ rpos < Len(log) /\ log[rpos].torn
    BY <1>6 DEF ReplayMisreads, ReplayUnchanged
  <2>2. ~Whole(log)'
    BY <1>1, <2>1 DEF Whole
  <2> QED BY <2>2 DEF ReplayCounts, OpCountTracksLog
<1>7. CASE ReplayFails
  <2>1. /\ log' = log /\ phase' = "up" /\ phase = "replay"
        /\ opCount' = opCount /\ uncounted' = Len(log) - (rpos - 1)
    BY <1>7 DEF ReplayFails, ReplayUnchanged
  <2>2. Whole(log) => opCount = rpos - 1
    BY <2>1 DEF CountInv, ReplayCounts
  <2>3. Whole(log)' <=> Whole(log)
    BY <2>1 DEF Whole
  <2>4. Whole(log) => /\ opCount' <= Len(log)'
                      /\ Len(log)' <= opCount' + uncounted' + Cardinality(Keys)
    BY <1>1, <2>1, <2>2
  <2> QED BY <2>1, <2>3, <2>4 DEF ReplayCounts, OpCountTracksLog
<1>8. CASE NewWALFails
  BY <1>8 DEF NewWALFails, ReplayCounts, OpCountTracksLog
<1> QED BY <1>2, <1>3, <1>4, <1>5, <1>6, <1>7, <1>8 DEF ReplayStep

LEMMA CountStep == CountInv /\ [Next]_vars => CountInv'
<1> SUFFICES ASSUME CountInv, [Next]_vars PROVE CountInv'
  OBVIOUS
<1>1. RecoveryInv'
  BY RecoveryStep DEF CountInv
<1>2. CASE Next
  BY <1>1, <1>2, SnapshotOnceStep, CountClient, CountCompact, CountBoot
  DEF Next, CountInv
<1>3. CASE UNCHANGED vars
  <2>1. UNCHANGED <<phase, rpos, log, opCount, cpc, tmp, uncounted>>
    BY <1>3 DEF vars, bootVars, fileVars, walVars, compVars, histVars
  <2>2. WALLocked => WALLocked'
    BY <2>1 DEF WALLocked
  <2>3. SnapshotOnce'
    BY <2>1 DEF CountInv, SnapshotOnce, Once
  <2> QED BY <1>1, <2>1, <2>2, <2>3, CountFrame DEF CountInv
<1> QED BY <1>2, <1>3

\* The log never has more records than the operation count, one of each key,
\* and those that a replay cut short or a failed swap left uncounted, however
\* appends, compactions, crashes, restarts and disk faults interleave.
THEOREM CountTracksLog == Spec => []OpCountTracksLog
<1>1. Init => CountInv
  BY RecoveryInit
  DEF Init, CountInv, SnapshotOnce, ReplayCounts, OpCountTracksLog
<1>2. CountInv => OpCountTracksLog
  BY DEF CountInv
<1> QED BY <1>1, <1>2, CountStep, PTL DEF Spec

=============================================================================
