-------------------------- MODULE StorageWALProofs --------------------------
(***************************************************************************)
(* Proofs about StorageWAL, for every value of its constants.              *)
(***************************************************************************)
EXTENDS StorageWAL, SequenceTheorems, WellFoundedInduction, TLAPS

\* Every put in s carries a value.
PutsCarry(s) == \A i \in 1..Len(s) : s[i].op = "put" => s[i].val # NoVal

\* An entry without a value has no expiry either.
NoOrphan(e) == e.val = NoVal => e.exp = 0

-----------------------------------------------------------------------------
(* The greatest index of a set of indices.                                 *)

\* A set of natural numbers has a least element.
LEMMA NatMin ==
  ASSUME NEW T, T \subseteq Nat, T # {}
  PROVE  \E m \in T : \A y \in T : m <= y
<1> DEFINE R == {p \in Nat \X Nat : p[1] < p[2]}
<1>1. IsWellFoundedOn(R, Nat)
  BY NatLessThanWellFounded DEF OpToRel
<1> HIDE DEF R
<1>2. PICK m \in T : \A y \in T : <<y, m>> \notin R
  BY <1>1, WFMin
<1>3. \A y \in T : ~(y < m)
  BY <1>2 DEF R
<1> QED BY <1>3

\* A nonempty set of indices up to n has a greatest element.
LEMMA HasLatest ==
  ASSUME NEW n \in Nat, NEW I, I \subseteq 1..n, I # {}
  PROVE  \E i \in I : \A j \in I : j <= i
<1> DEFINE T == {m \in 0..n : n - m \in I}
<1>1. ASSUME NEW i \in I PROVE n - i \in T
  <2>1. i \in 1..n OBVIOUS
  <2>2. n - i \in 0..n /\ n - (n - i) = i BY <2>1
  <2> QED BY <2>2
<1>2. T \subseteq Nat OBVIOUS
<1>3. T # {}
  <2>1. PICK i \in I : TRUE OBVIOUS
  <2> HIDE DEF T
  <2> QED BY <1>1, <2>1
<1>4. PICK m \in T : \A y \in T : m <= y
  <2> HIDE DEF T
  <2> QED BY <1>2, <1>3, NatMin
<1>5. n - m \in I /\ m \in 0..n
  OBVIOUS
<1>6. ASSUME NEW j \in I PROVE j <= n - m
  <2>1. j \in 1..n OBVIOUS
  <2> HIDE DEF T
  <2>2. m <= n - j BY <1>1, <1>4
  <2> QED BY <2>1, <2>2, <1>5
<1> HIDE DEF T
<1> QED BY <1>5, <1>6

\* Latest picks that element.
LEMMA LatestIn ==
  ASSUME NEW n \in Nat, NEW I, I \subseteq 1..n, I # {}
  PROVE  Latest(I) \in I /\ \A j \in I : j <= Latest(I)
BY HasLatest DEF Latest

\* And no other element is the greatest.
LEMMA LatestIs ==
  ASSUME NEW n \in Nat, NEW I, I \subseteq 1..n,
         NEW i \in I, \A j \in I : j <= i
  PROVE  Latest(I) = i
<1>1. Latest(I) \in I /\ \A j \in I : j <= Latest(I)
  BY LatestIn
<1>2. Latest(I) <= i /\ i <= Latest(I)
  BY <1>1
<1>3. Latest(I) \in 1..n /\ i \in 1..n
  BY <1>1
<1> QED BY <1>2, <1>3

-----------------------------------------------------------------------------
(* One more record.                                                        *)

\* Appending keeps the records that are there.
LEMMA AppendFacts ==
  ASSUME NEW s \in Seq(Record), NEW r \in Record
  PROVE  /\ Append(s, r) \in Seq(Record)
         /\ Len(s) \in Nat /\ Len(Append(s, r)) = Len(s) + 1
         /\ \A i \in 1..Len(s) : Append(s, r)[i] = s[i] /\ s[i] \in Record
         /\ Append(s, r)[Len(s) + 1] = r
OBVIOUS

\* The indices of a key's records, and of those that decide its expiry, grow
\* by the new record's or not at all.
LEMMA IndicesOfAppend ==
  ASSUME NEW s \in Seq(Record), NEW r \in Record, NEW k
  PROVE  /\ On(s, k) \subseteq 1..Len(s) /\ Decisive(s, k) \subseteq On(s, k)
         /\ r.key # k => /\ On(Append(s, r), k) = On(s, k)
                         /\ Decisive(Append(s, r), k) = Decisive(s, k)
         /\ r.key = k => On(Append(s, r), k) = On(s, k) \cup {Len(s) + 1}
         /\ r.key = k /\ (r.op = "del" \/ r.ttl > 0) =>
              Decisive(Append(s, r), k) = Decisive(s, k) \cup {Len(s) + 1}
         /\ r.key = k /\ ~(r.op = "del" \/ r.ttl > 0) =>
              Decisive(Append(s, r), k) = Decisive(s, k)
<1> DEFINE t == Append(s, r)
           n == Len(s)
<1>1. /\ n \in Nat /\ Len(t) = n + 1 /\ t[n + 1] = r
      /\ \A i \in 1..n : t[i] = s[i]
  BY AppendFacts
<1> HIDE DEF t, n
<1>2. 1..Len(t) = 1..n \cup {n + 1} /\ n + 1 \notin 1..n
  BY <1>1
<1>3. n = Len(s) /\ t = Append(s, r)
  BY DEF n, t
<1>4. On(s, k) \subseteq 1..n /\ Decisive(s, k) \subseteq On(s, k)
  BY <1>3 DEF On, Decisive
<1>5. /\ r.key # k => On(t, k) = On(s, k)
      /\ r.key = k => On(t, k) = On(s, k) \cup {n + 1}
  BY <1>1, <1>2, <1>3 DEF On
<1>6. /\ r.key # k => Decisive(t, k) = Decisive(s, k)
      /\ r.key = k /\ (r.op = "del" \/ r.ttl > 0) =>
           Decisive(t, k) = Decisive(s, k) \cup {n + 1}
      /\ r.key = k /\ ~(r.op = "del" \/ r.ttl > 0) =>
           Decisive(t, k) = Decisive(s, k)
  BY <1>1, <1>2, <1>4, <1>5 DEF Decisive
<1> QED BY <1>3, <1>4, <1>5, <1>6

\* A record on another key changes nothing of what a key is recovered to.
LEMMA RecoveredOther ==
  ASSUME NEW s \in Seq(Record), NEW r \in Record, NEW k, r.key # k
  PROVE  Recovered(Append(s, r), k) = Recovered(s, k)
<1>1. /\ On(Append(s, r), k) = On(s, k)
      /\ Decisive(Append(s, r), k) = Decisive(s, k)
      /\ On(s, k) \subseteq 1..Len(s) /\ Decisive(s, k) \subseteq On(s, k)
  BY IndicesOfAppend
<1>2. Len(s) \in Nat /\ \A i \in 1..Len(s) : Append(s, r)[i] = s[i]
  BY AppendFacts
<1>3. RecoveredVal(Append(s, r), k) = RecoveredVal(s, k)
  <2>1. CASE On(s, k) = {} BY <1>1, <2>1 DEF RecoveredVal
  <2>2. CASE On(s, k) # {}
    <3>1. Latest(On(s, k)) \in 1..Len(s) BY <1>1, <1>2, <2>2, LatestIn
    <3> QED BY <1>1, <1>2, <2>2, <3>1 DEF RecoveredVal
  <2> QED BY <2>1, <2>2
<1>4. RecoveredExp(Append(s, r), k) = RecoveredExp(s, k)
  <2>1. CASE Decisive(s, k) = {} BY <1>1, <2>1 DEF RecoveredExp
  <2>2. CASE Decisive(s, k) # {}
    <3>1. Latest(Decisive(s, k)) \in 1..Len(s)
      BY <1>1, <1>2, <2>2, LatestIn, Decisive(s, k) \subseteq 1..Len(s)
    <3> QED BY <1>1, <1>2, <2>2, <3>1 DEF RecoveredExp
  <2> QED BY <2>1, <2>2
<1> QED BY <1>3, <1>4 DEF Recovered

\* A record on the key gives it the record's value, and the record's expiry
\* unless the record is a put without one.
LEMMA RecoveredSame ==
  ASSUME NEW s \in Seq(Record), NEW r \in Record, NEW k, r.key = k
  PROVE  /\ RecoveredVal(Append(s, r), k) =
              IF r.op = "del" THEN NoVal ELSE r.val
         /\ RecoveredExp(Append(s, r), k) =
              IF r.op = "del" THEN 0
              ELSE IF r.ttl > 0 THEN r.ttl ELSE RecoveredExp(s, k)
<1> DEFINE t == Append(s, r)
           n == Len(s)
<1>1. /\ n \in Nat /\ t[n + 1] = r
      /\ \A i \in 1..n : t[i] = s[i]
  BY AppendFacts
<1>2. /\ On(s, k) \subseteq 1..n /\ Decisive(s, k) \subseteq 1..n
      /\ On(t, k) = On(s, k) \cup {n + 1}
      /\ r.op = "del" \/ r.ttl > 0 =>
           Decisive(t, k) = Decisive(s, k) \cup {n + 1}
      /\ ~(r.op = "del" \/ r.ttl > 0) => Decisive(t, k) = Decisive(s, k)
  BY IndicesOfAppend
<1> HIDE DEF t, n
<1>3. \A I : I \subseteq 1..n => Latest(I \cup {n + 1}) = n + 1
  <2> SUFFICES ASSUME NEW I, I \subseteq 1..n
               PROVE  Latest(I \cup {n + 1}) = n + 1
    OBVIOUS
  <2>1. I \cup {n + 1} \subseteq 1..(n + 1) /\ n + 1 \in Nat BY <1>1
  <2>2. \A j \in I \cup {n + 1} : j <= n + 1 BY <2>1, <1>1
  <2> QED BY <2>1, <2>2, LatestIs
<1>4. RecoveredVal(t, k) = IF r.op = "del" THEN NoVal ELSE r.val
  BY <1>1, <1>2, <1>3 DEF RecoveredVal
<1>5. ASSUME r.op = "del" \/ r.ttl > 0
      PROVE  RecoveredExp(t, k) = IF r.op = "del" THEN 0 ELSE r.ttl
  BY <1>1, <1>2, <1>3, <1>5 DEF RecoveredExp
<1>6. ASSUME ~(r.op = "del" \/ r.ttl > 0)
      PROVE  RecoveredExp(t, k) = RecoveredExp(s, k)
  <2>1. Decisive(t, k) = Decisive(s, k) BY <1>2, <1>6
  <2>2. CASE Decisive(s, k) = {} BY <2>1, <2>2 DEF RecoveredExp
  <2>3. CASE Decisive(s, k) # {}
    <3>1. Latest(Decisive(s, k)) \in 1..n BY <1>1, <1>2, <2>3, LatestIn
    <3> QED BY <1>1, <2>1, <2>3, <3>1 DEF RecoveredExp
  <2> QED BY <2>2, <2>3
<1> QED BY <1>4, <1>5, <1>6 DEF t

\* The replay of a log of puts that carry values leaves no orphaned expiry.
LEMMA RecoveredNoOrphan ==
  ASSUME NEW s \in Seq(Record), PutsCarry(s), NEW k
  PROVE  NoOrphan(Recovered(s, k))
<1>1. /\ Len(s) \in Nat /\ On(s, k) \subseteq 1..Len(s)
      /\ Decisive(s, k) \subseteq On(s, k)
      /\ \A i \in 1..Len(s) : s[i] \in Record
  BY DEF On, Decisive
<1> SUFFICES ASSUME RecoveredVal(s, k) = NoVal PROVE RecoveredExp(s, k) = 0
  BY DEF NoOrphan, Recovered
<1>2. CASE On(s, k) = {}
  BY <1>1, <1>2 DEF RecoveredExp
<1>3. CASE On(s, k) # {}
  <2> DEFINE i == Latest(On(s, k))
  <2>1. i \in On(s, k) /\ \A j \in On(s, k) : j <= i
    BY <1>1, <1>3, LatestIn
  <2>2. s[i].op = "del"
    <3> HIDE DEF i
    <3>1. s[i] \in Record /\ (s[i].op = "put" => s[i].val # NoVal)
      BY <1>1, <2>1 DEF PutsCarry
    <3>2. s[i].op # "del" => s[i].val = NoVal
      BY <1>3 DEF RecoveredVal, i
    <3> QED BY <3>1, <3>2 DEF Record
  <2> HIDE DEF i
  <2>3. i \in Decisive(s, k) BY <2>1, <2>2 DEF Decisive
  <2>4. Latest(Decisive(s, k)) = i
    BY <1>1, <2>1, <2>3, LatestIs, Decisive(s, k) \subseteq 1..Len(s)
  <2> QED BY <2>2, <2>3, <2>4 DEF RecoveredExp
<1> QED BY <1>2, <1>3

\* Replay's loop body computes the closed form one record at a time.
LEMMA RecoveredAppend ==
  ASSUME NEW s \in Seq(Record), NEW r \in Record, PutsCarry(s), NEW k
  PROVE  Recovered(Append(s, r), k) =
           IF r.key = k THEN Effect(Recovered(s, k), r) ELSE Recovered(s, k)
<1>1. CASE r.key # k BY <1>1, RecoveredOther
<1>2. CASE r.key = k
  <2>1. /\ RecoveredVal(Append(s, r), k) =
             IF r.op = "del" THEN NoVal ELSE r.val
        /\ RecoveredExp(Append(s, r), k) =
             IF r.op = "del" THEN 0
             ELSE IF r.ttl > 0 THEN r.ttl ELSE RecoveredExp(s, k)
    BY <1>2, RecoveredSame
  <2>2. RecoveredVal(s, k) = NoVal => RecoveredExp(s, k) = 0
    BY RecoveredNoOrphan DEF NoOrphan, Recovered
  <2>3. r.op \in {"put", "del"} BY DEF Record
  <2> QED
    BY <1>2, <2>1, <2>2, <2>3
    DEF Recovered, Effect, putInternal, deleteInternal, NoEntry
<1> QED BY <1>1, <1>2

-----------------------------------------------------------------------------
(* The types.                                                              *)

\* While Replay runs, main has started no request; without a log there is no
\* compaction.
Booting ==
  /\ phase = "replay" => \A c \in Clients : pc[c] = "idle"
  /\ phase # "up" => \A g \in Compactors : cpc[g] = "idle"

TypeInv == TypeOK /\ Booting

-----------------------------------------------------------------------------
(* Types of the operators.                                                 *)

\* Applying a record to an entry yields an entry.
LEMMA EffectType ==
  ASSUME NEW e \in Entry, NEW r \in Record
  PROVE  Effect(e, r) \in Entry
BY DEF Effect, putInternal, deleteInternal, Entry, NoEntry, Record

\* What Append writes for a request is a record.
LEMMA RecordOfType ==
  ASSUME NEW o \in Request
  PROVE  RecordOf(o) \in Record
BY DEF RecordOf, Request, Record, Stored

\* A prefix of a log, torn in its last record or not, is a log.
LEMMA PrefixType ==
  ASSUME NEW s \in Seq(Record), NEW n \in 0..Len(s)
  PROVE  /\ SubSeq(s, 1, n) \in Seq(Record)
         /\ Len(SubSeq(s, 1, n)) = n
         /\ \A i \in 1..n : SubSeq(s, 1, n)[i] = s[i]
         /\ n < Len(s) =>
              /\ s[n + 1] \in Record
              /\ [s[n + 1] EXCEPT !.torn = TRUE] \in Record
<1>1. Len(s) \in Nat /\ n \in Nat
  OBVIOUS
<1>2. /\ SubSeq(s, 1, n) \in Seq(Record)
      /\ Len(SubSeq(s, 1, n)) = n
      /\ \A i \in 1..n : SubSeq(s, 1, n)[i] = s[i]
  BY <1>1, SubSeqProperties
<1>3. ASSUME n < Len(s)
      PROVE  s[n + 1] \in Record /\ [s[n + 1] EXCEPT !.torn = TRUE] \in Record
  <2>1. s[n + 1] \in Record BY <1>1, <1>3
  <2> QED BY <2>1 DEF Record
<1> QED BY <1>2, <1>3

-----------------------------------------------------------------------------
(* Type correctness.                                                       *)

\* A start on an empty directory is well typed.
LEMMA TypeInit == Init => TypeInv
<1> SUFFICES ASSUME Init PROVE TypeInv
  OBVIOUS
<1>1. mem \in [Keys -> Entry]
  BY DEF Init, NoEntry, Entry
<1>2. /\ log \in Seq(Record) /\ tmp \in Seq(Record) /\ Len(log) = 0
  BY DEF Init
<1>3. cshard \in [Compactors -> 1..NShards + 1]
  BY ShardAssumption DEF Init
<1>4. synced \in 0..Len(log) /\ rpos \in 1..Len(log) + 1
  BY <1>2 DEF Init
<1>5. /\ pc \in [Clients -> {"idle"}] /\ op \in [Clients -> {NoOp}]
      /\ cpc \in [Compactors -> {"idle"}]
      /\ ckeys \in [Compactors -> {{}}]
  BY DEF Init
<1>6. TypeOK
  BY <1>1, <1>2, <1>3, <1>4, <1>5 DEF Init, TypeOK
<1> QED
  BY <1>5, <1>6 DEF TypeInv, Booting

\* Client steps keep the types.
LEMMA TypeClient ==
  ASSUME TypeInv, NEW c \in Clients, Arrive(c) \/ ClientStep(c)
  PROVE  TypeInv'
<1> USE DEF TypeInv, TypeOK, Booting, memVars, fileVars, walVars, cliVars,
            compVars, bootVars, boundVars, histVars
<1>1. ASSUME NEW o \in Request, Call(c, o) PROVE TypeInv'
  BY <1>1 DEF Call
<1>2. CASE Arrive(c)
  <2>1. ASSUME NEW k \in Keys, NEW v \in Values, NEW t \in TTLs,
               CallPut(c, k, v, t)
        PROVE  TypeInv'
    <3> DEFINE o == [kind |-> "put", key |-> k, val |-> v,
                     ttl |-> IF t > 0 THEN now + t ELSE 0]
    <3>1. o \in Request BY DataAssumption DEF Request
    <3> QED BY <1>1, <2>1, <3>1 DEF CallPut
  <2>2. ASSUME NEW k \in Keys, NEW v \in Values, CallUpdate(c, k, v)
        PROVE  TypeInv'
    <3> DEFINE o == [kind |-> "update", key |-> k, val |-> v, ttl |-> 0]
    <3>1. o \in Request BY DEF Request
    <3> QED BY <1>1, <2>2, <3>1 DEF CallUpdate
  <2>3. ASSUME NEW k \in Keys, CallDelete(c, k) PROVE TypeInv'
    <3> DEFINE o == [kind |-> "delete", key |-> k, val |-> NoVal, ttl |-> 0]
    <3>1. o \in Request BY DEF Request
    <3> QED BY <1>1, <2>3, <3>1 DEF CallDelete
  <2> QED BY <1>2, <2>1, <2>2, <2>3 DEF Arrive
<1>3. CASE AppendOK(c)
  <2>1. op[c] \in Request /\ phase = "up"
    BY <1>3 DEF AppendOK
  <2>2. RecordOf(op[c]) \in Record /\ RecordOf(op[c]).key \in Keys
    BY <2>1, RecordOfType DEF Record
  <2>3. log' \in Seq(Record) /\ Len(log') = Len(log) + 1
    BY <1>3, <2>2, AppendFacts DEF AppendOK
  <2>4. cpc' \in [Compactors -> {"idle", "open", "scan", "locked", "rename"}]
        /\ compacting' \in BOOLEAN
    BY <1>3 DEF AppendOK
  <2>5. \A g \in Compactors : cpc'[g] = "locked" => cshard'[g] <= NShards
    BY <1>3 DEF AppendOK
  <2>6. skipped' \subseteq Keys /\ stray' \subseteq Keys
    BY <1>3, <2>2 DEF AppendOK
  <2>7. pc' \in [Clients -> {"idle", "append", "apply"}]
        /\ \A d \in Clients : pc'[d] # "idle" => op'[d] \in Request
    BY <1>3 DEF AppendOK
  <2> QED
    BY <1>3, <2>1, <2>3, <2>4, <2>5, <2>6, <2>7 DEF AppendOK
<1>4. CASE AppendFails(c)
  <2>1. op[c] \in Request /\ phase = "up"
    BY <1>4 DEF AppendFails
  <2>2. [RecordOf(op[c]) EXCEPT !.torn = TRUE] \in Record
    BY <2>1, RecordOfType DEF Record
  <2>3. \/ log' = log
        \/ log' = Append(log, [RecordOf(op[c]) EXCEPT !.torn = TRUE])
    BY <1>4 DEF AppendFails
  <2>4. log' \in Seq(Record) /\ Len(log) <= Len(log')
    <3>1. CASE log' = log BY <3>1
    <3>2. CASE log' = Append(log, [RecordOf(op[c]) EXCEPT !.torn = TRUE])
      BY <2>2, <3>2, AppendFacts
    <3> QED BY <2>3, <3>1, <3>2
  <2>5. pc' \in [Clients -> {"idle", "append", "apply"}]
        /\ op' \in [Clients -> Request \cup {NoOp}]
        /\ \A d \in Clients : pc'[d] # "idle" => op'[d] \in Request
    BY <1>4 DEF AppendFails
  <2> QED BY <1>4, <2>1, <2>4, <2>5 DEF AppendFails
<1>5. CASE Apply(c)
  <2>1. op[c] \in Request /\ phase # "replay"
    BY <1>5 DEF Apply
  <2>2. RecordOf(op[c]) \in Record /\ op[c].key \in Keys
    BY <2>1, RecordOfType DEF Request
  <2>3. mem' \in [Keys -> Entry]
    BY <1>5, <2>2, EffectType DEF Apply
  <2>4. pc' \in [Clients -> {"idle", "append", "apply"}]
        /\ op' \in [Clients -> Request \cup {NoOp}]
        /\ \A d \in Clients : pc'[d] # "idle" => op'[d] \in Request
    BY <1>5 DEF Apply
  <2> QED BY <1>5, <2>1, <2>3, <2>4 DEF Apply
<1>6. CASE Unlogged(c)
  <2>1. pc' \in [Clients -> {"idle", "append", "apply"}]
        /\ \A d \in Clients : pc'[d] # "idle" => pc[d] # "idle"
    BY <1>6 DEF Unlogged
  <2> QED BY <1>6, <2>1 DEF Unlogged
<1> QED BY <1>2, <1>3, <1>4, <1>5, <1>6 DEF ClientStep

\* So do the steps of a compaction.
LEMMA TypeCompact ==
  ASSUME TypeInv, NEW g \in Compactors, CompactStep(g)
  PROVE  TypeInv'
<1> USE DEF TypeInv, TypeOK, Booting, memVars, fileVars, walVars, cliVars,
            compVars, bootVars, boundVars, histVars
<1>1. phase = "up"
  BY DEF CompactStep, CompactOpen, CompactOpenFails, LockShard, UnlockShard,
         CopyKey, CompactRemove, CompactRemoveFails, CompactRename,
         CompactSwapFails, SwapDone
<1>2. CASE CompactOpen(g)
  <2>1. 1 \in 1..NShards + 1 BY ShardAssumption
  <2>2. tmp' \in Seq(Record) BY <1>2 DEF CompactOpen
  <2> QED BY <1>1, <1>2, <2>1, <2>2 DEF CompactOpen
<1>3. CASE CompactOpenFails(g)
  <2>1. cpc' = [cpc EXCEPT ![g] = "idle"]
    BY <1>3 DEF CompactOpenFails
  <2>2. /\ cpc' \in [Compactors -> {"idle", "open", "scan", "locked", "rename"}]
        /\ \A h \in Compactors : cpc'[h] = "locked" => cpc[h] = "locked"
    BY <2>1
  <2>3. faults' = faults + 1 /\ compacting' = FALSE
    BY <1>3 DEF CompactOpenFails
  <2>4. faults' \in Nat
    BY <2>3
  <2>5. compacting' \in BOOLEAN
    BY <2>3
  <2> QED BY <1>1, <1>3, <2>2, <2>4, <2>5 DEF CompactOpenFails
<1>4. CASE LockShard(g)
  BY <1>1, <1>4 DEF LockShard, MoreShards
<1>5. CASE UnlockShard(g)
  <2>1. cshard[g] + 1 \in 1..NShards + 1
    BY <1>5, ShardAssumption DEF UnlockShard
  <2> QED BY <1>1, <1>5, <2>1 DEF UnlockShard
<1>6. ASSUME NEW k \in Keys, CopyKey(g, k) PROVE TypeInv'
  <2>1. /\ SnapshotOf(k) \in Record
        /\ [SnapshotOf(k) EXCEPT !.torn = TRUE] \in Record
    BY DEF SnapshotOf, Record, Entry
  <2>2. tmp' \in {tmp, Append(tmp, SnapshotOf(k)),
                  Append(tmp, [SnapshotOf(k) EXCEPT !.torn = TRUE])}
    BY <1>6 DEF CopyKey
  <2>3. tmp' \in Seq(Record)
    <3>1. CASE tmp' = tmp BY <3>1
    <3>2. CASE tmp' = Append(tmp, SnapshotOf(k))
      BY <2>1, <3>2, AppendFacts
    <3>3. CASE tmp' = Append(tmp, [SnapshotOf(k) EXCEPT !.torn = TRUE])
      BY <2>1, <3>3, AppendFacts
    <3> QED BY <2>2, <3>1, <3>2, <3>3
  <2>4. faults' \in Nat /\ skipped' \subseteq Keys
        /\ ckeys' \in [Compactors -> SUBSET Keys]
    BY <1>6 DEF CopyKey
  <2> QED BY <1>1, <1>6, <2>3, <2>4 DEF CopyKey
<1>7. CASE CompactRemove(g)
  <2>1. /\ log' \in Seq(Record) /\ Len(log') = 0
        /\ synced' \in 0..Len(log') /\ 1 \in 1..Len(log') + 1
        /\ cpc' \in [Compactors -> {"idle", "open", "scan", "locked", "rename"}]
        /\ \A h \in Compactors : cpc'[h] = "locked" => cpc[h] = "locked"
        /\ walOpen' = FALSE /\ stray' = Keys
    BY <1>7 DEF CompactRemove
  <2> QED BY <1>1, <1>7, <2>1 DEF CompactRemove
<1>8. CASE CompactRename(g) \/ CompactSwapFails(g)
  <2>1. SwapDone(g)
    BY <1>8 DEF CompactRename, CompactSwapFails
  <2>2. /\ \/ log' = tmp /\ (synced' = Len(tmp) \/ synced' = 0)
           \/ log' = log /\ synced' = synced
        /\ tmp' = <<>> \/ tmp' = tmp
        /\ walOpen' \in BOOLEAN
        /\ stray' = skipped \/ stray' = stray
        /\ uncounted' = 0 \/ uncounted' = Len(log)
        /\ faults' = faults \/ faults' = faults + 1
    <3>1. CASE CompactRename(g) BY <3>1 DEF CompactRename
    <3>2. CASE CompactSwapFails(g) BY <3>2 DEF CompactSwapFails
    <3> QED BY <1>8, <3>1, <3>2
  <2>3. /\ log' \in Seq(Record) /\ tmp' \in Seq(Record)
        /\ synced' \in 0..Len(log') /\ 1 \in 1..Len(log') + 1
    <3>1. <<>> \in Seq(Record) /\ Len(tmp) \in Nat
      OBVIOUS
    <3>2. log' \in Seq(Record) BY <2>2
    <3>3. tmp' \in Seq(Record) BY <2>2, <3>1
    <3>4. synced' \in 0..Len(log')
      <4>1. CASE log' = tmp /\ (synced' = Len(tmp) \/ synced' = 0)
        BY <3>1, <4>1
      <4>2. CASE log' = log /\ synced' = synced
        BY <4>2
      <4> QED BY <2>2, <4>1, <4>2
    <3>5. Len(log') \in Nat BY <3>2
    <3>6. \A n \in Nat : 1 \in 1..n + 1 OBVIOUS
    <3> QED BY <3>2, <3>3, <3>4, <3>5, <3>6
  <2>6. stray' \subseteq Keys BY <2>2
  <2>7. faults' \in Nat BY <2>2
  <2>8. uncounted' \in Nat
    <3>1. Len(log) \in Nat OBVIOUS
    <3> QED BY <2>2, <3>1
  <2>4. 1 \in 1..NShards + 1 BY ShardAssumption
  <2>5. /\ cpc' \in [Compactors -> {"idle", "open", "scan", "locked", "rename"}]
        /\ \A h \in Compactors : cpc'[h] = "locked" => h # g /\ cpc[h] = "locked"
        /\ cshard' \in [Compactors -> 1..NShards + 1]
        /\ \A h \in Compactors : h # g => cshard'[h] = cshard[h]
    BY <2>1, <2>4 DEF SwapDone
  <2> QED BY <1>1, <2>1, <2>2, <2>3, <2>5, <2>6, <2>7, <2>8 DEF SwapDone
<1>9. CASE CompactRemoveFails(g)
  <2>1. /\ cpc' \in [Compactors -> {"idle", "open", "scan", "locked", "rename"}]
        /\ \A h \in Compactors : cpc'[h] = "locked" => cpc[h] = "locked"
        /\ walOpen' = FALSE /\ faults' \in Nat
    BY <1>9 DEF CompactRemoveFails
  <2> QED BY <1>1, <1>9, <2>1 DEF CompactRemoveFails
<1> QED
  BY <1>2, <1>3, <1>4, <1>5, <1>6, <1>7, <1>8, <1>9 DEF CompactStep

\* And those of the clock, of a crash and of Replay.
LEMMA TypeBoot ==
  ASSUME TypeInv, Tick \/ Crash \/ ReplayStep
  PROVE  TypeInv'
<1> USE DEF TypeInv, TypeOK, Booting, memVars, fileVars, walVars, cliVars,
            compVars, bootVars, boundVars, histVars
<1>1. CASE Tick
  BY <1>1 DEF Tick
<1>2. CASE Crash
  <2>1. \/ log' = log /\ synced' = synced
        \/ /\ synced' = Len(log')
           /\ \E n \in synced..Len(log) :
                \/ log' = SubSeq(log, 1, n)
                \/ /\ n < Len(log)
                   /\ log' = Append(SubSeq(log, 1, n),
                                    [log[n + 1] EXCEPT !.torn = TRUE])
    BY <1>2 DEF Crash
  <2>3. log' \in Seq(Record) /\ Len(log') \in Nat /\ synced' \in 0..Len(log')
    <3>0. CASE log' = log /\ synced' = synced
      BY <3>0
    <3>1. ASSUME synced' = Len(log'), NEW n \in synced..Len(log),
                 \/ log' = SubSeq(log, 1, n)
                 \/ /\ n < Len(log)
                    /\ log' = Append(SubSeq(log, 1, n),
                                     [log[n + 1] EXCEPT !.torn = TRUE])
          PROVE  /\ log' \in Seq(Record) /\ Len(log') \in Nat
                 /\ synced' \in 0..Len(log')
      <4>1. n \in 0..Len(log)
        OBVIOUS
      <4>2. /\ SubSeq(log, 1, n) \in Seq(Record)
            /\ n < Len(log) => [log[n + 1] EXCEPT !.torn = TRUE] \in Record
        BY <4>1, PrefixType
      <4>3. CASE log' = SubSeq(log, 1, n)
        BY <3>1, <4>2, <4>3
      <4>4. CASE /\ n < Len(log)
                 /\ log' = Append(SubSeq(log, 1, n),
                                  [log[n + 1] EXCEPT !.torn = TRUE])
        <5>1. log' \in Seq(Record)
          BY <4>2, <4>4, AppendFacts
        <5> QED BY <3>1, <5>1
      <4> QED BY <3>1, <4>3, <4>4
    <3> QED BY <2>1, <3>0, <3>1
  <2>4. mem' \in [Keys -> Entry]
    BY <1>2 DEF Crash, NoEntry, Entry
  <2>5. cshard' \in [Compactors -> 1..NShards + 1]
    BY <1>2, ShardAssumption DEF Crash
  <2>6. /\ pc' \in [Clients -> {"idle"}] /\ op' \in [Clients -> {NoOp}]
        /\ cpc' \in [Compactors -> {"idle"}]
        /\ ckeys' \in [Compactors -> {{}}]
    BY <1>2 DEF Crash
  <2>7. /\ now' \in Nat /\ tmp' \in Seq(Record) /\ walOpen' = TRUE
        /\ opCount' = 0 /\ compacting' = FALSE
        /\ phase' = "replay" /\ rpos' = 1
        /\ calls' \in Nat /\ crashes' \in Nat /\ faults' \in Nat
        /\ skipped' = {} /\ stray' = {} /\ uncounted' = 0
    BY <1>2 DEF Crash
  <2>8. rpos' \in 1..Len(log') + 1
    BY <2>3, <2>7
  <2>9. /\ pc' \in [Clients -> {"idle", "append", "apply"}]
        /\ op' \in [Clients -> Request \cup {NoOp}]
        /\ \A c \in Clients : pc'[c] = "idle"
        /\ cpc' \in [Compactors -> {"idle", "open", "scan", "locked", "rename"}]
        /\ \A g \in Compactors : cpc'[g] = "idle"
        /\ ckeys' \in [Compactors -> SUBSET Keys]
    BY <2>6
  <2>10. TypeOK'
    BY <2>3, <2>4, <2>5, <2>7, <2>8, <2>9
  <2> QED BY <2>9, <2>10
<1>3. CASE ReplayRecord
  <2>1. log[rpos] \in Record /\ rpos + 1 \in 1..Len(log) + 1
    BY <1>3 DEF ReplayRecord, NextIsWhole
  <2>2. mem' \in [Keys -> Entry]
    BY <1>3, <2>1, EffectType DEF ReplayRecord, Record
  <2> QED BY <1>3, <2>1, <2>2 DEF ReplayRecord, ReplayUnchanged
<1>4. CASE ReplayEnds
  BY <1>4 DEF ReplayEnds, ReplayUnchanged
<1>5. CASE ReplayMisreads
  <2> DEFINE r == log[rpos]
             misread == IF r.op = "put" THEN [r EXCEPT !.val = Garbage] ELSE r
  <2>1. r \in Record /\ rpos' \in 1..Len(log) + 1
    BY <1>5 DEF ReplayMisreads
  <2>2. misread \in Record
    BY <2>1 DEF Record, Stored
  <2>3. mem' \in {mem, [mem EXCEPT ![r.key] = Effect(@, misread)]}
    BY <1>5 DEF ReplayMisreads
  <2> HIDE DEF misread, r
  <2>4. mem' \in [Keys -> Entry]
    <3>1. \A e \in Entry : Effect(e, misread) \in Entry
      BY <2>2, EffectType
    <3>2. r.key \in Keys BY <2>1 DEF Record
    <3> QED BY <2>3, <3>1, <3>2
  <2>5. phase = "replay" /\ phase' = "replay" /\ opCount' \in Nat
        /\ UNCHANGED <<faults, stray, uncounted>>
    BY <1>5 DEF ReplayMisreads
  <2>6. ReplayUnchanged BY <1>5 DEF ReplayMisreads
  <2> QED BY <2>1, <2>4, <2>5, <2>6 DEF ReplayUnchanged
<1>6. CASE ReplayFails
  <2>1. Len(log) \in Nat /\ 1 \in 1..Len(log) + 1
    OBVIOUS
  <2>2. stray' \subseteq Keys
    <3>1. \A i \in rpos..Len(log) : log[i] \in Record
      BY <2>1
    <3> QED BY <1>6, <3>1 DEF ReplayFails, Record
  <2>3. uncounted' \in Nat
    BY <1>6, <2>1 DEF ReplayFails
  <2>4. /\ phase' = "up" /\ phase = "replay" /\ rpos' = 1 /\ faults' \in Nat
        /\ mem' = mem /\ opCount' = opCount /\ ReplayUnchanged
    BY <1>6 DEF ReplayFails
  <2> QED BY <2>1, <2>2, <2>3, <2>4 DEF ReplayUnchanged
<1>7. CASE NewWALFails
  BY <1>7 DEF NewWALFails, ReplayUnchanged
<1> QED BY <1>1, <1>2, <1>3, <1>4, <1>5, <1>6, <1>7 DEF ReplayStep

\* Every step keeps the types.
LEMMA TypeStep ==
  ASSUME TypeInv, [Next]_vars
  PROVE  TypeInv'
<1>1. CASE UNCHANGED vars
  BY <1>1 DEF vars, memVars, fileVars, walVars, cliVars, compVars, bootVars,
              boundVars, histVars, TypeInv, TypeOK, Booting
<1>2. CASE Next
  BY <1>2, TypeClient, TypeCompact, TypeBoot DEF Next
<1> QED BY <1>1, <1>2

\* Every reachable state is well typed: Replay stays within the file and the
\* compaction loop within the shards, however requests, compactions, faults
\* and crashes interleave.
THEOREM TypeCorrect == Spec => []TypeOK
<1>1. TypeInv /\ [Next]_vars => TypeInv'
  BY TypeStep
<1>2. TypeInv => TypeOK
  BY DEF TypeInv
<1> QED BY TypeInit, <1>1, <1>2, PTL DEF Spec

-----------------------------------------------------------------------------
(* One compaction at a time.                                               *)

\* No step starts a second compaction, or leaves the flag behind.
LEMMA ExclusiveStep ==
  ASSUME TypeInv, CompactionExclusive, [Next]_vars
  PROVE  CompactionExclusive'
<1> USE DEF CompactionExclusive, memVars, fileVars, walVars, cliVars,
            compVars, bootVars, boundVars, histVars
<1>1. ASSUME cpc' = cpc, compacting' = compacting PROVE CompactionExclusive'
  BY <1>1
<1>2. ASSUME NEW g \in Compactors, cpc[g] # "idle", compacting' = compacting,
             NEW v \in {"open", "scan", "locked", "rename"},
             cpc' = [cpc EXCEPT ![g] = v]
      PROVE  CompactionExclusive'
  BY <1>2 DEF TypeInv, TypeOK
<1>3. ASSUME NEW g \in Compactors, cpc[g] # "idle", compacting' = FALSE,
             cpc' = [cpc EXCEPT ![g] = "idle"]
      PROVE  CompactionExclusive'
  BY <1>3 DEF TypeInv, TypeOK
<1>4. ASSUME NEW c \in Clients, AppendOK(c) PROVE CompactionExclusive'
  <2>1. CASE ShouldCompact
    <3>1. \A g \in Compactors : cpc[g] = "idle"
      BY <2>1 DEF ShouldCompact
    <3>2. PICK g \in Compactors : cpc' = [cpc EXCEPT ![g] = "open"]
      BY <1>4, <2>1 DEF AppendOK
    <3>3. compacting' = TRUE
      BY <1>4, <2>1 DEF AppendOK
    <3> QED BY <3>1, <3>2, <3>3 DEF TypeInv, TypeOK
  <2>2. CASE ~ShouldCompact
    BY <1>1, <1>4, <2>2 DEF AppendOK
  <2> QED BY <2>1, <2>2
<1>5. ASSUME NEW c \in Clients,
             Arrive(c) \/ AppendFails(c) \/ Unlogged(c) \/ Apply(c)
      PROVE  CompactionExclusive'
  BY <1>1, <1>5 DEF Arrive, CallPut, CallUpdate, CallDelete, Call,
                    AppendFails, Unlogged, Apply
<1>6. ASSUME NEW g \in Compactors, CompactStep(g) PROVE CompactionExclusive'
  <2>1. CASE CompactOpen(g) BY <1>2, <2>1 DEF CompactOpen
  <2>2. CASE CompactOpenFails(g) BY <1>3, <2>2 DEF CompactOpenFails
  <2>3. CASE LockShard(g) BY <1>2, <2>3 DEF LockShard
  <2>4. CASE UnlockShard(g) BY <1>2, <2>4 DEF UnlockShard
  <2>5. ASSUME NEW k \in Keys, CopyKey(g, k) PROVE CompactionExclusive'
    BY <1>1, <2>5 DEF CopyKey
  <2>6. CASE CompactRemove(g) \/ CompactRemoveFails(g)
    BY <1>2, <2>6 DEF CompactRemove, CompactRemoveFails
  <2>7. CASE CompactRename(g) \/ CompactSwapFails(g)
    BY <1>3, <2>7 DEF CompactRename, CompactSwapFails, SwapDone
  <2> QED
    BY <1>6, <2>1, <2>2, <2>3, <2>4, <2>5, <2>6, <2>7 DEF CompactStep
<1>7. CASE Crash
  BY <1>7 DEF Crash
<1>8. CASE Tick \/ ReplayStep
  BY <1>1, <1>8 DEF Tick, ReplayStep, ReplayRecord, ReplayEnds, ReplayFails,
                    ReplayMisreads, NewWALFails, ReplayUnchanged
<1>9. CASE UNCHANGED vars
  BY <1>1, <1>9 DEF vars
<1> QED
  BY <1>4, <1>5, <1>6, <1>7, <1>8, <1>9 DEF Next, ClientStep

\* Two compactions never run at once, and the flag that prevents it is never
\* left set: for any number of clients, compactions, faults and crashes.
THEOREM CompactionAlone == Spec => []CompactionExclusive
<1>1. Init => CompactionExclusive
  BY DEF Init, CompactionExclusive
<1>2. TypeInv /\ CompactionExclusive /\ [Next]_vars
        => TypeInv' /\ CompactionExclusive'
  BY TypeStep, ExclusiveStep
<1> QED BY TypeInit, <1>1, <1>2, PTL DEF Spec

=============================================================================
