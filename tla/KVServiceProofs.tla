-------------------------- MODULE KVServiceProofs --------------------------
(***************************************************************************)
(* Proofs about KVService, for every value of its constants: any number of *)
(* writers, readers, shards and keys, and transactions of any length.      *)
(*                                                                         *)
(* The lemmas are about a step a little more general than Next, Step, so   *)
(* that they serve for the server put together as well.                    *)
(***************************************************************************)
EXTENDS KVService, FiniteSetTheorems, SequenceTheorems, TLAPS

\* A reader may select any keys, also in a scan, and the bound on the faults
\* may be used up by others.
WriterStep(w) == Executing(w) \/ Return(w) \/ \E q \in Requests : Begin(w, q)

ReaderStep(r) ==
  \/ Reading(r) \/ Finish(r)
  \/ \E S \in SUBSET Keys : \/ Start(r, "list", 0, S)
                            \/ \E n \in Counts : Start(r, "scan", n, S)
  \/ \E n \in Counts : ScanNext(r, n)

Idle == faults' \in Nat /\ UNCHANGED <<memVars, writeVars, readVars>>

Step ==
  \/ \E w \in Writers : WriterStep(w)
  \/ \E r \in Readers : ReaderStep(r)
  \/ \E k \in Keys : Expire(k)
  \/ Idle

-----------------------------------------------------------------------------
(* The inductive invariants.                                               *)

Errors == {"nil", "error"}

\* The types, those of the history variables too; what a reader has found is
\* finite; and a writer is only ever between the two halves of an update.
TypeInv ==
  /\ TypeOK
  /\ ops \in [Writers -> Seq(Op)] /\ pos \in [Writers -> Nat]
  /\ errs \in [Writers -> Seq(Errors)]
  /\ base = [w \in Writers |-> base[w]]
  /\ always \in [Readers -> SUBSET Keys]
  /\ ever \in [Readers -> SUBSET (Keys \X Values)]
  /\ \A r \in Readers : IsFiniteSet(got[r])
  /\ \A w \in Writers :
       pc[w] = "write" => pos[w] <= Len(ops[w]) /\ Cur(w).action = "update"

\* A reader that has not begun is at the first shard, with nothing found.
NotBegun(r) ==
  rpc[r] = "idle" =>
    shard[r] = 1 /\ got[r] = {} /\ total[r] = 0 /\ always[r] = {}

\* A key that was readable ever since r began still is.
Standing(r) == \A k \in always[r] : Readable(mem[k])

Passed(r) == {k \in always[r] : ShardOf[k] < shard[r]}

\* A reader has found those of them that are in the shards behind it.
Sweeps(r) ==
  /\ rpc[r] \notin {"listed", "missing"} => Passed(r) \subseteq Found(r)
  /\ rpc[r] \in {"listed", "missing"} => always[r] \cap pick[r] \subseteq Found(r)
  /\ rpc[r] = "scanned" => shard[r] = NShards + 1

\* What can be read now, and what it has found, was readable since it began.
Witnessed(r) ==
  /\ rpc[r] # "idle" => Pairs(mem) \subseteq ever[r]
  /\ got[r] \subseteq ever[r]

\* No two of the pairs have the same key.
Functional(P) == \A p, q \in P : p[1] = q[1] => p = q

\* What a reader has found is behind it, a key at most once.
Behind(r) ==
  /\ Functional(got[r]) /\ total[r] = Cardinality(got[r])
  /\ \A p \in got[r] : ShardOf[p[1]] < shard[r]

Sound(r) == NotBegun(r) /\ Standing(r) /\ Sweeps(r) /\ Witnessed(r) /\ Behind(r)

ReadInv == TypeInv /\ \A r \in Readers : Sound(r)

\* AnswersTrue, of one writer.
Truthful(w) ==
  pc[w] # "idle" =>
    \A k \in KeysOf(ops[w]) \ unsure[w] : mem[k].val = Reported(w, k)

AnswerInv == TypeInv /\ \A w \in Writers : Truthful(w)

-----------------------------------------------------------------------------
(* Lemmas on sequences and sets.                                           *)

LEMMA AppendFacts ==
  ASSUME NEW S, NEW s \in Seq(S), NEW x \in S
  PROVE  /\ Append(s, x) \in Seq(S)
         /\ Len(s) \in Nat /\ Len(Append(s, x)) = Len(s) + 1
         /\ \A i \in 1..Len(s) : Append(s, x)[i] = s[i]
         /\ Append(s, x)[Len(s) + 1] = x
OBVIOUS

\* A set of numbers up to n that holds n ends with it.
LEMMA LastIs ==
  ASSUME NEW n \in Nat, NEW I \in SUBSET (1..n), n \in I
  PROVE  Last(I) = n
<1>1. \A j \in I : j <= n
  OBVIOUS
<1>2. \A i \in I : (\A j \in I : j <= i) => i = n
  <2> SUFFICES ASSUME NEW i \in I, \A j \in I : j <= i PROVE i = n
    OBVIOUS
  <2>1. n <= i /\ i <= n /\ i \in Nat
    OBVIOUS
  <2> QED BY <2>1
<1> QED BY <1>1, <1>2 DEF Last

\* As many pairs as keys, if no two have the same key.
LEMMA PairsCount ==
  ASSUME NEW P \in SUBSET (Keys \X Values), Functional(P)
  PROVE  /\ IsFiniteSet(P) /\ Cardinality(P) \in Nat
         /\ Cardinality({p[1] : p \in P}) = Cardinality(P)
<1> DEFINE K == {p[1] : p \in P}
           f == [p \in P |-> p[1]]
<1>1. K \in SUBSET Keys
  OBVIOUS
<1>2. IsFiniteSet(K) /\ Cardinality(K) \in Nat
  BY <1>1, KeyAssumption, FS_Subset, FS_CardinalityType
<1>3. f \in Bijection(P, K)
  BY DEF Functional, Bijection, Injection, Surjection, IsInjective
<1>4. f \in Injection(P, K) /\ f \in Surjection(P, K)
  BY <1>3 DEF Bijection
<1>5. IsFiniteSet(P) /\ Cardinality(P) = Cardinality(K)
  <2> HIDE DEF f, K
  <2>1. IsFiniteSet(P) /\ Cardinality(P) <= Cardinality(K)
    BY <1>2, <1>4, FS_Injection
  <2>2. Cardinality(P) = Cardinality(K) <=> f \in Surjection(P, K)
    BY <1>2, <1>4, FS_Injection
  <2> QED BY <1>4, <2>1, <2>2
<1> QED BY <1>2, <1>5

\* What can be read: pairs of keys and values, a key at most once.
LEMMA PairsFacts ==
  ASSUME NEW m \in [Keys -> Entry]
  PROVE  /\ Pairs(m) \in SUBSET (Keys \X Values) /\ Functional(Pairs(m))
         /\ \A k \in Keys : Readable(m[k]) => <<k, m[k].val>> \in Pairs(m)
<1>1. \A k \in Keys : m[k] \in Entry
  OBVIOUS
<1>2. \A k \in Keys : Readable(m[k]) => m[k].val \in Values
  BY <1>1 DEF Readable, Entry
<1> QED BY <1>2 DEF Pairs, Functional

-----------------------------------------------------------------------------
(* Writers and memory.                                                     *)

\* What putInternal and deleteInternal make of an entry is one.
LEMMA EntryType ==
  ASSUME NEW e \in Entry, NEW v \in Values, NEW t \in BOOLEAN
  PROVE  putInternal(e, v, t) \in Entry /\ NoEntry \in Entry
BY DEF putInternal, NoEntry, Entry

\* A write changes memory and its histories.
LEMMA WriteType ==
  ASSUME TypeInv, NEW k \in Keys, NEW e \in Entry, NEW who, NEW sayers,
         Write(k, e, who, sayers)
  PROVE  /\ mem' \in [Keys -> Entry]
         /\ always' \in [Readers -> SUBSET Keys]
         /\ ever' \in [Readers -> SUBSET (Keys \X Values)]
         /\ unsure' \in [Writers -> SUBSET Keys] /\ base' = base
<1>1. mem' \in [Keys -> Entry]
  BY DEF Write, TypeInv, TypeOK
<1>2. always' \in [Readers -> SUBSET Keys]
  BY DEF Write, TypeInv
<1>3. ever' \in [Readers -> SUBSET (Keys \X Values)]
  BY <1>1, PairsFacts DEF Write, TypeInv
<1>4. unsure' \in [Writers -> SUBSET Keys] /\ base' = base
  BY DEF Write, TypeInv, TypeOK
<1> QED BY <1>1, <1>2, <1>3, <1>4

\* The operation a writer is at.
LEMMA CurType ==
  ASSUME TypeInv, NEW w \in Writers,
         (\E a : At(w, a)) \/ pc[w] = "write"
  PROVE  /\ Cur(w) \in Op /\ Cur(w).key \in Keys /\ Cur(w).val \in Values
         /\ Cur(w).ttl \in BOOLEAN /\ pos[w] \in 1..Len(ops[w])
         /\ Cur(w).key \in KeysOf(ops[w]) /\ mem[Cur(w).key] \in Entry
<1>1. /\ ops[w] \in Seq(Op) /\ pos[w] \in 1..Len(ops[w]) + 1
      /\ Len(ops[w]) \in Nat /\ pos[w] <= Len(ops[w])
  BY DEF TypeInv, TypeOK, At
<1>2. pos[w] \in 1..Len(ops[w])
  BY <1>1
<1>3. Cur(w) \in Op
  BY <1>1, <1>2 DEF Cur
<1>4. Cur(w).key \in KeysOf(ops[w])
  BY <1>2 DEF Cur, KeysOf
<1> QED BY <1>2, <1>3, <1>4 DEF Op, TypeInv, TypeOK

\* Every step of a transaction writes its key or leaves memory alone, and
\* answers its operation, or goes on to the second half of an update.
LEMMA ExecutingFacts ==
  ASSUME TypeInv, NEW w \in Writers, Executing(w)
  PROVE  /\ (\E a : At(w, a)) \/ pc[w] = "write"
         /\ UNCHANGED readVars
         /\ \/ UNCHANGED memVars
            \/ \E e \in Entry, S \in SUBSET {w} : Write(Cur(w).key, e, {w}, S)
            \/ /\ unsure' = [unsure EXCEPT ![w] = @ \cup {Cur(w).key}]
               /\ UNCHANGED <<mem, always, ever, base>>
         /\ \/ \E err \in Errors : Answer(w, err)
            \/ /\ At(w, "update") /\ pc' = [pc EXCEPT ![w] = "write"]
               /\ UNCHANGED <<ops, pos, errs>>
         /\ faults' \in Nat
<1> USE DEF Errors
<1>1. faults \in Nat /\ (AppendFails => faults' \in Nat)
  BY DEF TypeInv, TypeOK, AppendFails
<1>2. CASE PutOp(w)
  <2>1. putInternal(mem[Cur(w).key], Cur(w).val, Cur(w).ttl) \in Entry
    BY <1>2, CurType, EntryType DEF PutOp
  <2> QED BY <1>1, <1>2, <2>1 DEF PutOp
<1>3. CASE DeleteOp(w)
  <2>1. NoEntry \in Entry /\ (IF mem[Cur(w).key].val # NoVal THEN {w} ELSE {}) \in SUBSET {w}
    BY DEF NoEntry, Entry
  <2> QED BY <1>1, <1>3, <2>1 DEF DeleteOp
<1>4. CASE UpdateCheck(w)
  BY <1>1, <1>4 DEF UpdateCheck
<1>5. CASE UpdateWrite(w)
  <2>1. putInternal(mem[Cur(w).key], Cur(w).val, FALSE) \in Entry
    BY <1>5, CurType, EntryType DEF UpdateWrite
  <2> QED BY <1>1, <1>5, <2>1 DEF UpdateWrite
<1>6. CASE BadOp(w)
  BY <1>1, <1>6 DEF BadOp
<1> QED BY <1>2, <1>3, <1>4, <1>5, <1>6 DEF Executing

\* So readers only ever see memory change by a write of one key.
MemoryStep ==
  \/ UNCHANGED <<mem, always, ever>>
  \/ \E k \in Keys, e \in Entry, who \in SUBSET Writers, sayers \in SUBSET Writers :
       Write(k, e, who, sayers)

\* A write of one key is such a step.
LEMMA WriteStep ==
  ASSUME NEW k \in Keys, NEW e \in Entry, NEW who \in SUBSET Writers,
         NEW sayers \in SUBSET Writers, Write(k, e, who, sayers)
  PROVE  MemoryStep
BY DEF MemoryStep

\* And so is every step that is not a reader's.
LEMMA OthersSteps ==
  ASSUME TypeInv, \/ \E w \in Writers : WriterStep(w)
                  \/ \E k \in Keys : Expire(k)
                  \/ Idle
  PROVE  UNCHANGED readVars /\ MemoryStep
<1>1. ASSUME NEW w \in Writers, Executing(w) PROVE UNCHANGED readVars /\ MemoryStep
  <2>1. UNCHANGED readVars /\ Cur(w).key \in Keys /\ {w} \in SUBSET Writers
    BY <1>1, ExecutingFacts, CurType
  <2>2. ASSUME NEW e \in Entry, NEW S \in SUBSET {w}, Write(Cur(w).key, e, {w}, S)
        PROVE  MemoryStep
    BY <2>1, <2>2, WriteStep
  <2>3. CASE UNCHANGED <<mem, always, ever>>
    BY <2>1, <2>3 DEF MemoryStep
  <2> QED BY <1>1, <2>1, <2>2, <2>3, ExecutingFacts DEF memVars
<1>2. ASSUME NEW w \in Writers, Return(w) \/ \E q \in Requests : Begin(w, q)
      PROVE  UNCHANGED readVars /\ MemoryStep
  BY <1>2 DEF MemoryStep, Return, Begin
<1>3. ASSUME NEW k \in Keys, Expire(k) PROVE UNCHANGED readVars /\ MemoryStep
  <2>1. mem[k] \in Entry
    BY DEF TypeInv, TypeOK
  <2>2. [mem[k] EXCEPT !.exp = "past"] \in Entry
    BY <2>1 DEF Entry
  <2> QED BY <1>3, <2>2 DEF Expire, MemoryStep
<1>4. CASE Idle
  BY <1>4 DEF Idle, MemoryStep, memVars
<1> QED BY <1>1, <1>2, <1>3, <1>4 DEF WriterStep

-----------------------------------------------------------------------------
(* Type correctness.                                                       *)

\* The types of what writers, and of what readers work on.
WriterTypes ==
  /\ pc \in [Writers -> {"idle", "op", "write"}]
  /\ ops \in [Writers -> Seq(Op)] /\ pos \in [Writers -> Nat]
  /\ errs \in [Writers -> Seq(Errors)]
  /\ \A w \in Writers : /\ pos[w] \in 1..Len(ops[w]) + 1
                        /\ Len(errs[w]) = pos[w] - 1
                        /\ pc[w] = "write" => /\ pos[w] <= Len(ops[w])
                                              /\ Cur(w).action = "update"

ReaderTypes ==
  /\ rpc \in [Readers -> {"idle", "list", "listed", "missing", "scan", "paged",
                          "scanned"}]
  /\ shard \in [Readers -> 1..NShards + 1]
  /\ want \in [Readers -> Counts \cup {0}] /\ page \in [Readers -> Nat]
  /\ pick \in [Readers -> SUBSET Keys]
  /\ got \in [Readers -> SUBSET (Keys \X Values)]
  /\ total \in [Readers -> Nat]
  /\ \A r \in Readers : IsFiniteSet(got[r])

MemoryTypes ==
  /\ mem \in [Keys -> Entry]
  /\ base = [w \in Writers |-> base[w]] /\ unsure \in [Writers -> SUBSET Keys]
  /\ always \in [Readers -> SUBSET Keys]
  /\ ever \in [Readers -> SUBSET (Keys \X Values)]

LEMMA TypeParts ==
  TypeInv <=> WriterTypes /\ ReaderTypes /\ MemoryTypes /\ faults \in Nat
BY DEF TypeInv, TypeOK, WriterTypes, ReaderTypes, MemoryTypes, Errors

LEMMA TypePartsNext ==
  ASSUME WriterTypes', ReaderTypes', MemoryTypes', faults' \in Nat
  PROVE  TypeInv'
BY DEF TypeInv, TypeOK, WriterTypes, ReaderTypes, MemoryTypes, Errors

\* A server starts with what it has loaded, and serves nobody.
LEMMA TypeInit == Init => TypeInv
BY FS_EmptySet, LoadedAssumption, ShardAssumption DEF Init, TypeInv, TypeOK, Errors

\* An answered operation is passed.
LEMMA AnswerType ==
  ASSUME WriterTypes, NEW w \in Writers, NEW err \in Errors, Answer(w, err),
         pos[w] \in 1..Len(ops[w])
  PROVE  WriterTypes'
<1>1. /\ errs[w] \in Seq(Errors) /\ Len(errs[w]) = pos[w] - 1
      /\ Len(ops[w]) \in Nat /\ pos[w] \in Nat
  BY DEF WriterTypes
<1>2. /\ Append(errs[w], err) \in Seq(Errors)
      /\ Len(Append(errs[w], err)) = pos[w]
  BY <1>1, AppendFacts
<1>3. /\ pc' = [pc EXCEPT ![w] = "op"] /\ ops' = ops
      /\ pos' = [pos EXCEPT ![w] = pos[w] + 1]
      /\ errs' = [errs EXCEPT ![w] = Append(errs[w], err)]
  BY DEF Answer
<1>4. ASSUME NEW v \in Writers
      PROVE  /\ pos'[v] \in 1..Len(ops'[v]) + 1
             /\ Len(errs'[v]) = pos'[v] - 1
             /\ pc'[v] = "write" => /\ pos'[v] <= Len(ops'[v])
                                    /\ ops'[v][pos'[v]].action = "update"
  <2>1. CASE v = w
    BY <1>1, <1>2, <1>3, <2>1 DEF WriterTypes
  <2>2. CASE v # w
    BY <1>3, <2>2 DEF WriterTypes, Cur
  <2> QED BY <2>1, <2>2
<1> QED BY <1>1, <1>2, <1>3, <1>4 DEF WriterTypes, Cur

\* A writer that begins, or returns, is at the first of its operations.
LEMMA AtFirst ==
  ASSUME WriterTypes, NEW w \in Writers, NEW q \in Seq(Op),
         NEW p \in {"idle", "op"},
         pc' = [pc EXCEPT ![w] = p], ops' = [ops EXCEPT ![w] = q],
         pos' = [pos EXCEPT ![w] = 1], errs' = [errs EXCEPT ![w] = <<>>]
  PROVE  WriterTypes'
<1>1. Len(q) \in Nat /\ <<>> \in Seq(Errors) /\ Len(<<>>) = 0
  OBVIOUS
<1>2. ASSUME NEW v \in Writers
      PROVE  /\ pos'[v] \in 1..Len(ops'[v]) + 1
             /\ Len(errs'[v]) = pos'[v] - 1
             /\ pc'[v] = "write" => /\ pos'[v] <= Len(ops'[v])
                                    /\ ops'[v][pos'[v]].action = "update"
  <2>1. CASE v = w
    BY <1>1, <2>1 DEF WriterTypes
  <2>2. CASE v # w
    BY <2>2 DEF WriterTypes, Cur
  <2> QED BY <2>1, <2>2
<1> QED BY <1>1, <1>2 DEF WriterTypes, Cur

LEMMA TypeWriter ==
  ASSUME TypeInv, NEW w \in Writers, WriterStep(w)
  PROVE  TypeInv'
<1> USE TypeParts
<1>1. CASE Executing(w)
  <2>1. /\ Cur(w).key \in Keys /\ pos[w] \in 1..Len(ops[w])
    BY <1>1, ExecutingFacts, CurType
  <2>2. MemoryTypes'
    <3>1. CASE UNCHANGED memVars
      BY <3>1 DEF MemoryTypes, memVars
    <3>2. ASSUME NEW e \in Entry, NEW S, Write(Cur(w).key, e, {w}, S)
          PROVE  MemoryTypes'
      BY <2>1, <3>2, WriteType DEF MemoryTypes
    <3>3. CASE /\ unsure' = [unsure EXCEPT ![w] = @ \cup {Cur(w).key}]
               /\ UNCHANGED <<mem, always, ever, base>>
      BY <2>1, <3>3 DEF MemoryTypes
    <3> QED BY <1>1, <3>1, <3>2, <3>3, ExecutingFacts
  <2>3. WriterTypes'
    <3>1. ASSUME NEW err \in Errors, Answer(w, err) PROVE WriterTypes'
      BY <2>1, <3>1, AnswerType
    <3>2. CASE /\ At(w, "update") /\ pc' = [pc EXCEPT ![w] = "write"]
               /\ UNCHANGED <<ops, pos, errs>>
      BY <3>2 DEF WriterTypes, At, Cur
    <3> QED BY <1>1, <3>1, <3>2, ExecutingFacts
  <2>4. ReaderTypes'
    BY <1>1, ExecutingFacts DEF ReaderTypes, readVars
  <2>6. faults' \in Nat
    BY <1>1, ExecutingFacts
  <2> QED BY <2>2, <2>3, <2>4, <2>6, TypePartsNext
<1>2. CASE Return(w)
  <2>1. WriterTypes'
    <3>1. <<>> \in Seq(Op) OBVIOUS
    <3> QED BY <1>2, <3>1, AtFirst DEF Return
  <2>2. MemoryTypes'
    BY <1>2 DEF Return, MemoryTypes
  <2>3. ReaderTypes' /\ faults' \in Nat
    BY <1>2 DEF Return, ReaderTypes, readVars
  <2> QED BY <2>1, <2>2, <2>3, TypePartsNext
<1>3. ASSUME NEW q \in Requests, Begin(w, q) PROVE TypeInv'
  <2>1. WriterTypes'
    BY <1>3, AtFirst, RequestAssumption DEF Begin
  <2>2. MemoryTypes'
    BY <1>3 DEF Begin, MemoryTypes
  <2>3. ReaderTypes' /\ faults' \in Nat
    BY <1>3 DEF Begin, ReaderTypes, readVars
  <2> QED BY <2>1, <2>2, <2>3, TypePartsNext
<1> QED BY <1>1, <1>2, <1>3 DEF WriterStep

\* What a reader finds in a shard.
LEMMA InShardFacts ==
  ASSUME TypeInv, NEW i
  PROVE  /\ InShard(i) \in SUBSET (Keys \X Values) /\ Functional(InShard(i))
         /\ IsFiniteSet(InShard(i)) /\ Cardinality(InShard(i)) \in Nat
         /\ InShard(i) \subseteq Pairs(mem)
         /\ \A p \in InShard(i) : ShardOf[p[1]] = i
         /\ \A k \in Keys : Readable(mem[k]) /\ ShardOf[k] = i =>
                             <<k, mem[k].val>> \in InShard(i)
<1>1. mem \in [Keys -> Entry]
  BY DEF TypeInv, TypeOK
<1>2. /\ InShard(i) \in SUBSET (Keys \X Values) /\ Functional(InShard(i))
      /\ InShard(i) \subseteq Pairs(mem)
      /\ \A p \in InShard(i) : ShardOf[p[1]] = i
      /\ \A k \in Keys : Readable(mem[k]) /\ ShardOf[k] = i =>
                          <<k, mem[k].val>> \in InShard(i)
  BY <1>1, PairsFacts DEF InShard, Functional
<1> QED BY <1>2, PairsCount

LEMMA TypeReader ==
  ASSUME TypeInv, NEW r \in Readers, ReaderStep(r)
  PROVE  TypeInv'
<1> USE TypeParts
<1> USE DEF memVars, writeVars
<1>1. ASSUME UNCHANGED <<writeVars, faults>>, ReaderTypes', MemoryTypes'
      PROVE  TypeInv'
  <2>1. WriterTypes'
    BY <1>1 DEF WriterTypes, Cur
  <2> QED BY <1>1, <2>1, TypePartsNext
<1>2. CASE List(r) \/ ScanShard(r)
  <2>1. ReadShard(r) /\ MoreShards(r)
    BY <1>2 DEF List, ScanShard
  <2>2. /\ InShard(shard[r]) \in SUBSET (Keys \X Values)
        /\ Cardinality(InShard(shard[r])) \in Nat
    BY InShardFacts
  <2>3. /\ shard[r] + 1 \in 1..NShards + 1
    BY <2>1, ShardAssumption DEF ReaderTypes, MoreShards
  <2>4. IsFiniteSet(got[r] \cup InShard(shard[r]))
    BY InShardFacts, FS_Union DEF ReaderTypes
  <2>5. ReaderTypes'
    BY <1>2, <2>1, <2>2, <2>3, <2>4 DEF List, ScanShard, ReadShard, ReaderTypes
  <2> QED BY <1>1, <1>2, <2>5 DEF List, ScanShard, MemoryTypes
<1>3. CASE Listed(r)
  <2>1. Selected(r) \in SUBSET (Keys \X Values) /\ IsFiniteSet(Selected(r))
    BY FS_Subset DEF Selected, ReaderTypes
  <2>2. total'[r] \in Nat /\ total' = [total EXCEPT ![r] = total'[r]]
    <3>1. CASE pick[r] = Keys
      BY <1>3, <3>1 DEF Listed, ReaderTypes
    <3>2. CASE pick[r] # Keys
      <4>1. Cardinality(Selected(r)) \in Nat
        BY <2>1, FS_CardinalityType
      <4> QED BY <1>3, <3>2, <4>1 DEF Listed, ReaderTypes
    <3> QED BY <3>1, <3>2
  <2>3. ReaderTypes'
    BY <1>3, <2>1, <2>2 DEF Listed, ReaderTypes
  <2> QED BY <1>1, <1>3, <2>3 DEF Listed, MemoryTypes
<1>4. CASE ScanAnswer(r)
  BY <1>1, <1>4 DEF ScanAnswer, NextCursor, ReaderTypes, MemoryTypes
<1>5. CASE Finish(r)
  BY <1>1, <1>5, ShardAssumption, FS_EmptySet
     DEF Finish, ReaderTypes, MemoryTypes
<1>6. ASSUME NEW n \in Counts, ScanNext(r, n) PROVE TypeInv'
  BY <1>1, <1>6 DEF ScanNext, ReaderTypes, MemoryTypes
<1>7. ASSUME NEW kind \in {"list", "scan"}, NEW n \in Counts \cup {0},
             NEW S \in SUBSET Keys, Start(r, kind, n, S)
      PROVE  TypeInv'
  <2>1. Pairs(mem) \in SUBSET (Keys \X Values)
    BY PairsFacts DEF MemoryTypes
  <2>2. MemoryTypes'
    BY <1>7, <2>1 DEF Start, MemoryTypes
  <2> QED BY <1>1, <1>7, <2>2 DEF Start, ReaderTypes
<1> QED
  BY <1>2, <1>3, <1>4, <1>5, <1>6, <1>7 DEF ReaderStep, Reading

LEMMA TypeStep == TypeInv /\ (Step \/ UNCHANGED vars) => TypeInv'
<1> SUFFICES ASSUME TypeInv, Step \/ UNCHANGED vars PROVE TypeInv'
  OBVIOUS
<1>1. WriterTypes /\ ReaderTypes /\ MemoryTypes /\ faults \in Nat
  BY TypeParts
<1>2. ASSUME NEW k \in Keys, Expire(k) PROVE TypeInv'
  <2>1. mem[k] \in Entry
    BY DEF TypeInv, TypeOK
  <2>2. [mem[k] EXCEPT !.exp = "past"] \in Entry
    BY <2>1 DEF Entry
  <2>3. /\ mem' \in [Keys -> Entry]
        /\ always' \in [Readers -> SUBSET Keys]
        /\ ever' \in [Readers -> SUBSET (Keys \X Values)]
        /\ unsure' \in [Writers -> SUBSET Keys] /\ base' = base
    BY <1>2, <2>2, WriteType DEF Expire
  <2>4. MemoryTypes'
    BY <1>1, <2>3 DEF MemoryTypes
  <2>5. WriterTypes'
    BY <1>1, <1>2 DEF Expire, WriterTypes, Cur, writeVars
  <2>6. ReaderTypes' /\ faults' \in Nat
    BY <1>1, <1>2 DEF Expire, ReaderTypes, readVars
  <2> QED BY <2>4, <2>5, <2>6, TypePartsNext
<1>3. CASE Idle \/ UNCHANGED vars
  <2>1. WriterTypes'
    BY <1>1, <1>3 DEF Idle, vars, WriterTypes, Cur, writeVars
  <2>2. ReaderTypes'
    BY <1>1, <1>3 DEF Idle, vars, ReaderTypes, readVars
  <2>3. MemoryTypes' /\ faults' \in Nat
    BY <1>1, <1>3 DEF Idle, vars, MemoryTypes, memVars
  <2> QED BY <2>1, <2>2, <2>3, TypePartsNext
<1> QED BY <1>2, <1>3, TypeWriter, TypeReader DEF Step

-----------------------------------------------------------------------------
(* Readers.                                                                *)

\* Writes and expiries disturb no reader.
LEMMA SoundMemory ==
  ASSUME ReadInv, UNCHANGED readVars, MemoryStep, NEW r \in Readers
  PROVE  Sound(r)'
<1>1. Sound(r) /\ TypeInv
  BY DEF ReadInv
<1>2. CASE UNCHANGED <<mem, always, ever>>
  BY <1>1, <1>2 DEF readVars, Sound, NotBegun, Standing, Sweeps, Passed,
                    Found, Witnessed, Behind
<1>3. ASSUME NEW k \in Keys, NEW e \in Entry, NEW who, NEW sayers,
             Write(k, e, who, sayers)
      PROVE  Sound(r)'
  <2>1. /\ always'[r] = {j \in always[r] : j # k \/ Readable(e)}
        /\ ever'[r] = (IF rpc[r] = "idle" THEN {} ELSE ever[r] \cup Pairs(mem'))
        /\ mem' = [mem EXCEPT ![k] = e] /\ always[r] \subseteq Keys
    BY <1>1, <1>3 DEF Write, TypeInv
  <2>2. Standing(r)'
    BY <1>1, <2>1 DEF Sound, Standing, TypeInv, TypeOK
  <2>3. Sweeps(r)'
    BY <1>1, <2>1 DEF readVars, Sound, Sweeps, Passed, Found
  <2>4. Witnessed(r)'
    <3>1. Pairs(mem)' = Pairs(mem')
      BY DEF Pairs
    <3> QED BY <1>1, <2>1, <3>1 DEF readVars, Sound, NotBegun, Witnessed
  <2>5. NotBegun(r)' /\ Behind(r)'
    BY <1>1, <2>1 DEF readVars, Sound, NotBegun, Behind
  <2> QED BY <2>2, <2>3, <2>4, <2>5 DEF Sound
<1> QED BY <1>2, <1>3 DEF MemoryStep

\* A reader does not disturb another.
LEMMA SoundOther ==
  ASSUME ReadInv, NEW r \in Readers, ReaderStep(r), NEW q \in Readers, q # r
  PROVE  Sound(q)'
<1>1. /\ mem' = mem /\ rpc'[q] = rpc[q] /\ shard'[q] = shard[q]
      /\ pick'[q] = pick[q] /\ got'[q] = got[q] /\ total'[q] = total[q]
      /\ always'[q] = always[q] /\ ever'[q] = ever[q]
  BY DEF ReaderStep, Reading, List, Listed, ScanShard, ReadShard, ScanAnswer,
         Finish, Start, ScanNext, memVars, ReadInv, TypeInv, TypeOK
<1> QED
  BY <1>1 DEF ReadInv, Sound, NotBegun, Standing, Sweeps, Passed, Found,
              Witnessed, Behind, Pairs

\* One shard is read.
LEMMA SoundReadShard ==
  ASSUME ReadInv, NEW r \in Readers, List(r) \/ ScanShard(r)
  PROVE  Sound(r)'
<1> DEFINE I == InShard(shard[r])
<1>1. /\ rpc[r] \in {"list", "scan"} /\ rpc' = rpc /\ mem' = mem
      /\ always' = always /\ ever' = ever
      /\ got'[r] = got[r] \cup I /\ shard'[r] = shard[r] + 1
      /\ total'[r] = total[r] + Cardinality(I)
  BY DEF List, ScanShard, ReadShard, memVars, ReadInv, TypeInv, TypeOK
<1>2. /\ I \in SUBSET (Keys \X Values) /\ Functional(I) /\ IsFiniteSet(I)
      /\ I \subseteq Pairs(mem) /\ \A p \in I : ShardOf[p[1]] = shard[r]
      /\ \A k \in Keys : Readable(mem[k]) /\ ShardOf[k] = shard[r] =>
                          <<k, mem[k].val>> \in I
      /\ Cardinality(I) \in Nat
  BY InShardFacts DEF ReadInv
<1>3. /\ Sound(r) /\ shard[r] \in Nat /\ IsFiniteSet(got[r])
      /\ got[r] \in SUBSET (Keys \X Values) /\ always[r] \subseteq Keys
      /\ \A k \in Keys : ShardOf[k] \in Nat
  BY ShardAssumption DEF ReadInv, TypeInv, TypeOK
<1> HIDE DEF I
<1>4. NotBegun(r)' /\ Standing(r)' /\ Witnessed(r)'
  BY <1>1, <1>2, <1>3
  DEF Sound, NotBegun, Standing, Witnessed, Pairs
<1>5. Sweeps(r)'
  <2>1. \A k \in Passed(r)' : k \in Passed(r) \/ ShardOf[k] = shard[r]
    BY <1>1, <1>3 DEF Passed
  <2>2. \A k \in Passed(r)' : k \in Keys /\ Readable(mem[k])
    BY <1>1, <1>3 DEF Passed, Sound, Standing
  <2>3. Passed(r) \subseteq Found(r)
    BY <1>1, <1>3 DEF Sound, Sweeps
  <2>4. \A k \in Passed(r)' : \E p \in got'[r] : p[1] = k
    <3> TAKE k \in Passed(r)'
    <3>1. CASE k \in Passed(r)
      BY <1>1, <2>3, <3>1 DEF Found
    <3>2. CASE ShardOf[k] = shard[r]
      <4>1. <<k, mem[k].val>> \in got'[r]
        BY <1>1, <1>2, <2>2, <3>2
      <4> QED BY <4>1
    <3> QED BY <2>1, <3>1, <3>2
  <2> QED BY <1>1, <2>4 DEF Sweeps, Found
<1>6. Behind(r)'
  <2>1. Functional(got'[r])
    BY <1>1, <1>2, <1>3 DEF Sound, Behind, Functional
  <2>2. got[r] \cap I = {}
    BY <1>2, <1>3 DEF Sound, Behind
  <2>3. Cardinality(got'[r]) = Cardinality(got[r]) + Cardinality(I)
    <3>1. Cardinality(got[r]) \in Nat /\ Cardinality(got[r] \cap I) = 0
      BY <1>3, <2>2, FS_CardinalityType, FS_EmptySet
    <3>2. Cardinality(got[r] \cup I) =
            Cardinality(got[r]) + Cardinality(I) - Cardinality(got[r] \cap I)
      BY <1>2, <1>3, FS_Union
    <3> QED BY <1>1, <1>2, <3>1, <3>2
  <2>4. \A p \in got'[r] : ShardOf[p[1]] < shard'[r]
    <3>1. \A p \in got[r] : p[1] \in Keys
      BY <1>3
    <3> QED BY <1>1, <1>2, <1>3, <3>1 DEF Sound, Behind
  <2> QED BY <1>1, <1>3, <2>1, <2>3, <2>4 DEF Behind, Functional, Sound
<1> QED BY <1>4, <1>5, <1>6 DEF Sound

\* The list is answered.
LEMMA SoundListed ==
  ASSUME ReadInv, NEW r \in Readers, Listed(r)
  PROVE  Sound(r)'
<1>1. /\ rpc[r] = "list" /\ ~MoreShards(r)
      /\ rpc'[r] \in {"listed", "missing"}
      /\ got'[r] = Selected(r) /\ shard'[r] = shard[r] /\ mem' = mem
      /\ pick'[r] = pick[r] /\ always' = always /\ ever' = ever
      /\ total'[r] = IF pick[r] = Keys THEN total[r]
                                      ELSE Cardinality(Selected(r))
  BY DEF Listed, memVars, ReadInv, TypeInv, TypeOK
<1>2. /\ Sound(r) /\ got[r] \in SUBSET (Keys \X Values)
      /\ always[r] \subseteq Keys /\ shard[r] \in Nat
      /\ \A k \in Keys : ShardOf[k] \in 1..NShards
      /\ NShards \in Nat
  BY ShardAssumption DEF ReadInv, TypeInv, TypeOK
<1>3. Selected(r) \subseteq got[r] /\ (pick[r] = Keys => Selected(r) = got[r])
  BY <1>2 DEF Selected
<1>4. NotBegun(r)' /\ Standing(r)' /\ Witnessed(r)'
  BY <1>1, <1>2, <1>3 DEF Sound, NotBegun, Standing, Witnessed, Pairs
<1>5. Sweeps(r)'
  <2>1. always[r] \subseteq Passed(r)
    BY <1>1, <1>2 DEF Passed, MoreShards
  <2>2. \A k \in always[r] \cap pick[r] : \E p \in got'[r] : p[1] = k
    BY <1>1, <1>2, <2>1 DEF Sound, Sweeps, Found, Selected
  <2> QED BY <1>1, <2>2 DEF Sweeps, Found
<1>6. Behind(r)'
  BY <1>1, <1>2, <1>3 DEF Sound, Behind, Functional
<1> QED BY <1>4, <1>5, <1>6 DEF Sound

\* A page is answered, or asked for; a reader begins, or is done.
LEMMA SoundRest ==
  ASSUME ReadInv, NEW r \in Readers,
         \/ ScanAnswer(r) \/ Finish(r) \/ \E n \in Counts : ScanNext(r, n)
         \/ \E kind \in {"list", "scan"} : \E n, S : Start(r, kind, n, S)
  PROVE  Sound(r)'
<1> USE DEF ReadInv, TypeInv, TypeOK, memVars
<1>1. CASE ScanAnswer(r)
  <2>1. /\ rpc[r] = "scan" /\ UNCHANGED <<mem, always, ever, got, total>>
        /\ shard'[r] = shard[r]
        /\ \/ rpc'[r] = "paged"
           \/ rpc'[r] = "scanned" /\ ~MoreShards(r)
    BY <1>1 DEF ScanAnswer, NextCursor
  <2>2. ~MoreShards(r) => shard[r] = NShards + 1
    BY ShardAssumption DEF MoreShards
  <2>3. NotBegun(r)' /\ Standing(r)' /\ Witnessed(r)'
    BY <2>1 DEF Sound, NotBegun, Standing, Witnessed, Pairs
  <2>4. Sweeps(r)'
    BY <2>1, <2>2 DEF Sound, Sweeps, Passed, Found
  <2>5. Behind(r)'
    BY <2>1 DEF Sound, Behind, Functional
  <2> QED BY <2>3, <2>4, <2>5 DEF Sound
<1>2. CASE Finish(r)
  <2>1. /\ rpc'[r] = "idle" /\ shard'[r] = 1 /\ got'[r] = {}
        /\ total'[r] = 0 /\ always'[r] = {} /\ ever'[r] = {}
    BY <1>2 DEF Finish
  <2> QED
    BY <2>1, FS_EmptySet DEF Sound, NotBegun, Standing, Sweeps, Passed, Found,
                      Witnessed, Behind, Functional
<1>3. ASSUME NEW n \in Counts, ScanNext(r, n) PROVE Sound(r)'
  <2>1. /\ rpc[r] = "paged" /\ rpc'[r] = "scan"
        /\ UNCHANGED <<mem, always, ever, got, total, shard>>
    BY <1>3 DEF ScanNext
  <2>2. NotBegun(r)' /\ Standing(r)'
    BY <2>1 DEF Sound, NotBegun, Standing
  <2>3. Witnessed(r)'
    <3>1. Pairs(mem)' = Pairs(mem)
      BY <2>1 DEF Pairs
    <3> QED BY <2>1, <3>1 DEF Sound, Witnessed
  <2>4. Sweeps(r)'
    BY <2>1 DEF Sound, Sweeps, Passed, Found
  <2>5. Behind(r)'
    BY <2>1 DEF Sound, Behind, Functional
  <2> QED BY <2>2, <2>3, <2>4, <2>5 DEF Sound
<1>4. ASSUME NEW kind \in {"list", "scan"}, NEW n, NEW S, Start(r, kind, n, S)
      PROVE  Sound(r)'
  <2>1. /\ rpc[r] = "idle" /\ rpc'[r] = kind
        /\ UNCHANGED <<mem, got, total, shard>>
        /\ always'[r] = {k \in Keys : Readable(mem[k])}
        /\ ever'[r] = Pairs(mem)
    BY <1>4 DEF Start
  <2>2. shard[r] = 1 /\ got[r] = {} /\ Behind(r)
    BY <2>1 DEF Sound, NotBegun
  <2>3. Passed(r)' = {}
    BY <2>1, <2>2, ShardAssumption DEF Passed
  <2> QED
    BY <2>1, <2>2, <2>3 DEF Sound, NotBegun, Standing, Sweeps, Witnessed,
                            Behind, Pairs
<1> QED BY <1>1, <1>2, <1>3, <1>4

LEMMA ReadInvStep == ReadInv /\ (Step \/ UNCHANGED vars) => ReadInv'
<1> SUFFICES ASSUME ReadInv, Step \/ UNCHANGED vars PROVE ReadInv'
  OBVIOUS
<1>1. TypeInv /\ TypeInv'
  BY TypeStep DEF ReadInv
<1>2. ASSUME UNCHANGED readVars, MemoryStep PROVE ReadInv'
  BY <1>1, <1>2, SoundMemory DEF ReadInv
<1>3. ASSUME NEW r \in Readers, ReaderStep(r) PROVE ReadInv'
  <2>1. Sound(r)'
    BY <1>3, SoundReadShard, SoundListed, SoundRest DEF ReaderStep, Reading
  <2>2. \A q \in Readers : Sound(q)'
    BY <1>3, <2>1, SoundOther
  <2> QED BY <1>1, <2>2 DEF ReadInv
<1>4. CASE UNCHANGED vars
  BY <1>2, <1>4 DEF vars, memVars, readVars, MemoryStep
<1> QED BY <1>1, <1>2, <1>3, <1>4, OthersSteps DEF Step

-----------------------------------------------------------------------------
(* Writers.                                                                *)

\* What a transaction reports of k looks at the operations that are answered.
LEMMA ReportedSame ==
  ASSUME NEW w, NEW k, ops'[w] = ops[w], errs'[w] = errs[w], base'[w] = base[w]
  PROVE  Reported(w, k)' = Reported(w, k)
BY DEF Reported, Done

\* One more answer: what it reports of the operation's key, and of others.
LEMMA ReportedAnswer ==
  ASSUME TypeInv, NEW w \in Writers, NEW err \in Errors, Answer(w, err),
         pos[w] \in 1..Len(ops[w]), base' = base, NEW k
  PROVE  /\ err = "error" \/ k # Cur(w).key => Reported(w, k)' = Reported(w, k)
         /\ err = "nil" /\ k = Cur(w).key =>
              Reported(w, k)' = IF Cur(w).action = "delete" THEN NoVal
                                ELSE Cur(w).val
<1>1. /\ errs[w] \in Seq(Errors) /\ Len(errs[w]) = pos[w] - 1
      /\ errs'[w] = Append(errs[w], err) /\ ops' = ops /\ pos[w] \in Nat
  BY DEF TypeInv, TypeOK, Answer
<1>2. /\ Len(errs'[w]) = pos[w] /\ errs'[w][pos[w]] = err
      /\ \A i \in 1..Len(errs[w]) : errs'[w][i] = errs[w][i]
      /\ Len(errs[w]) \in Nat
  BY <1>1, AppendFacts
<1>3. \A i : i \in 1..pos[w] <=> i \in 1..Len(errs[w]) \/ i = pos[w]
  BY <1>1
<1>4. CASE err = "error" \/ k # Cur(w).key
  <2>1. Done(w, k)' = Done(w, k)
    BY <1>1, <1>2, <1>3, <1>4 DEF Done, Cur
  <2> QED BY <1>1, <1>4, <2>1 DEF Reported
<1>5. CASE err = "nil" /\ k = Cur(w).key
  <2>1. pos[w] \in Done(w, k)' /\ Done(w, k)' \in SUBSET (1..pos[w])
    BY <1>1, <1>2, <1>5 DEF Done, Cur
  <2>2. Last(Done(w, k)') = pos[w]
    BY <1>1, <2>1, LastIs
  <2> QED BY <1>1, <1>5, <2>1, <2>2 DEF Reported, Cur
<1> QED BY <1>4, <1>5

LEMMA KeysOfType ==
  ASSUME NEW q \in Seq(Op)
  PROVE  KeysOf(q) \subseteq Keys
<1>1. \A i \in 1..Len(q) : q[i] \in Op
  OBVIOUS
<1> QED BY <1>1 DEF KeysOf, Op

\* A step that leaves a writer where it is disturbs it only by a write of one
\* of its keys, which unsure records.
LEMMA WriterKept ==
  ASSUME AnswerInv, NEW w \in Writers,
         pc'[w] = pc[w], ops'[w] = ops[w], errs'[w] = errs[w],
         base'[w] = base[w], unsure[w] \subseteq unsure'[w],
         \A k \in KeysOf(ops[w]) \ unsure'[w] : mem'[k].val = mem[k].val
  PROVE  Truthful(w)'
<1>1. \A k : Reported(w, k)' = Reported(w, k)
  BY ReportedSame
<1> QED BY <1>1 DEF AnswerInv, Truthful, KeysOf

\* A step of another writer.
LEMMA WriterOther ==
  ASSUME AnswerInv, NEW v \in Writers, WriterStep(v), NEW w \in Writers, w # v
  PROVE  Truthful(w)'
<1> USE DEF AnswerInv, TypeInv, TypeOK
<1>1. CASE Executing(v)
  <2>1. pc'[w] = pc[w] /\ ops'[w] = ops[w] /\ errs'[w] = errs[w]
    <3>1. CASE \E err \in Errors : Answer(v, err)
      BY <3>1 DEF Answer
    <3>2. CASE pc' = [pc EXCEPT ![v] = "write"] /\ UNCHANGED <<ops, pos, errs>>
      BY <3>2
    <3> QED BY <1>1, <3>1, <3>2, ExecutingFacts
  <2>3. CASE UNCHANGED memVars
    BY <2>1, <2>3, WriterKept DEF memVars
  <2>4. ASSUME NEW e \in Entry, NEW S \in SUBSET {v}, Write(Cur(v).key, e, {v}, S)
        PROVE  Truthful(w)'
    <3>1. /\ unsure'[w] = unsure[w] \cup ({Cur(v).key} \cap KeysOf(ops[w]))
          /\ mem' = [mem EXCEPT ![Cur(v).key] = e] /\ base' = base
      BY <2>4 DEF Write
    <3>2. \A k \in KeysOf(ops[w]) \ unsure'[w] : mem'[k].val = mem[k].val
      BY <3>1
    <3>3. unsure[w] \subseteq unsure'[w] BY <3>1
    <3> QED BY <2>1, <3>1, <3>2, <3>3, WriterKept
  <2>5. CASE /\ unsure' = [unsure EXCEPT ![v] = @ \cup {Cur(v).key}]
             /\ UNCHANGED <<mem, always, ever, base>>
    BY <2>1, <2>5, WriterKept
  <2> QED BY <1>1, <2>3, <2>4, <2>5, ExecutingFacts
<1>2. CASE Return(v) \/ \E q \in Requests : Begin(v, q)
  <2>1. /\ pc'[w] = pc[w] /\ ops'[w] = ops[w] /\ errs'[w] = errs[w] /\ mem' = mem
        /\ base'[w] = base[w] /\ unsure'[w] = unsure[w]
    BY <1>2 DEF Return, Begin
  <2> QED BY <2>1, WriterKept
<1> QED BY <1>1, <1>2 DEF WriterStep

\* An operation that is answered, with what it makes of its key: an error
\* means that it has left the key alone, and a success that the key is as the
\* operation says, or not sure to be.
LEMMA WriterAnswers ==
  ASSUME AnswerInv, NEW w \in Writers, NEW err \in Errors, Answer(w, err),
         (\E a : At(w, a)) \/ pc[w] = "write", base' = base,
         \A k \in Keys : k # Cur(w).key => mem'[k] = mem[k],
         \A k \in Keys : err = "error" \/ k # Cur(w).key =>
           (k \in unsure[w] => k \in unsure'[w]),
         err = "error" => mem'[Cur(w).key].val = mem[Cur(w).key].val,
         err = "nil" /\ Cur(w).key \notin unsure'[w] =>
           mem'[Cur(w).key].val = IF Cur(w).action = "delete" THEN NoVal
                                  ELSE Cur(w).val
  PROVE  Truthful(w)'
<1>1. pos[w] \in 1..Len(ops[w]) /\ pc[w] # "idle"
  BY CurType DEF AnswerInv, At
<1>3. KeysOf(ops[w])' = KeysOf(ops[w]) /\ KeysOf(ops[w]) \subseteq Keys
  BY KeysOfType DEF Answer, KeysOf, AnswerInv, TypeInv
<1>4. ASSUME NEW k \in KeysOf(ops[w]) \ unsure'[w]
      PROVE  mem'[k].val = Reported(w, k)'
  <2>2. /\ err = "error" \/ k # Cur(w).key =>
             Reported(w, k)' = Reported(w, k)
        /\ err = "nil" /\ k = Cur(w).key =>
             Reported(w, k)' = IF Cur(w).action = "delete" THEN NoVal
                               ELSE Cur(w).val
    BY <1>1, ReportedAnswer DEF AnswerInv
  <2>3. CASE err = "error" \/ k # Cur(w).key
    <3>1. k \notin unsure[w] BY <1>3, <1>4, <2>3
    <3>2. mem[k].val = Reported(w, k)
      BY <1>1, <1>4, <3>1 DEF AnswerInv, Truthful
    <3> QED BY <1>3, <2>2, <2>3, <3>2
  <2>4. CASE err = "nil" /\ k = Cur(w).key
    BY <1>4, <2>2, <2>4
  <2> QED BY <2>3, <2>4 DEF Errors
<1> QED BY <1>3, <1>4 DEF Truthful

\* A writer's own steps.
LEMMA WriterOwn ==
  ASSUME AnswerInv, NEW w \in Writers, Executing(w)
  PROVE  Truthful(w)'
<1> DEFINE k == Cur(w).key
<1>1. /\ k \in Keys /\ mem[k] \in Entry /\ mem \in [Keys -> Entry]
      /\ (\E a : At(w, a)) \/ pc[w] = "write"
      /\ unsure \in [Writers -> SUBSET Keys]
  BY ExecutingFacts, CurType DEF AnswerInv, TypeInv, TypeOK
<1>2. ASSUME NEW e, NEW S \in SUBSET {w}, Write(k, e, {w}, S)
      PROVE  /\ base' = base /\ mem'[k] = e
             /\ \A j \in Keys : j # k => mem'[j] = mem[j]
             /\ \A j \in Keys : S = {} \/ j # k =>
                  (j \in unsure[w] => j \in unsure'[w])
  BY <1>1, <1>2 DEF Write
<1>3. ASSUME UNCHANGED memVars
      PROVE  /\ base' = base /\ mem'[k] = mem[k]
             /\ \A j \in Keys : j # k => mem'[j] = mem[j]
             /\ unsure'[w] = unsure[w]
  BY <1>3 DEF memVars
<1> USE DEF Errors
<1>4. CASE PutOp(w)
  <2> DEFINE e == putInternal(mem[k], Cur(w).val, Cur(w).ttl)
  <2>1. e.val = Cur(w).val /\ Cur(w).action = "put" /\ Answer(w, "nil")
    BY <1>4 DEF putInternal, PutOp, At, Cur
  <2> HIDE DEF e
  <2>2. CASE Write(k, e, {w}, {w})
    BY <1>1, <1>2, <2>1, <2>2, WriterAnswers
  <2>3. CASE /\ unsure' = [unsure EXCEPT ![w] = @ \cup {k}]
             /\ UNCHANGED <<mem, always, ever, base>>
    <3>1. unsure'[w] = unsure[w] \cup {k} BY <1>1, <2>3
    <3> QED BY <1>1, <2>1, <2>3, <3>1, WriterAnswers
  <2> QED BY <1>4, <2>2, <2>3 DEF PutOp, e
<1>5. CASE DeleteOp(w)
  <2>1. Cur(w).action = "delete"
    BY <1>5 DEF DeleteOp, At, Cur
  <2>2. CASE /\ Answer(w, "nil") /\ Write(k, NoEntry, {w}, {w})
    BY <1>1, <1>2, <2>1, <2>2, WriterAnswers DEF NoEntry
  <2>4. CASE /\ Answer(w, "error") /\ Write(k, NoEntry, {w}, {}) /\ mem[k].val = NoVal
    BY <1>1, <1>2, <2>1, <2>4, WriterAnswers DEF NoEntry
  <2>3. CASE Answer(w, "error") /\ UNCHANGED memVars
    BY <1>1, <1>3, <2>1, <2>3, WriterAnswers
  <2> QED BY <1>5, <2>2, <2>3, <2>4 DEF DeleteOp
<1>6. CASE UpdateCheck(w)
  <2>1. UNCHANGED memVars
    BY <1>6 DEF UpdateCheck
  <2>2. CASE Answer(w, "error")
    BY <1>1, <1>3, <2>1, <2>2, WriterAnswers
  <2>3. CASE pc' = [pc EXCEPT ![w] = "write"] /\ UNCHANGED <<ops, pos, errs>>
    <3>2. pc[w] = "op" /\ \A j : Reported(w, j)' = Reported(w, j)
      BY <1>6, <2>1, <2>3, ReportedSame DEF UpdateCheck, At, memVars
    <3> QED BY <2>1, <2>3, <3>2 DEF AnswerInv, Truthful, KeysOf, memVars
  <2> QED BY <1>6, <2>2, <2>3 DEF UpdateCheck
<1>7. CASE UpdateWrite(w)
  <2> DEFINE e == putInternal(mem[k], Cur(w).val, FALSE)
  <2>1. e.val = Cur(w).val /\ Cur(w).action = "update"
    BY <1>7 DEF putInternal, UpdateWrite, AnswerInv, TypeInv
  <2> HIDE DEF e
  <2>2. CASE Write(k, e, {w}, {w}) /\ Answer(w, "nil")
    BY <1>1, <1>2, <2>1, <2>2, WriterAnswers
  <2>3. CASE Answer(w, "error") /\ UNCHANGED memVars
    BY <1>1, <1>3, <2>1, <2>3, WriterAnswers
  <2> QED BY <1>7, <2>2, <2>3 DEF UpdateWrite, e
<1>8. CASE BadOp(w)
  BY <1>1, <1>3, <1>8, WriterAnswers DEF BadOp
<1> QED BY <1>4, <1>5, <1>6, <1>7, <1>8 DEF Executing

\* A transaction begins with nothing answered, and ends.
LEMMA WriterBegins ==
  ASSUME AnswerInv, NEW w \in Writers,
         Return(w) \/ \E q \in Requests : Begin(w, q)
  PROVE  Truthful(w)'
<1> USE DEF AnswerInv, TypeInv, TypeOK
<1>1. CASE Return(w)
  BY <1>1 DEF Return, Truthful
<1>2. ASSUME NEW q \in Requests, Begin(w, q) PROVE Truthful(w)'
  <2>1. /\ pc'[w] = "op" /\ ops'[w] = q /\ errs'[w] = <<>> /\ mem' = mem
        /\ base'[w] = [k \in KeysOf(q) |-> mem[k].val]
    BY <1>2 DEF Begin
  <2>2. \A k : Done(w, k)' = {}
    BY <2>1 DEF Done
  <2>3. \A k \in KeysOf(q) : Reported(w, k)' = mem[k].val
    BY <2>1, <2>2 DEF Reported
  <2> QED BY <2>1, <2>3 DEF Truthful, KeysOf
<1> QED BY <1>1, <1>2

LEMMA AnswerInvStep == AnswerInv /\ (Step \/ UNCHANGED vars) => AnswerInv'
<1> SUFFICES ASSUME AnswerInv, Step \/ UNCHANGED vars PROVE AnswerInv'
  OBVIOUS
<1>1. TypeInv /\ TypeInv'
  BY TypeStep DEF AnswerInv
<1>2. ASSUME NEW v \in Writers, WriterStep(v) PROVE AnswerInv'
  <2>1. Truthful(v)'
    BY <1>2, WriterOwn, WriterBegins DEF WriterStep
  <2> QED BY <1>1, <1>2, <2>1, WriterOther DEF AnswerInv
<1>3. ASSUME NEW r \in Readers, ReaderStep(r) PROVE AnswerInv'
  <2>1. UNCHANGED <<mem, base, unsure, writeVars>>
    BY <1>3 DEF ReaderStep, Reading, List, Listed, ScanShard, ScanAnswer,
                Finish, Start, ScanNext, memVars
  <2> QED BY <1>1, <2>1, WriterKept DEF AnswerInv, writeVars
<1>4. ASSUME NEW k \in Keys, Expire(k) PROVE AnswerInv'
  <2>1. /\ UNCHANGED <<writeVars, base>>
        /\ mem' = [mem EXCEPT ![k] = [mem[k] EXCEPT !.exp = "past"]]
        /\ \A w \in Writers : unsure'[w] = unsure[w]
    BY <1>4 DEF Expire, Write
  <2>2. \A j \in Keys : mem'[j].val = mem[j].val
    BY <1>1, <2>1 DEF TypeInv, TypeOK, Entry
  <2>3. \A w \in Writers : KeysOf(ops[w]) \subseteq Keys
    BY <1>1, KeysOfType DEF TypeInv
  <2> QED BY <1>1, <2>1, <2>2, <2>3, WriterKept DEF AnswerInv, writeVars
<1>5. CASE Idle \/ UNCHANGED vars
  BY <1>1, <1>5, WriterKept
     DEF AnswerInv, Idle, vars, memVars, writeVars, readVars
<1> QED BY <1>2, <1>3, <1>4, <1>5 DEF Step

-----------------------------------------------------------------------------
(* The theorems.                                                           *)

LEMMA NextIsStep ==
  ASSUME TypeInv, Next
  PROVE  Step
BY SelectionAssumption DEF Next, Step, WriterStep, ReaderStep

LEMMA ServiceInit == Init => ReadInv /\ AnswerInv
<1> SUFFICES ASSUME Init PROVE ReadInv /\ AnswerInv
  OBVIOUS
<1>1. TypeInv
  BY TypeInit
<1>2. \A r \in Readers : Sound(r)
  BY FS_EmptySet
     DEF Init, Sound, NotBegun, Standing, Sweeps, Passed, Found, Witnessed,
         Behind, Functional
<1>3. \A w \in Writers : Truthful(w)
  BY DEF Init, Truthful
<1> QED BY <1>1, <1>2, <1>3 DEF ReadInv, AnswerInv

\* What the inductive invariants say of the answers to readers and writers.
ServiceInv ==
  TypeOK /\ ReadsComplete /\ ReadsReal /\ FoundOnce /\ AnswersTrue

LEMMA ServiceInvHolds == ReadInv /\ AnswerInv => ServiceInv
<1> SUFFICES ASSUME ReadInv, AnswerInv PROVE ServiceInv
  OBVIOUS
<1>1. TypeOK
  BY DEF ReadInv, TypeInv
<1>2. ReadsComplete
  <2>1. ASSUME NEW r \in Readers, rpc[r] = "scanned"
        PROVE  always[r] \subseteq Found(r)
    <3>1. always[r] \subseteq Keys /\ Sweeps(r)
      BY DEF ReadInv, TypeInv, Sound
    <3>2. \A k \in Keys : ShardOf[k] < NShards + 1
      BY ShardAssumption
    <3> QED BY <2>1, <3>1, <3>2 DEF Sweeps, Passed
  <2>2. ASSUME NEW r \in Readers, rpc[r] \in {"listed", "missing"}
        PROVE  always[r] \cap pick[r] \subseteq Found(r)
    BY <2>2 DEF ReadInv, Sound, Sweeps
  <2> QED BY <2>1, <2>2 DEF ReadsComplete
<1>3. ReadsReal
  BY DEF ReadsReal, ReadInv, Sound, Witnessed
<1>4. FoundOnce
  <2> SUFFICES ASSUME NEW r \in Readers
               PROVE  /\ total[r] = Cardinality(Found(r))
                      /\ total[r] = Cardinality(got[r])
    BY DEF FoundOnce
  <2>1. /\ got[r] \in SUBSET (Keys \X Values) /\ Functional(got[r])
        /\ total[r] = Cardinality(got[r])
    BY DEF ReadInv, TypeInv, TypeOK, Sound, Behind
  <2>2. Cardinality(Found(r)) = Cardinality(got[r])
    BY <2>1, PairsCount DEF Found
  <2> QED BY <2>1, <2>2
<1>5. AnswersTrue
  BY DEF AnswerInv, AnswersTrue, Truthful
<1> QED BY <1>1, <1>2, <1>3, <1>4, <1>5 DEF ServiceInv

\* Everything the service answers, at once.
LEMMA ServiceCorrect == Spec => []ServiceInv
<1> DEFINE Inv == ReadInv /\ AnswerInv
<1>1. Inv /\ [Next]_vars => Inv'
  BY NextIsStep, ReadInvStep, AnswerInvStep DEF ReadInv
<1> QED BY <1>1, ServiceInit, ServiceInvHolds, PTL DEF Spec

\* The variables of the service keep their types.
THEOREM TypeCorrect == Spec => []TypeOK
BY ServiceCorrect, PTL DEF ServiceInv

\* List and ScanKeys miss no key that was readable all along, although they
\* take the shards' locks one after the other.
THEOREM MissesNoKey == Spec => []ReadsComplete
BY ServiceCorrect, PTL DEF ServiceInv

\* They find nothing that was not there, with that value, since they began.
THEOREM FindsWhatWasThere == Spec => []ReadsReal
BY ServiceCorrect, PTL DEF ServiceInv

\* ScanKeys, page after page, finds no key twice.
THEOREM FindsOnce == Spec => []FoundOnce
BY ServiceCorrect, PTL DEF ServiceInv

\* ExecuteTransaction's answers tell what it has done to every key, but to one
\* that another writer has written since the transaction last wrote it, and one
\* whose put was answered like a success although its Append had failed.
THEOREM TellsWhatIsDone == Spec => []AnswersTrue
BY ServiceCorrect, PTL DEF ServiceInv

=============================================================================
