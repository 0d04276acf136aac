-------------------------- MODULE StorageWALPromise --------------------------
(***************************************************************************)
(* Proof that the storage engine keeps the promise of DurableStore, for    *)
(* every value of the constants: with any number of clients, compactions   *)
(* and crashes, but for those in which the runs and claims show it to lose *)
(* data.                                                                   *)
(***************************************************************************)
EXTENDS StorageWALDurable, StorageWALRecovery

\* A request under way is one its client may make; what it updates is there.
Allowed(c) ==
  pc[c] # "idle" =>
    /\ op[c].key \in Touches[c]
    /\ op[c].kind = "put" => op[c].ttl > 0
    /\ op[c].kind = "update" => op[c].ttl = 0 /\ mem[op[c].key].val # NoVal

PromiseInv ==
  /\ RecoveryInv
  /\ Whole(log) /\ Whole(tmp)
  /\ walOpen \/ WALLocked
  /\ phase # "nolog"
  /\ \A c \in Clients : Allowed(c)

-----------------------------------------------------------------------------
(* The invariant.                                                          *)

\* To a client compaction is silent.
LEMMA CompactSilent ==
  ASSUME RecoveryInv, NEW g \in Compactors, CompactStep(g)
  PROVE  phase = "up" /\ UNCHANGED <<mem, pc, op, phase>>
<1>1. phase = "up"
  BY AloneStep
<1>2. UNCHANGED <<mem, pc, op, phase>>
  BY DEF CompactStep, CompactOpen, CompactOpenFails, LockShard, UnlockShard,
         CopyKey, CompactRemove, CompactRemoveFails, CompactRename,
         CompactSwapFails, SwapDone, memVars, cliVars, bootVars
<1> QED BY <1>1, <1>2

\* Nobody else has a request on the key of c.
LEMMA Alone ==
  ASSUME Careful, PromiseInv, NEW c \in Clients, NEW d \in Clients, c # d,
         pc[c] # "idle", pc[d] # "idle"
  PROVE  op[c].key # op[d].key
BY DEF Careful, PromiseInv, Allowed

\* A crash leaves the log as it is.
LEMMA CrashKeepsLog ==
  ASSUME Careful, PromiseInv, Crash
  PROVE  log' = log
BY DEF Crash, Careful

LEMMA AllowedStep ==
  ASSUME Careful, PromiseInv, [Next]_vars, NEW c \in Clients
  PROVE  Allowed(c)'
<1>0. /\ Allowed(c) /\ op \in [Clients -> Request \cup {NoOp}] /\ now \in Nat
      /\ pc \in [Clients -> {"idle", "append", "apply"}]
      /\ mem \in [Keys -> Entry]
      /\ \A d \in Clients : pc[d] # "idle" => op[d] \in Request
  BY DEF PromiseInv, RecoveryInv, TypeInv, TypeOK
<1>1. ASSUME UNCHANGED mem, pc'[c] # "idle" => pc[c] # "idle" /\ op'[c] = op[c]
      PROVE  Allowed(c)'
  BY <1>0, <1>1 DEF Allowed
<1>2. ASSUME NEW d \in Clients, Arrive(d) PROVE Allowed(c)'
  <2>1. PICK o : /\ Call(d, o)
                 /\ o.kind = "put" => o.ttl > 0
                 /\ o.kind = "update" => o.ttl = 0 /\ mem[o.key].val # NoVal
    <3>1. PICK k \in Keys :
            \/ \E v \in Values, t \in TTLs : CallPut(d, k, v, t)
            \/ \E v \in Values : CallUpdate(d, k, v)
            \/ CallDelete(d, k)
      BY <1>2 DEF Arrive
    <3>2. ASSUME NEW v \in Values, NEW t \in TTLs, CallPut(d, k, v, t)
          PROVE  \E o : /\ Call(d, o)
                        /\ o.kind = "put" => o.ttl > 0
                        /\ o.kind = "update" => o.ttl = 0 /\ mem[o.key].val # NoVal
      <4> DEFINE o == [kind |-> "put", key |-> k, val |-> v,
                       ttl |-> IF t > 0 THEN now + t ELSE 0]
      <4>1. Call(d, o) /\ o.kind = "put" /\ o.ttl = IF t > 0 THEN now + t ELSE 0
        BY <3>2 DEF CallPut
      <4>2. t \in Nat /\ t > 0
        BY DataAssumption DEF Careful
      <4>3. o.ttl > 0
        <5> HIDE DEF o
        <5> QED BY <1>0, <4>1, <4>2
      <4> HIDE DEF o
      <4> QED BY <4>1, <4>3
    <3>3. ASSUME NEW v \in Values, CallUpdate(d, k, v)
          PROVE  \E o : /\ Call(d, o)
                        /\ o.kind = "put" => o.ttl > 0
                        /\ o.kind = "update" => o.ttl = 0 /\ mem[o.key].val # NoVal
      <4> DEFINE o == [kind |-> "update", key |-> k, val |-> v, ttl |-> 0]
      <4>1. Call(d, o) /\ o.kind = "update" /\ o.ttl = 0 /\ mem[o.key].val # NoVal
        BY <3>3 DEF CallUpdate, Visible
      <4> HIDE DEF o
      <4> QED BY <4>1
    <3>4. ASSUME CallDelete(d, k)
          PROVE  \E o : /\ Call(d, o)
                        /\ o.kind = "put" => o.ttl > 0
                        /\ o.kind = "update" => o.ttl = 0 /\ mem[o.key].val # NoVal
      <4> DEFINE o == [kind |-> "delete", key |-> k, val |-> NoVal, ttl |-> 0]
      <4>1. Call(d, o) /\ o.kind = "delete"
        BY <3>4 DEF CallDelete
      <4> HIDE DEF o
      <4> QED BY <4>1
    <3> QED BY <3>1, <3>2, <3>3, <3>4
  <2>2. UNCHANGED mem
    BY <2>1 DEF Call, memVars
  <2>3. CASE d = c
    <3>1. op'[c] = o /\ o.key \in Touches[c]
      BY <1>0, <2>1, <2>3 DEF Call
    <3> QED BY <2>1, <2>2, <3>1 DEF Allowed
  <2>4. CASE d # c
    BY <1>0, <1>1, <2>1, <2>2, <2>4 DEF Call
  <2> QED BY <2>3, <2>4
<1>3. ASSUME NEW d \in Clients, AppendOK(d) \/ AppendFails(d) \/ Unlogged(d)
      PROVE  Allowed(c)'
  BY <1>0, <1>1, <1>3 DEF AppendOK, AppendFails, Unlogged, memVars
<1>4. ASSUME NEW d \in Clients, Apply(d) PROVE Allowed(c)'
  <2>1. CASE d = c
    BY <1>0, <1>4, <2>1 DEF Apply, Allowed
  <2>2. CASE d # c
    <3>1. /\ pc'[c] = pc[c] /\ op'[c] = op[c]
          /\ pc[c] # "idle" => mem'[op[c].key] = mem[op[c].key]
      BY <1>0, <1>4, <2>2, Alone DEF Apply, Request
    <3> QED BY <1>0, <3>1 DEF Allowed
  <2> QED BY <2>1, <2>2
<1>5. CASE Crash
  BY <1>5 DEF Crash, Allowed
<1>6. CASE ReplayStep
  <2>1. pc[c] = "idle" /\ UNCHANGED pc
    BY <1>6 DEF ReplayStep, ReplayRecord, ReplayEnds, ReplayFails,
                ReplayMisreads, NewWALFails, ReplayUnchanged, cliVars,
                PromiseInv, RecoveryInv, TypeInv, Booting
  <2> QED BY <2>1 DEF Allowed
<1>7. CASE Tick \/ UNCHANGED vars
  BY <1>0, <1>1, <1>7 DEF Tick, vars, memVars, cliVars
<1>8. ASSUME NEW g \in Compactors, CompactStep(g) PROVE Allowed(c)'
  BY <1>1, <1>8, CompactSilent DEF PromiseInv
<1> QED
  BY <1>2, <1>3, <1>4, <1>5, <1>6, <1>7, <1>8 DEF Next, ClientStep

\* A whole log stays whole under records written whole.
LEMMA WholeAppended ==
  ASSUME NEW s \in Seq(Record), NEW r \in Record, Whole(s), ~r.torn
  PROVE  Whole(Append(s, r))
<1>1. /\ Len(s) \in Nat /\ Len(Append(s, r)) = Len(s) + 1
      /\ \A i \in 1..Len(s) : Append(s, r)[i] = s[i]
      /\ Append(s, r)[Len(s) + 1] = r
  BY AppendFacts
<1>2. \A i \in 1..Len(s) + 1 : i \in 1..Len(s) \/ i = Len(s) + 1
  BY <1>1
<1> QED BY <1>1, <1>2 DEF Whole

LEMMA WholeCompact ==
  ASSUME PromiseInv, Spared, Spared', NEW g \in Compactors, CompactStep(g)
  PROVE  Whole(log)' /\ Whole(tmp)' /\ (walOpen' \/ WALLocked')
<1>0. /\ tmp \in Seq(Record) /\ mem \in [Keys -> Entry] /\ faults' = 0 /\ faults = 0
      /\ cpc \in [Compactors -> {"idle", "open", "scan", "locked", "rename"}]
      /\ Whole(log) /\ Whole(tmp) /\ (walOpen \/ WALLocked)
  BY DEF PromiseInv, RecoveryInv, TypeInv, TypeOK, Spared
<1>1. Whole(<<>>)
  BY DEF Whole
<1> USE DEF fileVars
<1>2. CASE CompactOpen(g)
  <2>1. WALLocked => WALLocked'
    BY <1>0, <1>2 DEF CompactOpen, WALLocked
  <2>2. UNCHANGED <<log, walOpen>> /\ tmp' = <<>>
    BY <1>2 DEF CompactOpen
  <2> QED BY <1>0, <1>1, <2>1, <2>2
<1>3. CASE LockShard(g) \/ UnlockShard(g)
  <2>1. WALLocked => WALLocked'
    BY <1>0, <1>3 DEF LockShard, UnlockShard, WALLocked
  <2>2. UNCHANGED <<log, walOpen, tmp>>
    BY <1>3 DEF LockShard, UnlockShard
  <2> QED BY <1>0, <2>1, <2>2
<1>4. ASSUME NEW k \in Keys, CopyKey(g, k)
      PROVE  Whole(log)' /\ Whole(tmp)' /\ (walOpen' \/ WALLocked')
  <2>1. UNCHANGED <<log, walOpen, cpc>>
    BY <1>4 DEF CopyKey
  <2>2. tmp' = tmp \/ tmp' = Append(tmp, SnapshotOf(k))
    BY <1>0, <1>4 DEF CopyKey
  <2>3. SnapshotOf(k) \in Record /\ ~SnapshotOf(k).torn
    BY <1>0 DEF SnapshotOf, Record, Entry
  <2>4. Whole(tmp)'
    BY <1>0, <2>2, <2>3, WholeAppended
  <2> QED BY <1>0, <2>1, <2>4 DEF WALLocked
<1>5. CASE CompactRemove(g)
  <2>1. log' = <<>> /\ tmp' = tmp /\ cpc'[g] = "rename"
    BY <1>0, <1>5 DEF CompactRemove
  <2> QED BY <1>0, <1>1, <2>1 DEF WALLocked
<1>6. CASE CompactRename(g)
  <2>1. log' = tmp /\ tmp' = <<>> /\ walOpen'
    BY <1>6 DEF CompactRename
  <2> QED BY <1>0, <1>1, <2>1
<1>7. CASE CompactOpenFails(g) \/ CompactRemoveFails(g) \/ CompactSwapFails(g)
  BY <1>0, <1>7 DEF CompactOpenFails, CompactRemoveFails, CompactSwapFails
<1> QED BY <1>2, <1>3, <1>4, <1>5, <1>6, <1>7 DEF CompactStep

\* Without a fault there is a log.
LEMMA LoggedStep ==
  ASSUME PromiseInv, [Next]_vars, Spared, Spared'
  PROVE  phase' # "nolog"
<1>1. phase # "nolog" /\ faults = 0 /\ faults' = 0
  BY DEF PromiseInv, Spared
<1>2. ASSUME NEW c \in Clients, Arrive(c) \/ ClientStep(c)
      PROVE  phase' = phase
  BY <1>2 DEF Arrive, CallPut, CallUpdate, CallDelete, Call, ClientStep,
              AppendOK, AppendFails, Unlogged, Apply, bootVars
<1>3. ASSUME NEW g \in Compactors, CompactStep(g) PROVE phase' = phase
  BY <1>3, CompactSilent DEF PromiseInv
<1>4. CASE Tick \/ Crash \/ UNCHANGED vars
  BY <1>1, <1>4 DEF Tick, Crash, vars, bootVars
<1>5. CASE ReplayStep
  BY <1>1, <1>5 DEF ReplayStep, ReplayRecord, ReplayEnds, ReplayFails,
                    ReplayMisreads, NewWALFails
<1> QED BY <1>1, <1>2, <1>3, <1>4, <1>5 DEF Next

LEMMA PromiseStep ==
  ASSUME Careful, PromiseInv, [Next]_vars, Spared, Spared'
  PROVE  PromiseInv'
<1>1. RecoveryInv'
  BY RecoveryStep DEF PromiseInv
<1>2. Whole(log)' /\ Whole(tmp)' /\ (walOpen' \/ WALLocked')
  <2>0. /\ log \in Seq(Record) /\ faults = 0 /\ faults' = 0
        /\ Whole(log) /\ Whole(tmp) /\ (walOpen \/ WALLocked)
        /\ \A d \in Clients : pc[d] # "idle" => op[d] \in Request
        /\ phase # "nolog"
    BY DEF PromiseInv, RecoveryInv, TypeInv, TypeOK, Spared
  <2>1. ASSUME NEW c \in Clients, AppendOK(c)
        PROVE  Whole(log)' /\ Whole(tmp)' /\ (walOpen' \/ WALLocked')
    <3>1. op[c] \in Request
      BY <2>0, <2>1 DEF AppendOK
    <3>2. RecordOf(op[c]) \in Record /\ ~RecordOf(op[c]).torn
      BY <3>1, RecordOfType DEF RecordOf
    <3>3. log' = Append(log, RecordOf(op[c])) /\ tmp' = tmp /\ walOpen'
      BY <2>1 DEF AppendOK
    <3> QED BY <2>0, <3>2, <3>3, WholeAppended
  <2>2. ASSUME NEW c \in Clients, AppendFails(c) PROVE FALSE
    BY <2>0, <2>2 DEF AppendFails
  <2>3. ASSUME NEW c \in Clients, Arrive(c) \/ Apply(c)
        PROVE  UNCHANGED <<log, tmp, walOpen, cpc>>
    BY <2>3 DEF Arrive, CallPut, CallUpdate, CallDelete, Call, Apply, fileVars, compVars
  <2>4. CASE Crash
    <3>1. log' = log /\ tmp' = <<>> /\ walOpen'
      BY <2>4, CrashKeepsLog DEF Crash
    <3> QED BY <2>0, <3>1 DEF Whole
  <2>5. ASSUME ReplayStep \/ Tick \/ UNCHANGED vars
        PROVE  UNCHANGED <<log, tmp, walOpen, cpc>>
    BY <2>5 DEF ReplayStep, ReplayRecord, ReplayEnds, ReplayFails,
                ReplayMisreads, NewWALFails, ReplayUnchanged, Tick, vars,
                fileVars, compVars
  <2>6. UNCHANGED <<log, tmp, walOpen, cpc>> =>
          Whole(log)' /\ Whole(tmp)' /\ (walOpen' \/ WALLocked')
    BY <2>0 DEF Whole, WALLocked
  <2>7. ASSUME NEW c \in Clients, Unlogged(c) PROVE FALSE
    BY <2>0, <2>7 DEF Unlogged
  <2> QED
    BY <2>1, <2>2, <2>3, <2>4, <2>5, <2>6, <2>7, WholeCompact
    DEF Next, ClientStep
<1>3. phase' # "nolog"
  BY LoggedStep
<1> QED BY <1>1, <1>2, <1>3, AllowedStep DEF PromiseInv

-----------------------------------------------------------------------------
(* The steps.                                                              *)

\* What a request does to memory is what the map promises for it.
LEMMA EffectIsOutcome ==
  ASSUME PromiseInv, NEW c \in Clients, pc[c] # "idle"
  PROVE  /\ op[c].key \in Keys
         /\ Effect(mem[op[c].key], RecordOf(op[c]))
              = Promise!Outcome(mem[op[c].key], op[c])
<1> DEFINE o == op[c]
           e == mem[op[c].key]
<1>1. /\ o \in Request /\ o.key \in Keys /\ e \in Entry /\ NoOrphan(e)
  BY DEF PromiseInv, RecoveryInv, TypeInv, TypeOK, NoOrphans, Request
<1>2. /\ o.kind = "put" => o.ttl > 0
      /\ o.kind = "update" => o.ttl = 0 /\ e.val # NoVal
  BY DEF PromiseInv, Allowed
<1> HIDE DEF o, e
<1>3. e = [val |-> e.val, exp |-> e.exp] /\ [e EXCEPT !.val = o.val] = [val |-> o.val, exp |-> e.exp]
  BY <1>1 DEF Entry
<1> DEFINE r == RecordOf(o)
<1>4. /\ r.op = (IF o.kind = "delete" THEN "del" ELSE "put")
      /\ r.val = o.val /\ r.ttl = o.ttl
  BY DEF RecordOf
<1> HIDE DEF r
<1>5. Effect(e, r) = Promise!Outcome(e, o)
  <2>1. CASE o.kind = "put"
    <3>1. Effect(e, r) = [val |-> o.val, exp |-> o.ttl]
      BY <1>2, <2>1, <1>4 DEF Effect, putInternal
    <3>2. Promise!Outcome(e, o) = [val |-> o.val, exp |-> o.ttl]
      BY <2>1 DEF Promise!Outcome
    <3> QED BY <3>1, <3>2
  <2>2. CASE o.kind = "update"
    <3>1. Effect(e, r) = [val |-> o.val, exp |-> e.exp]
      BY <1>2, <2>2, <1>4 DEF Effect, putInternal
    <3>2. Promise!Outcome(e, o) = [e EXCEPT !.val = o.val]
      BY <1>2, <2>2 DEF Promise!Outcome
    <3> QED BY <1>3, <3>1, <3>2
  <2>3. CASE o.kind = "delete"
    <3>1. Effect(e, r) = NoEntry
      BY <1>1, <1>3, <2>3, <1>4 DEF Effect, deleteInternal, NoOrphan, NoEntry
    <3>2. Promise!Outcome(e, o) = NoEntry
      BY <2>3 DEF Promise!Outcome, Promise!NoEntry, NoEntry
    <3> QED BY <3>1, <3>2
  <2>4. o.kind \in {"put", "update", "delete"}
    BY <1>1 DEF Request
  <2> QED BY <2>1, <2>2, <2>3, <2>4
<1> QED BY <1>1, <1>5 DEF o, e, r

\* A call is a call of the promised map.
LEMMA ArriveIsCall ==
  ASSUME PromiseInv, NEW c \in Clients, Arrive(c)
  PROVE  Promise!Call(c)
<1>0. /\ pc \in [Clients -> {"idle", "append", "apply"}]
      /\ op \in [Clients -> Request \cup {NoOp}]
      /\ \A d \in Clients : pc'[d] # "idle" => op'[d] \in Request
  <2>1. TypeInv'
    BY TypeStep DEF PromiseInv, RecoveryInv, Next
  <2> QED BY <2>1 DEF PromiseInv, RecoveryInv, TypeInv, TypeOK
<1>1. PICK o : Call(c, o)
  BY DEF Arrive, CallPut, CallUpdate, CallDelete
<1>2. Store' = Store
  BY <1>1 DEF Call, Store, bootVars, memVars
<1>3. Outstanding[c] = NoOp /\ Outstanding'[c] = o /\ o \in Request
  BY <1>0, <1>1 DEF Call, Outstanding
<1>4. Outstanding' = [Outstanding EXCEPT ![c] = o]
  BY <1>0, <1>1 DEF Call, Outstanding
<1> QED BY <1>2, <1>3, <1>4 DEF Promise!Call, Promise!Request, Request

\* Applying a request is its return.
LEMMA ApplyIsReturn ==
  ASSUME PromiseInv, NEW c \in Clients, Apply(c)
  PROVE  Promise!Return(c)
<1>0. /\ pc \in [Clients -> {"idle", "append", "apply"}]
      /\ op \in [Clients -> Request \cup {NoOp}]
      /\ mem \in [Keys -> Entry]
      /\ pc[c] = "apply" /\ op[c] \in Request /\ phase = "up" /\ phase' = "up"
  BY DEF PromiseInv, RecoveryInv, TypeInv, TypeOK, Booting, Apply, bootVars
<1>1. /\ op[c].key \in Keys
      /\ Effect(mem[op[c].key], RecordOf(op[c]))
           = Promise!Outcome(mem[op[c].key], op[c])
  BY <1>0, EffectIsOutcome
<1>2. Outstanding[c] = op[c] /\ op[c] # NoOp
  BY <1>0, NoOpAssumption DEF Outstanding
<1>3. Outstanding' = [Outstanding EXCEPT ![c] = NoOp]
  BY <1>0 DEF Apply, Outstanding
<1>4. Store = mem /\ Store' = mem'
  BY <1>0 DEF Store
<1>5. mem' = [mem EXCEPT ![op[c].key] = Effect(mem[op[c].key], RecordOf(op[c]))]
  BY <1>0 DEF Apply
<1>6. Store' = [Store EXCEPT ![op[c].key] = Promise!Outcome(mem[op[c].key], op[c])]
  BY <1>1, <1>4, <1>5
<1> QED BY <1>2, <1>3, <1>4, <1>6 DEF Promise!Return

\* A crash changes no key, but for requests that it completes.
LEMMA CrashIsCrash ==
  ASSUME Careful, PromiseInv, Spared, Crash, ~WALLocked
  PROVE  Promise!Crash
<1>0. /\ mem \in [Keys -> Entry]
      /\ \A c \in Clients : pc[c] # "idle" => op[c] \in Request
      /\ phase \in {"replay", "up"}
  BY DEF PromiseInv, RecoveryInv, TypeInv, TypeOK
<1>1. Outstanding' = [c \in Clients |-> NoOp]
  BY DEF Crash, Outstanding
<1>2. Store' = [k \in Keys |-> Recovered(log, k)]
  BY CrashKeepsLog DEF Crash, Store
<1>3. ASSUME NEW k \in Keys
      PROVE  \/ Store'[k] = Store[k]
             \/ \E c \in Clients :
                  /\ Outstanding[c] # NoOp
                  /\ Outstanding[c].key = k
                  /\ Store'[k] = Promise!Outcome(Store[k], Outstanding[c])
  <2>1. Store'[k] = Recovered(log, k)
    BY <1>2
  <2>2. CASE phase = "replay"
    BY <2>1, <2>2 DEF Store
  <2>3. CASE phase = "up"
    <3>1. Store[k] = mem[k]
      BY <2>3 DEF Store
    <3>2. Durable(k)
      BY <2>3 DEF PromiseInv, RecoveryInv, LogMatchesMemory, Spared
    <3>3. ASSUME NEW c \in Clients, PendingOn(k) = {c},
                 Recovered(log, k) = Effect(mem[k], RecordOf(op[c]))
          PROVE  /\ Outstanding[c] # NoOp
                 /\ Outstanding[c].key = k
                 /\ Store'[k] = Promise!Outcome(Store[k], Outstanding[c])
      <4>1. pc[c] = "apply" /\ op[c].key = k
        BY <3>3 DEF PendingOn
      <4>2. Outstanding[c] = op[c] /\ op[c] # NoOp
        BY <1>0, <4>1, NoOpAssumption DEF Outstanding
      <4>3. Effect(mem[k], RecordOf(op[c])) = Promise!Outcome(mem[k], op[c])
        BY <4>1, EffectIsOutcome
      <4> QED BY <2>1, <3>1, <3>3, <4>1, <4>2, <4>3
    <3> QED BY <2>1, <3>1, <3>2, <3>3 DEF Durable
  <2> QED BY <1>0, <2>2, <2>3
<1>4. DOMAIN Store' = Keys
  BY <1>2
<1> QED BY <1>1, <1>3, <1>4 DEF Promise!Crash

\* The steps of the start are none of the promised map: when they have been
\* taken memory is what the log said.
LEMMA ReplayIsSilent ==
  ASSUME PromiseInv, Spared, Spared', ReplayStep
  PROVE  UNCHANGED <<Store, Outstanding>>
<1>0. /\ mem \in [Keys -> Entry] /\ log \in Seq(Record) /\ Len(log) \in Nat
      /\ rpos \in 1..Len(log) + 1 /\ Whole(log)
  BY DEF PromiseInv, RecoveryInv, TypeInv, TypeOK
<1>1. Outstanding' = Outstanding /\ log' = log /\ phase = "replay"
  BY DEF ReplayStep, ReplayRecord, ReplayEnds, ReplayFails, ReplayMisreads,
         NewWALFails, ReplayUnchanged, cliVars, fileVars, Outstanding
<1>2. CASE ReplayRecord
  BY <1>1, <1>2 DEF ReplayRecord, Store
<1>3. CASE ReplayEnds
  <2>1. rpos = Len(log) + 1
    BY <1>0, <1>3 DEF ReplayEnds, NextIsWhole, Whole
  <2>2. SubSeq(log, 1, rpos - 1) = log
    BY <1>0, <2>1
  <2>3. \A k \in Keys : mem[k] = Recovered(log, k)
    BY <1>0, <1>1, <2>2 DEF PromiseInv, RecoveryInv, ReplayExact
  <2>4. Store = [k \in Keys |-> Recovered(log, k)] /\ Store' = mem
    BY <1>1, <1>3 DEF ReplayEnds, Store
  <2> QED BY <1>0, <1>1, <2>3, <2>4
<1>4. CASE ReplayMisreads
  BY <1>0, <1>4 DEF ReplayMisreads, Whole
<1>5. CASE ReplayFails \/ NewWALFails
  BY <1>5 DEF ReplayFails, NewWALFails, Spared
<1> QED BY <1>2, <1>3, <1>4, <1>5 DEF ReplayStep

\* Every step is one of the promised map, or none.
LEMMA StepIsPromised ==
  ASSUME Careful, PromiseInv, Spared, Spared',
         [Next /\ Spared' /\ (Crash => ~WALLocked)]_vars
  PROVE  [Promise!Next]_(Promise!vars)
<1>1. ASSUME NEW c \in Clients, Arrive(c) \/ Apply(c) PROVE Promise!Next
  BY <1>1, ArriveIsCall, ApplyIsReturn DEF Promise!Next
<1>2. ASSUME NEW c \in Clients, AppendOK(c)
      PROVE  UNCHANGED <<Store, Outstanding>>
  <2>1. pc \in [Clients -> {"idle", "append", "apply"}] /\ phase = "up"
    BY <1>2 DEF AppendOK, PromiseInv, RecoveryInv, TypeInv, TypeOK, Booting
  <2>2. Store' = Store
    BY <1>2, <2>1 DEF AppendOK, Store, bootVars, memVars
  <2>3. Outstanding' = Outstanding
    BY <1>2, <2>1 DEF AppendOK, Outstanding
  <2> QED BY <2>2, <2>3
<1>3. ASSUME NEW c \in Clients, AppendFails(c) PROVE FALSE
  BY <1>3 DEF AppendFails, Spared, PromiseInv
<1>4. ASSUME Crash, ~WALLocked PROVE Promise!Next
  BY <1>4, CrashIsCrash DEF Promise!Next
<1>5. ASSUME Tick \/ UNCHANGED vars PROVE UNCHANGED <<Store, Outstanding>>
  <2>1. UNCHANGED <<mem, log, phase, pc, op>>
    BY <1>5 DEF Tick, vars, memVars, fileVars, cliVars, bootVars
  <2> QED BY <2>1 DEF Store, Outstanding
<1>6. ASSUME NEW g \in Compactors, CompactStep(g)
      PROVE  UNCHANGED <<Store, Outstanding>>
  <2>1. phase = "up" /\ UNCHANGED <<mem, pc, op, phase>>
    BY <1>6, CompactSilent DEF PromiseInv
  <2> QED BY <2>1 DEF Store, Outstanding
<1>7. ASSUME NEW c \in Clients, Unlogged(c) PROVE FALSE
  BY <1>7 DEF Unlogged, PromiseInv
<1> QED
  BY <1>1, <1>2, <1>3, <1>4, <1>5, <1>6, <1>7, ReplayIsSilent
  DEF Next, ClientStep, Promise!vars

\* An empty log is an empty map.
LEMMA PromiseInit ==
  ASSUME Init
  PROVE  Promise!Init /\ PromiseInv
<1>1. RecoveryInv
  BY RecoveryInit
<1>2. \A k \in Keys : Recovered(log, k) = NoEntry
  <2>1. \A k : On(log, k) = {}
    BY DEF Init, On
  <2> QED BY <2>1, RecoveredNone
<1>3. Store = [k \in Keys |-> Promise!NoEntry]
  BY <1>2 DEF Init, Store, Promise!NoEntry, NoEntry
<1>4. Outstanding = [c \in Clients |-> NoOp]
  BY DEF Init, Outstanding
<1>5. /\ Whole(log) /\ Whole(tmp) /\ walOpen /\ phase # "nolog"
      /\ \A c \in Clients : Allowed(c)
  BY DEF Init, Whole, Allowed
<1> QED BY <1>1, <1>3, <1>4, <1>5 DEF Promise!Init, PromiseInv

\* DurableMap: whatever the clients do, whenever the log is compacted and
\* however often the process dies, the engine is a map whose completed
\* requests are never lost, applied twice or half.
THEOREM KeepsPromise == Careful /\ SparedSpec => DurableMap
<1> DEFINE Inv == PromiseInv /\ Spared
           Step == [Next /\ Spared' /\ (Crash => ~WALLocked)]_vars
<1>1. Init => Promise!Init /\ Inv
  <2>1. Init => Spared
    BY DEF Init, Spared
  <2> QED BY <2>1, PromiseInit
<1>2. Careful /\ Inv /\ Step => Inv'
  <2>1. Spared /\ UNCHANGED vars => Spared'
    BY DEF Spared, WALLocked, vars, boundVars, histVars, compVars
  <2>2. Step => [Next]_vars
    OBVIOUS
  <2> QED BY <2>1, <2>2, PromiseStep
<1>3. Careful /\ Inv /\ Inv' /\ Step => [Promise!Next]_(Promise!vars)
  BY StepIsPromised
<1>4. Careful => Careful'
  BY DEF Careful
<1> HIDE DEF Inv
<1> QED BY <1>1, <1>2, <1>3, <1>4, PTL DEF SparedSpec, DurableMap, Promise!Spec

=============================================================================
