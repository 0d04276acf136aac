----------------------------- MODULE ServerProofs -----------------------------
(***************************************************************************)
(* Proofs about the server put together: its steps are steps of its two    *)
(* components, whose invariants therefore hold of it.                      *)
(***************************************************************************)
EXTENDS Server, KVServiceProofs, DataStructuresProofs

-----------------------------------------------------------------------------
(* The inductive invariant.                                                *)

\* What the clients ask is what a script says.
Scripted ==
  /\ \A w \in Writers :
       req[w] # NoCall => req[w].op \in StoreOps /\ req[w].ops \in Requests
  /\ \A d \in reads : d.keys \subseteq Keys

\* A writer of the store is at work only while its call is being served.
Busy(w) == pc[w] # "idle" => stage[w] = "serve"

ServerInv ==
  /\ ReadInv /\ AnswerInv /\ GetInv /\ Scripted
  /\ \A w \in Writers : Busy(w)

-----------------------------------------------------------------------------
(* The steps of the server are steps of its components.                    *)

\* To the store, a step of the server is one of a writer, of a reader, of time
\* or of nobody.
LEMMA StoreSteps ==
  ASSUME ServerInv, [ServerNext]_allVars
  PROVE  Step \/ UNCHANGED vars
<1>1. ASSUME NEW w \in Writers, Serve(w) PROVE Step
  <2>1. w \in Calls /\ req[w] # NoCall
    BY <1>1, WriterAssumption
       DEF Serve, ServerInv, GetInv, ListInv, CallInv, CallAt
  <2>2. req[w].ops \in Requests
    BY <2>1 DEF ServerInv, Scripted
  <2> QED BY <1>1, <2>2 DEF Serve, Step, WriterStep
<1>2. ASSUME NEW w \in Writers, StoreStep(w) \/ Served(w) PROVE Step
  BY <1>2 DEF StoreStep, Served, Step, WriterStep
<1>3. ASSUME NEW r \in Readers, ReadStep(r) PROVE Step
  <2>1. Started(r) => \E S \in SUBSET Keys :
                        \/ Start(r, "list", 0, S)
                        \/ \E n \in Counts : Start(r, "scan", n, S)
    BY DEF Started, ServerInv, Scripted
  <2> QED BY <1>3, <2>1 DEF ReadStep, Step, ReaderStep
<1>4. ASSUME NEW n \in Clients, Broken(n) PROVE Step
  <2>1. faults \in Nat
    BY DEF ServerInv, ReadInv, TypeInv, TypeOK
  <2> QED BY <1>4, <2>1 DEF Broken, AppendFails, Step, Idle
<1>5. ASSUME NEW c \in Calls, Carry(c) PROVE UNCHANGED vars
  BY <1>5 DEF Carry
<1>6. ASSUME NEW k \in Keys, Expire(k) PROVE Step
  BY <1>6 DEF Step
<1> QED
  BY <1>1, <1>2, <1>3, <1>4, <1>5, <1>6 DEF ServerNext, allVars

\* To the structures and the connections, it is one of theirs, or the service
\* of a call elsewhere.
LEMMA StructSteps ==
  ASSUME ServerInv, [ServerNext]_allVars
  PROVE  StructStep \/ UNCHANGED structVars
<1>1. ASSUME NEW w \in Writers, Serve(w) PROVE StructStep
  <2>1. w \in Calls /\ req[w] # NoCall
    BY <1>1, WriterAssumption
       DEF Serve, ServerInv, GetInv, ListInv, CallInv, CallAt
  <2>2. Elsewhere(w)
    BY <1>1, <2>1 DEF Serve, Elsewhere, StoreOps, StructOps
  <2> QED BY <2>1, <2>2 DEF StructStep
<1>2. ASSUME NEW w \in Writers, Served(w) PROVE StructStep
  <2>1. w \in Calls /\ stage[w] = "serve"
    BY <1>2, WriterAssumption DEF Served, Return, ServerInv, Busy
  <2>2. Outcome(w) \in Outcomes \ {"none"}
    BY DEF Outcome, Outcomes
  <2>3. Returns(w)
    BY <1>2, <2>1, <2>2 DEF Served, Returns
  <2> QED BY <2>1, <2>3 DEF StructStep
<1>3. ASSUME NEW c \in Calls, Carry(c) PROVE StructStep
  BY <1>3 DEF Carry, StructStep, DSNext
<1>4. ASSUME NEW n \in Clients, Broken(n) PROVE StructStep
  BY <1>4 DEF Broken, StructStep, DSNext
<1>5. ASSUME \/ \E w \in Writers : StoreStep(w)
             \/ \E r \in Readers : ReadStep(r)
             \/ \E k \in Keys : Expire(k) /\ UNCHANGED <<structVars, reads>>
      PROVE  UNCHANGED structVars
  BY <1>5 DEF StoreStep, ReadStep
<1> QED
  BY <1>1, <1>2, <1>3, <1>4, <1>5 DEF ServerNext, allVars

-----------------------------------------------------------------------------
(* Who is at work.                                                         *)

\* What Serve and Served do to the writer's call, and to the others.
LEMMA BusyServe ==
  ASSUME ServerInv, NEW v \in Writers, Serve(v) \/ Served(v), NEW w \in Writers
  PROVE  Busy(w)'
<1>1. /\ w \in Calls /\ v \in Calls /\ Busy(w)
      /\ pc \in [Writers -> {"idle", "op", "write"}]
      /\ stage \in [Calls -> Stages]
  BY WriterAssumption
     DEF ServerInv, ReadInv, TypeInv, TypeOK, GetInv, ListInv, CallInv
<1>2. CASE w # v
  BY <1>1, <1>2 DEF Serve, Served, Begin, Return, Handled, Busy
<1>3. CASE w = v /\ Serve(v)
  BY <1>1, <1>3 DEF Serve, Busy
<1>4. CASE w = v /\ Served(v)
  BY <1>1, <1>4 DEF Served, Return, Busy
<1> QED BY <1>2, <1>3, <1>4

\* The connections, and the calls of the structures: none of them is at a call
\* that the store serves.
LEMMA BusyCarry ==
  ASSUME ServerInv, NEW c \in Calls, Carry(c), NEW w \in Writers
  PROVE  Busy(w)'
<1>1. /\ w \in Calls /\ Busy(w) /\ stage \in [Calls -> Stages]
      /\ result = [d \in Calls |-> result[d]]
      /\ stage[w] \notin {"new", "over"} => req[w].op \in StoreOps
      /\ stage[w] \notin {"sort", "encode"} /\ UNCHANGED pc
  <2>1. w \in Calls
    BY WriterAssumption
  <2>2. CallAt(w) /\ Scripted /\ Busy(w)
    BY <2>1 DEF ServerInv, GetInv, ListInv, CallInv
  <2>3. UNCHANGED pc
    BY DEF Carry, vars, writeVars
  <2> QED
    BY <2>1, <2>2, <2>3
    DEF ServerInv, GetInv, ListInv, CallInv, CallAt, Scripted, StoreOps
<1>2. stage[w] = "serve" => stage'[w] = "serve"
  <2>1. CASE AtOnce(c) \/ InSteps(c)
    <3>1. c # w \/ UNCHANGED stage
      <4>1. CASE AtOnce(c)
        BY <1>1, <4>1, AtOnceFacts DEF StructOps, StoreOps
      <4>2. CASE SortedListAdd(c) \/ SortedListGet(c)
        BY <1>1, <4>2 DEF SortedListAdd, SortedListGet, Enter, StoreOps
      <4>3. CASE SortDone(c) \/ EncodeElem(c)
        BY <1>1, <4>3 DEF SortDone, EncodeElem
      <4>4. CASE SortSwap(c)
        BY <4>4 DEF SortSwap, rpcVars
      <4> QED BY <2>1, <4>1, <4>2, <4>3, <4>4 DEF InSteps
    <3>2. Ends(c) \/ Moves(c) \/ Encodes(c) \/ UNCHANGED rpcVars
      BY <2>1, HandlerFacts DEF HandlerStep
    <3> QED BY <1>1, <3>1, <3>2 DEF Ends, Moves, Encodes, Handled, rpcVars
  <2>2. CASE Carried(c)
    BY <1>1, <2>2 DEF Carried, Call, Lose, Reply
  <2> QED BY <2>1, <2>2 DEF Carry
<1> QED BY <1>1, <1>2 DEF Busy

LEMMA BusyStep ==
  ASSUME ServerInv, [ServerNext]_allVars, NEW w \in Writers
  PROVE  Busy(w)'
<1>1. Busy(w)
  BY DEF ServerInv
<1>2. ASSUME NEW v \in Writers, StoreStep(v) PROVE Busy(w)'
  <2>1. /\ UNCHANGED stage /\ pc[v] # "idle"
        /\ \A u \in Writers : u # v => pc'[u] = pc[u]
    BY <1>2 DEF StoreStep, structVars, rpcVars, Executing, PutOp, DeleteOp, UpdateCheck,
                UpdateWrite, BadOp, At, Answer, writeVars, ServerInv, ReadInv,
                TypeInv, TypeOK
  <2> QED BY <1>1, <2>1 DEF Busy, ServerInv
<1>3. ASSUME \/ \E r \in Readers : ReadStep(r)
             \/ \E k \in Keys : Expire(k) /\ UNCHANGED <<structVars, reads>>
             \/ \E n \in Clients : Broken(n)
             \/ UNCHANGED allVars
      PROVE  Busy(w)'
  <2>1. UNCHANGED <<pc, stage>>
    BY <1>3 DEF ReadStep, Reading, Finish, Started, Start, ScanNext, List, Listed,
                ScanShard, ScanAnswer, Expire, Broken, Drop, structVars, rpcVars,
                writeVars, allVars, vars
  <2> QED BY <1>1, <2>1 DEF Busy
<1> QED
  BY <1>2, <1>3, BusyServe, BusyCarry DEF ServerNext

\* Nobody changes what is asked.
LEMMA ScriptedStep ==
  ASSUME ServerInv, [ServerNext]_allVars
  PROVE  Scripted'
<1>1. UNCHANGED req
  BY StructSteps, StructUnchanged DEF ServerInv, GetInv, ListInv
<1>2. UNCHANGED reads
  BY DEF ServerNext, allVars, Serve, StoreStep, Served, ReadStep, Carry, Broken
<1> QED BY <1>1, <1>2 DEF ServerInv, Scripted

-----------------------------------------------------------------------------
(* The theorems.                                                           *)

LEMMA ServerStarts == ServerInit => ServerInv
<1> SUFFICES ASSUME ServerInit PROVE ServerInv
  OBVIOUS
<1>1. Init /\ DSInit
  BY DEF ServerInit
<1>2. ReadInv /\ AnswerInv /\ GetInv
  BY <1>1, ServiceInit, StructInit
<1>3. Scripted
  BY ScriptAssumption DEF ServerInit, Scripted
<1>4. \A w \in Writers : Busy(w)
  BY <1>1 DEF Init, Busy
<1> QED BY <1>2, <1>3, <1>4 DEF ServerInv

LEMMA ServerStep == ServerInv /\ [ServerNext]_allVars => ServerInv'
<1> SUFFICES ASSUME ServerInv, [ServerNext]_allVars PROVE ServerInv'
  OBVIOUS
<1>1. ReadInv' /\ AnswerInv'
  BY StoreSteps, ReadInvStep, AnswerInvStep DEF ServerInv
<1>2. GetInv'
  BY StructSteps, GetStep DEF ServerInv
<1> QED BY <1>1, <1>2, ScriptedStep, BusyStep DEF ServerInv

\* What the server promises to those who read and write its bucket, and to
\* those who use its structures, it promises although both are served at once.
THEOREM ServesBoth == ServerSpec => [](ServiceInv /\ StructInv)
<1>1. ServerInv => ServiceInv /\ StructInv
  BY ServiceInvHolds, StructInvHolds DEF ServerInv
<1> QED BY <1>1, ServerStarts, ServerStep, PTL DEF ServerSpec

\* The queue and the stack of the server account for every push, if different
\* pushes push different elements.
THEOREM ServerAccounts == ServerSpec /\ DifferentPushes => []ElementsAccounted
<1>1. ServerInv /\ FateInv /\ [ServerNext]_allVars => FateInv'
  BY StructSteps, FateStep
<1>2. ServerInit /\ DifferentPushes => FateInv
  BY StructInit DEF ServerInit
<1> QED BY <1>1, <1>2, ServerStarts, ServerStep, FateHolds, PTL DEF ServerSpec

===============================================================================
