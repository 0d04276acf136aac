------------------------ MODULE DataStructuresProofs ------------------------
(***************************************************************************)
(* Proofs about DataStructures and the calls that reach it through RPC,    *)
(* for every value of the constants: any number of clients, calls, values  *)
(* and elements in the list, the queue and the stack.                      *)
(*                                                                         *)
(* The lemmas are about a step a little more general than DSNext: some     *)
(* calls may be served by another component, as in the server.             *)
(***************************************************************************)
EXTENDS DataStructures, FiniteSetTheorems, SequenceTheorems, TLAPS

\* The operations served here.
StructOps ==
  {"SetAdd", "SetRemove", "SetList", "MapPut", "MapGet", "QueuePush",
   "QueuePop", "QueuePeek", "StackPush", "StackPop", "StackPeek",
   "SortedListAdd", "SortedListGet"}

\* Another component takes a call, and comes back with its outcome.
Elsewhere(c) ==
  /\ stage[c] = "sent" /\ req[c] # NoCall /\ req[c].op \notin StructOps
  /\ stage' = [stage EXCEPT ![c] = "serve"]
  /\ UNCHANGED <<up, req, result, told, dsVars>>

Returns(c) ==
  /\ stage[c] = "serve"
  /\ \E outcome \in Outcomes \ {"none"} : \E vals : Handled(c, outcome, vals)
  /\ UNCHANGED dsVars

StructStep == DSNext \/ \E c \in Calls : Elsewhere(c) \/ Returns(c)

-----------------------------------------------------------------------------
(* The inductive invariants.                                               *)

\* A call is where its operation takes it, with no outcome before its end.
CallAt(c) ==
  /\ result[c] = [outcome |-> result[c].outcome, vals |-> result[c].vals]
  /\ result[c].outcome \in Outcomes
  /\ stage[c] \notin {"new", "over"} => req[c] # NoCall
  /\ stage[c] \in {"new", "sent", "sort", "serve"} => result[c] = Nothing
  /\ stage[c] = "sort" => req[c].op = "SortedListAdd"
  /\ stage[c] = "encode" => req[c].op = "SortedListGet" /\ result[c].outcome = "none"
  /\ stage[c] = "serve" => req[c].op \notin StructOps

CallInv ==
  /\ up \in SUBSET Clients /\ req \in [Calls -> Request \cup {NoCall}]
  /\ stage \in [Calls -> Stages]
  /\ told \in [Calls -> {"none", "waiting", "ok", "error", "broken"}]
  /\ result = [c \in Calls |-> result[c]]
  /\ \A c \in Calls : CallAt(c)

PlainInv ==
  /\ set = Absent \/ set \in SUBSET Elements
  /\ DOMAIN map \subseteq Names /\ \A n \in DOMAIN map : map[n] \in Elements
  /\ queue \in Seq(Elements) /\ stack \in Seq(Elements)

\* The slice of the list lies within its array, and who sorts is at one of its
\* elements.
ListOK ==
  /\ heap \in Seq(Seq(Elements \cup {0})) /\ held \in [Elements -> Nat]
  /\ list = Absent \/ /\ list = [arr |-> list.arr, len |-> list.len]
                      /\ list.arr \in 1..Len(heap)
                      /\ list.len \in 1..Len(heap[list.arr])
  /\ sorter = [call |-> sorter.call, pos |-> sorter.pos]
  /\ sorter.call \in Calls \cup {NoCall} /\ sorter.pos \in Nat
  /\ Locked => list # Absent /\ sorter.pos \in 1..list.len

Spots(f, n, e) == {i \in 1..n : f[i] = e}

\* The list holds what was added; all of it is in order but for the element
\* that is being taken down, which is not above those behind it.
ListHolds ==
  /\ list = Absent => \A e \in Elements : held[e] = 0
  /\ list # Absent =>
       /\ \A i \in 1..list.len : heap[list.arr][i] \in Elements
       /\ \A e \in Elements :
            Cardinality(Spots(heap[list.arr], list.len, e)) = held[e]
       /\ \A i, j \in 1..list.len :
            i < j /\ (Locked => j # sorter.pos) =>
              heap[list.arr][i] <= heap[list.arr][j]

ListInv == CallInv /\ PlainInv /\ ListOK /\ ListHolds

\* The slice that call c is encoding is still what it was when c got it, and
\* nobody sorts its array, unless c is counted as disturbed.
Encoding(c) ==
  stage[c] = "encode" =>
    /\ slice[c].arr \in 1..Len(heap)
    /\ slice[c].len \in 1..Len(heap[slice[c].arr])
    /\ Len(asked[c]) = slice[c].len
    /\ result[c].vals \in Seq(Elements \cup {0, Torn})
    /\ Len(result[c].vals) < slice[c].len
    /\ c \notin disturbed =>
         /\ ~(Locked /\ slice[c].arr = list.arr)
         /\ \A i \in 1..slice[c].len : heap[slice[c].arr][i] = asked[c][i]
         /\ \A i \in 1..Len(result[c].vals) : result[c].vals[i] = asked[c][i]

\* ListExact, of one call.
Exact(c) ==
  req[c] # NoCall /\ req[c].op = "SortedListGet" /\ result[c].outcome = "ok" =>
    /\ Len(result[c].vals) = Len(asked[c])
    /\ c \in disturbed \/ result[c].vals = asked[c]

GetOK ==
  /\ slice = [c \in Calls |-> slice[c]]
  /\ asked \in [Calls -> Seq(Elements)] /\ disturbed \in SUBSET Calls

GetInv == ListInv /\ GetOK /\ \A c \in Calls : Encoding(c) /\ Exact(c)

\* The elements pushed are told apart by their values.
DifferentPushes ==
  \A c, d \in Calls :
    /\ req[c] # NoCall /\ req[d] # NoCall /\ req[c].op = req[d].op
    /\ req[c].op \in {"QueuePush", "StackPush"} /\ req[c].val = req[d].val
    => c = d

\* With the results res: call c has pushed e, or has been given it by a pop.
Pushed(c, push, e, res) ==
  req[c] # NoCall /\ req[c].op = push /\ res[c].outcome = "ok" /\ req[c].val = e

Popped(c, pop, e, res) ==
  req[c] # NoCall /\ req[c].op = pop /\ res[c].vals = <<e>>

\* What is in s was pushed, and is there once; what was popped was pushed, is
\* not in s, and was popped once; what was pushed is in s or was popped.
Fate(push, pop, s, res) ==
  /\ \A i \in 1..Len(s) : \E c \in Calls : Pushed(c, push, s[i], res)
  /\ \A i, j \in 1..Len(s) : s[i] = s[j] => i = j
  /\ \A e : \A d \in Calls :
       Popped(d, pop, e, res) =>
         /\ \E c \in Calls : Pushed(c, push, e, res)
         /\ \A i \in 1..Len(s) : s[i] # e
         /\ \A b \in Calls : Popped(b, pop, e, res) => b = d
  /\ \A e : \A c \in Calls :
       Pushed(c, push, e, res) =>
         \/ \E i \in 1..Len(s) : s[i] = e
         \/ \E d \in Calls : Popped(d, pop, e, res)

FateInv ==
  /\ CallInv /\ PlainInv /\ DifferentPushes
  /\ Fate("QueuePush", "QueuePop", queue, result)
  /\ Fate("StackPush", "StackPop", stack, result)

-----------------------------------------------------------------------------
(* Calls.                                                                  *)

\* What a step of a handler does to its call.
Ends(c) ==
  /\ stage[c] \in {"sent", "sort", "encode", "serve"}
  /\ \E outcome \in Outcomes \ {"none"} : \E vals : Handled(c, outcome, vals)

Moves(c) ==
  /\ stage[c] = "sent" /\ UNCHANGED <<up, req, result, told>>
  /\ \E s \in {"sort", "encode", "serve"} :
       /\ stage' = [stage EXCEPT ![c] = s]
       /\ s = "sort" => req[c].op = "SortedListAdd"
       /\ s = "encode" => req[c].op = "SortedListGet"
       /\ s = "serve" => req[c].op \notin StructOps

Encodes(c) ==
  /\ stage[c] = "encode" /\ UNCHANGED <<up, req, stage, told>>
  /\ \E v : result' = [result EXCEPT ![c].vals = Append(@, v)]

HandlerStep(c) == AtOnce(c) \/ InSteps(c) \/ Elsewhere(c) \/ Returns(c)

\* The operation of a handler that ends the call at once.
LEMMA AtOnceFacts ==
  ASSUME NEW c \in Calls, AtOnce(c)
  PROVE  /\ Ends(c) /\ stage[c] = "sent" /\ ~Locked
         /\ req[c].op \in StructOps \ {"SortedListAdd", "SortedListGet"}
         /\ UNCHANGED <<listVars, getVars>>
<1> USE DEF Ends, Outcomes, Enter, StructOps, dsVars
<1>1. CASE SetAdd(c) \/ SetRemove(c) \/ SetList(c)
  BY <1>1 DEF SetAdd, SetRemove, SetList
<1>2. CASE MapPut(c) \/ MapGet(c)
  BY <1>2 DEF MapPut, MapGet
<1>3. CASE QueuePush(c) \/ QueuePop(c) \/ QueuePeek(c)
  BY <1>3 DEF QueuePush, QueuePop, QueuePeek, OneOf
<1>4. CASE StackPush(c) \/ StackPop(c) \/ StackPeek(c)
  BY <1>4 DEF StackPush, StackPop, StackPeek, OneOf
<1> QED BY <1>1, <1>2, <1>3, <1>4 DEF AtOnce

LEMMA HandlerFacts ==
  ASSUME NEW c \in Calls, HandlerStep(c)
  PROVE  Ends(c) \/ Moves(c) \/ Encodes(c) \/ UNCHANGED rpcVars
<1> USE DEF Outcomes, Enter, StructOps
<1>1. CASE AtOnce(c)
  BY <1>1, AtOnceFacts
<1>2. CASE SortedListAdd(c)
  BY <1>2 DEF SortedListAdd, Moves
<1>3. CASE SortSwap(c)
  BY <1>3 DEF SortSwap
<1>4. CASE SortDone(c)
  BY <1>4 DEF SortDone, Ends
<1>5. CASE SortedListGet(c)
  BY <1>5 DEF SortedListGet, Moves, Ends
<1>6. CASE EncodeElem(c)
  BY <1>6 DEF EncodeElem, Encodes, Ends
<1>7. CASE Elsewhere(c)
  BY <1>7 DEF Elsewhere, Moves
<1>8. CASE Returns(c)
  BY <1>8 DEF Returns, Ends
<1> QED
  BY <1>1, <1>2, <1>3, <1>4, <1>5, <1>6, <1>7, <1>8 DEF HandlerStep, InSteps

\* The connections.
LEMMA CarriedFacts ==
  ASSUME CallInv, \/ \E c \in Calls : Carried(c)
                  \/ \E n \in Clients : Drop(n) /\ UNCHANGED dsVars
  PROVE  /\ UNCHANGED <<req, result, dsVars>>
         /\ up' \in SUBSET Clients /\ stage' \in [Calls -> Stages]
         /\ told' \in [Calls -> {"none", "waiting", "ok", "error", "broken"}]
         /\ \A d \in Calls :
              \/ stage'[d] = stage[d]
              \/ stage'[d] = "over"
              \/ stage[d] = "new" /\ stage'[d] = "sent" /\ req[d] # NoCall
<1> USE DEF CallInv, Stages
<1>1. ASSUME NEW n, Disconnected(n)
      PROVE  /\ up' \in SUBSET Clients
             /\ told' \in [Calls -> {"none", "waiting", "ok", "error", "broken"}]
  BY <1>1 DEF Disconnected
<1>2. ASSUME NEW n \in Clients, Drop(n) /\ UNCHANGED dsVars
      PROVE  /\ UNCHANGED <<req, result, stage, dsVars>>
             /\ up' \in SUBSET Clients
             /\ told' \in [Calls -> {"none", "waiting", "ok", "error", "broken"}]
  BY <1>1, <1>2 DEF Drop
<1>3. ASSUME NEW c \in Calls, Carried(c)
      PROVE  /\ UNCHANGED <<req, result, dsVars>>
             /\ up' \in SUBSET Clients
             /\ told' \in [Calls -> {"none", "waiting", "ok", "error", "broken"}]
             /\ \E s \in {"sent", "over"} :
                  /\ stage' = [stage EXCEPT ![c] = s]
                  /\ s = "sent" => stage[c] = "new" /\ req[c] # NoCall
  <2>1. CASE Call(c) /\ UNCHANGED dsVars
    BY <2>1 DEF Call
  <2>2. CASE Lose(c) /\ UNCHANGED dsVars
    BY <2>2 DEF Lose
  <2>3. CASE Reply(c) /\ UNCHANGED dsVars
    <3>1. CASE UNCHANGED <<up, told>>
      BY <2>3, <3>1 DEF Reply
    <3>2. CASE told' = [told EXCEPT ![c] = IF result[c].outcome = "error"
                                           THEN "error" ELSE "ok"]
                 /\ UNCHANGED up
      BY <2>3, <3>2 DEF Reply
    <3>3. CASE Disconnected(ClientOf[c])
      BY <1>1, <2>3, <3>3 DEF Reply
    <3> QED BY <2>3, <3>1, <3>2, <3>3 DEF Reply
  <2> QED BY <1>3, <2>1, <2>2, <2>3 DEF Carried
<1> QED BY <1>2, <1>3

LEMMA StructCases ==
  ASSUME StructStep
  PROVE  \/ \E c \in Calls : HandlerStep(c)
         \/ \E c \in Calls : Carried(c)
         \/ \E n \in Clients : Drop(n) /\ UNCHANGED dsVars
BY DEF StructStep, DSNext, HandlerStep

LEMMA CallStep == CallInv /\ (StructStep \/ UNCHANGED structVars) => CallInv'
<1> SUFFICES ASSUME CallInv, StructStep \/ UNCHANGED structVars PROVE CallInv'
  OBVIOUS
<1>1. CASE \/ \E c \in Calls : Carried(c)
           \/ \E n \in Clients : Drop(n) /\ UNCHANGED dsVars
  BY <1>1, CarriedFacts DEF CallInv, CallAt
<1>2. ASSUME NEW c \in Calls, Ends(c) PROVE CallInv'
  <2>1. PICK o, x : o \in Outcomes \ {"none"} /\ Handled(c, o, x)
    BY <1>2 DEF Ends
  <2>2. /\ stage' = [stage EXCEPT ![c] = "reply"]
        /\ result' = [result EXCEPT ![c] = [outcome |-> o, vals |-> x]]
        /\ UNCHANGED <<up, req, told>> /\ req[c] # NoCall
    BY <1>2, <2>1 DEF Handled, Ends, CallInv, CallAt
  <2>3. \A d \in Calls : CallAt(d)'
    BY <2>1, <2>2 DEF CallInv, CallAt
  <2> QED BY <2>2, <2>3 DEF CallInv, Stages
<1>3. ASSUME NEW c \in Calls, Moves(c) PROVE CallInv'
  <2>1. PICK s \in {"sort", "encode", "serve"} :
          /\ stage' = [stage EXCEPT ![c] = s]
          /\ s = "sort" => req[c].op = "SortedListAdd"
          /\ s = "encode" => req[c].op = "SortedListGet"
          /\ s = "serve" => req[c].op \notin StructOps
    BY <1>3 DEF Moves
  <2>2. UNCHANGED <<up, req, result, told>> /\ stage[c] = "sent"
    BY <1>3 DEF Moves
  <2>3. result[c].outcome = "none"
    BY <2>2 DEF CallInv, CallAt, Nothing
  <2>4. \A d \in Calls : CallAt(d)'
    BY <2>1, <2>2, <2>3 DEF CallInv, CallAt
  <2> QED BY <2>1, <2>2, <2>4 DEF CallInv, Stages
<1>4. ASSUME NEW c \in Calls, Encodes(c) PROVE CallInv'
  <2>1. PICK v : result' = [result EXCEPT ![c].vals = Append(@, v)]
    BY <1>4 DEF Encodes
  <2>2. UNCHANGED <<up, req, stage, told>> /\ stage[c] = "encode"
    BY <1>4 DEF Encodes
  <2>3. /\ result'[c] = [outcome |-> result[c].outcome,
                         vals |-> Append(result[c].vals, v)]
        /\ \A d \in Calls : d # c => result'[d] = result[d]
        /\ result' = [d \in Calls |-> result'[d]]
    <3>1. /\ result = [d \in Calls |-> result[d]]
          /\ result[c] = [outcome |-> result[c].outcome, vals |-> result[c].vals]
      BY DEF CallInv, CallAt
    <3>2. [result[c] EXCEPT !.vals = Append(@, v)]
            = [outcome |-> result[c].outcome, vals |-> Append(result[c].vals, v)]
      BY <3>1
    <3> QED BY <2>1, <3>1, <3>2
  <2>4. \A d \in Calls : CallAt(d)'
    BY <2>2, <2>3 DEF CallInv, CallAt
  <2> QED BY <2>2, <2>3, <2>4 DEF CallInv
<1>5. CASE UNCHANGED rpcVars
  BY <1>5 DEF rpcVars, CallInv, CallAt
<1> QED
  BY <1>1, <1>2, <1>3, <1>4, <1>5, StructCases, HandlerFacts DEF structVars

\* A call asks for what it asks for.
LEMMA StructUnchanged ==
  ASSUME CallInv, StructStep \/ UNCHANGED structVars
  PROVE  UNCHANGED req
<1>1. ASSUME NEW c \in Calls, HandlerStep(c) PROVE UNCHANGED req
  BY <1>1, HandlerFacts DEF Ends, Moves, Encodes, Handled, rpcVars
<1> QED BY <1>1, StructCases, CarriedFacts DEF structVars, rpcVars

-----------------------------------------------------------------------------
(* Sequences.                                                              *)

LEMMA SpotsFinite ==
  ASSUME NEW f, NEW n \in Nat, NEW e
  PROVE  /\ IsFiniteSet(Spots(f, n, e)) /\ Cardinality(Spots(f, n, e)) \in Nat
<1>1. IsFiniteSet(1..n)
  BY FS_Interval
<1>2. Spots(f, n, e) \in SUBSET (1..n)
  BY DEF Spots
<1> QED BY <1>1, <1>2, FS_Subset, FS_CardinalityType

\* One more element.
LEMMA SpotsAppend ==
  ASSUME NEW f, NEW g, NEW n \in Nat, NEW e, \A i \in 1..n : g[i] = f[i]
  PROVE  Cardinality(Spots(g, n + 1, e)) =
           Cardinality(Spots(f, n, e)) + (IF g[n + 1] = e THEN 1 ELSE 0)
<1>1. \A i : i \in 1..n + 1 <=> i \in 1..n \/ i = n + 1
  OBVIOUS
<1>2. n + 1 \notin Spots(f, n, e)
  BY DEF Spots
<1>3. CASE g[n + 1] = e
  <2>1. Spots(g, n + 1, e) = Spots(f, n, e) \cup {n + 1}
    BY <1>1, <1>3 DEF Spots
  <2>2. Cardinality(Spots(f, n, e) \cup {n + 1}) = Cardinality(Spots(f, n, e)) + 1
    BY <1>2, SpotsFinite, FS_AddElement
  <2> QED BY <1>3, <2>1, <2>2
<1>4. CASE g[n + 1] # e
  <2>1. Spots(g, n + 1, e) = Spots(f, n, e)
    BY <1>1, <1>4 DEF Spots
  <2> QED BY <1>4, <2>1, SpotsFinite
<1> QED BY <1>3, <1>4

\* Two neighbours change places.
LEMMA SpotsSwap ==
  ASSUME NEW f, NEW g, NEW n \in Nat, NEW e, NEW p \in 2..n,
         g[p] = f[p - 1], g[p - 1] = f[p],
         \A i \in 1..n : i # p /\ i # p - 1 => g[i] = f[i]
  PROVE  Cardinality(Spots(g, n, e)) = Cardinality(Spots(f, n, e))
<1> DEFINE S == Spots(f, n, e)
           T == Spots(g, n, e)
           h == [i \in S |-> IF i = p THEN p - 1 ELSE IF i = p - 1 THEN p ELSE i]
<1>1. p \in Nat /\ p \in 1..n /\ p - 1 \in 1..n /\ p - 1 # p
  OBVIOUS
<1>2. \A i \in S : h[i] \in T
  BY <1>1 DEF Spots
<1>3. \A i, j \in S : h[i] = h[j] => i = j
  BY <1>1 DEF Spots
<1>4. \A j \in T : \E i \in S : h[i] = j
  <2> TAKE j \in T
  <2>1. CASE j = p
    BY <1>1, <2>1 DEF Spots
  <2>2. CASE j = p - 1
    BY <1>1, <2>2 DEF Spots
  <2>3. CASE j # p /\ j # p - 1
    BY <2>3 DEF Spots
  <2> QED BY <2>1, <2>2, <2>3
<1>5. h \in Bijection(S, T)
  <2> HIDE DEF S, T
  <2> QED BY <1>2, <1>3, <1>4
          DEF Bijection, Injection, Surjection, IsInjective
<1>6. ExistsBijection(S, T)
  BY <1>5 DEF ExistsBijection
<1> QED BY <1>6, SpotsFinite, FS_Bijection

\* The elements of a slice.
LEMMA ElemsFacts ==
  ASSUME NEW S, heap \in Seq(Seq(S)), NEW s, s.arr \in 1..Len(heap),
         s.len \in 0..Len(heap[s.arr])
  PROVE  /\ Elems(s) \in Seq(S) /\ Len(Elems(s)) = s.len
         /\ \A i \in 1..s.len : Elems(s)[i] = heap[s.arr][i]
<1>1. heap[s.arr] \in Seq(S) /\ Len(heap[s.arr]) \in Nat
  OBVIOUS
<1> QED BY <1>1, SubSeqProperties DEF Elems

\* What the elements of a sequence are is a matter of its own elements.
LEMMA SeqOf ==
  ASSUME NEW S, NEW T, NEW s \in Seq(S), \A i \in 1..Len(s) : s[i] \in T
  PROVE  s \in Seq(T)
OBVIOUS

LEMMA SeqAppend ==
  ASSUME NEW S, NEW s \in Seq(S), NEW x \in S
  PROVE  /\ Append(s, x) \in Seq(S)
         /\ Len(s) \in Nat /\ Len(Append(s, x)) = Len(s) + 1
         /\ \A i \in 1..Len(s) : Append(s, x)[i] = s[i]
         /\ Append(s, x)[Len(s) + 1] = x
OBVIOUS

-----------------------------------------------------------------------------
(* The set, the map, the queue and the stack.                              *)

LEMMA PlainStep ==
  ASSUME CallInv, PlainInv, StructStep \/ UNCHANGED structVars
  PROVE  PlainInv'
<1>1. CASE UNCHANGED <<set, map, queue, stack>>
  BY <1>1 DEF PlainInv
<1>2. ASSUME NEW c \in Calls, AtOnce(c) PROVE PlainInv'
  <2>1. req[c] \in Request
    BY <1>2, AtOnceFacts DEF CallInv, CallAt
  <2>2. CASE SetAdd(c) \/ SetRemove(c) \/ SetList(c)
    BY <2>1, <2>2, ArgumentAssumption
       DEF SetAdd, SetRemove, SetList, Enter, dsVars, PlainInv
  <2>3. CASE MapPut(c) \/ MapGet(c)
    BY <2>1, <2>3, ArgumentAssumption
       DEF MapPut, MapGet, Enter, dsVars, PlainInv
  <2>4. CASE QueuePush(c) \/ StackPush(c)
    <3>1. req[c].val \in Elements
      BY <2>1, <2>4, ArgumentAssumption DEF QueuePush, StackPush, Enter
    <3>2. /\ Append(queue, req[c].val) \in Seq(Elements)
          /\ Append(stack, req[c].val) \in Seq(Elements)
      BY <3>1, SeqAppend DEF PlainInv
    <3> QED BY <2>4, <3>2 DEF QueuePush, StackPush, PlainInv
  <2>5. CASE QueuePop(c) \/ QueuePeek(c)
    <3>1. Dequeued(queue) \in Seq(Elements)
      BY DEF Dequeued, PlainInv
    <3> QED BY <2>5, <3>1 DEF QueuePop, QueuePeek, dsVars, PlainInv
  <2>6. CASE StackPop(c) \/ StackPeek(c)
    <3>1. SubSeq(stack, 1, Len(stack) - 1) \in Seq(Elements)
      BY DEF PlainInv
    <3> QED BY <2>6, <3>1 DEF StackPop, StackPeek, dsVars, PlainInv
  <2> QED BY <1>2, <2>2, <2>3, <2>4, <2>5, <2>6 DEF AtOnce
<1>3. ASSUME NEW c \in Calls, InSteps(c) \/ Elsewhere(c) \/ Returns(c)
      PROVE  UNCHANGED <<set, map, queue, stack>>
  BY <1>3 DEF InSteps, SortedListAdd, SortSwap, SortDone, SortedListGet,
              EncodeElem, Elsewhere, Returns, dsVars
<1> QED
  BY <1>1, <1>2, <1>3, StructCases, CarriedFacts
  DEF HandlerStep, structVars, dsVars

-----------------------------------------------------------------------------
(* The sorted list.                                                        *)

\* Append: the list grows by one element, in its array or in a new one, and
\* no other array changes.
LEMMA AddFacts ==
  ASSUME ListInv, NEW c \in Calls, SortedListAdd(c),
         NEW n, n = IF list = Absent THEN 0 ELSE list.len
  PROVE  /\ req[c].val \in Elements /\ n \in Nat
         /\ heap' \in Seq(Seq(Elements \cup {0})) /\ Len(heap) \in Nat
         /\ list' = [arr |-> list'.arr, len |-> n + 1] /\ list' # Absent
         /\ list'.arr \in 1..Len(heap') /\ n + 1 \in 1..Len(heap'[list'.arr])
         /\ \A i \in 1..n : heap'[list'.arr][i] = heap[list.arr][i]
         /\ heap'[list'.arr][n + 1] = req[c].val
         /\ Len(heap') >= Len(heap)
         /\ \A a \in 1..Len(heap) :
              /\ Len(heap'[a]) = Len(heap[a])
              /\ a # list'.arr => heap'[a] = heap[a]
         /\ \/ /\ list # Absent /\ list'.arr = list.arr
               /\ disturbed' = disturbed \cup
                    {d \in Calls : stage[d] = "encode" /\ slice[d].arr = list.arr}
            \/ list'.arr = Len(heap) + 1 /\ disturbed' = disturbed
<1> DEFINE v == req[c].val
           E == Elements \cup {0}
<1>1. req[c] \in Request /\ req[c].op = "SortedListAdd"
  BY DEF SortedListAdd, Enter, ListInv, CallInv, CallAt
<1>2. v \in Elements /\ v \in E
  BY <1>1, ArgumentAssumption
<1>3. /\ heap \in Seq(Seq(E)) /\ Len(heap) \in Nat
      /\ \A a \in 1..Len(heap) : heap[a] \in Seq(E) /\ Len(heap[a]) \in Nat
  BY DEF ListInv, ListOK
<1>4. list # Absent => /\ list = [arr |-> list.arr, len |-> list.len]
                       /\ list.arr \in 1..Len(heap)
                       /\ list.len \in 1..Len(heap[list.arr])
  BY DEF ListInv, ListOK
<1>5. n \in Nat
  BY <1>3, <1>4
<1>6. CASE /\ Room /\ heap' = [heap EXCEPT ![list.arr][list.len + 1] = v]
           /\ list' = [list EXCEPT !.len = @ + 1]
           /\ disturbed' = disturbed \cup
                {d \in Calls : stage[d] = "encode" /\ slice[d].arr = list.arr}
  <2>1. list # Absent /\ n = list.len /\ n + 1 \in 1..Len(heap[list.arr])
    BY <1>3, <1>4, <1>6 DEF Room
  <2>2. list' = [arr |-> list.arr, len |-> n + 1]
    BY <1>4, <1>6, <2>1
  <2>3. list' # Absent
    BY <1>3, <1>4, <1>5, <2>1, <2>2, AbsentAssumption
  <2> DEFINE s == heap[list.arr]
             t == [s EXCEPT ![n + 1] = v]
  <2>4. s \in Seq(E) /\ n + 1 \in 1..Len(s)
    BY <1>3, <1>4, <2>1
  <2>5. /\ t \in Seq(E) /\ Len(t) = Len(s) /\ t[n + 1] = v
        /\ \A i \in 1..n : t[i] = s[i]
    BY <1>2, <1>5, <2>4
  <2> HIDE DEF E, v
  <2>6. heap' = [heap EXCEPT ![list.arr] = t]
    BY <1>6, <2>1
  <2> HIDE DEF t
  <2>7. /\ heap' \in Seq(Seq(E)) /\ Len(heap') = Len(heap)
        /\ heap'[list.arr] = t
        /\ \A a \in 1..Len(heap) : a # list.arr => heap'[a] = heap[a]
    BY <1>3, <1>4, <2>1, <2>5, <2>6
  <2> QED
    BY <1>2, <1>3, <1>4, <1>5, <1>6, <2>1, <2>2, <2>3, <2>4, <2>5, <2>7
    DEF E, v
<1>7. CASE /\ ~Room /\ heap' = Append(heap, Grown(v))
           /\ list' = [arr |-> Len(heap) + 1,
                       len |-> (IF list = Absent THEN 0 ELSE list.len) + 1]
           /\ UNCHANGED disturbed
  <2> DEFINE s == IF list = Absent THEN <<>> ELSE Elems(list)
             g == Grown(v)
  <2>1. list' = [arr |-> Len(heap) + 1, len |-> n + 1]
    BY <1>7
  <2>2. list' # Absent
    BY <1>3, <1>5, <2>1, AbsentAssumption
  <2>3. /\ s \in Seq(E) /\ Len(s) = n
        /\ \A i \in 1..n : s[i] = heap[list.arr][i]
    <3>1. CASE list = Absent
      BY <3>1
    <3>2. CASE list # Absent
      <4>1. /\ heap \in Seq(Seq(E)) /\ list.arr \in 1..Len(heap)
            /\ list.len \in 0..Len(heap[list.arr])
        BY <1>3, <1>4, <3>2
      <4>2. /\ Elems(list) \in Seq(E) /\ Len(Elems(list)) = list.len
            /\ \A i \in 1..list.len : Elems(list)[i] = heap[list.arr][i]
        BY <4>1, ElemsFacts
      <4>3. s = Elems(list) /\ n = list.len
        BY <3>2
      <4> HIDE DEF s, E
      <4> QED BY <4>2, <4>3
    <3> QED BY <3>1, <3>2
  <2>4. s = <<>> <=> n = 0
    BY <2>3
  <2> DEFINE l == IF s = <<>> THEN 1 ELSE 2 * Len(s)
  <2>5. l \in Nat /\ n + 1 <= l
    BY <1>5, <2>3, <2>4
  <2>6. g = [i \in 1..l |-> IF i <= Len(s) THEN s[i]
                            ELSE IF i = Len(s) + 1 THEN v ELSE 0]
    BY DEF Grown
  <2> HIDE DEF l, s, g, E, v
  <2>7. /\ Len(g) = l /\ g[n + 1] = v
        /\ \A i \in 1..n : g[i] = s[i]
    BY <1>5, <2>3, <2>5, <2>6
  <2>8. g \in Seq(E)
    <3>1. 0 \in E /\ v \in E /\ \A i \in 1..n : s[i] \in E
      BY <1>2, <2>3 DEF E
    <3>2. \A i \in 1..l : i <= n => i \in 1..n
      BY <1>5, <2>5
    <3>3. g \in [1..l -> E]
      BY <2>3, <2>6, <3>1, <3>2
    <3> QED BY <2>5, <3>3
  <2>9. heap' = Append(heap, g)
    BY <1>7 DEF g
  <2>10. /\ heap' \in Seq(Seq(E)) /\ Len(heap') = Len(heap) + 1
         /\ heap'[Len(heap) + 1] = g
         /\ \A a \in 1..Len(heap) : heap'[a] = heap[a]
    BY <1>3, <2>8, <2>9, SeqAppend
  <2> QED
    BY <1>2, <1>3, <1>5, <1>7, <2>1, <2>2, <2>3, <2>5, <2>7, <2>10 DEF E, v
<1> QED BY <1>6, <1>7 DEF SortedListAdd

LEMMA ListAdd ==
  ASSUME ListInv, NEW c \in Calls, SortedListAdd(c)
  PROVE  ListOK' /\ ListHolds'
<1> DEFINE n == IF list = Absent THEN 0 ELSE list.len
           f == heap[list.arr]
           g == heap'[list'.arr]
           v == req[c].val
<1>1. /\ v \in Elements /\ n \in Nat
      /\ heap' \in Seq(Seq(Elements \cup {0}))
      /\ list' = [arr |-> list'.arr, len |-> n + 1] /\ list' # Absent
      /\ list'.arr \in 1..Len(heap') /\ n + 1 \in 1..Len(heap'[list'.arr])
      /\ \A i \in 1..n : g[i] = f[i]
      /\ g[n + 1] = v
  BY AddFacts
<1>2. list'.len = n + 1
  BY <1>1
<1>3. /\ sorter' = [call |-> c, pos |-> n + 1] /\ held' = [held EXCEPT ![v] = @ + 1]
  BY <1>2 DEF SortedListAdd
<1>4. Locked' /\ sorter'.pos = n + 1 /\ sorter'.call = c
  BY <1>1, <1>3 DEF Locked, NotSorting
<1>5. held' \in [Elements -> Nat]
  BY <1>1, <1>3 DEF ListInv, ListOK
<1>6. ListOK'
  BY <1>1, <1>2, <1>3, <1>4, <1>5 DEF ListOK
<1>7. \A i \in 1..n + 1 : i \in 1..n \/ i = n + 1
  BY <1>1
<1>8. \A i \in 1..n : f[i] \in Elements
  BY <1>1 DEF ListInv, ListHolds
<1>9. \A i \in 1..n + 1 : g[i] \in Elements
  BY <1>1, <1>7, <1>8
<1>10. ASSUME NEW e \in Elements PROVE Cardinality(Spots(g, n + 1, e)) = held'[e]
  <2>1. Cardinality(Spots(f, n, e)) = held[e]
    <3>1. CASE list = Absent
      <4>1. Spots(f, n, e) = {}
        BY <3>1 DEF Spots
      <4> QED BY <3>1, <4>1, FS_EmptySet DEF ListInv, ListHolds
    <3>2. CASE list # Absent
      BY <3>2 DEF ListInv, ListHolds
    <3> QED BY <3>1, <3>2
  <2>2. Cardinality(Spots(g, n + 1, e)) =
          Cardinality(Spots(f, n, e)) + (IF g[n + 1] = e THEN 1 ELSE 0)
    <3>1. n \in Nat /\ \A i \in 1..n : g[i] = f[i]
      BY <1>1
    <3> HIDE DEF f, g, n
    <3> QED BY <3>1, SpotsAppend
  <2> HIDE DEF f, g, n
  <2> QED BY <1>1, <1>3, <2>1, <2>2 DEF ListInv, ListOK
<1>11. \A i, j \in 1..n + 1 : i < j /\ j # n + 1 => g[i] <= g[j]
  <2> SUFFICES ASSUME NEW i \in 1..n + 1, NEW j \in 1..n + 1, i < j, j # n + 1
               PROVE  g[i] <= g[j]
    OBVIOUS
  <2>1. i \in 1..n /\ j \in 1..n
    <3> HIDE DEF n
    <3> QED BY <1>1
  <2>2. list # Absent /\ ~Locked
    BY <2>1 DEF SortedListAdd, Enter
  <2>3. f[i] <= f[j]
    BY <2>1, <2>2 DEF ListInv, ListHolds
  <2> HIDE DEF f, g, n
  <2> QED BY <1>1, <2>1, <2>3
<1>12. ListHolds'
  BY <1>1, <1>2, <1>4, <1>9, <1>10, <1>11 DEF ListHolds
<1> QED BY <1>6, <1>12

\* An exchange of the sort: the new element goes down by one place.
LEMMA ListSwap ==
  ASSUME ListInv, NEW c \in Calls, SortSwap(c)
  PROVE  ListOK' /\ ListHolds'
<1> DEFINE n == list.len
           a == list.arr
           p == sorter.pos
           f == heap[a]
           g == heap'[a]
<1>1. p > 1 /\ f[p] < f[p - 1]
  BY DEF SortSwap, OutOfPlace
<1>2. Locked
  BY <1>1 DEF Locked, NotSorting
<1>3. /\ list # Absent /\ list = [arr |-> a, len |-> n]
      /\ heap \in Seq(Seq(Elements \cup {0})) /\ a \in 1..Len(heap)
      /\ f \in Seq(Elements \cup {0}) /\ n \in 1..Len(f)
      /\ p \in 2..n
  BY <1>1, <1>2 DEF ListInv, ListOK
<1>4. heap' = [heap EXCEPT ![a] = [[f EXCEPT ![p] = f[p - 1]] EXCEPT ![p - 1] = f[p]]]
  BY <1>3 DEF SortSwap
<1> DEFINE h == [[f EXCEPT ![p] = f[p - 1]] EXCEPT ![p - 1] = f[p]]
<1>5. /\ h \in Seq(Elements \cup {0}) /\ Len(h) = Len(f)
      /\ h[p] = f[p - 1] /\ h[p - 1] = f[p]
      /\ \A i \in 1..n : i # p /\ i # p - 1 => h[i] = f[i]
  <2>1. /\ p \in 1..Len(f) /\ p - 1 \in 1..Len(f) /\ p # p - 1
        /\ f[p] \in Elements \cup {0} /\ f[p - 1] \in Elements \cup {0}
        /\ n <= Len(f) /\ n \in Nat /\ Len(f) \in Nat
    BY <1>3
  <2> HIDE DEF f, n, p
  <2>2. f \in [1..Len(f) -> Elements \cup {0}]
    BY <1>3
  <2>3. h \in [1..Len(f) -> Elements \cup {0}]
    BY <2>1, <2>2
  <2>4. h \in Seq(Elements \cup {0}) /\ Len(h) = Len(f)
    <3> HIDE DEF h
    <3> QED BY <2>1, <2>3
  <2>5. h[p] = f[p - 1] /\ h[p - 1] = f[p]
    BY <2>1, <2>2
  <2>6. \A i \in 1..n : i # p /\ i # p - 1 => h[i] = f[i]
    BY <2>1, <2>2
  <2> QED BY <2>4, <2>5, <2>6
<1> HIDE DEF h
<1>6. /\ heap' \in Seq(Seq(Elements \cup {0})) /\ Len(heap') = Len(heap)
      /\ g = h /\ \A b \in 1..Len(heap) : b # a => heap'[b] = heap[b]
  <2>1. heap' = [heap EXCEPT ![a] = h]
    BY <1>4 DEF h
  <2> QED BY <1>3, <1>5, <2>1
<1>7. UNCHANGED <<list, held>> /\ sorter' = [sorter EXCEPT !.pos = p - 1]
  BY DEF SortSwap
<1>8. sorter' = [call |-> sorter.call, pos |-> p - 1]
  BY <1>7 DEF ListInv, ListOK
<1>9. Locked' /\ sorter'.pos = p - 1 /\ sorter'.call = sorter.call
  BY <1>3, <1>8 DEF Locked, NotSorting
<1>10. ListOK'
  <2>1. /\ list'.arr \in 1..Len(heap') /\ list'.len \in 1..Len(heap'[list'.arr])
        /\ list' = [arr |-> list'.arr, len |-> list'.len]
    BY <1>3, <1>5, <1>6, <1>7
  <2>2. sorter'.pos \in 1..list'.len /\ sorter'.pos \in Nat /\ list' # Absent
    BY <1>3, <1>7, <1>9
  <2>3. /\ sorter' = [call |-> sorter'.call, pos |-> sorter'.pos]
        /\ sorter'.call \in Calls \cup {NoCall}
    BY <1>8, <1>9 DEF ListOK, ListInv
  <2>4. heap' \in Seq(Seq(Elements \cup {0})) /\ held' \in [Elements -> Nat]
    BY <1>6, <1>7 DEF ListOK, ListInv
  <2> QED BY <2>1, <2>2, <2>3, <2>4 DEF ListOK
<1>11. \A i \in 1..n : f[i] \in Elements /\ f[i] \in Nat
  BY <1>3, ElementAssumption DEF ListInv, ListHolds
<1>12. \A i \in 1..n : h[i] \in Elements
  <2>1. p \in 1..n /\ p - 1 \in 1..n
    BY <1>3
  <2> HIDE DEF f, n, p
  <2> QED BY <1>5, <1>11, <2>1
<1>13. ASSUME NEW e \in Elements
       PROVE  Cardinality(Spots(h, n, e)) = held[e]
  <2>1. Cardinality(Spots(f, n, e)) = held[e]
    BY <1>3 DEF ListInv, ListHolds
  <2>2. Cardinality(Spots(h, n, e)) = Cardinality(Spots(f, n, e))
    <3>1. n \in Nat
      BY <1>3
    <3> HIDE DEF f, n, p
    <3> QED BY <1>3, <1>5, <3>1, SpotsSwap
  <2> QED BY <2>1, <2>2
<1>14. \A i, j \in 1..n : i < j /\ j # p => f[i] <= f[j]
  BY <1>3 DEF ListInv, ListHolds
<1>15. \A i, j \in 1..n : i < j /\ j # p - 1 => h[i] <= h[j]
  <2> SUFFICES ASSUME NEW i \in 1..n, NEW j \in 1..n, i < j, j # p - 1
               PROVE  h[i] <= h[j]
    OBVIOUS
  <2> HIDE DEF f, n, p
  <2>1. p \in Nat /\ p \in 1..n /\ p - 1 \in 1..n /\ p - 1 # p /\ p - 1 < p
    BY <1>3
  <2>2. CASE j = p
    <3>1. CASE i = p - 1
      BY <1>1, <1>5, <1>11, <2>1, <2>2, <3>1
    <3>2. CASE i < p - 1
      BY <1>5, <1>14, <2>1, <2>2, <3>2
    <3> QED BY <2>1, <2>2, <3>1, <3>2
  <2>3. CASE j # p
    <3>1. h[j] = f[j]
      BY <1>5, <2>3
    <3>2. CASE i = p
      BY <1>5, <1>14, <2>1, <2>3, <3>1, <3>2
    <3>3. CASE i = p - 1
      <4>1. p < j
        BY <2>1, <2>3, <3>3
      <4> QED BY <1>5, <1>14, <2>1, <2>3, <3>1, <3>3, <4>1
    <3>4. CASE i # p /\ i # p - 1
      BY <1>5, <1>14, <2>3, <3>1, <3>4
    <3> QED BY <3>2, <3>3, <3>4
  <2> QED BY <2>2, <2>3
<1>16. ListHolds'
  BY <1>3, <1>6, <1>7, <1>9, <1>12, <1>13, <1>15 DEF ListHolds
<1> QED BY <1>10, <1>16

\* The element has come to its place.
LEMMA ListSorts ==
  ASSUME ListInv, NEW c \in Calls, SortDone(c)
  PROVE  ListOK' /\ ListHolds'
<1> DEFINE n == list.len
           p == sorter.pos
           f == heap[list.arr]
<1>1. /\ UNCHANGED <<heap, list, held>> /\ sorter' = NotSorting /\ ~OutOfPlace
      /\ ~Locked'
  BY DEF SortDone, Unlock, Locked
<1>2. ListOK'
  BY <1>1 DEF ListInv, ListOK, NotSorting
<1>3. ASSUME list # Absent, NEW i \in 1..n, NEW j \in 1..n, i < j
      PROVE  f[i] <= f[j]
  <2>1. CASE ~Locked \/ j # p
    BY <1>3, <2>1 DEF ListInv, ListHolds
  <2>2. CASE Locked /\ j = p
    <3>1. /\ p > 1 /\ n \in Nat /\ p \in 1..n /\ p - 1 \in 1..n
      BY <1>3, <2>2 DEF ListInv, ListOK
    <3>2. \A m \in 1..n : f[m] \in Nat
      BY <1>3, ElementAssumption DEF ListInv, ListHolds
    <3>3. f[p - 1] <= f[p]
      BY <1>1, <3>1, <3>2 DEF OutOfPlace
    <3>4. i = p - 1 \/ f[i] <= f[p - 1]
      BY <1>3, <2>2, <3>1 DEF ListInv, ListHolds
    <3> HIDE DEF f, p, n
    <3> QED BY <2>2, <3>1, <3>2, <3>3, <3>4
  <2> QED BY <2>1, <2>2
<1>4. ListHolds'
  BY <1>1, <1>3 DEF ListInv, ListHolds
<1> QED BY <1>2, <1>4

LEMMA ListStep == ListInv /\ (StructStep \/ UNCHANGED structVars) => ListInv'
<1> SUFFICES ASSUME ListInv, StructStep \/ UNCHANGED structVars PROVE ListInv'
  OBVIOUS
<1>1. CallInv' /\ PlainInv'
  BY CallStep, PlainStep DEF ListInv
<1>2. CASE UNCHANGED listVars
  <2>1. ListOK'
    BY <1>2 DEF ListInv, ListOK, listVars, Locked
  <2>2. ListHolds'
    BY <1>2 DEF ListInv, ListHolds, listVars, Locked
  <2> QED BY <1>1, <2>1, <2>2 DEF ListInv
<1>3. CASE \E c \in Calls : SortedListAdd(c) \/ SortSwap(c) \/ SortDone(c)
  <2>1. ListOK' /\ ListHolds'
    BY <1>3, ListAdd, ListSwap, ListSorts
  <2> QED BY <1>1, <2>1 DEF ListInv
<1>4. ASSUME NEW c \in Calls,
             SortedListGet(c) \/ EncodeElem(c) \/ Elsewhere(c) \/ Returns(c)
      PROVE  UNCHANGED listVars
  BY <1>4 DEF SortedListGet, EncodeElem, Elsewhere, Returns, dsVars
<1>5. UNCHANGED dsVars => UNCHANGED listVars
  BY DEF dsVars
<1>6. \/ \E c \in Calls : SortedListAdd(c) \/ SortSwap(c) \/ SortDone(c)
      \/ UNCHANGED listVars
  BY <1>4, <1>5, StructCases, CarriedFacts, AtOnceFacts
  DEF HandlerStep, InSteps, structVars, ListInv
<1> QED BY <1>2, <1>3, <1>6

-----------------------------------------------------------------------------
(* The answers of SortedListGet.                                           *)

\* What a call is encoding is left alone by a step that leaves its call alone
\* and its array, or counts it as disturbed.
LEMMA EncodingKept ==
  ASSUME NEW d \in Calls, Encoding(d),
         slice'[d] = slice[d], asked'[d] = asked[d],
         stage'[d] = "encode" => stage[d] = "encode" /\ result'[d] = result[d],
         disturbed \subseteq disturbed',
         Len(heap) \in Nat, Len(heap') \in Nat, Len(heap') >= Len(heap),
         \A a \in 1..Len(heap) : Len(heap'[a]) = Len(heap[a]),
         stage[d] = "encode" /\ d \notin disturbed' =>
           /\ heap'[slice[d].arr] = heap[slice[d].arr]
           /\ ~(Locked' /\ slice[d].arr = list'.arr)
  PROVE  Encoding(d)'
<1> SUFFICES ASSUME stage'[d] = "encode" PROVE Encoding(d)'
  BY DEF Encoding
<1>1. /\ slice[d].arr \in 1..Len(heap') /\ Len(heap'[slice[d].arr]) = Len(heap[slice[d].arr])
  BY DEF Encoding
<1> QED BY <1>1 DEF Encoding

\* A handler that neither gets the list nor encodes it.
LEMMA GetOthers ==
  ASSUME GetInv, NEW c \in Calls,
         AtOnce(c) \/ SortDone(c) \/ Elsewhere(c) \/ Returns(c)
  PROVE  \A d \in Calls : Encoding(d)' /\ Exact(d)'
<1>1. ~Locked' \/ UNCHANGED <<list, sorter>>
  BY AtOnceFacts
     DEF SortDone, Unlock, Locked, Elsewhere, Returns, dsVars, listVars
<1>2. UNCHANGED <<heap, list, slice, asked, disturbed, req>>
  BY AtOnceFacts
     DEF SortDone, Elsewhere, Returns, dsVars, listVars, getVars, Ends, Handled
<1>3. /\ \A d \in Calls : stage'[d] = "encode" => stage[d] = "encode" /\ d # c
      /\ \A d \in Calls : d # c => result'[d] = result[d]
      /\ req[c] # NoCall /\ req[c].op # "SortedListGet"
  <2>1. CASE AtOnce(c)
    BY <2>1, AtOnceFacts DEF Ends, Handled, StructOps, GetInv, ListInv, CallInv, CallAt
  <2>2. CASE SortDone(c)
    BY <2>2 DEF SortDone, Handled, GetInv, ListInv, CallInv, CallAt
  <2>3. CASE Elsewhere(c)
    BY <2>3 DEF Elsewhere, StructOps, GetInv, ListInv, CallInv, CallAt
  <2>4. CASE Returns(c)
    BY <2>4 DEF Returns, Handled, StructOps, GetInv, ListInv, CallInv, CallAt
  <2> QED BY <2>1, <2>2, <2>3, <2>4
<1>4. ASSUME NEW d \in Calls PROVE Encoding(d)'
  <2>1. Encoding(d) /\ Len(heap) \in Nat
    BY DEF GetInv, ListInv, ListOK
  <2>2. CASE stage'[d] = "encode"
    <3>1. stage[d] = "encode" /\ result'[d] = result[d]
      BY <1>3, <2>2
    <3>2. d \notin disturbed => ~(Locked' /\ slice[d].arr = list'.arr)
      BY <1>1, <1>2, <2>1, <3>1 DEF Encoding, Locked
    <3> QED BY <1>2, <2>1, <3>1, <3>2, EncodingKept
  <2>3. CASE stage'[d] # "encode"
    BY <2>3 DEF Encoding
  <2> QED BY <2>2, <2>3
<1>5. ASSUME NEW d \in Calls PROVE Exact(d)'
  BY <1>2, <1>3 DEF Exact, GetInv
<1> QED BY <1>4, <1>5

\* The steps of an add but the last.
LEMMA GetAdds ==
  ASSUME GetInv, ListInv', NEW c \in Calls, SortedListAdd(c) \/ SortSwap(c)
  PROVE  \A d \in Calls : Encoding(d)' /\ Exact(d)'
<1>1. /\ UNCHANGED <<slice, asked, req, result>> /\ disturbed \subseteq disturbed'
      /\ \A d \in Calls : stage'[d] = "encode" => stage[d] = "encode"
  BY DEF SortedListAdd, SortSwap, rpcVars, getVars, GetInv, ListInv, CallInv
<1>2. /\ Len(heap) \in Nat /\ Len(heap') \in Nat /\ Len(heap') >= Len(heap)
      /\ \A a \in 1..Len(heap) : Len(heap'[a]) = Len(heap[a])
      /\ \A d \in Calls :
           stage[d] = "encode" /\ d \notin disturbed' =>
             /\ heap'[slice[d].arr] = heap[slice[d].arr]
             /\ slice[d].arr # list'.arr
  <2>1. CASE SortedListAdd(c)
    <3> DEFINE n == IF list = Absent THEN 0 ELSE list.len
    <3>1. /\ Len(heap) \in Nat /\ heap' \in Seq(Seq(Elements \cup {0}))
          /\ Len(heap') >= Len(heap)
          /\ \A a \in 1..Len(heap) :
               /\ Len(heap'[a]) = Len(heap[a])
               /\ a # list'.arr => heap'[a] = heap[a]
          /\ \/ /\ list # Absent /\ list'.arr = list.arr
                /\ disturbed' = disturbed \cup
                     {d \in Calls : stage[d] = "encode" /\ slice[d].arr = list.arr}
             \/ list'.arr = Len(heap) + 1 /\ disturbed' = disturbed
      <4>1. n = IF list = Absent THEN 0 ELSE list.len
        OBVIOUS
      <4> HIDE DEF n
      <4> QED BY <2>1, <4>1, AddFacts DEF GetInv
    <3>2. ASSUME NEW d \in Calls, stage[d] = "encode", d \notin disturbed'
          PROVE  slice[d].arr # list'.arr /\ slice[d].arr \in 1..Len(heap)
      <4>1. slice[d].arr \in 1..Len(heap)
        BY <3>2 DEF GetInv, Encoding
      <4> QED BY <3>1, <3>2, <4>1
    <3> QED BY <3>1, <3>2
  <2>2. CASE SortSwap(c)
    <3>1. UNCHANGED <<list, disturbed>> /\ sorter.pos > 1
      BY <2>2 DEF SortSwap, getVars, OutOfPlace
    <3>2. Locked
      BY <3>1 DEF Locked, NotSorting
    <3>3. /\ list # Absent /\ list.arr \in 1..Len(heap) /\ Len(heap) \in Nat
          /\ heap \in Seq(Seq(Elements \cup {0}))
          /\ sorter.pos \in 1..list.len /\ list.len \in 1..Len(heap[list.arr])
      BY <3>2 DEF GetInv, ListInv, ListOK
    <3>4. PICK h : /\ h \in Seq(Elements \cup {0}) /\ Len(h) = Len(heap[list.arr])
                   /\ heap' = [heap EXCEPT ![list.arr] = h]
      <4> DEFINE a == list.arr
                 f == heap[a]
                 p == sorter.pos
                 h == [[f EXCEPT ![p] = f[p - 1]] EXCEPT ![p - 1] = f[p]]
      <4>1. heap' = [heap EXCEPT ![a] = h]
        BY <2>2, <3>3 DEF SortSwap
      <4>2. /\ f \in Seq(Elements \cup {0}) /\ p \in 1..Len(f) /\ p - 1 \in 1..Len(f)
            /\ Len(f) \in Nat
        BY <3>1, <3>3
      <4>3. h \in [1..Len(f) -> Elements \cup {0}]
        <5> HIDE DEF f, p
        <5>1. f \in [1..Len(f) -> Elements \cup {0}]
          BY <4>2
        <5> QED BY <4>2, <5>1
      <4> HIDE DEF h, f, p
      <4>4. h \in Seq(Elements \cup {0}) /\ Len(h) = Len(f)
        BY <4>2, <4>3
      <4> QED BY <4>1, <4>4 DEF f
    <3>5. /\ Len(heap') = Len(heap)
          /\ \A a \in 1..Len(heap) : /\ Len(heap'[a]) = Len(heap[a])
                                     /\ a # list.arr => heap'[a] = heap[a]
      BY <3>3, <3>4
    <3>6. ASSUME NEW d \in Calls, stage[d] = "encode", d \notin disturbed'
          PROVE  slice[d].arr # list'.arr /\ slice[d].arr \in 1..Len(heap)
      BY <3>1, <3>2, <3>6 DEF GetInv, Encoding
    <3>7. ASSUME NEW d \in Calls, stage[d] = "encode", d \notin disturbed'
          PROVE  heap'[slice[d].arr] = heap[slice[d].arr] /\ slice[d].arr # list'.arr
      BY <3>1, <3>5, <3>6, <3>7
    <3>8. Len(heap) \in Nat /\ Len(heap') \in Nat /\ Len(heap') >= Len(heap)
      BY <3>3, <3>5
    <3> QED BY <3>5, <3>7, <3>8
  <2> QED BY <2>1, <2>2
<1>3. ASSUME NEW d \in Calls PROVE Encoding(d)'
  <2>1. Encoding(d)
    BY DEF GetInv
  <2> QED BY <1>1, <1>2, <2>1, EncodingKept
<1>4. ASSUME NEW d \in Calls PROVE Exact(d)'
  BY <1>1 DEF Exact, GetInv
<1> QED BY <1>3, <1>4

LEMMA GetGets ==
  ASSUME GetInv, NEW c \in Calls, SortedListGet(c)
  PROVE  GetOK' /\ \A d \in Calls : Encoding(d)' /\ Exact(d)'
<1>1. /\ UNCHANGED <<heap, list, sorter, req, disturbed>> /\ ~Locked /\ ~Locked'
      /\ stage[c] = "sent" /\ req[c] # NoCall
      /\ \A d \in Calls : d # c =>
           /\ stage'[d] = stage[d] /\ slice'[d] = slice[d]
           /\ asked'[d] = asked[d] /\ result'[d] = result[d]
  BY DEF SortedListGet, Enter, Handled, listVars, getVars, GetInv, GetOK,
         ListInv, CallInv, CallAt, Locked
<1>2. Len(heap) \in Nat
  BY DEF GetInv, ListInv, ListOK
<1>3. ASSUME NEW d \in Calls, d # c PROVE Encoding(d)' /\ Exact(d)'
  <2>1. Encoding(d) /\ Exact(d)
    BY DEF GetInv
  <2>2. Encoding(d)'
    BY <1>1, <1>2, <1>3, <2>1, EncodingKept
  <2> QED BY <1>1, <1>3, <2>1, <2>2 DEF Exact
<1>4. CASE list = Absent /\ Handled(c, "error", <<>>) /\ UNCHANGED getVars
  <2>1. GetOK'
    BY <1>4 DEF GetInv, GetOK, getVars
  <2>2. stage'[c] = "reply" /\ result'[c].outcome = "error"
    BY <1>4 DEF Handled, GetInv, ListInv, CallInv
  <2> QED BY <1>3, <2>1, <2>2 DEF Encoding, Exact
<1>5. CASE /\ list # Absent
           /\ stage' = [stage EXCEPT ![c] = "encode"]
           /\ slice' = [slice EXCEPT ![c] = list]
           /\ asked' = [asked EXCEPT ![c] = Elems(list)]
           /\ UNCHANGED <<up, req, result, told, disturbed>>
  <2>1. /\ heap \in Seq(Seq(Elements \cup {0})) /\ list.arr \in 1..Len(heap)
        /\ list.len \in 1..Len(heap[list.arr]) /\ list.len \in Nat
        /\ \A i \in 1..list.len : heap[list.arr][i] \in Elements
    BY <1>5 DEF GetInv, ListInv, ListOK, ListHolds
  <2>2. /\ Elems(list) \in Seq(Elements \cup {0}) /\ Len(Elems(list)) = list.len
        /\ \A i \in 1..list.len : Elems(list)[i] = heap[list.arr][i]
    BY <2>1, ElemsFacts
  <2>3. Elems(list) \in Seq(Elements)
    BY <2>1, <2>2, SeqOf
  <2>4. GetOK'
    BY <1>5, <2>3 DEF GetInv, GetOK
  <2>5. slice'[c] = list /\ asked'[c] = Elems(list) /\ result'[c] = Nothing
    BY <1>1, <1>5 DEF GetInv, GetOK, ListInv, CallInv, CallAt
  <2>6. Encoding(c)'
    BY <1>1, <2>1, <2>2, <2>5 DEF Encoding, Nothing
  <2>7. Exact(c)'
    BY <2>5 DEF Exact, Nothing
  <2> QED BY <1>3, <2>4, <2>6, <2>7
<1> QED BY <1>4, <1>5 DEF SortedListGet

\* One string goes into the answer.
LEMMA GetEncodes ==
  ASSUME GetInv, NEW c \in Calls, EncodeElem(c)
  PROVE  \A d \in Calls : Encoding(d)' /\ Exact(d)'
<1> DEFINE vals == result[c].vals
           i == Len(vals) + 1
           s == slice[c]
<1>1. /\ UNCHANGED <<heap, list, sorter, req, slice, asked, disturbed>>
      /\ stage[c] = "encode" /\ Locked' = Locked
      /\ \A d \in Calls : d # c => stage'[d] = stage[d] /\ result'[d] = result[d]
  BY DEF EncodeElem, Handled, dsVars, listVars, getVars, GetInv,
         ListInv, CallInv, CallAt, Locked
<1>2. Len(heap) \in Nat
  BY DEF GetInv, ListInv, ListOK
<1>3. ASSUME NEW d \in Calls, d # c PROVE Encoding(d)' /\ Exact(d)'
  <2>1. Encoding(d) /\ Exact(d)
    BY DEF GetInv
  <2>2. Encoding(d)'
    <3>1. stage[d] = "encode" /\ d \notin disturbed' =>
            ~(Locked' /\ slice[d].arr = list'.arr)
      BY <1>1, <2>1 DEF Encoding
    <3> QED BY <1>1, <1>2, <1>3, <2>1, <3>1, EncodingKept
  <2> QED BY <1>1, <1>3, <2>1, <2>2 DEF Exact
<1>4. /\ s.arr \in 1..Len(heap) /\ s.len \in 1..Len(heap[s.arr])
      /\ Len(asked[c]) = s.len /\ vals \in Seq(Elements \cup {0, Torn})
      /\ Len(vals) < s.len
      /\ c \notin disturbed =>
           /\ ~(Locked /\ s.arr = list.arr)
           /\ \A j \in 1..s.len : heap[s.arr][j] = asked[c][j]
           /\ \A j \in 1..Len(vals) : vals[j] = asked[c][j]
  BY <1>1 DEF GetInv, Encoding
<1>5. /\ heap[s.arr] \in Seq(Elements \cup {0}) /\ Len(heap[s.arr]) \in Nat
      /\ Len(vals) \in Nat /\ i \in 1..s.len /\ s.len \in Nat
      /\ heap[s.arr][i] \in Elements \cup {0}
  <2>1. heap \in Seq(Seq(Elements \cup {0}))
    BY DEF GetInv, ListInv, ListOK
  <2>2. heap[s.arr] \in Seq(Elements \cup {0}) /\ Len(heap[s.arr]) \in Nat
    BY <1>4, <2>1
  <2>3. Len(vals) \in Nat /\ i \in 1..s.len /\ s.len \in Nat /\ i \in 1..Len(heap[s.arr])
    <3> HIDE DEF vals
    <3> QED BY <1>4, <2>2
  <2> QED BY <2>2, <2>3
<1>6. PICK v \in {heap[s.arr][i]} \cup (IF BeingSwapped(s, i) THEN {Torn} ELSE {}) :
        \/ /\ i < s.len
           /\ result' = [result EXCEPT ![c].vals = Append(@, v)]
           /\ UNCHANGED <<up, req, stage, told>>
        \/ i >= s.len /\ Handled(c, "ok", Append(vals, v))
  BY DEF EncodeElem, Returned
<1>7. v \in Elements \cup {0, Torn} /\ (c \notin disturbed => v = asked[c][i])
  BY <1>4, <1>5, <1>6 DEF BeingSwapped
<1>8. /\ Append(vals, v) \in Seq(Elements \cup {0, Torn})
      /\ Len(Append(vals, v)) = i
      /\ \A j \in 1..i :
           \/ j \in 1..Len(vals) /\ Append(vals, v)[j] = vals[j]
           \/ j = i /\ Append(vals, v)[j] = v
  <2> HIDE DEF vals
  <2>1. /\ Append(vals, v) \in Seq(Elements \cup {0, Torn})
        /\ Len(Append(vals, v)) = Len(vals) + 1
        /\ \A j \in 1..Len(vals) : Append(vals, v)[j] = vals[j]
        /\ Append(vals, v)[Len(vals) + 1] = v
    BY <1>4, <1>7, SeqAppend
  <2>2. \A j \in 1..i : j \in 1..Len(vals) \/ j = i
    BY <1>5
  <2> QED BY <2>1, <2>2
<1>9. c \notin disturbed => \A j \in 1..i : Append(vals, v)[j] = asked[c][j]
  BY <1>4, <1>7, <1>8
<1>10. CASE /\ i < s.len
            /\ result' = [result EXCEPT ![c].vals = Append(@, v)]
            /\ UNCHANGED <<up, req, stage, told>>
  <2>1. result'[c].vals = Append(vals, v) /\ result'[c].outcome = result[c].outcome
    BY <1>10 DEF GetInv, ListInv, CallInv, CallAt
  <2>2. Encoding(c)'
    <3> HIDE DEF i, vals
    <3> QED BY <1>1, <1>4, <1>5, <1>8, <1>9, <1>10, <2>1 DEF Encoding
  <2>3. Exact(c)'
    BY <1>1, <2>1 DEF Exact, GetInv, ListInv, CallInv, CallAt
  <2> QED BY <1>3, <2>2, <2>3
<1>11. CASE i >= s.len /\ Handled(c, "ok", Append(vals, v))
  <2>1. result'[c].vals = Append(vals, v) /\ stage'[c] = "reply"
    BY <1>11 DEF Handled, GetInv, ListInv, CallInv, CallAt
  <2>2. i = s.len
    BY <1>5, <1>11
  <2>3. asked[c] \in Seq(Elements)
    BY DEF GetInv, GetOK
  <2>4. c \notin disturbed => Append(vals, v) = asked[c]
    <3> HIDE DEF i, vals
    <3> QED BY <1>4, <1>8, <1>9, <2>2, <2>3, SeqEqual
  <2>5. Exact(c)'
    BY <1>1, <1>4, <1>8, <2>1, <2>2, <2>4 DEF Exact
  <2> QED BY <1>3, <2>1, <2>5 DEF Encoding
<1> QED BY <1>6, <1>10, <1>11

LEMMA GetStep == GetInv /\ (StructStep \/ UNCHANGED structVars) => GetInv'
<1> SUFFICES ASSUME GetInv, StructStep \/ UNCHANGED structVars PROVE GetInv'
  OBVIOUS
<1>1. ListInv' /\ ListInv
  BY ListStep DEF GetInv
<1>2. CASE UNCHANGED <<stage, req, result, dsVars>>
  BY <1>1, <1>2
     DEF GetInv, GetOK, Encoding, Exact, dsVars, listVars, getVars, Locked
<1>3. CASE /\ UNCHANGED <<req, result, dsVars>>
           /\ \A d \in Calls : stage'[d] = "encode" => stage[d] = "encode"
  BY <1>1, <1>3
     DEF GetInv, GetOK, Encoding, Exact, dsVars, listVars, getVars, Locked
<1>4. ASSUME NEW c \in Calls, HandlerStep(c), ~SortedListGet(c) PROVE GetOK'
  <2>1. UNCHANGED <<slice, asked>> /\ disturbed' \in SUBSET Calls
    BY <1>4, AtOnceFacts
       DEF HandlerStep, InSteps, SortedListAdd, SortSwap, SortDone,
           EncodeElem, Elsewhere, Returns, dsVars, getVars, GetInv, GetOK
  <2> QED BY <2>1 DEF GetInv, GetOK
<1>5. ASSUME NEW c \in Calls, HandlerStep(c) PROVE GetInv'
  <2>1. GetOK' /\ \A d \in Calls : Encoding(d)' /\ Exact(d)'
    BY <1>1, <1>4, <1>5, GetOthers, GetAdds, GetGets, GetEncodes
       DEF HandlerStep, InSteps
  <2> QED BY <1>1, <2>1 DEF GetInv
<1>6. CASE \/ \E c \in Calls : Carried(c)
           \/ \E n \in Clients : Drop(n) /\ UNCHANGED dsVars
  BY <1>1, <1>3, <1>6, CarriedFacts DEF ListInv
<1> QED BY <1>2, <1>5, <1>6, StructCases DEF structVars, rpcVars

-----------------------------------------------------------------------------
(* What becomes of the elements that are pushed.                           *)

\* A step that has nothing to do with the structure.
LEMMA FateKept ==
  ASSUME NEW push, NEW pop, NEW s, NEW res, NEW ret,
         Fate(push, pop, s, res),
         \A c \in Calls :
           req[c] # NoCall /\ req[c].op \in {push, pop} => ret[c] = res[c]
  PROVE  Fate(push, pop, s, ret)
<1>1. /\ \A e : \A c \in Calls : Pushed(c, push, e, ret) <=> Pushed(c, push, e, res)
      /\ \A e : \A c \in Calls : Popped(c, pop, e, ret) <=> Popped(c, pop, e, res)
  BY DEF Pushed, Popped
<1> QED BY <1>1 DEF Fate

LEMMA FatePush ==
  ASSUME NEW push \in {"QueuePush", "StackPush"}, NEW pop, push # pop,
         NEW s \in Seq(Elements), NEW res, NEW ret, NEW c \in Calls,
         Fate(push, pop, s, res), DifferentPushes,
         req[c] # NoCall, req[c].op = push, req[c].val \in Elements,
         res[c] = Nothing, ret[c] = [outcome |-> "ok", vals |-> <<>>],
         \A d \in Calls : d # c => ret[d] = res[d]
  PROVE  Fate(push, pop, Append(s, req[c].val), ret)
<1> DEFINE v == req[c].val
           t == Append(s, v)
           n == Len(s)
<1>1. /\ n \in Nat /\ Len(t) = n + 1 /\ t[n + 1] = v
      /\ \A i \in 1..n : t[i] = s[i]
  BY SeqAppend
<1>2. \A i \in 1..n + 1 : i \in 1..n \/ i = n + 1
  BY <1>1
<1>3. \A e : \A d \in Calls :
        Pushed(d, push, e, ret) <=> Pushed(d, push, e, res) \/ (d = c /\ e = v)
  BY DEF Pushed, Nothing
<1>4. \A e : \A d \in Calls : Popped(d, pop, e, ret) <=> Popped(d, pop, e, res)
  BY DEF Popped
<1>5. \A d \in Calls : ~Pushed(d, push, v, res)
  BY DEF Pushed, DifferentPushes, Nothing
<1> HIDE DEF t, n, v
<1>6. \A i \in 1..n : s[i] # v
  BY <1>5 DEF Fate, n
<1>7. \A d \in Calls : ~Popped(d, pop, v, res)
  BY <1>5 DEF Fate
<1>8. \A i \in 1..Len(t) : \E d \in Calls : Pushed(d, push, t[i], ret)
  BY <1>1, <1>2, <1>3 DEF Fate, n
<1>9. \A i, j \in 1..Len(t) : t[i] = t[j] => i = j
  BY <1>1, <1>2, <1>6 DEF Fate, n
<1>10. ASSUME NEW e, NEW d \in Calls, Popped(d, pop, e, ret)
       PROVE  /\ \E b \in Calls : Pushed(b, push, e, ret)
              /\ \A i \in 1..Len(t) : t[i] # e
              /\ \A b \in Calls : Popped(b, pop, e, ret) => b = d
  <2>1. Popped(d, pop, e, res) /\ e # v
    BY <1>4, <1>7, <1>10
  <2>2. \A i \in 1..n : s[i] # e
    BY <2>1 DEF Fate, n
  <2>3. \A i \in 1..Len(t) : t[i] # e
    BY <1>1, <1>2, <2>1, <2>2
  <2>4. /\ \E b \in Calls : Pushed(b, push, e, ret)
        /\ \A b \in Calls : Popped(b, pop, e, ret) => b = d
    BY <1>3, <1>4, <2>1 DEF Fate
  <2> QED BY <2>3, <2>4
<1>11. ASSUME NEW e, NEW d \in Calls, Pushed(d, push, e, ret)
       PROVE  \/ \E i \in 1..Len(t) : t[i] = e
              \/ \E b \in Calls : Popped(b, pop, e, ret)
  <2>1. CASE e = v
    <3>1. n + 1 \in 1..Len(t) /\ t[n + 1] = e
      BY <1>1, <2>1
    <3> QED BY <3>1
  <2>2. CASE e # v
    <3>1. Pushed(d, push, e, res)
      BY <1>3, <1>11, <2>2
    <3>2. CASE \E i \in 1..n : s[i] = e
      BY <1>1, <3>2
    <3>3. CASE \E b \in Calls : Popped(b, pop, e, res)
      BY <1>4, <3>3
    <3> QED BY <3>1, <3>2, <3>3 DEF Fate, n
  <2> QED BY <2>1, <2>2
<1>12. Fate(push, pop, t, ret)
  BY <1>8, <1>9, <1>10, <1>11 DEF Fate
<1> QED BY <1>12 DEF t, v

\* A pop that finds the structure empty.
LEMMA FateNothing ==
  ASSUME NEW push, NEW pop, push # pop, NEW s, NEW res, NEW ret, NEW c \in Calls,
         Fate(push, pop, s, res), req[c].op = pop,
         res[c] = Nothing, ret[c] = [outcome |-> "error", vals |-> <<>>],
         \A d \in Calls : d # c => ret[d] = res[d]
  PROVE  Fate(push, pop, s, ret)
<1>1. \A e : \A d \in Calls : Pushed(d, push, e, ret) <=> Pushed(d, push, e, res)
  BY DEF Pushed
<1>2. \A e : \A d \in Calls : Popped(d, pop, e, ret) <=> Popped(d, pop, e, res)
  BY DEF Popped, Nothing
<1> QED BY <1>1, <1>2 DEF Fate

\* Element e is taken out of s, at place k: t is what is left.
TakenOut(s, k, e, t) ==
  /\ s \in Seq(Elements) /\ k \in 1..Len(s) /\ e = s[k]
  /\ t \in Seq(Elements) /\ Len(t) = Len(s) - 1
  /\ \A i \in 1..Len(t) : t[i] = s[IF i < k THEN i ELSE i + 1]

LEMMA FatePop ==
  ASSUME NEW push, NEW pop, push # pop, NEW s, NEW t, NEW k, NEW x,
         TakenOut(s, k, x, t), NEW res, NEW ret, NEW c \in Calls, Fate(push, pop, s, res),
         req[c] # NoCall, req[c].op = pop,
         res[c] = Nothing, ret[c] = [outcome |-> "ok", vals |-> <<x>>],
         \A d \in Calls : d # c => ret[d] = res[d]
  PROVE  Fate(push, pop, t, ret)
<1> USE DEF TakenOut
<1> DEFINE v == x
           n == Len(s)
<1>1. n \in Nat /\ k \in 1..n /\ n - 1 \in Nat /\ Len(t) = n - 1
  OBVIOUS
<1>2. \A e : \A d \in Calls : Pushed(d, push, e, ret) <=> Pushed(d, push, e, res)
  BY DEF Pushed
<1>3. \A e : \A d \in Calls :
        Popped(d, pop, e, ret) <=> Popped(d, pop, e, res) \/ (d = c /\ e = v)
  <2> TAKE e
  <2> TAKE d \in Calls
  <2>1. <<v>> = <<e>> <=> v = e
    OBVIOUS
  <2>2. ret[c].vals = <<v>> /\ res[c].vals = <<>> /\ <<>> # <<e>>
    BY DEF Nothing
  <2> HIDE DEF v
  <2>3. Popped(c, pop, e, ret) <=> v = e
    BY <2>1, <2>2 DEF Popped
  <2>4. ~Popped(c, pop, e, res)
    BY <2>2 DEF Popped
  <2>5. d # c => (Popped(d, pop, e, ret) <=> Popped(d, pop, e, res))
    BY DEF Popped
  <2> QED BY <2>3, <2>4, <2>5
<1>4. ASSUME NEW e, \E i \in 1..Len(t) : t[i] = e
      PROVE  e # v /\ \E j \in 1..n : s[j] = e
  <2>1. PICK i \in 1..Len(t) : t[i] = e
    BY <1>4
  <2>2. PICK j \in 1..n : j # k /\ s[j] = e
    <3>1. CASE i < k
      <4>1. i \in 1..n /\ i # k
        BY <1>1, <3>1
      <4>2. t[i] = s[i]
        BY <3>1
      <4> QED BY <2>1, <4>1, <4>2
    <3>2. CASE ~(i < k)
      <4>1. i + 1 \in 1..n /\ i + 1 # k
        BY <1>1, <3>2
      <4> QED BY <1>1, <2>1, <3>2, <4>1
    <3> QED BY <3>1, <3>2
  <2> QED BY <1>1, <2>2 DEF Fate
<1>5. ASSUME NEW j \in 1..n, j # k PROVE \E i \in 1..Len(t) : t[i] = s[j]
  <2>1. CASE j < k
    <3>1. j \in 1..Len(t) /\ t[j] = s[j]
      BY <1>1, <1>5, <2>1
    <3> QED BY <3>1
  <2>2. CASE ~(j < k)
    <3>1. j - 1 \in 1..Len(t) /\ ~(j - 1 < k) /\ (j - 1) + 1 = j
      BY <1>1, <1>5, <2>2
    <3>2. t[j - 1] = s[j]
      BY <3>1
    <3> QED BY <3>1, <3>2
  <2> QED BY <2>1, <2>2
<1>6. \A i, j \in 1..Len(t) : t[i] = t[j] => i = j
  <2> SUFFICES ASSUME NEW i \in 1..Len(t), NEW j \in 1..Len(t), t[i] = t[j]
               PROVE  i = j
    OBVIOUS
  <2>1. /\ (IF i < k THEN i ELSE i + 1) \in 1..n /\ (IF j < k THEN j ELSE j + 1) \in 1..n
        /\ s[IF i < k THEN i ELSE i + 1] = s[IF j < k THEN j ELSE j + 1]
    BY <1>1
  <2>2. (IF i < k THEN i ELSE i + 1) = (IF j < k THEN j ELSE j + 1)
    BY <2>1 DEF Fate
  <2> QED BY <1>1, <2>2
<1>7. \A d \in Calls : ~Popped(d, pop, v, res)
  BY <1>1 DEF Fate
<1>8. \E d \in Calls : Pushed(d, push, v, res)
  BY <1>1 DEF Fate
<1> HIDE DEF n, v
<1>9. \A i \in 1..Len(t) : \E d \in Calls : Pushed(d, push, t[i], ret)
  BY <1>2, <1>4 DEF Fate, n
<1>10. ASSUME NEW e, NEW d \in Calls, Popped(d, pop, e, ret)
       PROVE  /\ \E b \in Calls : Pushed(b, push, e, ret)
              /\ \A i \in 1..Len(t) : t[i] # e
              /\ \A b \in Calls : Popped(b, pop, e, ret) => b = d
  <2>1. CASE e = v
    BY <1>2, <1>3, <1>4, <1>7, <1>8, <1>10, <2>1
  <2>2. CASE e # v
    <3>1. Popped(d, pop, e, res)
      BY <1>3, <1>10, <2>2
    <3>2. \A j \in 1..n : s[j] # e
      BY <3>1 DEF Fate, n
    <3>3. \A i \in 1..Len(t) : t[i] # e
      BY <1>4, <3>2
    <3>4. /\ \E b \in Calls : Pushed(b, push, e, ret)
          /\ \A b \in Calls : Popped(b, pop, e, ret) => b = d
      BY <1>2, <1>3, <2>2, <3>1 DEF Fate
    <3> QED BY <3>3, <3>4
  <2> QED BY <2>1, <2>2
<1>11. ASSUME NEW e, NEW d \in Calls, Pushed(d, push, e, ret)
       PROVE  \/ \E i \in 1..Len(t) : t[i] = e
              \/ \E b \in Calls : Popped(b, pop, e, ret)
  <2>1. Pushed(d, push, e, res)
    BY <1>2, <1>11
  <2>2. CASE \E b \in Calls : Popped(b, pop, e, res)
    BY <1>3, <2>2
  <2>3. ASSUME NEW j \in 1..n, s[j] = e
        PROVE  \/ \E i \in 1..Len(t) : t[i] = e
               \/ \E b \in Calls : Popped(b, pop, e, ret)
    <3>1. CASE j = k
      BY <1>3, <2>3, <3>1 DEF v
    <3>2. CASE j # k
      BY <1>5, <2>3, <3>2
    <3> QED BY <3>1, <3>2
  <2> QED BY <2>1, <2>2, <2>3 DEF Fate, n
<1> QED BY <1>6, <1>9, <1>10, <1>11 DEF Fate

LEMMA FateStep == FateInv /\ (StructStep \/ UNCHANGED structVars) => FateInv'
<1> SUFFICES ASSUME FateInv, StructStep \/ UNCHANGED structVars PROVE FateInv'
  OBVIOUS
<1> DEFINE InQueue(s, res) == Fate("QueuePush", "QueuePop", s, res)
           InStack(s, res) == Fate("StackPush", "StackPop", s, res)
<1>1. /\ CallInv /\ PlainInv /\ DifferentPushes
      /\ InQueue(queue, result) /\ InStack(stack, result)
  BY DEF FateInv
<1> SUFFICES UNCHANGED req /\ InQueue(queue', result') /\ InStack(stack', result')
  <2>1. ASSUME UNCHANGED req PROVE DifferentPushes'
    BY <1>1, <2>1 DEF DifferentPushes
  <2>2. ASSUME UNCHANGED req, InQueue(queue', result'), InStack(stack', result')
        PROVE  /\ Fate("QueuePush", "QueuePop", queue, result)'
               /\ Fate("StackPush", "StackPop", stack, result)'
    <3>1. \A push, e : \A c \in Calls :
            Pushed(c, push, e, result)' <=> Pushed(c, push, e, result')
      BY <2>2 DEF Pushed
    <3>2. \A pop, e : \A c \in Calls :
            Popped(c, pop, e, result)' <=> Popped(c, pop, e, result')
      BY <2>2 DEF Popped
    <3>3. Fate("QueuePush", "QueuePop", queue, result)'
      BY <2>2, <3>1, <3>2 DEF Fate
    <3>4. Fate("StackPush", "StackPop", stack, result)'
      BY <2>2, <3>1, <3>2 DEF Fate
    <3> QED BY <3>3, <3>4
  <2> QED BY <1>1, <2>1, <2>2, CallStep, PlainStep DEF FateInv
<1>2. /\ queue \in Seq(Elements) /\ stack \in Seq(Elements)
      /\ Len(queue) \in Nat /\ Len(stack) \in Nat
  BY <1>1 DEF PlainInv
<1>3. ASSUME UNCHANGED <<req, result, queue, stack>>
      PROVE  UNCHANGED req /\ InQueue(queue', result') /\ InStack(stack', result')
  BY <1>1, <1>3
<1>4. ASSUME NEW c \in Calls, AtOnce(c)
      PROVE  UNCHANGED req /\ InQueue(queue', result') /\ InStack(stack', result')
  <2>1. /\ UNCHANGED req /\ req[c] # NoCall /\ req[c] \in Request
        /\ result[c] = Nothing /\ \A d \in Calls : d # c => result'[d] = result[d]
        /\ \A o, x : Handled(c, o, x) => result'[c] = [outcome |-> o, vals |-> x]
    BY <1>1, <1>4, AtOnceFacts DEF Ends, Handled, CallInv, CallAt
  <2>2. ASSUME req[c].op \notin {"QueuePush", "QueuePop"}
        PROVE  InQueue(queue, result')
    BY <1>1, <2>1, <2>2, FateKept
  <2>3. ASSUME req[c].op \notin {"StackPush", "StackPop"}
        PROVE  InStack(stack, result')
    BY <1>1, <2>1, <2>3, FateKept
  <2>4. CASE QueuePush(c)
    <3>1. /\ req[c].op = "QueuePush" /\ req[c].val \in Elements
          /\ queue' = Append(queue, req[c].val) /\ UNCHANGED stack
          /\ result'[c] = [outcome |-> "ok", vals |-> <<>>]
      BY <2>1, <2>4, ArgumentAssumption DEF QueuePush, Enter
    <3>2. InQueue(queue', result')
      BY <1>1, <1>2, <2>1, <3>1, FatePush
    <3> QED BY <2>1, <2>3, <3>1, <3>2
  <2>5. CASE StackPush(c)
    <3>1. /\ req[c].op = "StackPush" /\ req[c].val \in Elements
          /\ stack' = Append(stack, req[c].val) /\ UNCHANGED queue
          /\ result'[c] = [outcome |-> "ok", vals |-> <<>>]
      BY <2>1, <2>5, ArgumentAssumption DEF StackPush, Enter
    <3>2. InStack(stack', result')
      BY <1>1, <1>2, <2>1, <3>1, FatePush
    <3> QED BY <2>1, <2>2, <3>1, <3>2
  <2>6. CASE QueuePop(c)
    <3>1. req[c].op = "QueuePop" /\ UNCHANGED stack /\ InStack(stack', result')
      BY <2>3, <2>6 DEF QueuePop, Enter
    <3>2. CASE queue = <<>>
      <4>1. queue' = queue /\ result'[c] = [outcome |-> "error", vals |-> <<>>]
        BY <2>1, <2>6, <3>2 DEF QueuePop, OneOf, Dequeued
      <4>2. InQueue(queue, result')
        BY <1>1, <2>1, <3>1, <4>1, FateNothing
      <4> QED BY <2>1, <3>1, <4>1, <4>2
    <3>3. CASE queue # <<>>
      <4> DEFINE h == Head(queue)
                 t == Tail(queue)
      <4>1. queue' = t /\ result'[c] = [outcome |-> "ok", vals |-> <<h>>]
        BY <2>1, <2>6, <3>3 DEF QueuePop, OneOf, Dequeued
      <4>2. TakenOut(queue, 1, h, t)
        BY <1>2, <3>3 DEF TakenOut
      <4> HIDE DEF h, t
      <4>3. InQueue(t, result')
        BY <1>1, <2>1, <3>1, <4>1, <4>2, FatePop
      <4> QED BY <2>1, <3>1, <4>1, <4>3
    <3> QED BY <3>2, <3>3
  <2>7. CASE StackPop(c)
    <3>1. req[c].op = "StackPop" /\ UNCHANGED queue /\ InQueue(queue', result')
      BY <2>2, <2>7 DEF StackPop, Enter
    <3> DEFINE n == Len(stack)
               t == SubSeq(stack, 1, n - 1)
    <3>2. CASE stack = <<>>
      <4>1. stack' = stack /\ result'[c] = [outcome |-> "error", vals |-> <<>>]
        BY <2>1, <2>7, <3>2 DEF StackPop, OneOf
      <4>2. InStack(stack, result')
        BY <1>1, <2>1, <3>1, <4>1, FateNothing
      <4> QED BY <2>1, <3>1, <4>1, <4>2
    <3>3. CASE stack # <<>>
      <4>1. /\ stack' = t
            /\ result'[c] = [outcome |-> "ok", vals |-> <<stack[n]>>]
        BY <2>1, <2>7, <3>3 DEF StackPop, OneOf
      <4>2. n \in 1..Len(stack) /\ 1 \in Int /\ n - 1 \in Int
        BY <1>2, <3>3
      <4>3. \A i \in 1..n - 1 : stack[i] \in Elements
        BY <1>2
      <4>4. /\ t \in Seq(Elements) /\ Len(t) = (IF 1 <= n - 1 THEN n - 1 - 1 + 1 ELSE 0)
            /\ \A i \in 1..n - 1 - 1 + 1 : t[i] = stack[1 + i - 1]
        <5> HIDE DEF n
        <5> QED BY <4>2, <4>3, SubSeqProperties
      <4>5. Len(t) = Len(stack) - 1 /\ \A i \in 1..n - 1 : t[i] = stack[i]
        <5>1. n - 1 - 1 + 1 = n - 1 /\ \A i \in 1..n - 1 : 1 + i - 1 = i
          BY <4>2
        <5> HIDE DEF t
        <5>2. \A i \in 1..n - 1 : t[i] = stack[i]
          BY <4>2, <4>4, <5>1
        <5>3. Len(t) = IF 1 <= n - 1 THEN n - 1 - 1 + 1 ELSE 0
          BY <4>4
        <5>4. Len(t) = Len(stack) - 1
          BY <4>2, <5>3
        <5> QED BY <5>2, <5>4
      <4> HIDE DEF t
      <4>6. TakenOut(stack, n, stack[n], t)
        BY <1>2, <4>2, <4>4, <4>5 DEF TakenOut
      <4>7. InStack(t, result')
        <5>1. result'[c] = [outcome |-> "ok", vals |-> <<stack[n]>>]
          BY <4>1
        <5> HIDE DEF n
        <5> QED BY <1>1, <2>1, <3>1, <4>6, <5>1, FatePop
      <4> QED BY <2>1, <3>1, <4>1, <4>7
    <3> QED BY <3>2, <3>3
  <2>8. ASSUME \/ SetAdd(c) \/ SetRemove(c) \/ SetList(c) \/ MapPut(c) \/ MapGet(c)
               \/ QueuePeek(c) \/ StackPeek(c)
        PROVE  /\ UNCHANGED <<queue, stack>>
               /\ req[c].op \notin {"QueuePush", "QueuePop", "StackPush", "StackPop"}
    BY <2>8 DEF SetAdd, SetRemove, SetList, MapPut, MapGet, QueuePeek, StackPeek,
                Enter, dsVars
  <2> QED
    BY <1>4, <2>1, <2>2, <2>3, <2>4, <2>5, <2>6, <2>7, <2>8 DEF AtOnce
<1>5. ASSUME NEW c \in Calls, InSteps(c) \/ Elsewhere(c) \/ Returns(c)
      PROVE  UNCHANGED req /\ InQueue(queue', result') /\ InStack(stack', result')
  <2>1. UNCHANGED <<req, queue, stack>>
    BY <1>5 DEF InSteps, SortedListAdd, SortSwap, SortDone, SortedListGet,
                EncodeElem, Elsewhere, Returns, Handled, rpcVars, dsVars
  <2>2. \A d \in Calls :
          /\ req[d] # NoCall
          /\ req[d].op \in {"QueuePush", "QueuePop", "StackPush", "StackPop"}
          => result'[d] = result[d]
    <3>1. CASE UNCHANGED result
      BY <3>1
    <3>2. CASE SortDone(c)
      BY <1>1, <3>2 DEF SortDone, Handled, CallInv, CallAt
    <3>3. CASE SortedListGet(c)
      BY <1>1, <3>3 DEF SortedListGet, Enter, Handled, CallInv
    <3>4. CASE EncodeElem(c)
      BY <1>1, <3>4 DEF EncodeElem, Handled, CallInv, CallAt
    <3>5. CASE Returns(c)
      BY <1>1, <3>5 DEF Returns, Handled, StructOps, CallInv, CallAt
    <3> QED
      BY <1>5, <3>1, <3>2, <3>3, <3>4, <3>5
      DEF InSteps, SortedListAdd, SortSwap, Elsewhere, rpcVars
  <2>3. InQueue(queue, result') /\ InStack(stack, result')
    BY <1>1, <2>2, FateKept
  <2> QED BY <2>1, <2>3
<1>6. CASE \/ \E c \in Calls : Carried(c)
           \/ \E n \in Clients : Drop(n) /\ UNCHANGED dsVars
  BY <1>1, <1>3, <1>6, CarriedFacts DEF dsVars
<1> QED
  BY <1>3, <1>4, <1>5, <1>6, StructCases
  DEF HandlerStep, structVars, rpcVars, dsVars

\* What Fate says, counted.
LEMMA FateCounted ==
  ASSUME CallInv, DifferentPushes, NEW push \in {"QueuePush", "StackPush"}, NEW pop,
         NEW s \in Seq(Elements), Fate(push, pop, s, result)
  PROVE  Accounted(push, pop, s)
<1> SUFFICES ASSUME NEW c \in Calls, req[c] # NoCall, req[c].op = push
             PROVE  Places(c, s, pop) = IF result[c].outcome = "ok" THEN 1 ELSE 0
  BY DEF Accounted
<1> DEFINE v == req[c].val
           I == {i \in 1..Len(s) : s[i] = v}
           D == {d \in Calls : req[d] # NoCall /\ req[d].op = pop /\ result[d].vals = <<v>>}
<1>1. Places(c, s, pop) = Cardinality(I) + Cardinality(D)
  BY DEF Places, Times
<1>2. \A d \in Calls : d \in D <=> Popped(d, pop, v, result)
  BY DEF Popped
<1>3. \A d \in Calls : Pushed(d, push, v, result) => d = c
  BY DEF Pushed, DifferentPushes
<1>4. Pushed(c, push, v, result) <=> result[c].outcome = "ok"
  BY DEF Pushed
<1>5. /\ I # {} => I = {CHOOSE i \in I : TRUE} /\ D = {}
      /\ D # {} => D = {CHOOSE d \in D : TRUE} /\ I = {}
      /\ I \cup D # {} <=> result[c].outcome = "ok"
  <2>1. ASSUME I # {}
        PROVE  /\ I = {CHOOSE i \in I : TRUE} /\ D = {}
               /\ result[c].outcome = "ok"
    <3>1. PICK i \in 1..Len(s) : s[i] = v
      BY <2>1
    <3>2. \A j \in I : j = i
      BY <3>1 DEF Fate
    <3>3. I = {i}
      BY <3>1, <3>2
    <3>4. D = {}
      BY <1>2, <3>1 DEF Fate
    <3>5. result[c].outcome = "ok"
      BY <1>3, <1>4, <3>1 DEF Fate
    <3> HIDE DEF I, D
    <3> QED BY <3>3, <3>4, <3>5
  <2>2. ASSUME D # {}
        PROVE  /\ D = {CHOOSE d \in D : TRUE}
               /\ result[c].outcome = "ok"
    <3>1. PICK d \in Calls : d \in D /\ Popped(d, pop, v, result)
      BY <1>2, <2>2
    <3>2. \A b \in D : b = d
      BY <1>2, <3>1 DEF Fate
    <3>3. D = {d}
      BY <3>1, <3>2
    <3>4. result[c].outcome = "ok"
      BY <1>3, <1>4, <3>1 DEF Fate
    <3> HIDE DEF I, D
    <3> QED BY <3>3, <3>4
  <2>3. ASSUME result[c].outcome = "ok" PROVE I # {} \/ D # {}
    <3>1. Pushed(c, push, v, result)
      BY <1>4, <2>3
    <3>2. \/ \E i \in 1..Len(s) : s[i] = v
          \/ \E d \in Calls : Popped(d, pop, v, result)
      BY <3>1 DEF Fate
    <3> QED BY <1>2, <3>2
  <2> HIDE DEF I, D
  <2> QED BY <2>1, <2>2, <2>3
<1> HIDE DEF I, D
<1>6. CASE I # {}
  <2>1. PICK i : I = {i}
    BY <1>5, <1>6
  <2>2. Cardinality(I) = 1 /\ Cardinality(D) = 0
    BY <1>5, <1>6, <2>1, FS_Singleton, FS_EmptySet
  <2> QED BY <1>1, <1>5, <1>6, <2>2
<1>7. CASE D # {}
  <2>1. PICK d : D = {d}
    BY <1>5, <1>7
  <2>2. Cardinality(D) = 1 /\ Cardinality(I) = 0
    BY <1>5, <1>7, <2>1, FS_Singleton, FS_EmptySet
  <2> QED BY <1>1, <1>5, <1>7, <2>2
<1>8. CASE I = {} /\ D = {}
  BY <1>1, <1>5, <1>8, FS_EmptySet
<1> QED BY <1>6, <1>7, <1>8

-----------------------------------------------------------------------------
(* The theorems.                                                           *)

\* The list that the server starts with.
LEMMA ListInit ==
  ASSUME DSInit
  PROVE  ListOK /\ ListHolds
<1>1. sorter = NotSorting /\ ~Locked
  BY DEF DSInit, Locked
<1>2. CASE heap = <<>> /\ list = Absent /\ held = [e \in Elements |-> 0]
  BY <1>1, <1>2 DEF ListOK, ListHolds, NotSorting
<1>3. ASSUME NEW a \in Lists, heap = <<a>>, held = [e \in Elements |-> Times(a, e)],
             list = [arr |-> 1, len |-> Len(a) - Times(a, 0)]
      PROVE  ListOK /\ ListHolds
  <2>1. a \in Seq(Elements \cup {0}) /\ Len(a) \in Nat
    BY <1>3, ListAssumption
  <2>2. PICK n \in 1..Len(a) :
          /\ \A i \in 1..Len(a) : a[i] = 0 <=> i > n
          /\ \A i, j \in 1..n : i < j => a[i] <= a[j]
    BY <1>3, ListAssumption
  <2>3. Times(a, 0) = Len(a) - n
    <3>1. {i \in 1..Len(a) : a[i] = 0} = n + 1..Len(a)
      BY <2>1, <2>2
    <3> DEFINE m == n + 1
               l == Len(a)
    <3>2. m \in Int /\ l \in Int /\ n \in 1..l /\ m = n + 1
      BY <2>1, <2>2
    <3>3. Times(a, 0) = Cardinality(m..l)
      BY <3>1 DEF Times
    <3> HIDE DEF m, l
    <3>4. Cardinality(m..l) = IF m > l THEN 0 ELSE l - m + 1
      BY <3>2, FS_Interval
    <3>5. Times(a, 0) = l - n
      BY <3>2, <3>3, <3>4
    <3> QED BY <3>5 DEF l
  <2>4. list = [arr |-> 1, len |-> n]
    BY <1>3, <2>1, <2>2, <2>3
  <2>5. list # Absent
    BY <2>2, <2>4, AbsentAssumption
  <2>6. heap \in Seq(Seq(Elements \cup {0})) /\ Len(heap) = 1 /\ heap[1] = a
    BY <1>3, <2>1
  <2>7. \A i \in 1..n : a[i] \in Elements
    BY <2>1, <2>2
  <2>8. \A e : Times(a, e) \in Nat
    <3> TAKE e
    <3>1. Times(a, e) = Cardinality(Spots(a, Len(a), e))
      BY DEF Times, Spots
    <3> QED BY <2>1, <3>1, SpotsFinite
  <2>9. ASSUME NEW e \in Elements PROVE Cardinality(Spots(a, n, e)) = held[e]
    <3>1. e # 0
      BY ElementAssumption
    <3>2. Spots(a, n, e) = {i \in 1..Len(a) : a[i] = e}
      BY <2>1, <2>2, <3>1 DEF Spots
    <3> QED BY <1>3, <3>2 DEF Times
  <2>10. ListOK
    BY <1>1, <1>3, <2>2, <2>4, <2>6, <2>8 DEF ListOK, NotSorting
  <2>11. ListHolds
    BY <1>1, <2>2, <2>4, <2>5, <2>6, <2>7, <2>9 DEF ListHolds
  <2> QED BY <2>10, <2>11
<1> QED BY <1>2, <1>3 DEF DSInit

LEMMA StructInit == DSInit => GetInv /\ (DifferentPushes => FateInv)
<1> SUFFICES ASSUME DSInit PROVE GetInv /\ (DifferentPushes => FateInv)
  OBVIOUS
<1>1. CallInv
  BY DEF DSInit, RPCInit, CallInv, CallAt, Nothing, Outcomes, Stages
<1>2. PlainInv
  BY DEF DSInit, PlainInv
<1>3. GetOK /\ \A c \in Calls : Encoding(c) /\ Exact(c)
  BY DEF DSInit, RPCInit, GetOK, Encoding, Exact, Nothing
<1>4. \A push, pop : Fate(push, pop, <<>>, result)
  <2>1. \A c \in Calls : result[c].outcome # "ok" /\ result[c].vals = <<>>
    BY DEF DSInit, RPCInit, Nothing
  <2>2. \A op, e : \A c \in Calls : ~Pushed(c, op, e, result)
    BY <2>1 DEF Pushed
  <2>3. \A op, e : \A c \in Calls : ~Popped(c, op, e, result)
    <3>1. \A e : <<>> # <<e>>
      OBVIOUS
    <3> QED BY <2>1, <3>1 DEF Popped
  <2> QED BY <2>2, <2>3 DEF Fate
<1> QED
  BY <1>1, <1>2, <1>3, <1>4, ListInit DEF GetInv, ListInv, FateInv, DSInit

\* What the inductive invariants say of the structures and of the answers.
StructInv == DSTypeOK /\ ListSorted /\ ListExact

LEMMA StructInvHolds == GetInv => StructInv
<1> SUFFICES ASSUME GetInv PROVE StructInv
  OBVIOUS
<1>1. DSTypeOK
  BY DEF GetInv, GetOK, ListInv, ListOK, CallInv, CallAt, PlainInv, DSTypeOK
<1>2. ListSorted
  <2> SUFFICES ASSUME ~Locked, list # Absent
               PROVE  /\ \A e \in Elements : Times(Elems(list), e) = held[e]
                      /\ \A i \in 2..list.len : Elems(list)[i - 1] <= Elems(list)[i]
    BY DEF ListSorted
  <2>1. /\ heap \in Seq(Seq(Elements \cup {0})) /\ list.arr \in 1..Len(heap)
        /\ list.len \in 0..Len(heap[list.arr]) /\ list.len \in Nat
    BY DEF GetInv, ListInv, ListOK
  <2>2. /\ Len(Elems(list)) = list.len
        /\ \A i \in 1..list.len : Elems(list)[i] = heap[list.arr][i]
    BY <2>1, ElemsFacts
  <2>3. \A e : Times(Elems(list), e) = Cardinality(Spots(heap[list.arr], list.len, e))
    <3> TAKE e
    <3>1. {i \in 1..Len(Elems(list)) : Elems(list)[i] = e}
            = Spots(heap[list.arr], list.len, e)
      BY <2>2 DEF Spots
    <3> QED BY <3>1 DEF Times
  <2>4. ASSUME NEW i \in 2..list.len PROVE Elems(list)[i - 1] <= Elems(list)[i]
    <3>1. i - 1 \in 1..list.len /\ i \in 1..list.len /\ i - 1 < i
      BY <2>1
    <3> QED BY <2>2, <3>1 DEF GetInv, ListInv, ListHolds
  <2> QED BY <2>3, <2>4 DEF GetInv, ListInv, ListHolds
<1>3. ListExact
  BY DEF GetInv, Exact, ListExact
<1> QED BY <1>1, <1>2, <1>3 DEF StructInv

LEMMA FateHolds == FateInv => ElementsAccounted
BY FateCounted DEF FateInv, PlainInv, ElementsAccounted

LEMMA StructCorrect == DSSpec => []StructInv
<1>1. GetInv /\ [DSNext]_structVars => GetInv'
  BY GetStep DEF StructStep
<1> QED BY <1>1, StructInit, StructInvHolds, PTL DEF DSSpec

\* The structures and the calls keep their types.
THEOREM StructuresTyped == DSSpec => []DSTypeOK
BY StructCorrect, PTL DEF StructInv

\* The sort of SortedListAdd puts every element in its place and loses none,
\* whatever the list holds and whether or not append had to move it.
THEOREM AddsInOrder == DSSpec => []ListSorted
BY StructCorrect, PTL DEF StructInv

\* An answer of SortedListGet that differs from the list it was asked for has
\* met an add to the same array while it was encoded; nothing else changes it.
THEOREM GetsWhatWasThere == DSSpec => []ListExact
BY StructCorrect, PTL DEF StructInv

\* When different pushes push different elements, each one is in the queue, or
\* stack, or has gone to one pop: connections that break lose none there.
THEOREM AccountsForPushes == DSSpec /\ DifferentPushes => []ElementsAccounted
<1>1. FateInv /\ [DSNext]_structVars => FateInv'
  BY FateStep DEF StructStep
<1> QED BY <1>1, StructInit, FateHolds, PTL DEF DSSpec

=============================================================================
