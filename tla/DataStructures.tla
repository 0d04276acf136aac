--------------------------- MODULE DataStructures ---------------------------
(***************************************************************************)
(* The sets, sorted lists, maps, queues and stacks of                      *)
(* datastructures/service.go, called through RPC.                          *)
(*                                                                         *)
(* One structure of each kind: they share nothing but the lock, ds.mu.     *)
(* Every operation but two is one critical section.  SortedListAdd sorts   *)
(* the list in place, exchange by exchange; SortedListGet returns the list *)
(* itself, which is read, string by string, when the answer is encoded,    *)
(* after the lock is released.  A slice is an array of the heap and a      *)
(* length, as append makes them.                                           *)
(***************************************************************************)
EXTENDS RPC

CONSTANTS
  Elements,   \* the strings, in their order
  Names,      \* the keys of the map
  Lists,      \* what the sorted list may hold when the calls are made
  Absent,     \* no such set, no such list
  Torn        \* a string read while it is written

ASSUME ElementAssumption == Elements \subseteq Nat \ {0}
\* A sorted list, and room behind it.
ASSUME ListAssumption ==
  \A a \in Lists :
    /\ a \in Seq(Elements \cup {0})
    /\ \E n \in 1..Len(a) :
         /\ \A i \in 1..Len(a) : a[i] = 0 <=> i > n
         /\ \A i, j \in 1..n : i < j => a[i] <= a[j]
\* Calls that take a value, or a name, are made with one.
ASSUME ArgumentAssumption ==
  \A q \in Request :
    /\ q.op \in {"SetAdd", "QueuePush", "StackPush", "SortedListAdd", "MapPut"} =>
         q.val \in Elements
    /\ q.op = "MapPut" => q.name \in Names
ASSUME AbsentAssumption == Absent \notin [arr : Nat, len : Nat]
ASSUME TornAssumption == Torn \notin Elements

VARIABLES
  set,      \* the elements of the set, or Absent
  map,      \* the entries of the map
  queue, stack,
  heap,     \* the arrays allocated for the sorted list; 0: not used yet
  list,     \* the slice ds.Lists has for it, or Absent
  sorter,   \* the call that sorts, and the place its element has come to
  slice,    \* slice[c]: the slice that SortedListGet has returned to c
  held,     \* history: how often each element was added to the list
  asked,    \* history: what the list held when c got it
  disturbed \* history: the calls whose slice an add has sorted meanwhile

listVars == <<heap, list, sorter, held>>
getVars == <<slice, asked, disturbed>>
dsVars == <<set, map, queue, stack, listVars, getVars>>
structVars == <<rpcVars, dsVars>>

NoSlice == [arr |-> 0, len |-> 0]
NotSorting == [call |-> NoCall, pos |-> 0]

Elems(s) == SubSeq(heap[s.arr], 1, s.len)

\* How often e is in the sequence s.
Times(s, e) == Cardinality({i \in 1..Len(s) : s[i] = e})

DSInit ==
  /\ RPCInit
  /\ set = Absent /\ map = <<>> /\ queue = <<>> /\ stack = <<>>
  /\ \/ heap = <<>> /\ list = Absent /\ held = [e \in Elements |-> 0]
     \/ \E a \in Lists :
          /\ heap = <<a>> /\ held = [e \in Elements |-> Times(a, e)]
          /\ list = [arr |-> 1, len |-> Len(a) - Times(a, 0)]
  /\ sorter = NotSorting
  /\ slice = [c \in Calls |-> NoSlice]
  /\ asked = [c \in Calls |-> <<>>] /\ disturbed = {}

-----------------------------------------------------------------------------
(* Operations that are one critical section.                               *)

\* A handler of op takes ds.mu.
Locked == sorter # NotSorting
Enter(c, op) == stage[c] = "sent" /\ req[c].op = op /\ ~Locked

\* Error, or the value that is there.
OneOf(c, s, v) ==
  IF s = <<>> THEN Handled(c, "error", <<>>) ELSE Handled(c, "ok", <<v>>)

SetAdd(c) ==
  /\ Enter(c, "SetAdd") /\ Handled(c, "ok", <<>>)
  /\ set' = (IF set = Absent THEN {} ELSE set) \cup {req[c].val}
  /\ UNCHANGED <<map, queue, stack, listVars, getVars>>

\* An error if there is no such set or no such value in it.
SetRemove(c) ==
  /\ Enter(c, "SetRemove")
  /\ LET there == set # Absent /\ req[c].val \in set
     IN IF there THEN set' = set \ {req[c].val} /\ Handled(c, "ok", <<>>)
        ELSE UNCHANGED set /\ Handled(c, "error", <<>>)
  /\ UNCHANGED <<map, queue, stack, listVars, getVars>>

\* The order of the values, which is that of a Go map, is left out.
SetList(c) ==
  /\ Enter(c, "SetList")
  /\ IF set = Absent THEN Handled(c, "error", <<>>) ELSE Handled(c, "ok", <<set>>)
  /\ UNCHANGED dsVars

MapPut(c) ==
  /\ Enter(c, "MapPut") /\ Handled(c, "ok", <<>>)
  /\ map' = [n \in DOMAIN map \cup {req[c].name} |->
               IF n = req[c].name THEN req[c].val ELSE map[n]]
  /\ UNCHANGED <<set, queue, stack, listVars, getVars>>

MapGet(c) ==
  /\ Enter(c, "MapGet")
  /\ IF req[c].name \in DOMAIN map THEN Handled(c, "ok", <<map[req[c].name]>>)
     ELSE Handled(c, "error", <<>>)
  /\ UNCHANGED dsVars

QueuePush(c) ==
  /\ Enter(c, "QueuePush") /\ Handled(c, "ok", <<>>)
  /\ queue' = Append(queue, req[c].val)
  /\ UNCHANGED <<set, map, stack, listVars, getVars>>

\* Mutant of Dequeued: the element is read, and stays.
Dequeued_Peek(q) == q

Dequeued(q) == IF q = <<>> THEN q ELSE Tail(q)

QueuePop(c) ==
  /\ Enter(c, "QueuePop") /\ OneOf(c, queue, Head(queue))
  /\ queue' = Dequeued(queue)
  /\ UNCHANGED <<set, map, stack, listVars, getVars>>

QueuePeek(c) ==
  /\ Enter(c, "QueuePeek") /\ OneOf(c, queue, Head(queue))
  /\ UNCHANGED dsVars

StackPush(c) ==
  /\ Enter(c, "StackPush") /\ Handled(c, "ok", <<>>)
  /\ stack' = Append(stack, req[c].val)
  /\ UNCHANGED <<set, map, queue, listVars, getVars>>

StackPop(c) ==
  /\ Enter(c, "StackPop") /\ OneOf(c, stack, stack[Len(stack)])
  /\ stack' = SubSeq(stack, 1, Len(stack) - 1)
  /\ UNCHANGED <<set, map, queue, listVars, getVars>>

StackPeek(c) ==
  /\ Enter(c, "StackPeek") /\ OneOf(c, stack, stack[Len(stack)])
  /\ UNCHANGED dsVars

-----------------------------------------------------------------------------
(* The sorted list.                                                        *)

\* Whether append finds room behind the slice, and the array it makes if not.
Room == list # Absent /\ list.len < Len(heap[list.arr])

\* Mutant of Grown: the new array is as long as the old one.
Grown_Same(v) ==
  LET s == IF list = Absent THEN <<>> ELSE Elems(list)
  IN [i \in 1..(IF s = <<>> THEN 1 ELSE Len(s)) |-> IF i <= Len(s) THEN s[i] ELSE v]

Grown(v) ==
  LET s == IF list = Absent THEN <<>> ELSE Elems(list)
  IN [i \in 1..(IF s = <<>> THEN 1 ELSE 2 * Len(s)) |->
        IF i <= Len(s) THEN s[i] ELSE IF i = Len(s) + 1 THEN v ELSE 0]

SortedListAdd(c) ==
  /\ Enter(c, "SortedListAdd")
  /\ \/ /\ Room
        /\ heap' = [heap EXCEPT ![list.arr][list.len + 1] = req[c].val]
        /\ list' = [list EXCEPT !.len = @ + 1]
        /\ disturbed' = disturbed \cup
             {d \in Calls : stage[d] = "encode" /\ slice[d].arr = list.arr}
     \/ /\ ~Room /\ heap' = Append(heap, Grown(req[c].val))
        /\ list' = [arr |-> Len(heap) + 1,
                    len |-> (IF list = Absent THEN 0 ELSE list.len) + 1]
        /\ UNCHANGED disturbed
  /\ sorter' = [call |-> c, pos |-> list'.len]
  /\ held' = [held EXCEPT ![req[c].val] = @ + 1]
  /\ stage' = [stage EXCEPT ![c] = "sort"]
  /\ UNCHANGED <<up, req, result, told, set, map, queue, stack, slice, asked>>

\* Mutant of OutOfPlace: the new element never gets to the front.
OutOfPlace_Short ==
  sorter.pos > 2 /\ heap[list.arr][sorter.pos] < heap[list.arr][sorter.pos - 1]

\* What sort.Strings has still to do: the list was sorted before the append,
\* so that its insertion sort only takes the new element down.
OutOfPlace ==
  sorter.pos > 1 /\ heap[list.arr][sorter.pos] < heap[list.arr][sorter.pos - 1]

SortSwap(c) ==
  /\ sorter.call = c /\ OutOfPlace
  /\ heap' = [heap EXCEPT
       ![list.arr][sorter.pos] = heap[list.arr][sorter.pos - 1],
       ![list.arr][sorter.pos - 1] = heap[list.arr][sorter.pos]]
  /\ sorter' = [sorter EXCEPT !.pos = @ - 1]
  /\ UNCHANGED <<rpcVars, set, map, queue, stack, list, held, getVars>>

\* Mutant of Unlock: ds.mu is not released.
Unlock_Not == sorter' = [sorter EXCEPT !.pos = 0]

Unlock == sorter' = NotSorting

SortDone(c) ==
  /\ stage[c] = "sort" /\ sorter.call = c /\ ~OutOfPlace
  /\ Unlock /\ Handled(c, "ok", <<>>)
  /\ UNCHANGED <<set, map, queue, stack, heap, list, held, getVars>>

SortedListGet(c) ==
  /\ Enter(c, "SortedListGet")
  /\ \/ /\ list = Absent /\ Handled(c, "error", <<>>)
        /\ UNCHANGED getVars
     \/ /\ list # Absent
        /\ stage' = [stage EXCEPT ![c] = "encode"]
        /\ slice' = [slice EXCEPT ![c] = list]
        /\ asked' = [asked EXCEPT ![c] = Elems(list)]
        /\ UNCHANGED <<up, req, result, told, disturbed>>
  /\ UNCHANGED <<set, map, queue, stack, listVars>>

\* Mutant of Returned: the handler looks the list up again.
Returned_Again(c) == list

Returned(c) == slice[c]

\* The sorter is writing the i-th string of slice s.
BeingSwapped(s, i) ==
  Locked /\ OutOfPlace /\ s.arr = list.arr /\ i \in {sorter.pos, sorter.pos - 1}

\* One string is encoded, without a lock.  While it is written, a string may
\* be read as the old one, the new one, or a mixture of the two.
EncodeElem(c) ==
  LET vals == result[c].vals
      i == Len(vals) + 1
      s == Returned(c)
  IN /\ stage[c] = "encode"
     /\ \E v \in {heap[s.arr][i]}
                 \cup (IF BeingSwapped(s, i) THEN {Torn} ELSE {}) :
          \/ /\ i < s.len
             /\ result' = [result EXCEPT ![c].vals = Append(@, v)]
             /\ UNCHANGED <<up, req, stage, told>>
          \/ i >= s.len /\ Handled(c, "ok", Append(vals, v))
     /\ UNCHANGED dsVars

-----------------------------------------------------------------------------
AtOnce(c) ==
  \/ SetAdd(c) \/ SetRemove(c) \/ SetList(c) \/ MapPut(c) \/ MapGet(c)
  \/ QueuePush(c) \/ QueuePop(c) \/ QueuePeek(c)
  \/ StackPush(c) \/ StackPop(c) \/ StackPeek(c)

InSteps(c) ==
  SortedListAdd(c) \/ SortSwap(c) \/ SortDone(c) \/ SortedListGet(c) \/ EncodeElem(c)

Carried(c) == (Call(c) \/ Lose(c) \/ Reply(c)) /\ UNCHANGED dsVars

DSNext ==
  \/ \E c \in Calls : AtOnce(c) \/ InSteps(c) \/ Carried(c)
  \/ \E n \in Clients : Drop(n) /\ UNCHANGED dsVars

DSSpec == DSInit /\ [][DSNext]_structVars

-----------------------------------------------------------------------------
(* Properties.                                                             *)

DSTypeOK ==
  /\ up \in SUBSET Clients /\ req \in [Calls -> Request \cup {NoCall}]
  /\ stage \in [Calls -> Stages]
  /\ \A c \in Calls : /\ result[c].outcome \in Outcomes
                      /\ asked[c] \in Seq(Elements)
  /\ told \in [Calls -> {"none", "waiting", "ok", "error", "broken"}]
  /\ set = Absent \/ set \in SUBSET Elements
  /\ DOMAIN map \subseteq Names /\ \A n \in DOMAIN map : map[n] \in Elements
  /\ queue \in Seq(Elements) /\ stack \in Seq(Elements)
  /\ \A a \in 1..Len(heap) : heap[a] \in Seq(Elements \cup {0})
  /\ list = Absent \/ /\ list.arr \in 1..Len(heap)
                      /\ list.len \in 1..Len(heap[list.arr])
  /\ sorter.call \in Calls \cup {NoCall} /\ sorter.pos \in Nat
  /\ held \in [Elements -> Nat] /\ disturbed \in SUBSET Calls

\* Whenever nobody sorts it, the sorted list is sorted and holds what was
\* added to it, no more and no less.
ListSorted ==
  ~Locked /\ list # Absent =>
    /\ \A e \in Elements : Times(Elems(list), e) = held[e]
    /\ \A i \in 2..list.len : Elems(list)[i - 1] <= Elems(list)[i]

\* SortedListGet answers with the list as it was when it had the lock, unless
\* an add has meanwhile found room in the same array and sorted it; even then
\* the answer is as long as the list was.
ListExact ==
  \A c \in Calls :
    req[c] # NoCall /\ req[c].op = "SortedListGet" /\ result[c].outcome = "ok" =>
      /\ Len(result[c].vals) = Len(asked[c])
      /\ c \in disturbed \/ result[c].vals = asked[c]

\* Where the element that call c has pushed is: in s, or handed to a pop.
Places(c, s, pop) ==
  Times(s, req[c].val)
    + Cardinality({d \in Calls : /\ req[d] # NoCall /\ req[d].op = pop
                                 /\ result[d].vals = <<req[c].val>>})

Accounted(push, pop, s) ==
  \A c \in Calls :
    req[c] # NoCall /\ req[c].op = push =>
      Places(c, s, pop) = IF result[c].outcome = "ok" THEN 1 ELSE 0

\* An element whose push was done, heard of or not, is in the structure or has
\* gone to one pop, never to two; one that a connection took away is nowhere.
ElementsAccounted ==
  /\ Accounted("QueuePush", "QueuePop", queue)
  /\ Accounted("StackPush", "StackPop", stack)

=============================================================================
