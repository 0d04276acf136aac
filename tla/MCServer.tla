---- MODULE MCServer ----
(* A small instance of Server for model checking. *)
EXTENDS Server, TLC

CONSTANTS k1, k2, k3, v1, v2, w1, w2, c1, c2, c3, c4, c5, n1, n2, r1

Plain(a, k, v) == [action |-> a, key |-> k, val |-> v, ttl |-> FALSE]

\* Three shards: two keys in the first, none in the last.
ThreeShards == k1 :> 1 @@ k2 :> 1 @@ k3 :> 2

Of(v, e) == [val |-> v, exp |-> e]

Empty == [k \in Keys |-> NoEntry]
Full == k1 :> Of(v1, "ahead") @@ k2 :> Of(v1, "none") @@ k3 :> Of(v2, "none")
Expired == k1 :> Of(v1, "none") @@ k2 :> NoEntry @@ k3 :> Of(v1, "past")
Replayed == {Empty, Full, Expired}

\* A put with a ttl, and transactions that repeat a key, fail half way and
\* touch two shards.
WithTTL == << [Plain("put", k1, v2) EXCEPT !.ttl = TRUE] >>
FailsMidway == << Plain("put", k3, v2), Plain("bad", k3, v2), Plain("update", k2, v2) >>
Replaces == << Plain("delete", k1, v1), Plain("put", k1, v1), Plain("update", k3, v1) >>
Renew == << Plain("update", k1, v2) >>
Drops == << Plain("delete", k1, v1) >>
Sent == {WithTTL, FailsMidway, Replaces, Renew, Drops}

\* Two connections.
Through == w1 :> n1 @@ w2 :> n1 @@ c1 :> n1 @@ c2 :> n2 @@ c3 :> n1 @@ c4 :> n2 @@ c5 :> n2

None == [op |-> "None"]
Ask(op) == [op |-> op]
With(op, v) == [op |-> op, val |-> v]
Store(op, q) == [op |-> op, ops |-> q]
Entry1(op, n, v) == [op |-> op, val |-> v, name |-> n]

Idle == [c \in Calls |-> NoCall]
ToList == [kind |-> "list", keys |-> Keys]
ToQuery == [kind |-> "list", keys |-> {k1, k3}]
ToScan == [kind |-> "scan", keys |-> Keys]

Script(m, h, rs, cs) == [mem |-> m, heap |-> h, reads |-> rs, calls |-> cs @@ Idle]

\* Two callers of the store on one connection, with a reader.
StoreScript(m, rs, q, p) ==
  Script(m, <<>>, rs, w1 :> Store("ExecuteTransaction", q) @@ w2 :> p)

StoreScripts == {
  StoreScript(Expired, {ToScan}, FailsMidway, Store("Put", WithTTL)),
  StoreScript(Expired, {ToList, ToQuery}, Replaces, Store("Update", Renew)),
  StoreScript(Full, {ToList, ToScan}, FailsMidway, Store("Delete", Drops)) }

\* Adds and gets of a sorted list that is missing or full, and of one that has
\* room in its array.
Add(v) == With("SortedListAdd", v)
Get == Ask("SortedListGet")

ListScripts ==
  { Script(Empty, h, {}, c1 :> Add(1) @@ c2 :> Add(3) @@ c3 :> Get @@ c4 :> Get) :
      h \in {<<>>, << <<2>> >>} }
  \cup { Script(Empty, << <<2, 4, 5, 0>> >>, {}, c1 :> Add(1) @@ c2 :> Add(3) @@ c3 :> Get),
         Script(Empty, << <<2, 3>> >>, {}, c1 :> Add(2) @@ c2 :> Add(2)) }

\* A queue, a stack, a set and a map.
OtherScripts == {
  Script(Empty, <<>>, {},
         c1 :> With("QueuePush", 1) @@ c2 :> With("QueuePush", 2) @@
         c3 :> Ask("QueuePop") @@ c4 :> Ask("QueuePop")),
  Script(Empty, <<>>, {},
         c1 :> With("StackPush", 1) @@ c2 :> With("StackPush", 2) @@
         c3 :> Ask("StackPop") @@ c4 :> Ask("StackPeek")),
  Script(Empty, <<>>, {},
         c1 :> With("SetAdd", 1) @@ c2 :> With("SetRemove", 1) @@ c3 :> Ask("SetList") @@
         c4 :> Entry1("MapPut", k1, 2) @@ c5 :> Entry1("MapGet", k1, 2)),
  Script(Full, <<>>, {},
         w1 :> Store("ExecuteTransaction", FailsMidway) @@ c1 :> With("QueuePush", 1) @@
         c3 :> Ask("QueuePop") @@ c4 :> Ask("QueuePeek")) }

AllScripts == StoreScripts \cup ListScripts \cup OtherScripts
Asked == UNION {{s.calls[c] : c \in Calls} : s \in AllScripts} \ {NoCall}
Arrays == UNION {{s.heap[i] : i \in 1..Len(s.heap)} : s \in AllScripts}
====
