----------------------------- MODULE KVService -----------------------------
(***************************************************************************)
(* The requests of kv_service.go and transaction.go that take more than    *)
(* one critical section of the storage engine: transactions, List, the    *)
(* queries over what it returns and the scan with a cursor, as they        *)
(* interleave on one bucket.                                               *)
(*                                                                         *)
(* A single request is a transaction of one operation.  One step is one    *)
(* critical section of a shard; the log is here only as an Append that may *)
(* fail.  Expiry is abstracted to whether it lies ahead.                   *)
(***************************************************************************)
EXTENDS Naturals, Sequences, FiniteSets

CONSTANTS
  Keys, Values, NoVal,
  NShards, ShardOf,   \* ShardCount, getShardIndex
  Loaded,             \* what LoadFromFile may have put into memory
  Writers,            \* goroutines that serve transactions
  Requests,           \* the transactions callers send
  Readers,            \* clients that list the bucket, query it, or scan it
  Counts,             \* the counts they ask for
  Selections,         \* the keys a prefix or a range selects
  MaxFaults           \* bound for model checking

Entry == [val: Values \cup {NoVal}, exp: {"none", "ahead", "past"}]
NoEntry == [val |-> NoVal, exp |-> "none"]

Op == [action: {"put", "update", "delete", "bad"}, key: Keys, val: Values,
       ttl: BOOLEAN]

\* A transaction has no ttls: only a put of its own, PutWithTTL, can have one.
ASSUME RequestAssumption ==
  /\ Requests \subseteq Seq(Op)
  /\ \A q \in Requests : \A i \in 1..Len(q) :
       q[i].ttl => Len(q) = 1 /\ q[i].action = "put"
ASSUME ShardAssumption ==
  /\ NShards \in Nat \ {0} /\ ShardOf \in [Keys -> 1..NShards]
  /\ NoVal \notin Values
\* A bucket is a map in memory.
ASSUME KeyAssumption == IsFiniteSet(Keys)
ASSUME LoadedAssumption == Loaded \subseteq [Keys -> Entry]
ASSUME CountAssumption == Counts \subseteq Nat \ {0}
ASSUME SelectionAssumption == Selections \subseteq SUBSET Keys

VARIABLES
  mem,        \* mem[k]: the entry of k; exp: none, "ahead" or "past"
  pc,         \* pc[w]: where writer w is
  ops, pos,   \* ops[w]: its operations; pos[w]: the one it is at
  errs,       \* errs[w]: what it will answer, operation by operation
  rpc,        \* rpc[r]: where reader r is
  shard,      \* shard[r]: the next shard; between pages, the cursor
  want, page, \* the count of the page, and the keys it has so far
  pick,       \* pick[r]: the keys reader r selects
  got, total, \* what reader r was answered, and in how many entries
  faults,     \* how much of the bound is used up
  always,     \* history: keys readable ever since r began
  ever,       \* history: key and value pairs readable at some time since
  base,       \* history: the values of w's keys when it began
  unsure      \* history: keys of w that another has written, or for which a
              \*          put of w was answered although its Append had failed,
              \*          since w last wrote them and said so

memVars  == <<mem, always, ever, base, unsure>>
writeVars == <<pc, ops, pos, errs>>
readVars  == <<rpc, shard, want, page, pick, got, total>>
vars == <<memVars, writeVars, readVars, faults>>

\* Get, List and ScanShard find the entry.
Readable(e) == e.val # NoVal /\ e.exp # "past"

Pairs(m) == {<<k, m[k].val>> : k \in {j \in Keys : Readable(m[j])}}

Init ==
  /\ mem \in Loaded
  /\ pc = [w \in Writers |-> "idle"]
  /\ ops = [w \in Writers |-> <<>>] /\ pos = [w \in Writers |-> 1]
  /\ errs = [w \in Writers |-> <<>>]
  /\ rpc = [r \in Readers |-> "idle"] /\ shard = [r \in Readers |-> 1]
  /\ want = [r \in Readers |-> 0] /\ page = [r \in Readers |-> 0]
  /\ got = [r \in Readers |-> {}] /\ total = [r \in Readers |-> 0]
  /\ pick = [r \in Readers |-> Keys] /\ faults = 0
  /\ always = [r \in Readers |-> {}] /\ ever = [r \in Readers |-> {}]
  /\ base = [w \in Writers |-> <<>>] /\ unsure = [w \in Writers |-> {}]

-----------------------------------------------------------------------------
(* Memory.                                                                 *)

putInternal(e, v, ttl) ==
  [val |-> v, exp |-> IF ttl THEN "ahead" ELSE e.exp]

KeysOf(q) == {q[i].key : i \in 1..Len(q)}

\* The entry of k becomes e.  The writers other than who are disturbed; those
\* who say that they have written it know again what is there.
Write(k, e, who, sayers) ==
  /\ mem' = [mem EXCEPT ![k] = e]
  /\ always' = [r \in Readers |->
                  {j \in always[r] : j # k \/ Readable(e)}]
  /\ ever' = [r \in Readers |->
                IF rpc[r] = "idle" THEN {} ELSE ever[r] \cup Pairs(mem')]
  /\ unsure' = [w \in Writers |->
                  IF w \in sayers THEN unsure[w] \ {k}
                  ELSE IF w \in who THEN unsure[w]
                  ELSE unsure[w] \cup ({k} \cap KeysOf(ops[w]))]
  /\ UNCHANGED base

\* Time passes the expiry of k.
Expire(k) ==
  /\ mem[k].exp = "ahead"
  /\ Write(k, [mem[k] EXCEPT !.exp = "past"], Writers, {})
  /\ UNCHANGED <<writeVars, readVars, faults>>

-----------------------------------------------------------------------------
(* ExecuteTransaction.                                                     *)

Begin(w, q) ==
  /\ pc[w] = "idle"
  /\ pc' = [pc EXCEPT ![w] = "op"]
  /\ ops' = [ops EXCEPT ![w] = q] /\ pos' = [pos EXCEPT ![w] = 1]
  /\ errs' = [errs EXCEPT ![w] = <<>>]
  /\ base' = [base EXCEPT ![w] = [k \in KeysOf(q) |-> mem[k].val]]
  /\ unsure' = [unsure EXCEPT ![w] = {}]
  /\ UNCHANGED <<mem, always, ever, readVars, faults>>

\* The operation writer w is at, if it is a such-and-such.
At(w, action) ==
  pc[w] = "op" /\ pos[w] <= Len(ops[w]) /\ ops[w][pos[w]].action = action

Cur(w) == ops[w][pos[w]]

\* The operation is over, and answered.
Answer(w, err) ==
  /\ errs' = [errs EXCEPT ![w] = Append(@, err)]
  /\ pos' = [pos EXCEPT ![w] = @ + 1]
  /\ pc' = [pc EXCEPT ![w] = "op"]
  /\ UNCHANGED ops

AppendFails == faults < MaxFaults /\ faults' = faults + 1

\* Put of the service has no result: it is answered like a success even if
\* its Append has failed.
PutOp(w) ==
  /\ At(w, "put") /\ Answer(w, "nil")
  /\ \/ /\ Write(Cur(w).key,
                 putInternal(mem[Cur(w).key], Cur(w).val, Cur(w).ttl), {w}, {w})
        /\ UNCHANGED faults
     \/ /\ AppendFails /\ unsure' = [unsure EXCEPT ![w] = @ \cup {Cur(w).key}]
        /\ UNCHANGED <<mem, always, ever, base>>
  /\ UNCHANGED readVars

\* Mutant of DeleteOp: an Append that failed is not reported.
DeleteOp_Silent(w) ==
  /\ At(w, "delete")
  /\ \/ /\ Answer(w, IF mem[Cur(w).key].val # NoVal THEN "nil" ELSE "error")
        /\ Write(Cur(w).key, NoEntry, {w},
                 IF mem[Cur(w).key].val # NoVal THEN {w} ELSE {})
        /\ UNCHANGED faults
     \/ /\ AppendFails /\ Answer(w, "nil")
        /\ UNCHANGED memVars
  /\ UNCHANGED readVars

DeleteOp(w) ==
  /\ At(w, "delete")
  /\ \/ /\ Answer(w, IF mem[Cur(w).key].val # NoVal THEN "nil" ELSE "error")
        /\ Write(Cur(w).key, NoEntry, {w},
                 IF mem[Cur(w).key].val # NoVal THEN {w} ELSE {})
        /\ UNCHANGED faults
     \/ /\ AppendFails /\ Answer(w, "error")
        /\ UNCHANGED memVars
  /\ UNCHANGED readVars

\* Update's Get.
UpdateCheck(w) ==
  /\ At(w, "update")
  /\ \/ /\ ~Readable(mem[Cur(w).key]) /\ Answer(w, "error")
     \/ /\ Readable(mem[Cur(w).key]) /\ pc' = [pc EXCEPT ![w] = "write"]
        /\ UNCHANGED <<ops, pos, errs>>
  /\ UNCHANGED <<memVars, readVars, faults>>

\* Update's Put.
UpdateWrite(w) ==
  /\ pc[w] = "write"
  /\ \/ /\ Write(Cur(w).key, putInternal(mem[Cur(w).key], Cur(w).val, FALSE),
                 {w}, {w})
        /\ Answer(w, "nil")
        /\ UNCHANGED faults
     \/ /\ AppendFails /\ Answer(w, "error")
        /\ UNCHANGED memVars
  /\ UNCHANGED readVars

BadOp(w) ==
  /\ At(w, "bad") /\ Answer(w, "error")
  /\ UNCHANGED <<memVars, readVars, faults>>

Return(w) ==
  /\ pc[w] = "op" /\ pos[w] > Len(ops[w])
  /\ pc' = [pc EXCEPT ![w] = "idle"]
  /\ ops' = [ops EXCEPT ![w] = <<>>] /\ pos' = [pos EXCEPT ![w] = 1]
  /\ errs' = [errs EXCEPT ![w] = <<>>]
  /\ base' = [base EXCEPT ![w] = <<>>] /\ unsure' = [unsure EXCEPT ![w] = {}]
  /\ UNCHANGED <<mem, always, ever, readVars, faults>>

-----------------------------------------------------------------------------
(* List and ScanKeys.                                                      *)

\* Mutant of InShard: expired keys are returned.
InShard_Expired(i) ==
  {<<k, mem[k].val>> : k \in {j \in Keys : ShardOf[j] = i /\ mem[j].val # NoVal}}

\* What a reader finds in shard i under its lock.
InShard(i) == {p \in Pairs(mem) : ShardOf[p[1]] = i}

\* Mutant of MoreShards: one shard too many.
MoreShards_OffByOne(r) == shard[r] <= NShards + 1

MoreShards(r) == shard[r] <= NShards

\* A reader begins: a list, a query for the keys of S, or a scan from cursor 0.
Start(r, kind, n, S) ==
  /\ rpc[r] = "idle"
  /\ rpc' = [rpc EXCEPT ![r] = kind]
  /\ want' = [want EXCEPT ![r] = n] /\ pick' = [pick EXCEPT ![r] = S]
  /\ always' = [always EXCEPT ![r] = {k \in Keys : Readable(mem[k])}]
  /\ ever' = [ever EXCEPT ![r] = Pairs(mem)]
  /\ UNCHANGED <<mem, base, unsure, writeVars, shard, page, got, total,
                 faults>>

\* Mutant of ReadShard: an empty shard is read again.
ReadShard_Stays(r) ==
  /\ got' = [got EXCEPT ![r] = @ \cup InShard(shard[r])]
  /\ total' = [total EXCEPT ![r] = @ + Cardinality(InShard(shard[r]))]
  /\ page' = [page EXCEPT ![r] = @ + Cardinality(InShard(shard[r]))]
  /\ shard' = [shard EXCEPT ![r] = IF InShard(@) = {} THEN @ ELSE @ + 1]

ReadShard(r) ==
  /\ got' = [got EXCEPT ![r] = @ \cup InShard(shard[r])]
  /\ total' = [total EXCEPT ![r] = @ + Cardinality(InShard(shard[r]))]
  /\ page' = [page EXCEPT ![r] = @ + Cardinality(InShard(shard[r]))]
  /\ shard' = [shard EXCEPT ![r] = @ + 1]

List(r) ==
  /\ rpc[r] = "list" /\ MoreShards(r)
  /\ ReadShard(r)
  /\ UNCHANGED <<memVars, writeVars, rpc, want, pick, faults>>

\* ListKeysByPrefix, ListKeysInRange.
Selected(r) == {p \in got[r] : p[1] \in pick[r]}

\* The list is answered, or an error if nothing was found in any shard; a
\* query picks from what was found.
Listed(r) ==
  /\ rpc[r] = "list" /\ ~MoreShards(r)
  /\ rpc' = [rpc EXCEPT ![r] = IF got[r] = {} THEN "missing" ELSE "listed"]
  /\ got' = [got EXCEPT ![r] = Selected(r)]
  /\ total' = [total EXCEPT ![r] = IF pick[r] = Keys THEN @
                                  ELSE Cardinality(Selected(r))]
  /\ UNCHANGED <<memVars, writeVars, shard, want, page, pick, faults>>

PageOpen(r) == page[r] < want[r]

ScanShard(r) ==
  /\ rpc[r] = "scan" /\ MoreShards(r) /\ PageOpen(r)
  /\ ReadShard(r)
  /\ UNCHANGED <<memVars, writeVars, rpc, want, pick, faults>>

\* Mutant of NextCursor: the last shard of the page again.
NextCursor_Again(r) == IF shard[r] > 1 THEN shard[r] - 1 ELSE 1

\* Mutant of NextCursor: one shard is passed over.
NextCursor_Skips(r) == shard[r] + 1

NextCursor(r) == shard[r]

\* The page is answered, with cursor 0 if it is the last.
ScanAnswer(r) ==
  /\ rpc[r] = "scan" /\ (~MoreShards(r) \/ ~PageOpen(r))
  /\ \/ /\ ~MoreShards(r) /\ rpc' = [rpc EXCEPT ![r] = "scanned"]
        /\ UNCHANGED shard
     \/ /\ MoreShards(r) /\ rpc' = [rpc EXCEPT ![r] = "paged"]
        /\ shard' = [shard EXCEPT ![r] = NextCursor(r)]
  /\ UNCHANGED <<memVars, writeVars, want, page, pick, got, total, faults>>

\* The client asks for the next page, of any size.
ScanNext(r, n) ==
  /\ rpc[r] = "paged"
  /\ rpc' = [rpc EXCEPT ![r] = "scan"]
  /\ want' = [want EXCEPT ![r] = n] /\ page' = [page EXCEPT ![r] = 0]
  /\ UNCHANGED <<memVars, writeVars, shard, pick, got, total, faults>>

\* The client has its answer.
Finish(r) ==
  /\ rpc[r] \in {"listed", "missing", "scanned"}
  /\ rpc' = [rpc EXCEPT ![r] = "idle"] /\ shard' = [shard EXCEPT ![r] = 1]
  /\ want' = [want EXCEPT ![r] = 0] /\ page' = [page EXCEPT ![r] = 0]
  /\ pick' = [pick EXCEPT ![r] = Keys]
  /\ got' = [got EXCEPT ![r] = {}] /\ total' = [total EXCEPT ![r] = 0]
  /\ always' = [always EXCEPT ![r] = {}] /\ ever' = [ever EXCEPT ![r] = {}]
  /\ UNCHANGED <<mem, base, unsure, writeVars, faults>>

-----------------------------------------------------------------------------
Executing(w) ==
  PutOp(w) \/ DeleteOp(w) \/ UpdateCheck(w) \/ UpdateWrite(w) \/ BadOp(w)

Reading(r) == List(r) \/ Listed(r) \/ ScanShard(r) \/ ScanAnswer(r)

Next ==
  \/ \E w \in Writers : Executing(w) \/ Return(w) \/ \E q \in Requests : Begin(w, q)
  \/ \E r \in Readers :
       \/ Reading(r) \/ Finish(r) \/ Start(r, "list", 0, Keys)
       \/ \E S \in Selections : Start(r, "list", 0, S)
       \/ \E n \in Counts : Start(r, "scan", n, Keys) \/ ScanNext(r, n)
  \/ \E k \in Keys : Expire(k)

Spec == Init /\ [][Next]_vars

\* The goroutine of a request that can run is run, and the client of a scan
\* goes on asking for pages.
FairSpec ==
  /\ Spec
  /\ \A r \in Readers : /\ WF_vars(Reading(r))
                        /\ WF_vars(\E n \in Counts : ScanNext(r, n))

-----------------------------------------------------------------------------
(* Properties.                                                             *)

TypeOK ==
  /\ mem \in [Keys -> Entry]
  /\ pc \in [Writers -> {"idle", "op", "write"}]
  /\ \A w \in Writers : /\ ops[w] \in Seq(Op)
                        /\ pos[w] \in 1..Len(ops[w]) + 1
                        /\ errs[w] \in Seq({"nil", "error"})
                        /\ Len(errs[w]) = pos[w] - 1
  /\ rpc \in [Readers -> {"idle", "list", "listed", "missing", "scan", "paged", "scanned"}]
  /\ shard \in [Readers -> 1..NShards + 1]
  /\ want \in [Readers -> Counts \cup {0}] /\ page \in [Readers -> Nat]
  /\ pick \in [Readers -> SUBSET Keys]
  /\ got \in [Readers -> SUBSET (Keys \X Values)] /\ total \in [Readers -> Nat]
  /\ faults \in Nat /\ unsure \in [Writers -> SUBSET Keys]

Found(r) == {p[1] : p \in got[r]}

\* A list, a query and a scan followed from cursor 0 until cursor 0 comes back
\* find every key asked for that was readable all the time, whatever is
\* written meanwhile; a list is answered with an error only if there was none.
ReadsComplete ==
  \A r \in Readers :
    rpc[r] \in {"listed", "missing", "scanned"} =>
      always[r] \cap pick[r] \subseteq Found(r)

\* They find nothing that was not readable, with that value, at some time
\* since they began.
ReadsReal == \A r \in Readers : got[r] \subseteq ever[r]

\* No key is found twice, though it be deleted and put again between pages.
FoundOnce ==
  \A r \in Readers : total[r] = Cardinality(Found(r)) /\ total[r] = Cardinality(got[r])

\* The operations on k that writer w has answered with success.
Done(w, k) ==
  {i \in 1..Len(errs[w]) : ops[w][i].key = k /\ errs[w][i] = "nil"}
Last(I) == CHOOSE i \in I : \A j \in I : j <= i

Reported(w, k) ==
  IF Done(w, k) = {} THEN base[w][k]
  ELSE LET o == ops[w][Last(Done(w, k))]
       IN IF o.action = "delete" THEN NoVal ELSE o.val

\* The answers of a transaction tell what it has done: an operation answered with
\* an error has changed nothing, the others have happened in their order.  This
\* goes for every key but those that somebody else has written since the
\* transaction last wrote them with success, or for which a put was answered
\* like a success although its Append had failed; it goes for them again as soon
\* as the transaction writes them.
AnswersTrue ==
  \A w \in Writers : pc[w] # "idle" =>
    \A k \in KeysOf(ops[w]) \ unsure[w] : mem[k].val = Reported(w, k)

\* A list is answered, and a scan whose client goes on asking comes back to
\* cursor 0, however the bucket is written meanwhile.
ReadersReturn ==
  \A r \in Readers :
    rpc[r] \in {"list", "scan", "paged"}
      ~> rpc[r] \in {"listed", "missing", "scanned"}

=============================================================================
