-------------------------- MODULE FlashSaleProofs --------------------------
(***************************************************************************)
(* Proofs about FlashSale, for every value of its constants: any number of *)
(* requests and users, any stock, and any number of failures, restarts and *)
(* creations of the product.                                               *)
(***************************************************************************)
EXTENDS FlashSale, FiniteSetTheorems, TLAPS

-----------------------------------------------------------------------------
(* The inductive invariant.                                                *)

\* A request between its get and its put.
Holds(r) == pc[r] = "put"

\* The requests that have paid: their put was answered.
Sold == {r \in Requests : pc[r] \in {"add", "publish", "bought"}}

\* A request holds a reading only of a stock that is not sold out.
HoldsStock == \A r \in Requests : Holds(r) => count[r] > 0

\* Before the stock is set there is none to read, and nothing is sold.
NotYetSet ==
  creates = 0 =>
    inv = Absent /\ Sold = {} /\ \A r \in Requests : ~Holds(r)

TypeInv == TypeOK /\ HoldsStock /\ NotYetSet

\* A reading is not older than the purchases made since: putting it back less
\* one loses no unit.
ReadingsCover ==
  creates > 0 /\ ~stale =>
    \A r \in Requests : Holds(r) => count[r] + taken >= Stock

\* Without a race the one reading that is held is the stock itself.
ReadingExact ==
  creates > 0 /\ ~raced /\ ~stale =>
    \A r \in Requests : Holds(r) =>
      count[r] = inv /\ \A q \in Requests : Holds(q) => q = r

\* Without a race the stock is short of what was taken.
StockExact == creates > 0 /\ ~raced /\ ~stale => inv + taken = Stock

\* A sale that is confirmed has taken a unit, or its put was not made.
SalesCounted == sold <= taken + unmade

StockInv ==
  TypeInv /\ ReadingsCover /\ ReadingExact /\ NoUnitLost /\ StockExact
    /\ SalesCounted

\* Of a product created once, no more have paid than sales were confirmed.
SoldCounted ==
  creates <= 1 => IsFiniteSet(Sold) /\ Cardinality(Sold) <= sold

\* What had been bought when r arrived is bought.
BeforeBought ==
  \A r \in Requests : /\ pc[r] = "new" => before[r] = {}
                      /\ \A q \in before[r] : pc[q] = "bought"

\* Nobody is answered before it is on record.
OnRecord ==
  \A r \in Requests \ forgotten :
    pc[r] \in {"publish", "bought"} => UserOf[r] \in buyers

\* A request that has passed the fraud check is by a user who had bought
\* nothing when it arrived.
PassedCheck ==
  \A r \in Requests \ blind : \A q \in before[r] \ forgotten :
    pc[r] \in {"get", "put", "add", "publish", "bought"} => UserOf[q] # UserOf[r]

AnswerInv == TypeInv /\ BeforeBought /\ OnRecord /\ AnswerOnRecord /\ PassedCheck

\* The handler that creates a product has made what it is past.
CreatedInOrder ==
  /\ adm \in {"inv", "index", "publish"} => meta \/ "meta" \in skipped
  /\ adm \in {"index", "publish"} => inv # Absent \/ "inv" \in skipped

CatalogInv == TypeInv /\ CatalogComplete /\ CreatedInOrder

-----------------------------------------------------------------------------
(* Type correctness.                                                       *)

\* The service starts with no product.
LEMMA TypeInit == Init => TypeInv
<1> SUFFICES ASSUME Init PROVE TypeInv
  OBVIOUS
<1>1. waitlist \in Seq(Users) /\ buyers \subseteq Users
  BY DEF Init
<1>3. /\ pc \in [Requests -> {"new"}] /\ count \in [Requests -> {0}]
      /\ 0 \in 0..Stock
  BY SaleAssumption DEF Init
<1>4. meta \in BOOLEAN /\ listed \in BOOLEAN /\ raced \in BOOLEAN /\ stale \in BOOLEAN
  BY DEF Init
<1>5. TypeOK BY <1>1, <1>3, <1>4 DEF Init, TypeOK
<1>2. HoldsStock /\ NotYetSet
  BY DEF Init, HoldsStock, NotYetSet, Sold, Holds
<1> QED BY <1>2, <1>5 DEF TypeInv

\* Where the other requests are.
LEMMA GotoFacts ==
  ASSUME TypeOK, NEW r \in Requests,
         NEW where \in {"new", "list", "get", "queue", "put", "add", "publish"}
                         \cup Answers,
         Goto(r, where)
  PROVE  /\ pc'[r] = where /\ \A q \in Requests : q # r => pc'[q] = pc[q]
         /\ pc' \in [Requests -> {"new", "list", "get", "queue", "put", "add",
                                  "publish"} \cup Answers]
         /\ Sold' = IF where \in {"add", "publish", "bought"}
                    THEN Sold \cup {r} ELSE Sold \ {r}
BY DEF TypeOK, Goto, Sold

\* A handler of /api/buy keeps the types.
LEMMA TypeBuy ==
  ASSUME TypeInv, NEW r \in Requests, Arrive(r) \/ Buying(r)
  PROVE  TypeInv'
<1> USE DEF TypeInv, HoldsStock, NotYetSet, Holds, dbVars, nodeVars, boundVars,
            histVars, stockHist, Answered, AnsweredUnmade, Throws
<1>1. CASE Arrive(r)
  <2>1. Goto(r, "list") BY <1>1 DEF Arrive
  <2>2. before' \in [Requests -> SUBSET Requests]
    BY <1>1 DEF Arrive, TypeOK
  <2>3. TypeOK' BY <1>1, <2>1, <2>2, GotoFacts DEF Arrive, TypeOK
  <2> QED BY <1>1, <2>1, <2>3, GotoFacts DEF Arrive
<1>2. CASE ListBuyers(r)
  <2>1. PICK where \in {"duplicate", "get"} : Goto(r, where)
    BY <1>2 DEF ListBuyers
  <2>2. where \in {"new", "list", "get", "queue", "put", "add", "publish"}
                    \cup Answers
    BY DEF Answers
  <2>4. blind' \subseteq Requests BY <1>2 DEF ListBuyers, TypeOK
  <2>3. TypeOK' BY <1>2, <2>1, <2>2, <2>4, GotoFacts DEF ListBuyers, TypeOK
  <2> QED BY <1>2, <2>1, <2>2, <2>3, GotoFacts DEF ListBuyers
<1>3. CASE ReadInventory(r)
  <2>1. PICK n \in {0, StockRead} :
          /\ count' = [count EXCEPT ![r] = n]
          /\ Goto(r, IF SoldOut(n) THEN "queue" ELSE "put")
          /\ faults' = faults \/ faults' = faults + 1
          /\ raced' = \/ raced
                      \/ ~SoldOut(n) /\ \E q \in Requests : pc[q] = "put"
    BY <1>3 DEF ReadInventory
  <2>2. n \in 0..Stock /\ (SoldOut(n) <=> n = 0)
    BY SaleAssumption DEF StockRead, TypeOK, SoldOut
  <2>3. inv = Absent => SoldOut(n)
    BY <2>2 DEF StockRead
  <2> DEFINE where == IF SoldOut(n) THEN "queue" ELSE "put"
  <2>4. /\ pc'[r] = where /\ \A q \in Requests : q # r => pc'[q] = pc[q]
        /\ pc' \in [Requests -> {"new", "list", "get", "queue", "put", "add",
                                 "publish"} \cup Answers]
        /\ Sold' = Sold \ {r}
    BY <2>1, GotoFacts
  <2>8. raced' \in BOOLEAN BY <2>1
  <2>9. count' \in [Requests -> 0..Stock] /\ faults' \in Nat
    BY <2>1, <2>2 DEF TypeOK
  <2>10. UNCHANGED <<dbVars, adm, boundVars, taken, sold, unmade, stale, skipped,
                     before, blind, forgotten>>
    BY <1>3 DEF ReadInventory
  <2>5. TypeOK'
    BY <2>4, <2>8, <2>9, <2>10 DEF TypeOK
  <2>6. HoldsStock' BY <2>1, <2>2, <2>4 DEF TypeOK
  <2>7. NotYetSet' BY <1>3, <2>3, <2>4 DEF ReadInventory
  <2> QED BY <2>5, <2>6, <2>7
<1>4. CASE JoinWaitlist(r)
  <2>1. PICK where \in {"waitlisted", "error"} : Goto(r, where)
    BY <1>4 DEF JoinWaitlist
  <2>2. where \in {"new", "list", "get", "queue", "put", "add", "publish"}
                    \cup Answers
    BY DEF Answers
  <2>3. waitlist' \in Seq(Users)
    <3>1. Append(waitlist, UserOf[r]) \in Seq(Users)
      BY SaleAssumption DEF TypeOK
    <3> QED BY <1>4, <3>1 DEF JoinWaitlist, TypeOK
  <2>4. TypeOK'
    BY <1>4, <2>1, <2>2, <2>3, GotoFacts DEF JoinWaitlist, TypeOK
  <2> QED BY <1>4, <2>1, <2>2, <2>4, GotoFacts DEF JoinWaitlist
<1>5. CASE PutInventory(r)
  <2>1. PICK where \in {"add", "error"} : Goto(r, where)
    BY <1>5 DEF PutInventory
  <2>2. where \in {"new", "list", "get", "queue", "put", "add", "publish"}
                    \cup Answers
    BY DEF Answers
  <2>3. TakeOne(r) \/ UNCHANGED <<inv, taken>>
    BY <1>5 DEF PutInventory, PutConfirmed, PutThrows
  <2>8. sold' \in Nat /\ unmade' \in Nat /\ faults' \in Nat
    BY <1>5 DEF PutInventory, PutConfirmed, PutThrows, TypeOK
  <2>4. pc[r] = "put" /\ count[r] \in 1..Stock
    BY <1>5 DEF PutInventory, TypeOK
  <2>5. inv' \in 0..Stock \cup {Absent} /\ taken' \in Nat
    BY <2>3, <2>4, SaleAssumption DEF TakeOne, Remaining, TypeOK
  <2>6. TypeOK'
    BY <1>5, <2>1, <2>2, <2>5, <2>8, GotoFacts DEF PutInventory, TypeOK
  <2>7. creates' # 0 BY <1>5, <2>4 DEF PutInventory
  <2> QED BY <1>5, <2>1, <2>2, <2>6, <2>7, GotoFacts DEF PutInventory
<1>6. CASE AddBuyer(r)
  <2>1. PICK where \in {"publish", "error"} : Goto(r, where)
    BY <1>6 DEF AddBuyer
  <2>2. where \in {"new", "list", "get", "queue", "put", "add", "publish"}
                    \cup Answers
    BY DEF Answers
  <2>3. buyers' \subseteq Users
    BY <1>6, SaleAssumption DEF AddBuyer, TypeOK
  <2>4. TypeOK'
    BY <1>6, <2>1, <2>2, <2>3, GotoFacts DEF AddBuyer, TypeOK
  <2>5. creates' # 0 BY <1>6 DEF AddBuyer, Sold
  <2> QED BY <1>6, <2>1, <2>2, <2>4, <2>5, GotoFacts DEF AddBuyer
<1>7. CASE Publish(r)
  <2>1. PICK where \in {"bought", "error"} : Goto(r, where)
    BY <1>7 DEF Publish
  <2>2. where \in {"new", "list", "get", "queue", "put", "add", "publish"}
                    \cup Answers
    BY DEF Answers
  <2>3. TypeOK' BY <1>7, <2>1, <2>2, GotoFacts DEF Publish, TypeOK
  <2>4. creates' # 0 BY <1>7 DEF Publish, Sold
  <2> QED BY <1>7, <2>1, <2>2, <2>3, <2>4, GotoFacts DEF Publish
<1> QED BY <1>1, <1>2, <1>3, <1>4, <1>5, <1>6, <1>7 DEF Buying

\* So do the creation of the product and a restart of the database.
LEMMA TypeShop ==
  ASSUME TypeInv, Create \/ Creating \/ Restart
  PROVE  TypeInv'
<1> USE DEF TypeInv, TypeOK, HoldsStock, NotYetSet, Holds, Sold, dbVars, nodeVars,
            boundVars, histVars, stockHist, Answered, AnsweredUnmade, Throws,
            Proceeds, GivesUp, ProceedsWithout
<1>1. CASE Create BY <1>1 DEF Create
<1>2. CASE PutMeta
  <2>1. meta' \in BOOLEAN /\ skipped' \subseteq {"meta", "inv"}
    BY <1>2 DEF PutMeta
  <2>2. /\ adm' \in {"inv", "idle"} /\ faults' \in {faults, faults + 1}
        /\ UNCHANGED <<inv, listed, buyers, waitlist, pc, count, boundVars,
                       stockHist, before, blind, forgotten>>
    BY <1>2 DEF PutMeta
  <2> QED BY <2>1, <2>2
<1>3. CASE PutStock
  <2>1. SetStock \/ StockAsItWas
    BY <1>3 DEF PutStock
  <2>2. /\ inv' \in 0..Stock \cup {Absent} /\ creates' \in Nat
        /\ taken' \in Nat /\ sold' \in Nat /\ unmade' \in Nat
    <3>1. CASE SetStock BY <3>1, SaleAssumption DEF SetStock
    <3>2. CASE StockAsItWas BY <3>2 DEF StockAsItWas
    <3> QED BY <2>1, <3>1, <3>2
  <2>5. raced' \in BOOLEAN /\ stale' \in BOOLEAN
    BY <2>1 DEF SetStock, StockAsItWas
  <2>7. skipped' \subseteq {"meta", "inv"} BY <1>3 DEF PutStock
  <2>6. /\ adm' \in {"index", "idle"} /\ faults' \in {faults, faults + 1}
        /\ UNCHANGED <<meta, listed, buyers, waitlist, pc, count, restarts, before,
                       blind, forgotten>>
    BY <1>3 DEF PutStock
  <2>3. TypeOK' BY <2>2, <2>5, <2>6, <2>7
  <2>4. NotYetSet'
    <3>1. CASE SetStock BY <2>2, <3>1 DEF SetStock
    <3>2. CASE StockAsItWas BY <2>6, <3>2 DEF StockAsItWas
    <3> QED BY <2>1, <3>1, <3>2
  <2> QED BY <2>3, <2>4, <2>6
<1>4. CASE Register
  <2>1. listed' \in BOOLEAN BY <1>4 DEF Register
  <2>2. /\ adm' \in {"publish", "idle"} /\ faults' \in {faults, faults + 1}
        /\ UNCHANGED <<inv, meta, buyers, waitlist, pc, count, boundVars, histVars>>
    BY <1>4 DEF Register
  <2> QED BY <2>1, <2>2
<1>5. CASE Announce BY <1>5 DEF Announce
<1>6. CASE Restart
  <2>3. listed' \in BOOLEAN BY <1>6 DEF Restart
  <2>1. waitlist' \in Seq(Users) /\ buyers' \subseteq Users
    BY <1>6 DEF Restart
  <2>2. /\ restarts' = restarts + 1 /\ forgotten' \subseteq Requests
        /\ UNCHANGED <<inv, meta, nodeVars, faults, creates, stockHist, skipped,
                       before, blind>>
    BY <1>6 DEF Restart
  <2> QED BY <2>1, <2>2, <2>3
<1> QED BY <1>1, <1>2, <1>3, <1>4, <1>5, <1>6 DEF Creating

\* Every step keeps the types.
LEMMA TypeStep == TypeInv /\ [Next]_vars => TypeInv'
<1>1. CASE UNCHANGED vars
  BY <1>1 DEF TypeInv, TypeOK, HoldsStock, NotYetSet, Holds, Sold, vars, dbVars,
              nodeVars, boundVars, histVars, stockHist
<1> QED BY <1>1, TypeBuy, TypeShop DEF Next

\* Every reachable state is well typed: the stock in the database is never
\* below 0 nor above what it was set to, however purchases interleave and fail.
THEOREM TypeCorrect == Spec => []TypeOK
<1>1. TypeInv => TypeOK
  BY DEF TypeInv
<1> QED BY TypeInit, TypeStep, <1>1, PTL DEF Spec

-----------------------------------------------------------------------------
(* The stock.                                                              *)

\* The steps of a handler of /api/buy that neither read nor write the stock:
\* nobody comes to hold a reading.
LEMMA StockKept ==
  ASSUME StockInv, TypeInv',
         UNCHANGED <<inv, creates, stockHist, count>>,
         \A r \in Requests : Holds(r)' => Holds(r)
  PROVE  StockInv'
BY DEF StockInv, ReadingsCover, ReadingExact, NoUnitLost, StockExact, SalesCounted,
       Holds, stockHist

\* A handler reads the stock.
LEMMA StockRead1 ==
  ASSUME StockInv, TypeInv', NEW r \in Requests, ReadInventory(r)
  PROVE  StockInv'
<1>1. PICK n \in {0, StockRead} :
        /\ count' = [count EXCEPT ![r] = n]
        /\ Goto(r, IF SoldOut(n) THEN "queue" ELSE "put")
        /\ raced' = \/ raced
                    \/ ~SoldOut(n) /\ \E q \in Requests : pc[q] = "put"
  BY DEF ReadInventory
<1>2. UNCHANGED <<inv, creates, taken, sold, unmade, stale>>
  BY DEF ReadInventory, dbVars, boundVars
<1>3. /\ \A q \in Requests : q # r => count'[q] = count[q] /\ pc'[q] = pc[q]
      /\ count'[r] = n /\ pc'[r] = IF SoldOut(n) THEN "queue" ELSE "put"
  BY <1>1 DEF Goto, StockInv, TypeInv, TypeOK
<1>4. ~SoldOut(n) => inv # Absent /\ n = inv
  BY SaleAssumption DEF StockRead, SoldOut
<1>5. raced' = FALSE => raced = FALSE
  BY <1>1 DEF StockInv, TypeInv, TypeOK
<1>6. NoUnitLost' BY <1>2 DEF StockInv, NoUnitLost
<1>7. StockExact' /\ SalesCounted'
  BY <1>2, <1>5 DEF StockInv, StockExact, SalesCounted, TypeInv, TypeOK
<1>8. ReadingsCover'
  BY <1>2, <1>3, <1>4 DEF StockInv, ReadingsCover, Holds, NoUnitLost
<1>9. ReadingExact'
  <2> SUFFICES ASSUME creates > 0, ~raced', ~stale, NEW q \in Requests, Holds(q)'
               PROVE  /\ count'[q] = inv
                      /\ \A x \in Requests : Holds(x)' => x = q
    BY <1>2 DEF ReadingExact, Holds
  <2>1. ~raced BY <1>1
  <2>2. \A x \in Requests : Holds(x) =>
          count[x] = inv /\ \A y \in Requests : Holds(y) => y = x
    BY <2>1 DEF StockInv, ReadingExact
  <2>3. CASE SoldOut(n) BY <1>3, <2>2, <2>3 DEF Holds
  <2>4. CASE ~SoldOut(n)
    <3>1. \A x \in Requests : ~Holds(x) BY <1>1, <2>4 DEF Holds
    <3> QED BY <1>3, <1>4, <2>4, <3>1 DEF Holds
  <2> QED BY <2>3, <2>4
<1> QED BY <1>6, <1>7, <1>8, <1>9 DEF StockInv

\* A handler puts its reading back, less one.
LEMMA StockPut ==
  ASSUME StockInv, TypeInv', NEW r \in Requests, PutInventory(r)
  PROVE  StockInv'
<1>1. /\ pc[r] = "put" /\ UNCHANGED <<creates, raced, stale, count>>
      /\ TakeOne(r) \/ UNCHANGED <<inv, taken>>
  BY DEF PutInventory, PutConfirmed, PutThrows, boundVars
<1>5. SalesCounted'
  <2>1. taken \in Nat /\ sold \in Nat /\ unmade \in Nat
    BY DEF StockInv, TypeInv, TypeOK
  <2>2. \/ taken' = taken + 1 /\ unmade' = unmade /\ sold' = sold + 1
        \/ taken' = taken /\ unmade' = unmade + 1 /\ sold' = sold + 1
        \/ taken' \in {taken, taken + 1} /\ UNCHANGED <<sold, unmade>>
    BY DEF PutInventory, PutConfirmed, PutThrows, TakeOne
  <2> QED BY <2>1, <2>2 DEF StockInv, SalesCounted
<1>2. \A q \in Requests : Holds(q)' => q # r /\ Holds(q)
  BY DEF PutInventory, Goto, Holds, StockInv, TypeInv, TypeOK
<1>3. CASE UNCHANGED <<inv, taken>>
  BY <1>1, <1>2, <1>3, <1>5
  DEF StockInv, ReadingsCover, ReadingExact, NoUnitLost, StockExact, Holds
<1>4. CASE TakeOne(r)
  <2>1. /\ inv' = count[r] - 1 /\ taken' = taken + 1
        /\ taken \in Nat /\ \A q \in Requests : count[q] \in Nat
        /\ inv' # Absent /\ Stock \in Nat
    BY <1>4, SaleAssumption DEF TakeOne, Remaining, StockInv, TypeInv, TypeOK
  <2>2. ReadingsCover'
    BY <1>1, <1>2, <2>1 DEF StockInv, ReadingsCover, Holds
  <2>3. ReadingExact'
    BY <1>1, <1>2 DEF StockInv, ReadingExact, Holds
  <2>4. NoUnitLost'
    BY <1>1, <2>1 DEF StockInv, NoUnitLost, ReadingsCover, Holds
  <2>5. StockExact'
    BY <1>1, <2>1 DEF StockInv, StockExact, ReadingExact, Holds
  <2> QED BY <1>5, <2>2, <2>3, <2>4, <2>5 DEF StockInv
<1> QED BY <1>1, <1>3, <1>4

\* The stock is set, or set again.
LEMMA StockSet ==
  ASSUME StockInv, TypeInv', PutStock
  PROVE  StockInv'
<1>1. UNCHANGED <<pc, count>> /\ (SetStock \/ StockAsItWas)
  BY DEF PutStock
<1>2. CASE StockAsItWas
  BY <1>1, <1>2, StockKept DEF Holds, StockAsItWas
<1>3. CASE SetStock
  <2>1. /\ inv' = Stock /\ taken' = 0 /\ sold' = 0 /\ unmade' = 0 /\ raced' = FALSE
        /\ ~stale' => \A r \in Requests : ~Holds(r)
        /\ Stock \in Nat /\ inv' # Absent
    BY <1>3, SaleAssumption DEF SetStock, Holds
  <2>2. ReadingsCover' /\ ReadingExact'
    BY <1>1, <2>1 DEF ReadingsCover, ReadingExact, Holds
  <2>3. NoUnitLost' /\ StockExact' /\ SalesCounted'
    BY <2>1 DEF NoUnitLost, StockExact, SalesCounted
  <2> QED BY <2>2, <2>3 DEF StockInv
<1> QED BY <1>1, <1>2, <1>3

\* Every step keeps the account of the stock.
LEMMA StockStep == StockInv /\ [Next]_vars => StockInv'
<1> SUFFICES ASSUME StockInv, [Next]_vars PROVE StockInv'
  OBVIOUS
<1> USE DEF dbVars, nodeVars, boundVars, histVars, stockHist
<1>1. TypeInv' BY TypeStep DEF StockInv
<1>2. ASSUME NEW r \in Requests, Arrive(r) \/ Buying(r) PROVE StockInv'
  <2>1. CASE ReadInventory(r) BY <1>1, <2>1, StockRead1
  <2>2. CASE PutInventory(r) BY <1>1, <2>2, StockPut
  <2>3. CASE Arrive(r) \/ ListBuyers(r) \/ JoinWaitlist(r) \/ AddBuyer(r)
               \/ Publish(r)
    <3>1. UNCHANGED <<inv, creates, stockHist, count>>
      BY <2>3 DEF Arrive, ListBuyers, JoinWaitlist, AddBuyer, Publish
    <3>2. \E where \in {"list", "duplicate", "get", "waitlisted", "error",
                        "publish", "bought"} : Goto(r, where)
      BY <2>3 DEF Arrive, ListBuyers, JoinWaitlist, AddBuyer, Publish
    <3>3. \A q \in Requests : Holds(q)' => Holds(q)
      BY <3>2 DEF Goto, Holds, StockInv, TypeInv, TypeOK
    <3> QED BY <1>1, <3>1, <3>3, StockKept
  <2> QED BY <1>2, <2>1, <2>2, <2>3 DEF Buying
<1>3. CASE Create \/ PutMeta \/ Register \/ Announce \/ Restart \/ UNCHANGED vars
  <2>1. UNCHANGED <<inv, creates, stockHist, count, pc>>
    BY <1>3 DEF Create, PutMeta, Register, Announce, Restart, vars
  <2> QED BY <1>1, <2>1, StockKept DEF Holds
<1>4. CASE PutStock BY <1>1, <1>4, StockSet
<1> QED BY <1>2, <1>3, <1>4 DEF Next, Creating

\* No stock is set at the start.
LEMMA StockInit == Init => StockInv
<1> SUFFICES ASSUME Init PROVE StockInv
  OBVIOUS
<1>1. TypeInv BY TypeInit
<1>2. creates = 0 /\ ~(creates > 0) BY DEF Init
<1>3. SalesCounted BY DEF Init, SalesCounted
<1> QED
  BY <1>1, <1>2, <1>3
  DEF StockInv, ReadingsCover, ReadingExact, NoUnitLost, StockExact

\* No unit of the stock is lost, however buyers race and whatever fails, but
\* to a buyer that held a reading when the stock was set.
THEOREM LosesNoUnit == Spec => []NoUnitLost
<1>1. StockInv => NoUnitLost
  BY DEF StockInv
<1> QED BY StockInit, StockStep, <1>1, PTL DEF Spec

\* As long as no two buyers race between get and put and none holds a reading
\* while the stock is set, no more sales are confirmed than units have left the
\* stock and puts were confirmed without being made.
THEOREM SellsOnce == Spec => []SoldOnce
<1>1. StockInv => SoldOnce
  <2> SUFFICES ASSUME StockInv, creates > 0, ~raced, ~stale
               PROVE  inv + taken = Stock /\ inv + sold <= Stock + unmade
    BY DEF SoldOnce
  <2>1. inv + taken = Stock /\ inv # Absent /\ sold <= taken + unmade
    BY DEF StockInv, StockExact, NoUnitLost, SalesCounted
  <2>2. /\ inv \in Nat /\ taken \in Nat /\ sold \in Nat /\ unmade \in Nat
        /\ Stock \in Nat
    BY <2>1, SaleAssumption DEF StockInv, TypeInv, TypeOK
  <2> QED BY <2>1, <2>2
<1> QED BY StockInit, StockStep, <1>1, PTL DEF Spec

-----------------------------------------------------------------------------
(* Overselling.                                                            *)

\* Every step keeps the count of those who have paid.
LEMMA CountStep ==
  ASSUME TypeInv, SoldCounted, [Next]_vars
  PROVE  SoldCounted'
<1> USE DEF dbVars, nodeVars, boundVars, histVars, stockHist
<1>1. ASSUME Sold' \subseteq Sold, UNCHANGED <<creates, sold>>
      PROVE  SoldCounted'
  <2> SUFFICES ASSUME creates <= 1
               PROVE  IsFiniteSet(Sold') /\ Cardinality(Sold') <= sold
    BY <1>1 DEF SoldCounted
  <2>1. IsFiniteSet(Sold) /\ Cardinality(Sold) <= sold BY DEF SoldCounted
  <2>2. /\ IsFiniteSet(Sold') /\ Cardinality(Sold') <= Cardinality(Sold)
        /\ Cardinality(Sold) \in Nat /\ Cardinality(Sold') \in Nat
    BY <1>1, <2>1, FS_Subset, FS_CardinalityType
  <2>3. sold \in Nat BY DEF TypeInv, TypeOK
  <2> QED BY <2>1, <2>2, <2>3
<1>2. sold \in Nat BY DEF TypeInv, TypeOK
<1>3. ASSUME NEW r \in Requests, Arrive(r) \/ Buying(r) PROVE SoldCounted'
  <2>1. CASE PutInventory(r)
    <3>1. /\ UNCHANGED creates /\ pc[r] = "put"
          /\ \/ sold' = sold + 1 /\ Goto(r, "add")
             \/ sold' = sold /\ Goto(r, "error")
      BY <2>1 DEF PutInventory, PutConfirmed, PutThrows
    <3>2. CASE sold' = sold /\ Goto(r, "error")
      <4>1. Sold' = Sold \ {r}
        BY <3>2, GotoFacts DEF Answers, TypeInv
      <4> QED BY <1>1, <3>1, <3>2, <4>1
    <3>3. CASE sold' = sold + 1 /\ Goto(r, "add")
      <4>1. Sold' = Sold \cup {r} /\ r \notin Sold
        BY <3>1, <3>3, GotoFacts DEF TypeInv, Sold
      <4> SUFFICES ASSUME creates <= 1
                   PROVE  IsFiniteSet(Sold') /\ Cardinality(Sold') <= sold'
        BY <3>1 DEF SoldCounted
      <4>3. IsFiniteSet(Sold) /\ Cardinality(Sold) <= sold BY DEF SoldCounted
      <4>4. IsFiniteSet(Sold') /\ Cardinality(Sold') = Cardinality(Sold) + 1
        BY <4>1, <4>3, FS_AddElement
      <4>5. Cardinality(Sold) \in Nat BY <4>3, FS_CardinalityType
      <4> QED BY <1>2, <3>3, <4>3, <4>4, <4>5
    <3> QED BY <3>1, <3>2, <3>3
  <2>2. CASE Arrive(r) \/ ListBuyers(r) \/ ReadInventory(r) \/ JoinWaitlist(r)
    <3>1. UNCHANGED <<creates, sold>>
      BY <2>2 DEF Arrive, ListBuyers, ReadInventory, JoinWaitlist
    <3>2. \E where \in {"list", "duplicate", "get", "queue", "put", "waitlisted",
                        "error"} : Goto(r, where)
      BY <2>2 DEF Arrive, ListBuyers, ReadInventory, JoinWaitlist
    <3>3. Sold' \subseteq Sold
      BY <3>2 DEF Sold, Goto, TypeInv, TypeOK
    <3> QED BY <1>1, <1>2, <3>1, <3>3
  <2>3. CASE AddBuyer(r) \/ Publish(r)
    <3>1. UNCHANGED <<creates, sold>> /\ r \in Sold
      BY <2>3 DEF AddBuyer, Publish, Sold
    <3>2. \E where \in {"publish", "bought", "error"} : Goto(r, where)
      BY <2>3 DEF AddBuyer, Publish
    <3>3. Sold' \subseteq Sold
      BY <3>1, <3>2 DEF Sold, Goto, TypeInv, TypeOK
    <3> QED BY <1>1, <1>2, <3>1, <3>3
  <2> QED BY <1>3, <2>1, <2>2, <2>3 DEF Buying
<1>4. CASE PutStock
  <2>1. UNCHANGED pc /\ (SetStock \/ UNCHANGED <<creates, sold>>)
    BY <1>4 DEF PutStock, StockAsItWas
  <2>2. CASE UNCHANGED <<creates, sold>>
    BY <1>1, <1>2, <2>1, <2>2 DEF Sold
  <2>3. CASE SetStock
    <3>1. creates' = creates + 1 /\ sold' = 0 /\ creates \in Nat
      BY <2>3 DEF SetStock, TypeInv, TypeOK
    <3>2. creates' <= 1 => Sold' = {}
      BY <2>1, <3>1 DEF TypeInv, NotYetSet, Sold
    <3> QED BY <3>1, <3>2, FS_EmptySet DEF SoldCounted
  <2> QED BY <2>1, <2>2, <2>3
<1>5. CASE Create \/ PutMeta \/ Register \/ Announce \/ Restart \/ UNCHANGED vars
  <2>1. UNCHANGED <<creates, sold, pc>>
    BY <1>5 DEF Create, PutMeta, Register, Announce, Restart, vars
  <2> QED BY <1>1, <1>2, <2>1 DEF Sold
<1> QED BY <1>3, <1>4, <1>5 DEF Next, Creating

\* A product created once is never oversold as long as no two buyers race
\* between get and put, none holds a reading while the stock is set, and no put
\* of the stock is confirmed without being made: what the load test of the
\* repository claims ("Exactly 500 items sold") fails in these three ways only,
\* whatever requests fail and whenever the database restarts.
THEOREM OversoldThreeWays ==
  Spec => [](~raced /\ ~stale /\ unmade = 0 => NoOversell)
<1>1. Init => SoldCounted
  <2> SUFFICES ASSUME Init PROVE SoldCounted
    OBVIOUS
  <2>1. Sold = {} /\ sold = 0 BY DEF Init, Sold
  <2> QED BY <2>1, FS_EmptySet DEF SoldCounted
<1>2. StockInv /\ SoldCounted /\ [Next]_vars => StockInv' /\ SoldCounted'
  BY StockStep, CountStep DEF StockInv
<1>3. StockInv /\ SoldCounted => (~raced /\ ~stale /\ unmade = 0 => NoOversell)
  <2> SUFFICES ASSUME StockInv, SoldCounted, ~raced, ~stale, unmade = 0, creates <= 1
               PROVE  Cardinality({r \in Requests : pc[r] = "bought"}) <= Stock
    BY DEF NoOversell
  <2> DEFINE B == {r \in Requests : pc[r] = "bought"}
  <2>1. B \subseteq Sold BY DEF Sold
  <2>2. IsFiniteSet(Sold) /\ Cardinality(Sold) <= sold BY DEF SoldCounted
  <2>3. /\ Cardinality(B) <= Cardinality(Sold)
        /\ Cardinality(Sold) \in Nat /\ Cardinality(B) \in Nat
    BY <2>1, <2>2, FS_Subset, FS_CardinalityType
  <2>4. /\ taken \in Nat /\ sold \in Nat /\ Stock \in Nat /\ creates \in Nat
        /\ sold <= taken + unmade
    BY SaleAssumption DEF StockInv, TypeInv, TypeOK, SalesCounted
  <2>5. CASE creates = 0
    <3>1. Sold = {} BY <2>5 DEF StockInv, TypeInv, NotYetSet
    <3> QED BY <2>3, <2>4, <3>1, FS_EmptySet
  <2>6. CASE creates # 0
    <3>1. creates > 0 BY <2>4, <2>6
    <3>2. inv + taken = Stock /\ inv # Absent
      BY <3>1 DEF StockInv, StockExact, NoUnitLost
    <3>3. inv \in Nat BY <3>2 DEF StockInv, TypeInv, TypeOK
    <3> QED BY <2>2, <2>3, <2>4, <3>2, <3>3
  <2> QED BY <2>5, <2>6
<1> QED BY StockInit, <1>1, <1>2, <1>3, PTL DEF Spec

-----------------------------------------------------------------------------
(* The answers.                                                            *)

\* A user stays on the waitlist when another joins it.
LEMMA WaitlistAppend ==
  ASSUME NEW s \in Seq(Users), NEW u \in Users
  PROVE  /\ \A i \in 1..Len(s) : /\ i \in 1..Len(Append(s, u))
                                 /\ Append(s, u)[i] = s[i]
         /\ \E i \in 1..Len(Append(s, u)) : Append(s, u)[i] = u
<1>1. /\ Len(s) \in Nat /\ Len(Append(s, u)) = Len(s) + 1
      /\ \A i \in 1..Len(s) : Append(s, u)[i] = s[i]
      /\ Append(s, u)[Len(s) + 1] = u
  OBVIOUS
<1>2. Len(s) + 1 \in 1..Len(Append(s, u)) BY <1>1
<1> QED BY <1>1, <1>2

\* Steps that leave requests, buyers and waitlist alone.
LEMMA AnswersKept ==
  ASSUME AnswerInv, TypeInv',
         UNCHANGED <<pc, before, blind, forgotten, buyers, waitlist>>
  PROVE  AnswerInv'
BY DEF AnswerInv, BeforeBought, OnRecord, AnswerOnRecord, PassedCheck

\* A restart of the database: whoever it was on record for is forgotten.
LEMMA AnswersRestart ==
  ASSUME AnswerInv, TypeInv', Restart
  PROVE  AnswerInv'
<1>1. /\ UNCHANGED <<pc, before, blind>>
      /\ forgotten' = forgotten \cup
           {r \in Requests : pc[r] \in {"publish", "bought", "waitlisted"}}
  BY DEF Restart, nodeVars
<1>2. BeforeBought' BY <1>1 DEF AnswerInv, BeforeBought
<1>3. OnRecord' /\ AnswerOnRecord' BY <1>1 DEF OnRecord, AnswerOnRecord
<1>4. PassedCheck' BY <1>1 DEF AnswerInv, PassedCheck
<1> QED BY <1>2, <1>3, <1>4 DEF AnswerInv

\* A step of a handler of /api/buy, from where it was to where it goes.
LEMMA AnswersBuy ==
  ASSUME AnswerInv, NEW r \in Requests, Arrive(r) \/ Buying(r)
  PROVE  AnswerInv'
<1> USE DEF dbVars, nodeVars, boundVars, histVars, stockHist
<1>1. TypeInv' BY TypeBuy DEF AnswerInv
<1>2. /\ UNCHANGED forgotten
      /\ pc[r] # "bought" /\ \A q \in Requests : q # r => pc'[q] = pc[q]
      /\ buyers \subseteq buyers'
      /\ waitlist' \in {waitlist, Append(waitlist, UserOf[r])}
      /\ blind' \in {blind, blind \cup {r}}
  <2>1. /\ UNCHANGED forgotten /\ pc[r] # "bought"
        /\ pc' = [pc EXCEPT ![r] = pc'[r]]
        /\ buyers \subseteq buyers'
        /\ waitlist' \in {waitlist, Append(waitlist, UserOf[r])}
    BY DEF Buying, Arrive, ListBuyers, ReadInventory, JoinWaitlist, PutInventory,
           AddBuyer, Publish, Goto, AnswerInv, TypeInv, TypeOK
  <2>2. blind' \in {blind, blind \cup {r}}
    BY DEF Buying, Arrive, ListBuyers, ReadInventory, JoinWaitlist, PutInventory,
           AddBuyer, Publish
  <2> QED BY <2>1, <2>2 DEF AnswerInv, TypeInv, TypeOK
<1>3. BeforeBought'
  <2>1. CASE Arrive(r)
    <3>1. before' = [before EXCEPT ![r] = {q \in Requests : pc[q] = "bought"}]
          /\ pc'[r] = "list"
      BY <2>1 DEF Arrive, Goto, AnswerInv, TypeInv, TypeOK
    <3>2. \A q \in Requests : q # r => before'[q] = before[q]
      BY <3>1 DEF AnswerInv, TypeInv, TypeOK
    <3>3. before'[r] = {q \in Requests : pc[q] = "bought"}
      BY <3>1 DEF AnswerInv, TypeInv, TypeOK
    <3>4. \A q \in Requests : \A x \in before[q] : x \in Requests /\ x # r
      BY <1>2 DEF AnswerInv, BeforeBought, TypeInv, TypeOK
    <3> QED BY <1>2, <3>1, <3>2, <3>3, <3>4 DEF AnswerInv, BeforeBought
  <2>2. CASE Buying(r)
    <3>1. UNCHANGED before /\ pc'[r] # "new"
      BY <2>2 DEF Buying, ListBuyers, ReadInventory, JoinWaitlist, PutInventory,
                  AddBuyer, Publish, Goto, AnswerInv, TypeInv, TypeOK
    <3>2. \A q \in Requests : \A x \in before[q] : x \in Requests /\ x # r
      BY <1>2 DEF AnswerInv, BeforeBought, TypeInv, TypeOK
    <3> QED BY <1>2, <3>1, <3>2 DEF AnswerInv, BeforeBought
  <2> QED BY <2>1, <2>2
<1>4. OnRecord'
  <2> SUFFICES ASSUME NEW q \in Requests \ forgotten,
                      pc'[q] \in {"publish", "bought"}
               PROVE  UserOf[q] \in buyers'
    BY <1>2 DEF OnRecord
  <2>1. CASE pc[q] \in {"publish", "bought"}
    BY <1>2, <2>1 DEF AnswerInv, OnRecord
  <2>2. CASE pc[q] \notin {"publish", "bought"}
    <3>1. q = r BY <1>2, <2>2
    <3>2. AddBuyer(r) /\ pc'[r] = "publish"
      BY <2>2, <3>1 DEF Arrive, Buying, ListBuyers, ReadInventory, JoinWaitlist,
                   PutInventory, AddBuyer, Publish, Goto, AnswerInv, TypeInv, TypeOK
    <3>3. Goto(r, "publish") \/ Goto(r, "error") BY <3>2 DEF AddBuyer
    <3>4. buyers' = buyers \cup {UserOf[r]}
      BY <3>2, <3>3 DEF AddBuyer, Goto, AnswerInv, TypeInv, TypeOK
    <3> QED BY <3>1, <3>4
  <2> QED BY <2>1, <2>2
<1>5. AnswerOnRecord'
  <2> SUFFICES ASSUME NEW q \in Requests \ forgotten
               PROVE  /\ pc'[q] = "bought" => UserOf[q] \in buyers'
                      /\ pc'[q] = "waitlisted" =>
                           \E i \in 1..Len(waitlist') : waitlist'[i] = UserOf[q]
    BY <1>2 DEF AnswerOnRecord
  <2>1. pc'[q] = "bought" => UserOf[q] \in buyers'
    BY <1>2, <1>4 DEF OnRecord
  <2>2. ASSUME pc'[q] = "waitlisted"
        PROVE  \E i \in 1..Len(waitlist') : waitlist'[i] = UserOf[q]
    <3>1. waitlist \in Seq(Users) /\ UserOf[r] \in Users
      BY SaleAssumption DEF AnswerInv, TypeInv, TypeOK
    <3>2. CASE pc[q] = "waitlisted"
      <4>1. PICK i \in 1..Len(waitlist) : waitlist[i] = UserOf[q]
        BY <3>2 DEF AnswerInv, AnswerOnRecord
      <4>2. CASE waitlist' = waitlist BY <4>1, <4>2
      <4>3. CASE waitlist' = Append(waitlist, UserOf[r])
        <5>1. i \in 1..Len(waitlist') /\ waitlist'[i] = waitlist[i]
          BY <3>1, <4>1, <4>3, WaitlistAppend
        <5> QED BY <4>1, <5>1
      <4> QED BY <1>2, <4>2, <4>3
    <3>3. CASE pc[q] # "waitlisted"
      <4>1. q = r BY <1>2, <2>2, <3>3
      <4>2. JoinWaitlist(r) /\ pc'[r] = "waitlisted"
        BY <2>2, <3>3, <4>1
        DEF Arrive, Buying, ListBuyers, ReadInventory, JoinWaitlist,
            PutInventory, AddBuyer, Publish, Goto, AnswerInv, TypeInv, TypeOK
      <4>3. waitlist' = Append(waitlist, UserOf[r])
        BY <4>2 DEF JoinWaitlist, Goto, AnswerInv, TypeInv, TypeOK
      <4> QED BY <3>1, <4>1, <4>3, WaitlistAppend
    <3> QED BY <3>2, <3>3
  <2> QED BY <2>1, <2>2
<1>6. PassedCheck'
  <2> SUFFICES ASSUME NEW q \in Requests \ blind', NEW x \in before'[q] \ forgotten,
                      pc'[q] \in {"get", "put", "add", "publish", "bought"}
               PROVE  UserOf[x] # UserOf[q]
    BY <1>2 DEF PassedCheck
  <2>1. q \notin blind BY <1>2
  <2>2. q # r => before'[q] = before[q]
    BY DEF Arrive, Buying, ListBuyers, ReadInventory, JoinWaitlist, PutInventory,
           AddBuyer, Publish, AnswerInv, TypeInv, TypeOK
  <2>3. CASE q # r BY <1>2, <2>1, <2>2, <2>3 DEF AnswerInv, PassedCheck
  <2>4. CASE q = r
    <3>1. pc'[r] # "list" BY <2>4
    <3>2. Buying(r) /\ before' = before
      BY <3>1 DEF Arrive, Buying, ListBuyers, ReadInventory, JoinWaitlist,
             PutInventory, AddBuyer, Publish, Goto, AnswerInv, TypeInv, TypeOK
    <3>3. CASE ListBuyers(r)
      <4>1. blind' # blind \cup {r} BY <2>4
      <4>4. Goto(r, IF UserOf[r] \in buyers THEN "duplicate" ELSE "get")
        BY <3>3, <4>1 DEF ListBuyers
      <4>5. UserOf[r] \notin buyers
        BY <2>4, <4>4 DEF Goto, AnswerInv, TypeInv, TypeOK
      <4>2. x \in Requests /\ pc[x] = "bought"
        BY <2>4, <3>2 DEF AnswerInv, BeforeBought, TypeInv, TypeOK
      <4>3. UserOf[x] \in buyers
        BY <4>2 DEF AnswerInv, OnRecord
      <4> QED BY <2>4, <4>5, <4>3
    <3>4. CASE ~ListBuyers(r)
      <4>1. pc[r] \in {"get", "put", "add", "publish", "bought"}
        BY <2>4, <3>2, <3>4
        DEF Buying, ReadInventory, JoinWaitlist, PutInventory, AddBuyer, Publish,
            Goto, AnswerInv, TypeInv, TypeOK
      <4> QED BY <2>1, <2>4, <3>2, <4>1 DEF AnswerInv, PassedCheck
    <3> QED BY <3>3, <3>4
  <2> QED BY <2>3, <2>4
<1> QED BY <1>1, <1>3, <1>4, <1>5, <1>6 DEF AnswerInv

\* Every step keeps what answers rely on.
LEMMA AnswersStep == AnswerInv /\ [Next]_vars => AnswerInv'
<1> SUFFICES ASSUME AnswerInv, [Next]_vars PROVE AnswerInv'
  OBVIOUS
<1> USE DEF dbVars, nodeVars, boundVars, histVars, stockHist
<1>1. TypeInv' BY TypeStep DEF AnswerInv
<1>2. CASE Create \/ Creating \/ UNCHANGED vars
  <2>1. UNCHANGED <<pc, before, blind, forgotten, buyers, waitlist>>
    BY <1>2 DEF Create, Creating, PutMeta, PutStock, Register, Announce, vars
  <2> QED BY <1>1, <2>1, AnswersKept
<1>3. CASE Restart BY <1>1, <1>3, AnswersRestart
<1> QED BY <1>2, <1>3, AnswersBuy DEF Next

\* Nobody has bought anything at the start.
LEMMA AnswersInit == Init => AnswerInv
<1> SUFFICES ASSUME Init PROVE AnswerInv
  OBVIOUS
<1>1. TypeInv BY TypeInit
<1>2. \A r \in Requests : pc[r] = "new" /\ before[r] = {}
  BY DEF Init
<1> QED
  BY <1>1, <1>2
  DEF AnswerInv, BeforeBought, OnRecord, AnswerOnRecord, PassedCheck

\* What a user was told of a purchase, or of the waitlist, is on record until a
\* restart of the database wipes it.
THEOREM AnswersOnRecord == Spec => []AnswerOnRecord
<1>1. AnswerInv => AnswerOnRecord
  BY DEF AnswerInv
<1> QED BY AnswersInit, AnswersStep, <1>1, PTL DEF Spec

\* No user who was told of a purchase gets a second one by a request that arrives
\* later, unless the list of buyers could not be had for that very request or a
\* restart has wiped that very purchase.  Of requests under way at the same time
\* it says nothing: there NoDuplicate fails.
THEOREM BuysOnce == Spec => []NoSecondPurchase
<1>1. AnswerInv => NoSecondPurchase
  BY DEF AnswerInv, PassedCheck, NoSecondPurchase
<1> QED BY AnswersInit, AnswersStep, <1>1, PTL DEF Spec

-----------------------------------------------------------------------------
(* The catalog.                                                            *)

\* Every step keeps the catalog complete.
LEMMA CatalogStep == CatalogInv /\ [Next]_vars => CatalogInv'
<1> SUFFICES ASSUME CatalogInv, [Next]_vars PROVE CatalogInv'
  OBVIOUS
<1> USE DEF dbVars, nodeVars, boundVars, histVars, stockHist
<1>1. TypeInv' BY TypeStep DEF CatalogInv
<1>2. ASSUME NEW r \in Requests, Arrive(r) \/ Buying(r) PROVE CatalogInv'
  <2>1. UNCHANGED <<meta, listed, adm, skipped>>
    BY <1>2 DEF Arrive, Buying, ListBuyers, ReadInventory, JoinWaitlist,
                PutInventory, AddBuyer, Publish
  <2>2. inv' = inv \/ inv' = count[r] - 1
    BY <1>2 DEF Arrive, Buying, ListBuyers, ReadInventory, JoinWaitlist,
                PutInventory, PutConfirmed, PutThrows, AddBuyer, Publish, TakeOne,
                Remaining
  <2>3. count[r] - 1 \in Int
    BY DEF CatalogInv, TypeInv, TypeOK
  <2>4. inv # Absent => inv' # Absent BY <2>2, <2>3, SaleAssumption
  <2> QED BY <1>1, <2>1, <2>4 DEF CatalogInv, CatalogComplete, CreatedInOrder
<1>3. CASE PutStock
  <2>1. /\ UNCHANGED <<meta, listed>> /\ adm = "inv"
        /\ \/ inv' = Stock /\ adm' \in {"index", "idle"} /\ skipped' = skipped
           \/ inv' = inv /\ adm' = "idle" /\ skipped' = skipped
           \/ inv' = inv /\ adm' = "index" /\ skipped' = skipped \cup {"inv"}
    BY <1>3 DEF PutStock, SetStock, StockAsItWas, Proceeds, GivesUp, ProceedsWithout
  <2>2. Stock # Absent BY SaleAssumption
  <2> QED BY <1>1, <2>1, <2>2 DEF CatalogInv, CatalogComplete, CreatedInOrder
<1>4. CASE PutMeta
  <2>1. inv' = inv /\ listed' = listed
    BY <1>4 DEF PutMeta
  <2>2. \/ meta' = TRUE /\ skipped' = skipped
        \/ meta' = meta /\ adm' = "idle" /\ skipped' = skipped
        \/ meta' = meta /\ skipped' = skipped \cup {"meta"}
    BY <1>4, Zenon DEF PutMeta, Proceeds, GivesUp, ProceedsWithout
  <2>3. adm' = "inv" \/ adm' = "idle"
    BY <1>4 DEF PutMeta, Proceeds, GivesUp, ProceedsWithout
  <2>5. CatalogComplete /\ CreatedInOrder
    BY DEF CatalogInv
  <2>6. CASE meta' = TRUE /\ skipped' = skipped
    BY <1>1, <2>1, <2>3, <2>5, <2>6 DEF CatalogInv, CatalogComplete, CreatedInOrder
  <2>7. CASE meta' = meta /\ adm' = "idle" /\ skipped' = skipped
    BY <1>1, <2>1, <2>5, <2>7 DEF CatalogInv, CatalogComplete, CreatedInOrder
  <2>8. CASE meta' = meta /\ skipped' = skipped \cup {"meta"}
    BY <1>1, <2>1, <2>3, <2>5, <2>8 DEF CatalogInv, CatalogComplete, CreatedInOrder
  <2> QED BY <2>2, <2>6, <2>7, <2>8
<1>5. CASE Create \/ Register \/ Announce \/ Restart \/ UNCHANGED vars
  <2>1. UNCHANGED <<inv, meta, skipped>>
    BY <1>5 DEF Create, Register, Announce, Restart, vars
  <2>2. \/ UNCHANGED adm /\ (UNCHANGED listed \/ listed' = FALSE)
        \/ adm' \in {"meta", "idle"} /\ UNCHANGED listed
        \/ adm = "index" /\ adm' \in {"publish", "idle"}
    BY <1>5 DEF Create, Register, Announce, Restart, vars, Proceeds, GivesUp
  <2> QED BY <1>1, <2>1, <2>2 DEF CatalogInv, CatalogComplete, CreatedInOrder
<1> QED BY <1>2, <1>3, <1>4, <1>5 DEF Next, Creating

\* A product in the catalog has its metadata and its stock, wherever the handler
\* that creates it fails, or lacks just what was confirmed without being put.
THEOREM CatalogIsComplete == Spec => []CatalogComplete
<1>1. Init => CatalogInv
  BY TypeInit DEF Init, CatalogInv, CatalogComplete, CreatedInOrder
<1>2. CatalogInv => CatalogComplete
  BY DEF CatalogInv
<1> QED BY <1>1, CatalogStep, <1>2, PTL DEF Spec

=============================================================================
