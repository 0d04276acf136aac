----------------------------- MODULE FlashSale -----------------------------
(***************************************************************************)
(* The flash-sale microservice (server.js) on top of Hrux-DB: the /api/buy *)
(* and /api/product/create handlers for one product.  Every await is a     *)
(* request to the database, and Node runs other handlers until it is       *)
(* answered: one step is one request, together with the code up to the     *)
(* next await.  The database executes it in one critical section, keeps    *)
(* the keys of its buckets across a restart and loses the sets and queues  *)
(* of datastructures/service.go, which live in memory only.                *)
(***************************************************************************)
EXTENDS Integers, Sequences, FiniteSets

CONSTANTS
  Requests,     \* requests to /api/buy
  UserOf,       \* UserOf[r]: the userId in request r
  Users,
  Stock,        \* the inventory a product is created with
  Absent,       \* no value under the product's _inv key
  MaxEvents     \* bound for model checking: failures, restarts and creations

ASSUME SaleAssumption ==
  /\ UserOf \in [Requests -> Users]
  /\ Stock \in Nat \ {0} /\ Absent \notin Int

VARIABLES
  inv,          \* the value of the product's _inv key
  meta,         \* there is a value under its _meta key
  listed,       \* it is a member of the set catalog_products
  buyers,       \* the set buyers
  waitlist,     \* the queue waitlist:key
  pc, count,    \* pc[r]: where handler r is; count[r]: the stock it has read
  adm,          \* where the handler that creates the product is
  faults, restarts, creates,   \* bounds; creates: times the stock was set
  taken,        \* history: times a buyer has written the stock since it was set
  sold,         \* history: times a buyer's put has since been confirmed
  unmade,       \* history: how many of these puts wrote nothing
  raced,        \* history: two buyers have since held a reading at a time
  stale,        \* history: a buyer held a reading when it was set
  skipped,      \* history: what was confirmed to the creating handler but not put
  before,       \* history: before[r]: what had been bought when r arrived
  blind,        \* history: the requests whose fraud check could not read buyers
  forgotten     \* history: the requests whose outcome a restart has wiped

dbVars    == <<inv, meta, listed, buyers, waitlist>>
nodeVars  == <<pc, count, adm>>
boundVars == <<restarts, creates>>
stockHist == <<taken, sold, unmade, raced, stale>>
histVars  == <<stockHist, skipped, before, blind, forgotten>>
vars == <<dbVars, nodeVars, faults, boundVars, histVars>>

Init ==
  /\ inv = Absent /\ meta = FALSE /\ listed = FALSE
  /\ buyers = {} /\ waitlist = <<>>
  /\ pc = [r \in Requests |-> "new"] /\ count = [r \in Requests |-> 0]
  /\ adm = "idle"
  /\ faults = 0 /\ restarts = 0 /\ creates = 0
  /\ taken = 0 /\ sold = 0 /\ unmade = 0 /\ raced = FALSE /\ stale = FALSE
  /\ skipped = {} /\ before = [r \in Requests |-> {}] /\ blind = {}
  /\ forgotten = {}

\* The bound on what may happen besides purchases.
MoreEvents == faults + restarts + creates < MaxEvents

\* A request to the database is answered, or it throws: the connection was
\* refused or lost, before or after the database did its work.
Answered == UNCHANGED faults
Throws   == MoreEvents /\ faults' = faults + 1

\* Or it is a put that is answered like any other although the log could not be
\* written and the key is as it was: KVService.Put drops the store's error.
AnsweredUnmade == MoreEvents /\ faults' = faults + 1

Goto(r, where) == pc' = [pc EXCEPT ![r] = where]

-----------------------------------------------------------------------------
(* POST /api/buy.                                                          *)

Arrive(r) ==
  /\ pc[r] = "new"
  /\ Goto(r, "list")
  /\ before' = [before EXCEPT ![r] = {q \in Requests : pc[q] = "bought"}]
  /\ UNCHANGED <<dbVars, count, adm, faults, boundVars, stockHist, skipped, blind,
                 forgotten>>

\* The fraud check.  If the list cannot be had, nobody has bought yet.
ListBuyers(r) ==
  /\ pc[r] = "list"
  /\ \/ /\ Answered /\ Goto(r, IF UserOf[r] \in buyers THEN "duplicate" ELSE "get")
        /\ blind' = blind
     \/ Throws /\ Goto(r, "get") /\ blind' = blind \cup {r}
  /\ UNCHANGED <<dbVars, count, adm, boundVars, stockHist, skipped, before,
                 forgotten>>

\* What get returns for the stock; a missing key throws, and counts as 0.
StockRead == IF inv = Absent THEN 0 ELSE inv

\* Mutant of SoldOut: the check lets a stock of 0 through.
SoldOut_BelowZero(n) == n < 0

SoldOut(n) == n <= 0

ReadInventory(r) ==
  /\ pc[r] = "get"
  /\ \E n \in {0, StockRead} :
       /\ \/ n = StockRead /\ Answered
          \/ n = 0 /\ Throws
       /\ count' = [count EXCEPT ![r] = n]
       /\ Goto(r, IF SoldOut(n) THEN "queue" ELSE "put")
       /\ raced' = \/ raced
                   \/ ~SoldOut(n) /\ \E q \in Requests : pc[q] = "put"
  /\ UNCHANGED <<dbVars, adm, boundVars, taken, sold, unmade, stale, skipped,
                 before, blind, forgotten>>

\* Mutant of JoinWaitlist: the user is told, but not queued.
JoinWaitlist_TellsOnly(r) ==
  /\ pc[r] = "queue"
  /\ Answered /\ Goto(r, "waitlisted")
  /\ UNCHANGED <<dbVars, count, adm, boundVars, histVars>>

JoinWaitlist(r) ==
  /\ pc[r] = "queue"
  /\ \/ /\ Answered /\ Goto(r, "waitlisted")
        /\ waitlist' = Append(waitlist, UserOf[r])
     \/ /\ Throws /\ Goto(r, "error")
        /\ waitlist' \in {waitlist, Append(waitlist, UserOf[r])}
  /\ UNCHANGED <<inv, meta, listed, buyers, count, adm, boundVars, histVars>>

\* Mutant of Remaining: one purchase takes two.
Remaining_Two(r) == count[r] - 2

\* Mutant of Remaining: the stock is written back as it was read.
Remaining_Same(r) == count[r]

\* The stock a purchase leaves.
Remaining(r) == count[r] - 1

TakeOne(r) == inv' = Remaining(r) /\ taken' = taken + 1

\* The put throws, done or not.
PutThrows(r) ==
  /\ Throws
  /\ TakeOne(r) \/ UNCHANGED <<inv, taken>>
  /\ UNCHANGED <<sold, unmade>>

\* The put is confirmed, done or not.
PutConfirmed(r) ==
  /\ \/ Answered /\ TakeOne(r) /\ unmade' = unmade
     \/ AnsweredUnmade /\ unmade' = unmade + 1 /\ UNCHANGED <<inv, taken>>
  /\ sold' = sold + 1

\* Mutant of PutInventory: nothing catches the rejected promise.
PutInventory_NoCatch(r) ==
  /\ pc[r] = "put"
  /\ \/ PutConfirmed(r) /\ Goto(r, "add")
     \/ PutThrows(r) /\ Goto(r, "hung")
  /\ UNCHANGED <<meta, listed, buyers, waitlist, count, adm, boundVars, raced,
                 stale, skipped, before, blind, forgotten>>

PutInventory(r) ==
  /\ pc[r] = "put"
  /\ \/ PutConfirmed(r) /\ Goto(r, "add")
     \/ PutThrows(r) /\ Goto(r, "error")
  /\ UNCHANGED <<meta, listed, buyers, waitlist, count, adm, boundVars, raced,
                 stale, skipped, before, blind, forgotten>>

\* Mutant of AddBuyer: the buyer is not recorded.
AddBuyer_Forgets(r) ==
  /\ pc[r] = "add"
  /\ Answered /\ Goto(r, "publish")
  /\ UNCHANGED <<dbVars, count, adm, boundVars, histVars>>

AddBuyer(r) ==
  /\ pc[r] = "add"
  /\ \/ Answered /\ buyers' = buyers \cup {UserOf[r]} /\ Goto(r, "publish")
     \/ /\ Throws /\ Goto(r, "error")
        /\ buyers' \in {buyers, buyers \cup {UserOf[r]}}
  /\ UNCHANGED <<inv, meta, listed, waitlist, count, adm, boundVars, histVars>>

Publish(r) ==
  /\ pc[r] = "publish"
  /\ \/ Answered /\ Goto(r, "bought")
     \/ Throws /\ Goto(r, "error")
  /\ UNCHANGED <<dbVars, count, adm, boundVars, histVars>>

-----------------------------------------------------------------------------
(* POST /api/product/create.                                               *)

\* An await of this handler: the next one, or the error answer.
Proceeds(next) == Answered /\ adm' = next
GivesUp        == Throws /\ adm' = "idle"

\* The put of what is confirmed, but not made.
ProceedsWithout(next, what) ==
  AnsweredUnmade /\ adm' = next /\ skipped' = skipped \cup {what}

Create ==
  /\ adm = "idle" /\ MoreEvents
  /\ adm' = "meta"
  /\ UNCHANGED <<dbVars, pc, count, faults, boundVars, histVars>>

\* Mutant of PutMeta: the product is registered before it has a stock.
PutMeta_AndRegister ==
  /\ adm = "meta"
  /\ Proceeds("inv") /\ meta' = TRUE /\ listed' = TRUE
  /\ UNCHANGED <<inv, buyers, waitlist, pc, count, boundVars, histVars>>

PutMeta ==
  /\ adm = "meta"
  /\ \/ Proceeds("inv") /\ meta' = TRUE /\ skipped' = skipped
     \/ GivesUp /\ meta' \in {meta, TRUE} /\ skipped' = skipped
     \/ ProceedsWithout("inv", "meta") /\ meta' = meta
  /\ UNCHANGED <<inv, listed, buyers, waitlist, pc, count, boundVars, stockHist,
                 before, blind, forgotten>>

SetStock ==
  /\ inv' = Stock /\ creates' = creates + 1
  /\ taken' = 0 /\ sold' = 0 /\ unmade' = 0
  /\ raced' = FALSE /\ stale' = \E r \in Requests : pc[r] = "put"

StockAsItWas == UNCHANGED <<inv, creates, stockHist>>

PutStock ==
  /\ adm = "inv"
  /\ \/ Proceeds("index") /\ SetStock /\ skipped' = skipped
     \/ GivesUp /\ (SetStock \/ StockAsItWas) /\ skipped' = skipped
     \/ ProceedsWithout("index", "inv") /\ StockAsItWas
  /\ UNCHANGED <<meta, listed, buyers, waitlist, pc, count, restarts, before, blind,
                 forgotten>>

Register ==
  /\ adm = "index"
  /\ \/ Proceeds("publish") /\ listed' = TRUE
     \/ GivesUp /\ listed' \in {listed, TRUE}
  /\ UNCHANGED <<inv, meta, buyers, waitlist, pc, count, boundVars, histVars>>

Announce ==
  /\ adm = "publish"
  /\ (Proceeds("idle") \/ GivesUp)
  /\ UNCHANGED <<dbVars, pc, count, boundVars, histVars>>

-----------------------------------------------------------------------------
\* The database process dies and comes back with its log replayed.
Restart ==
  /\ MoreEvents /\ restarts' = restarts + 1
  /\ listed' = FALSE /\ buyers' = {} /\ waitlist' = <<>>
  /\ forgotten' = forgotten \cup
       {r \in Requests : pc[r] \in {"publish", "bought", "waitlisted"}}
  /\ UNCHANGED <<inv, meta, nodeVars, faults, creates, stockHist, skipped, before,
                 blind>>

Buying(r) ==
  ListBuyers(r) \/ ReadInventory(r) \/ JoinWaitlist(r) \/ PutInventory(r)
    \/ AddBuyer(r) \/ Publish(r)

Creating == PutMeta \/ PutStock \/ Register \/ Announce

Next ==
  \/ \E r \in Requests : Arrive(r) \/ Buying(r)
  \/ Create \/ Creating \/ Restart

Spec == Init /\ [][Next]_vars

\* Node's event loop runs every handler whose await is over.
FairSpec == Spec /\ \A r \in Requests : WF_vars(Buying(r))

-----------------------------------------------------------------------------
(* Properties.                                                             *)

Answers == {"duplicate", "waitlisted", "bought", "error"}

\* In particular the stock never goes below 0, nor above what it was set to.
TypeOK ==
  /\ inv \in 0..Stock \cup {Absent}
  /\ meta \in BOOLEAN /\ listed \in BOOLEAN /\ raced \in BOOLEAN
  /\ stale \in BOOLEAN
  /\ buyers \subseteq Users /\ waitlist \in Seq(Users)
  /\ pc \in [Requests -> {"new", "list", "get", "queue", "put", "add",
                          "publish"} \cup Answers]
  /\ count \in [Requests -> 0..Stock]
  /\ adm \in {"idle", "meta", "inv", "index", "publish"}
  /\ faults \in Nat /\ restarts \in Nat /\ creates \in Nat
  /\ taken \in Nat /\ sold \in Nat /\ unmade \in Nat
  /\ skipped \subseteq {"meta", "inv"} /\ blind \subseteq Requests
  /\ forgotten \subseteq Requests
  /\ before \in [Requests -> SUBSET Requests]

\* No unit of the stock is lost, although the product be created again to
\* fill it up: lost updates between buyers (get, then put) can sell a unit
\* twice, but never lose one.  Only a buyer that held a reading when the stock
\* was set can: it puts the old stock back.
NoUnitLost ==
  creates > 0 /\ ~stale => inv # Absent /\ inv + taken >= Stock

\* As long as no two buyers have held a reading of the stock at the same time,
\* nor one while it was set, the stock is short of just what was taken, and no
\* more sales are confirmed than units have left it, but for one more for each
\* put that was answered as a success while the log could not be written:
\* besides the race between get and put in /api/buy, these oversell.
SoldOnce ==
  creates > 0 /\ ~raced /\ ~stale =>
    inv + taken = Stock /\ inv + sold <= Stock + unmade

\* A user who has been told of a purchase does not get a second one by a request
\* that arrives later, unless the list of buyers could not be had for it or a
\* restart has wiped the purchase from it.  Nothing is said of requests under way
\* at the same time: both may pass the fraud check before either is on record
\* (NoDuplicate, below).
NoSecondPurchase ==
  \A r \in Requests \ blind : \A q \in before[r] \ forgotten :
    pc[r] \in {"put", "add", "publish", "bought"} => UserOf[q] # UserOf[r]

\* What a user has been told is on record, until a restart of the database.
AnswerOnRecord ==
  \A r \in Requests \ forgotten :
    /\ pc[r] = "bought" => UserOf[r] \in buyers
    /\ pc[r] = "waitlisted" =>
         \E i \in 1..Len(waitlist) : waitlist[i] = UserOf[r]

\* A product in the catalog has its metadata and its stock, even if the
\* handler that created it failed half way: it lacks only what was confirmed to
\* the handler without having been put.
CatalogComplete ==
  listed => /\ meta \/ "meta" \in skipped
            /\ inv # Absent \/ "inv" \in skipped

\* Every buyer gets an answer, whatever requests to the database fail.
BuyerAnswered == \A r \in Requests : pc[r] # "new" ~> pc[r] \in Answers

-----------------------------------------------------------------------------
\* The load test reports "Exactly 500 items sold": no more purchases are
\* confirmed than there were units.
NoOversell ==
  creates <= 1 => Cardinality({r \in Requests : pc[r] = "bought"}) <= Stock

\* "If a user's browser glitches and sends 50 Buy requests at once, the database
\* inherently rejects the duplicates": no user is told of two purchases.
NoDuplicate ==
  \A r, q \in Requests :
    r # q /\ pc[r] = "bought" /\ pc[q] = "bought" => UserOf[r] # UserOf[q]

=============================================================================
