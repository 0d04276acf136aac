------------------------------- MODULE Server -------------------------------
(***************************************************************************)
(* The server put together: transactions and the single operations of the  *)
(* store (KVService) and the data structures (DataStructures), called by   *)
(* clients whose connections may break (RPC), and readers.                 *)
(*                                                                         *)
(* A writer of KVService is the goroutine that serves a call of RPC.  A    *)
(* reader's connection is left out: losing it only ends the read.          *)
(***************************************************************************)
EXTENDS KVService, DataStructures

CONSTANT Scripts   \* what the server holds, and what its clients will do

ASSUME WriterAssumption == Writers \subseteq Calls

\* Only reads and calls of the store go to KVService.
StoreOps == {"Put", "Delete", "Update", "ExecuteTransaction"}

\* Writers call the store; reads are for keys.
ASSUME ScriptAssumption ==
  \A s \in Scripts :
    /\ \A w \in Writers :
         s.calls[w] # NoCall =>
           s.calls[w].op \in StoreOps /\ s.calls[w].ops \in Requests
    /\ \A d \in s.reads : d.keys \subseteq Keys

VARIABLE reads     \* the reads that readers make

allVars == <<vars, structVars, reads>>

ServerInit ==
  \E s \in Scripts :
    /\ mem = s.mem /\ heap = s.heap /\ req = s.calls /\ reads = s.reads
    /\ Init /\ DSInit

\* The handler of a call of the store begins: one operation, or several.
Serve(w) ==
  /\ stage[w] = "sent" /\ req[w].op \in StoreOps
  /\ Begin(w, req[w].ops)
  /\ stage' = [stage EXCEPT ![w] = "serve"]
  /\ UNCHANGED <<up, req, result, told, dsVars, reads>>

\* ExecuteTransaction returns a list of errors and no error; the others return
\* the error of the operation.
Outcome(w) ==
  IF \A i \in 1..Len(errs[w]) : errs[w][i] = "nil" THEN "ok"
  ELSE IF req[w].op = "ExecuteTransaction" THEN "errs" ELSE "error"

Served(w) ==
  /\ Return(w) /\ Handled(w, Outcome(w), errs[w])
  /\ UNCHANGED <<dsVars, reads>>

StoreStep(w) == Executing(w) /\ UNCHANGED <<structVars, reads>>

Started(r) ==
  \E s \in reads :
    IF s.kind = "scan" THEN \E n \in Counts : Start(r, "scan", n, s.keys)
    ELSE Start(r, "list", 0, s.keys)

ReadStep(r) ==
  /\ Reading(r) \/ Finish(r) \/ Started(r) \/ \E n \in Counts : ScanNext(r, n)
  /\ UNCHANGED <<structVars, reads>>

\* A connection may break as often as an Append may fail.
Broken(n) ==
  /\ Drop(n) /\ AppendFails
  /\ UNCHANGED <<dsVars, memVars, writeVars, readVars, reads>>

Carry(c) == (AtOnce(c) \/ InSteps(c) \/ Carried(c)) /\ UNCHANGED <<vars, reads>>

ServerNext ==
  \/ \E w \in Writers : Serve(w) \/ StoreStep(w) \/ Served(w)
  \/ \E r \in Readers : ReadStep(r)
  \/ \E k \in Keys : Expire(k) /\ UNCHANGED <<structVars, reads>>
  \/ \E c \in Calls : Carry(c)
  \/ \E n \in Clients : Broken(n)

\* What the goroutines that serve calls can do.
Serving ==
  \/ \E w \in Writers : Serve(w) \/ StoreStep(w) \/ Served(w)
  \/ \E c \in Calls :
       /\ AtOnce(c) \/ InSteps(c) \/ (Reply(c) /\ UNCHANGED dsVars)
       /\ UNCHANGED <<vars, reads>>

\* While goroutines that serve calls can run, one of them is run; so is the
\* goroutine of a read, and the client of a scan goes on asking for pages.
ServerSpec ==
  /\ ServerInit /\ [][ServerNext]_allVars
  /\ WF_allVars(Serving)
  /\ \A r \in Readers :
       WF_allVars(/\ Reading(r) \/ \E n \in Counts : ScanNext(r, n)
                  /\ UNCHANGED <<structVars, reads>>)

-----------------------------------------------------------------------------
(* Properties.                                                             *)

\* Every call comes back, with an answer or with its connection: when calls
\* are waiting, there comes a time when none is.
CallsReturn ==
  (\E c \in Calls : told[c] = "waiting") ~> (\A c \in Calls : told[c] # "waiting")

=============================================================================
