------------------------------- MODULE PubSub -------------------------------
(***************************************************************************)
(* The message broker of Hrux-DB: the PubSub hub of pubsub.go, the         *)
(* /publish handlers that send through it and the /subscribe handlers that *)
(* stream its messages to HTTP clients (main.go).                          *)
(*                                                                         *)
(* ps.mu is Go's RWMutex: a writer that waits keeps new readers out, and   *)
(* when it is done the readers that queued up meanwhile come first.  A     *)
(* writer's critical section is one step, since it meets nobody; Publish,  *)
(* a reader, is one step per Go channel it sends to.                       *)
(***************************************************************************)
EXTENDS Naturals, Sequences, FiniteSets

CONSTANTS
  Conns,        \* /subscribe requests; each owns one Go channel
  Publishers,   \* /publish callers, each sending one message after another
  Topics,       \* channel names
  TopicOf,      \* TopicOf[c]: the topic connection c asks for
  Cap,          \* the buffer of a Go channel (100 in Subscribe)
  NoConn,       \* no writer has announced itself
  Quota         \* bound for model checking: Quota[p] messages of p

ASSUME TopicAssumption ==
  TopicOf \in [Conns -> Topics] /\ Topics # {} /\ NoConn \notin Conns
ASSUME BufferAssumption == Cap \in Nat \ {0} /\ Quota \in [Publishers -> Nat]

VARIABLES
  subs,         \* subs[t]: whose Go channels are in ps.subscribers[t]
  buf,          \* buf[c]: the messages queued in c's Go channel
  closed,       \* whose Go channels have been closed
  conn,         \* conn[c]: where the handler of connection c is
  gone,         \* clients that have disconnected: r.Context().Done()
  pub,          \* pub[p]: where publisher p is
  topic, sent,  \* topic[p]: where p publishes; sent[p]: its message number
  todo,         \* todo[p]: Go channels p's loop has still to visit
  writer,       \* ps.mu: the connection that holds it or waits for readers
  readers,      \* ps.mu: the publishers that hold it
  queued,       \* ps.mu: the publishers that came after the writer
  got,          \* history: what has been written to client c
  due,          \* history: what was published to c's topic while c was in
  lagged        \* history: connections found with a full buffer

connVars == <<buf, conn, gone, got>>
pubVars  == <<pub, topic, sent, todo>>
lockVars == <<writer, readers, queued>>
vars == <<subs, closed, connVars, pubVars, lockVars, due, lagged>>

\* A message: its publisher and its number.
Message == Publishers \X Nat

\* The message p is sending.
Msg(p) == <<p, sent[p]>>

Init ==
  /\ subs = [t \in Topics |-> {}]
  /\ buf = [c \in Conns |-> <<>>] /\ closed = {}
  /\ conn = [c \in Conns |-> "subscribe"] /\ gone = {}
  /\ pub = [p \in Publishers |-> "idle"]
  /\ topic = [p \in Publishers |-> CHOOSE t \in Topics : TRUE]
  /\ sent = [p \in Publishers |-> 0]
  /\ todo = [p \in Publishers |-> {}]
  /\ writer = NoConn /\ readers = {} /\ queued = {}
  /\ got = [c \in Conns |-> {}]
  /\ due = [c \in Conns |-> {}]
  /\ lagged = {}

-----------------------------------------------------------------------------
(* ps.mu.                                                                  *)

\* Lock, its first half: one writer at a time announces itself.
Announce(c) ==
  /\ conn[c] \in {"subscribe", "unsubscribe"} /\ writer = NoConn
  /\ writer' = c
  /\ UNCHANGED <<subs, closed, connVars, pubVars, readers, queued, due,
                 lagged>>

\* Lock, its second half: the readers that were there have left.
Exclusive(c) == writer = c /\ readers = {}

\* Unlock.
ReleaseWriter ==
  writer' = NoConn /\ readers' = readers \cup queued /\ queued' = {}

-----------------------------------------------------------------------------
(* /subscribe: the handler of a connection.                                *)

\* The client goes away, at any time.
Disconnect(c) ==
  /\ conn[c] # "done" /\ c \notin gone
  /\ gone' = gone \cup {c}
  /\ UNCHANGED <<subs, buf, closed, conn, got, pubVars, lockVars, due,
                 lagged>>

Subscribe(c) ==
  /\ conn[c] = "subscribe" /\ Exclusive(c)
  /\ subs' = [subs EXCEPT ![TopicOf[c]] = @ \cup {c}]
  /\ conn' = [conn EXCEPT ![c] = "loop"]
  /\ ReleaseWriter
  /\ UNCHANGED <<buf, closed, gone, got, pubVars, due, lagged>>

\* The select of the loop: a message, if there is one; the handler writes
\* it to the client and is stuck there for as long as the client is slow.
Receive(c) ==
  /\ conn[c] = "loop" /\ buf[c] # <<>>
  /\ got' = [got EXCEPT ![c] = @ \cup {Head(buf[c])}]
  /\ buf' = [buf EXCEPT ![c] = Tail(@)]
  /\ conn' = [conn EXCEPT ![c] = "write"]
  /\ UNCHANGED <<subs, closed, gone, pubVars, lockVars, due, lagged>>

Flushed(c) ==
  /\ conn[c] = "write"
  /\ conn' = [conn EXCEPT ![c] = "loop"]
  /\ UNCHANGED <<subs, buf, closed, gone, got, pubVars, lockVars, due,
                 lagged>>

\* Or the end of the request; when both are ready, either.
Notice(c) ==
  /\ conn[c] = "loop" /\ c \in gone
  /\ conn' = [conn EXCEPT ![c] = "unsubscribe"]
  /\ UNCHANGED <<subs, buf, closed, gone, got, pubVars, lockVars, due,
                 lagged>>

\* Mutant of Unsubscribe: the channel is closed but not deleted.
Unsubscribe_KeepsEntry(c) ==
  /\ conn[c] = "unsubscribe" /\ Exclusive(c)
  /\ closed' = closed \cup {c}
  /\ conn' = [conn EXCEPT ![c] = "done"]
  /\ ReleaseWriter
  /\ UNCHANGED <<subs, buf, gone, got, pubVars, due, lagged>>

\* Mutant of Unsubscribe: it does not wait for the publishers to leave.
Unsubscribe_Shared(c) ==
  /\ conn[c] = "unsubscribe" /\ writer = c
  /\ subs' = [subs EXCEPT ![TopicOf[c]] = @ \ {c}]
  /\ closed' = closed \cup {c}
  /\ conn' = [conn EXCEPT ![c] = "done"]
  /\ ReleaseWriter
  /\ UNCHANGED <<buf, gone, got, pubVars, due, lagged>>

\* The deferred Unsubscribe.
Unsubscribe(c) ==
  /\ conn[c] = "unsubscribe" /\ Exclusive(c)
  /\ subs' = [subs EXCEPT ![TopicOf[c]] = @ \ {c}]
  /\ closed' = IF c \in subs[TopicOf[c]] THEN closed \cup {c} ELSE closed
  /\ conn' = [conn EXCEPT ![c] = "done"]
  /\ ReleaseWriter
  /\ UNCHANGED <<buf, gone, got, pubVars, due, lagged>>

-----------------------------------------------------------------------------
(* /publish: Publish.                                                      *)

\* The range over the topic's Go channels begins; ps.mu keeps them as they
\* are until it ends.
Enter(p) ==
  /\ pub' = [pub EXCEPT ![p] = "send"]
  /\ todo' = [todo EXCEPT ![p] = subs[topic'[p]]]
  /\ due' = [c \in Conns |-> IF c \in todo'[p]
                             THEN due[c] \cup {<<p, sent'[p]>>} ELSE due[c]]

\* RLock: at once, or after the writer that is ahead.
Publish(p, t) ==
  /\ pub[p] = "idle" /\ sent[p] < Quota[p]
  /\ sent' = [sent EXCEPT ![p] = @ + 1]
  /\ topic' = [topic EXCEPT ![p] = t]
  /\ \/ /\ writer = NoConn
        /\ readers' = readers \cup {p}
        /\ Enter(p)
        /\ UNCHANGED queued
     \/ /\ writer # NoConn
        /\ queued' = queued \cup {p}
        /\ pub' = [pub EXCEPT ![p] = "lock"]
        /\ UNCHANGED <<readers, todo, due>>
  /\ UNCHANGED <<subs, closed, connVars, writer, lagged>>

\* The writer has let the queued readers in.
Admitted(p) ==
  /\ pub[p] = "lock" /\ p \in readers
  /\ UNCHANGED <<topic, sent>>
  /\ Enter(p)
  /\ UNCHANGED <<subs, closed, connVars, lockVars, lagged>>

\* Mutant of HasRoom: the buffer takes one message too many.
HasRoom_TooMuch(c) == Len(buf[c]) <= Cap

\* Mutant of HasRoom: one place of the buffer is never used.
HasRoom_OffByOne(c) == Len(buf[c]) + 1 < Cap

\* The select's send can go ahead.
HasRoom(c) == Len(buf[c]) < Cap

\* Mutant of Send: without the default case the send waits for room.
Send_Blocks(p, c) ==
  /\ pub[p] = "send" /\ c \in todo[p] /\ HasRoom(c)
  /\ buf' = [buf EXCEPT ![c] = Append(@, Msg(p))]
  /\ todo' = [todo EXCEPT ![p] = @ \ {c}]
  /\ lagged' = IF Len(buf[c]) = Cap THEN lagged \cup {c} ELSE lagged
  /\ UNCHANGED <<subs, closed, conn, gone, got, pub, topic, sent, lockVars,
                 due>>

\* Mutant of Send: the loop visits a channel again.
Send_Again(p, c) ==
  /\ pub[p] = "send" /\ c \in todo[p]
  /\ buf' = [buf EXCEPT ![c] = IF HasRoom(c) THEN Append(@, Msg(p)) ELSE @]
  /\ todo' \in {todo, [todo EXCEPT ![p] = @ \ {c}]}
  /\ lagged' = IF Len(buf[c]) = Cap THEN lagged \cup {c} ELSE lagged
  /\ UNCHANGED <<subs, closed, conn, gone, got, pub, topic, sent, lockVars,
                 due>>

\* One round: a full buffer loses the message.
Send(p, c) ==
  /\ pub[p] = "send" /\ c \in todo[p]
  /\ buf' = [buf EXCEPT ![c] = IF HasRoom(c) THEN Append(@, Msg(p)) ELSE @]
  /\ todo' = [todo EXCEPT ![p] = @ \ {c}]
  /\ lagged' = IF Len(buf[c]) = Cap THEN lagged \cup {c} ELSE lagged
  /\ UNCHANGED <<subs, closed, conn, gone, got, pub, topic, sent, lockVars,
                 due>>

\* Mutant of Published: the RUnlock is missing.
Published_KeepsRLock(p) ==
  /\ pub[p] = "send" /\ todo[p] = {}
  /\ pub' = [pub EXCEPT ![p] = "idle"]
  /\ UNCHANGED <<subs, closed, connVars, topic, sent, todo, lockVars,
                 due, lagged>>

\* RUnlock and the answer.
Published(p) ==
  /\ pub[p] = "send" /\ todo[p] = {}
  /\ pub' = [pub EXCEPT ![p] = "idle"]
  /\ readers' = readers \ {p}
  /\ UNCHANGED <<subs, closed, connVars, topic, sent, todo, writer, queued,
                 due, lagged>>

-----------------------------------------------------------------------------
Handler(c) == Announce(c) \/ Subscribe(c) \/ Notice(c) \/ Unsubscribe(c)

Publishing(p) == Admitted(p) \/ (\E c \in Conns : Send(p, c)) \/ Published(p)

Next ==
  \/ \E c \in Conns : \/ Disconnect(c)
                      \/ Receive(c) \/ Flushed(c) \/ Handler(c)
  \/ \E p \in Publishers : Publishing(p) \/ \E t \in Topics : Publish(p, t)

Spec == Init /\ [][Next]_vars

\* Goroutines that can run are run.  A handler stuck in a write to a client
\* that is slow may stay there; one whose client has gone gets an error.
Fairness ==
  /\ \A p \in Publishers : WF_vars(Publishing(p))
  /\ \A c \in Conns : /\ WF_vars(Handler(c))
                      /\ WF_vars(c \in gone /\ Flushed(c))

FairSpec == Spec /\ Fairness

-----------------------------------------------------------------------------
(* Properties.                                                             *)

TypeOK ==
  /\ subs \in [Topics -> SUBSET Conns]
  /\ buf \in [Conns -> Seq(Message)] /\ got \in [Conns -> SUBSET Message]
  /\ \A c \in Conns : Len(buf[c]) <= Cap
  /\ closed \subseteq Conns /\ gone \subseteq Conns /\ lagged \subseteq Conns
  /\ conn \in [Conns -> {"subscribe", "loop", "write", "unsubscribe",
                         "done"}]
  /\ pub \in [Publishers -> {"idle", "lock", "send"}]
  /\ topic \in [Publishers -> Topics]
  /\ sent \in [Publishers -> Nat]
  /\ todo \in [Publishers -> SUBSET Conns]
  /\ writer \in Conns \cup {NoConn}
  /\ readers \subseteq Publishers /\ queued \subseteq Publishers
  /\ due \in [Conns -> SUBSET Message]

\* Publish never sends on a closed Go channel, which would panic and end the
\* server: Unsubscribe closes only what no publisher still has to visit.
NoSendOnClosed == \A p \in Publishers : todo[p] \cap closed = {}

\* The hub knows exactly the connections whose handler is in its loop or on
\* its way out: no handler reads a closed channel, whose receive never waits,
\* and no client that has left stays behind in the map.
HubKnowsHandlers ==
  \A c \in Conns, t \in Topics :
    c \in subs[t] <=>
      TopicOf[c] = t /\ conn[c] \in {"loop", "write", "unsubscribe"}

\* A client whose buffer no publisher found full misses nothing that was published
\* to its topic while it was subscribed.
NothingMissed ==
  \A c \in Conns \ lagged : \A m \in due[c] :
    \/ m \in got[c]
    \/ \E i \in 1..Len(buf[c]) : buf[c][i] = m
    \/ \E p \in Publishers : pub[p] = "send" /\ c \in todo[p] /\ m = Msg(p)

\* A client sees one publisher's messages in the order they were published,
\* none twice, and only messages it was due.
Before(m, n) == m[1] = n[1] => m[2] < n[2]

InOrder ==
  \A c \in Conns :
    /\ got[c] \subseteq due[c]
    /\ \A i \in 1..Len(buf[c]) :
         /\ buf[c][i] \in due[c]
         /\ \A m \in got[c] : Before(m, buf[c][i])
         /\ \A j \in 1..i - 1 : Before(buf[c][j], buf[c][i])

\* Publish returns however slow the subscribers are ("Buffered channel so
\* Publish doesn't block if client is slow").
PublishReturns == \A p \in Publishers : pub[p] # "idle" ~> pub[p] = "idle"

\* The Go channel of a client that has left is given back.
LeaverForgotten ==
  \A c \in Conns : c \in gone ~> conn[c] = "done"

=============================================================================
