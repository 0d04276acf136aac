---------------------------- MODULE PubSubProofs ----------------------------
(***************************************************************************)
(* Proofs about PubSub, for every value of its constants: any number of    *)
(* connections, publishers and topics, any buffer and any quota.           *)
(***************************************************************************)
EXTENDS PubSub, TLAPS

-----------------------------------------------------------------------------
(* The inductive invariant.                                                *)

\* A publisher that sends holds ps.mu for reading; one that waits for it is
\* on its way; an idle one has nothing to do with it.
ReadLocked ==
  /\ readers \cap queued = {}
  /\ \A p \in Publishers :
       /\ pub[p] = "idle" => p \notin readers \cup queued
       /\ pub[p] = "send" => p \in readers

\* What a publisher has still to visit is in the hub, under its topic.
Visiting ==
  \A p \in Publishers :
    /\ pub[p] = "send" => todo[p] \subseteq subs[topic[p]]
    /\ pub[p] # "send" => todo[p] = {}

\* Only a handler that is done has had its Go channel closed.
ClosedDone == \A c \in closed : conn[c] = "done"

\* The hub's part: who is in the map, who is being visited, what is closed.
HubInv == TypeOK /\ ReadLocked /\ HubKnowsHandlers /\ Visiting /\ ClosedDone

\* What has reached connection c: written to its client or queued for it.
Reached(c) == got[c] \cup {buf[c][i] : i \in 1..Len(buf[c])}

\* No message that has reached a connection is newer than its publisher, and
\* the one its publisher is about to send has not reached it.
Numbered ==
  \A c \in Conns : \A m \in Reached(c) :
    /\ m[2] <= sent[m[1]]
    /\ pub[m[1]] = "lock" \/ c \in todo[m[1]] => m[2] < sent[m[1]]

\* A connection is due the message of every publisher that is to visit it.
Owed ==
  \A p \in Publishers : \A c \in todo[p] : Msg(p) \in due[c]

OrderInv == HubInv /\ Numbered /\ Owed /\ InOrder

-----------------------------------------------------------------------------
(* Queues of messages.                                                     *)

\* A message at the end of a Go channel.
LEMMA AppendFacts ==
  ASSUME NEW s \in Seq(Message), NEW m \in Message
  PROVE  /\ Append(s, m) \in Seq(Message)
         /\ Len(s) \in Nat /\ Len(Append(s, m)) = Len(s) + 1
         /\ \A i \in 1..Len(s) : Append(s, m)[i] = s[i] /\ s[i] \in Message
         /\ Append(s, m)[Len(s) + 1] = m
OBVIOUS

\* A message taken from its head.
LEMMA TailFacts ==
  ASSUME NEW s \in Seq(Message), s # <<>>
  PROVE  /\ Len(s) \in Nat \ {0}
         /\ Head(s) = s[1] /\ s[1] \in Message
         /\ Tail(s) \in Seq(Message) /\ Len(Tail(s)) = Len(s) - 1
         /\ \A i \in 1..Len(s) - 1 : Tail(s)[i] = s[i + 1]
OBVIOUS

-----------------------------------------------------------------------------
(* Type correctness.                                                       *)

\* No connection has subscribed when the server starts.
LEMMA TypeInit == Init => TypeOK
<1> SUFFICES ASSUME Init PROVE TypeOK
  OBVIOUS
<1>1. /\ buf \in [Conns -> Seq(Message)]
      /\ \A c \in Conns : Len(buf[c]) <= Cap
  BY BufferAssumption DEF Init
<1>2. topic \in [Publishers -> Topics]
  BY TopicAssumption DEF Init
<1> QED BY <1>1, <1>2 DEF Init, TypeOK

\* Publisher p enters the range over the channels of its topic.
LEMMA EnterFacts ==
  ASSUME TypeOK, NEW p \in Publishers, Enter(p),
         sent' \in [Publishers -> Nat], topic'[p] \in Topics
  PROVE  /\ pub' = [pub EXCEPT ![p] = "send"]
         /\ todo' = [todo EXCEPT ![p] = subs[topic'[p]]]
         /\ subs[topic'[p]] \subseteq Conns
         /\ todo' \in [Publishers -> SUBSET Conns]
         /\ due' \in [Conns -> SUBSET Message]
         /\ \A c \in Conns :
              due'[c] = IF c \in subs[topic'[p]]
                        THEN due[c] \cup {<<p, sent'[p]>>} ELSE due[c]
<1>1. /\ pub' = [pub EXCEPT ![p] = "send"]
      /\ todo' = [todo EXCEPT ![p] = subs[topic'[p]]]
      /\ due' = [c \in Conns |-> IF c \in todo'[p]
                                 THEN due[c] \cup {<<p, sent'[p]>>}
                                 ELSE due[c]]
  BY DEF Enter
<1>2. subs[topic'[p]] \subseteq Conns /\ todo'[p] = subs[topic'[p]]
      /\ todo' \in [Publishers -> SUBSET Conns]
  BY <1>1 DEF TypeOK
<1>3. <<p, sent'[p]>> \in Message
  BY DEF Message
<1>4. due' \in [Conns -> SUBSET Message]
  BY <1>1, <1>3 DEF TypeOK
<1> QED BY <1>1, <1>2, <1>4

\* The handlers of connections keep the types.
LEMMA TypeConn ==
  ASSUME TypeOK, NEW c \in Conns,
         Disconnect(c) \/ Receive(c) \/ Flushed(c) \/ Handler(c)
  PROVE  TypeOK'
<1> USE DEF TypeOK, connVars, pubVars, lockVars
<1>1. CASE Disconnect(c) BY <1>1 DEF Disconnect
<1>2. CASE Receive(c)
  <2>1. /\ Head(buf[c]) \in Message /\ Tail(buf[c]) \in Seq(Message)
        /\ Len(Tail(buf[c])) <= Cap
    BY <1>2, TailFacts, BufferAssumption DEF Receive
  <2>2. /\ buf' \in [Conns -> Seq(Message)]
        /\ \A d \in Conns : Len(buf'[d]) <= Cap
        /\ got' \in [Conns -> SUBSET Message]
    BY <1>2, <2>1 DEF Receive
  <2> QED BY <1>2, <2>2 DEF Receive
<1>3. CASE Flushed(c) BY <1>3 DEF Flushed
<1>4. CASE Announce(c) BY <1>4 DEF Announce
<1>5. CASE Subscribe(c)
  <2>1. subs' \in [Topics -> SUBSET Conns]
    BY <1>5, TopicAssumption DEF Subscribe
  <2> QED BY <1>5, <2>1 DEF Subscribe, ReleaseWriter
<1>6. CASE Notice(c) BY <1>6 DEF Notice
<1>7. CASE Unsubscribe(c)
  <2>1. subs' \in [Topics -> SUBSET Conns] /\ closed' \subseteq Conns
    BY <1>7, TopicAssumption DEF Unsubscribe
  <2> QED BY <1>7, <2>1 DEF Unsubscribe, ReleaseWriter
<1> QED BY <1>1, <1>2, <1>3, <1>4, <1>5, <1>6, <1>7 DEF Handler

\* So do the publishers.
LEMMA TypePub ==
  ASSUME TypeOK, NEW p \in Publishers,
         Publishing(p) \/ \E t \in Topics : Publish(p, t)
  PROVE  TypeOK'
<1> USE DEF TypeOK, connVars, pubVars, lockVars
<1>1. ASSUME NEW t \in Topics, Publish(p, t) PROVE TypeOK'
  <2>1. /\ sent' \in [Publishers -> Nat] /\ topic' \in [Publishers -> Topics]
        /\ topic'[p] = t
    BY <1>1 DEF Publish
  <2>2. CASE writer = NoConn
    <3>1. Enter(p) /\ readers' = readers \cup {p} /\ UNCHANGED queued
      BY <1>1, <2>2 DEF Publish
    <3>2. /\ pub' = [pub EXCEPT ![p] = "send"]
          /\ todo' \in [Publishers -> SUBSET Conns]
          /\ due' \in [Conns -> SUBSET Message]
      BY <2>1, <3>1, EnterFacts
    <3> QED BY <1>1, <2>1, <3>1, <3>2 DEF Publish
  <2>3. CASE writer # NoConn
    BY <1>1, <2>1, <2>3 DEF Publish
  <2> QED BY <2>2, <2>3
<1>2. CASE Admitted(p)
  <2>1. Enter(p) /\ sent' \in [Publishers -> Nat] /\ topic'[p] \in Topics
    BY <1>2 DEF Admitted
  <2>2. /\ pub' = [pub EXCEPT ![p] = "send"]
        /\ todo' \in [Publishers -> SUBSET Conns]
        /\ due' \in [Conns -> SUBSET Message]
    BY <2>1, EnterFacts
  <2> QED BY <1>2, <2>2 DEF Admitted
<1>3. ASSUME NEW c \in Conns, Send(p, c) PROVE TypeOK'
  <2>1. Msg(p) \in Message BY DEF Msg, Message
  <2>2. /\ Append(buf[c], Msg(p)) \in Seq(Message)
        /\ HasRoom(c) => Len(Append(buf[c], Msg(p))) <= Cap
    BY <2>1, AppendFacts, BufferAssumption DEF HasRoom
  <2>3. /\ buf' \in [Conns -> Seq(Message)]
        /\ \A d \in Conns : Len(buf'[d]) <= Cap
    BY <1>3, <2>2 DEF Send
  <2>4. lagged' \subseteq Conns /\ todo' \in [Publishers -> SUBSET Conns]
    BY <1>3 DEF Send
  <2> QED BY <1>3, <2>3, <2>4 DEF Send
<1>4. CASE Published(p) BY <1>4 DEF Published
<1> QED BY <1>1, <1>2, <1>3, <1>4 DEF Publishing

\* Every step keeps the types.
LEMMA TypeStep == TypeOK /\ [Next]_vars => TypeOK'
<1>1. CASE UNCHANGED vars
  BY <1>1 DEF TypeOK, vars, connVars, pubVars, lockVars
<1> QED BY <1>1, TypeConn, TypePub DEF Next

\* Every reachable state is well typed: no Go channel ever holds more than
\* its buffer takes.
THEOREM TypeCorrect == Spec => []TypeOK
BY TypeInit, TypeStep, PTL DEF Spec

-----------------------------------------------------------------------------
(* The hub.                                                                *)

\* At the start the hub is empty.
LEMMA HubInit == Init => HubInv
BY TypeInit DEF Init, HubInv, ReadLocked, HubKnowsHandlers, Visiting, ClosedDone

\* A handler changes the hub only while no publisher reads it.
LEMMA HubConn ==
  ASSUME HubInv, NEW c \in Conns,
         Disconnect(c) \/ Receive(c) \/ Flushed(c) \/ Handler(c)
  PROVE  HubInv'
<1>1. TypeOK' BY TypeConn DEF HubInv
<1> USE DEF HubInv, TypeOK, ReadLocked, HubKnowsHandlers, Visiting, ClosedDone,
            connVars, pubVars, lockVars
<1>2. CASE Disconnect(c) BY <1>1, <1>2 DEF Disconnect
<1>3. CASE Receive(c) BY <1>1, <1>3 DEF Receive
<1>4. CASE Flushed(c) BY <1>1, <1>4 DEF Flushed
<1>5. CASE Announce(c) BY <1>1, <1>5 DEF Announce
<1>6. CASE Subscribe(c)
  <2>1. readers = {} /\ \A p \in Publishers : pub[p] # "send"
    BY <1>6 DEF Subscribe, Exclusive
  <2>2. readers' = queued /\ queued' = {} /\ UNCHANGED pubVars
    BY <1>6, <2>1 DEF Subscribe, ReleaseWriter
  <2>3. ReadLocked' BY <2>1, <2>2
  <2>4. HubKnowsHandlers'
    BY <1>6, TopicAssumption DEF Subscribe
  <2>5. Visiting' BY <2>1, <2>2
  <2>6. ClosedDone' BY <1>6 DEF Subscribe
  <2> QED BY <1>1, <2>3, <2>4, <2>5, <2>6
<1>7. CASE Notice(c) BY <1>1, <1>7 DEF Notice
<1>8. CASE Unsubscribe(c)
  <2>1. readers = {} /\ \A p \in Publishers : pub[p] # "send"
    BY <1>8 DEF Unsubscribe, Exclusive
  <2>2. readers' = queued /\ queued' = {} /\ UNCHANGED pubVars
    BY <1>8, <2>1 DEF Unsubscribe, ReleaseWriter
  <2>3. ReadLocked' BY <2>1, <2>2
  <2>4. HubKnowsHandlers'
    BY <1>8, TopicAssumption DEF Unsubscribe
  <2>5. Visiting' BY <2>1, <2>2
  <2>6. ClosedDone' BY <1>8 DEF Unsubscribe
  <2> QED BY <1>1, <2>3, <2>4, <2>5, <2>6
<1> QED BY <1>2, <1>3, <1>4, <1>5, <1>6, <1>7, <1>8 DEF Handler

\* A publisher visits what it found in the hub and does not change it.
LEMMA HubPub ==
  ASSUME HubInv, NEW p \in Publishers,
         Publishing(p) \/ \E t \in Topics : Publish(p, t)
  PROVE  HubInv'
<1>1. TypeOK' BY TypePub DEF HubInv
<1>2. /\ UNCHANGED <<subs, closed, conn>>
      /\ HubKnowsHandlers' /\ ClosedDone'
  BY DEF HubInv, HubKnowsHandlers, ClosedDone, Publishing, Publish, Admitted,
         Send, Published, connVars
<1> USE DEF HubInv, ReadLocked, Visiting
<1>3. ASSUME NEW t \in Topics, Publish(p, t) PROVE HubInv'
  <2>1. CASE writer = NoConn
    <3>1. Enter(p) /\ readers' = readers \cup {p} /\ UNCHANGED queued
          /\ pub[p] = "idle"
      BY <1>3, <2>1 DEF Publish
    <3>2. sent' \in [Publishers -> Nat] /\ topic' = [topic EXCEPT ![p] = t]
          /\ topic'[p] = t
      BY <1>3 DEF Publish, TypeOK
    <3>3. /\ pub' = [pub EXCEPT ![p] = "send"]
          /\ todo' = [todo EXCEPT ![p] = subs[t]]
      BY <3>1, <3>2, EnterFacts
    <3>4. ReadLocked' BY <3>1, <3>3 DEF TypeOK
    <3>5. Visiting' BY <1>2, <3>2, <3>3 DEF TypeOK
    <3> QED BY <1>1, <1>2, <3>4, <3>5
  <2>2. CASE writer # NoConn
    BY <1>1, <1>2, <1>3, <2>2 DEF Publish, TypeOK
  <2> QED BY <2>1, <2>2
<1>4. CASE Admitted(p)
  <2>1. Enter(p) /\ UNCHANGED <<topic, sent, lockVars>> /\ p \in readers
        /\ pub[p] = "lock"
    BY <1>4 DEF Admitted
  <2>2. /\ pub' = [pub EXCEPT ![p] = "send"]
        /\ todo' = [todo EXCEPT ![p] = subs[topic[p]]]
    BY <2>1, EnterFacts DEF TypeOK
  <2>3. p \notin queued
    BY <2>1
  <2>4. ReadLocked' BY <2>1, <2>2, <2>3 DEF TypeOK, lockVars
  <2>5. Visiting' BY <1>2, <2>1, <2>2 DEF TypeOK
  <2> QED BY <1>1, <1>2, <2>4, <2>5
<1>5. ASSUME NEW c \in Conns, Send(p, c) PROVE HubInv'
  BY <1>1, <1>2, <1>5 DEF Send, TypeOK, lockVars
<1>6. CASE Published(p)
  BY <1>1, <1>2, <1>6 DEF Published, TypeOK
<1> QED BY <1>3, <1>4, <1>5, <1>6 DEF Publishing

\* Every step keeps the hub's part of the invariant.
LEMMA HubStep == HubInv /\ [Next]_vars => HubInv'
<1>1. CASE UNCHANGED vars
  BY <1>1 DEF HubInv, TypeOK, ReadLocked, HubKnowsHandlers, Visiting,
              ClosedDone, vars, connVars, pubVars, lockVars
<1> QED BY <1>1, HubConn, HubPub DEF Next

\* A publisher never sends on a closed Go channel, however many connections
\* come and go while it loops over its topic.
THEOREM NeverSendsOnClosed == Spec => []NoSendOnClosed
<1>1. HubInv => NoSendOnClosed
  <2> SUFFICES ASSUME HubInv, NEW p \in Publishers, NEW c \in todo[p] \cap closed
               PROVE  FALSE
    BY DEF NoSendOnClosed
  <2>1. c \in subs[topic[p]] /\ c \in Conns /\ topic[p] \in Topics
    BY DEF HubInv, Visiting, TypeOK
  <2> QED BY <2>1 DEF HubInv, HubKnowsHandlers, ClosedDone
<1> QED BY HubInit, HubStep, <1>1, PTL DEF Spec

\* The hub knows exactly the connections whose handlers are being served.
THEOREM HubExact == Spec => []HubKnowsHandlers
<1>1. HubInv => HubKnowsHandlers
  BY DEF HubInv
<1> QED BY HubInit, HubStep, <1>1, PTL DEF Spec

-----------------------------------------------------------------------------
(* The order of messages.                                                  *)

\* What has reached a connection are messages.
LEMMA ReachedFacts ==
  ASSUME TypeOK, NEW c \in Conns
  PROVE  /\ Reached(c) \subseteq Message
         /\ \A m \in Reached(c) : m[1] \in Publishers /\ m[2] \in Nat
         /\ \A p \in Publishers : /\ Msg(p) \in Message
                                  /\ Msg(p)[1] = p /\ Msg(p)[2] = sent[p]
<1>1. /\ got[c] \subseteq Message /\ buf[c] \in Seq(Message)
      /\ \A i \in 1..Len(buf[c]) : buf[c][i] \in Message
  BY DEF TypeOK
<1>2. Reached(c) \subseteq Message BY <1>1 DEF Reached
<1>3. \A p \in Publishers : sent[p] \in Nat BY DEF TypeOK
<1> QED BY <1>2, <1>3 DEF Message, Msg

\* Nothing has been sent when the server starts.
LEMMA OrderInit == Init => OrderInv
<1> SUFFICES ASSUME Init PROVE OrderInv
  OBVIOUS
<1>1. HubInv BY HubInit
<1>2. \A c \in Conns : /\ got[c] = {} /\ buf[c] = <<>> /\ Len(buf[c]) = 0
                       /\ Reached(c) = {}
  BY DEF Init, Reached
<1>3. \A p \in Publishers : todo[p] = {}
  BY DEF Init
<1> QED BY <1>1, <1>2, <1>3 DEF OrderInv, Numbered, Owed, InOrder

\* A handler takes the oldest message, or none.
LEMMA OrderConn ==
  ASSUME OrderInv, NEW c \in Conns,
         Disconnect(c) \/ Receive(c) \/ Flushed(c) \/ Handler(c)
  PROVE  OrderInv'
<1>1. HubInv' BY HubConn DEF OrderInv
<1>2. UNCHANGED <<pub, sent, todo, due>>
  BY DEF Disconnect, Receive, Flushed, Handler, Announce, Subscribe, Notice,
         Unsubscribe, pubVars
<1>3. CASE UNCHANGED <<buf, got>>
  BY <1>1, <1>2, <1>3
  DEF OrderInv, Numbered, Reached, Owed, InOrder, Msg, Before
<1>4. CASE Receive(c)
  <2>1. /\ buf[c] \in Seq(Message) /\ buf[c] # <<>>
        /\ \A d \in Conns : d # c => buf'[d] = buf[d] /\ got'[d] = got[d]
        /\ buf'[c] = Tail(buf[c]) /\ got'[c] = got[c] \cup {Head(buf[c])}
    BY <1>4 DEF Receive, OrderInv, HubInv, TypeOK
  <2>2. /\ Len(buf[c]) \in Nat \ {0}
        /\ got'[c] = got[c] \cup {buf[c][1]}
        /\ Len(buf'[c]) = Len(buf[c]) - 1
        /\ \A i \in 1..Len(buf'[c]) : /\ i + 1 \in 2..Len(buf[c])
                                      /\ buf'[c][i] = buf[c][i + 1]
    BY <2>1, TailFacts
  <2>3. \A d \in Conns : Reached(d)' \subseteq Reached(d)
    <3>1. ASSUME NEW d \in Conns, d # c PROVE Reached(d)' = Reached(d)
      BY <2>1, <3>1 DEF Reached
    <3>2. 1 \in 1..Len(buf[c]) /\ \A i \in 1..Len(buf'[c]) : i + 1 \in 1..Len(buf[c])
      BY <2>2
    <3>3. Reached(c)' \subseteq Reached(c)
      BY <2>2, <3>2 DEF Reached
    <3> QED BY <3>1, <3>3
  <2>4. Numbered' BY <1>2, <2>3 DEF OrderInv, Numbered
  <2>5. Owed' BY <1>2 DEF OrderInv, Owed, Msg
  <2>6. InOrder'
    <3> SUFFICES ASSUME NEW d \in Conns
                 PROVE  /\ got'[d] \subseteq due'[d]
                        /\ \A i \in 1..Len(buf'[d]) :
                             /\ buf'[d][i] \in due'[d]
                             /\ \A m \in got'[d] : Before(m, buf'[d][i])
                             /\ \A j \in 1..i - 1 : Before(buf'[d][j], buf'[d][i])
      BY DEF InOrder, Before
    <3>1. CASE d # c BY <1>2, <2>1, <3>1 DEF OrderInv, InOrder
    <3>2. CASE d = c
      <4>1. got'[c] \subseteq due'[c]
        BY <1>2, <2>2 DEF OrderInv, InOrder
      <4>2. ASSUME NEW i \in 1..Len(buf'[c])
            PROVE  /\ buf'[c][i] \in due'[c]
                   /\ \A m \in got'[c] : Before(m, buf'[c][i])
                   /\ \A j \in 1..i - 1 : Before(buf'[c][j], buf'[c][i])
        <5>1. /\ i + 1 \in 1..Len(buf[c]) /\ 1 \in 1..(i + 1) - 1
              /\ buf'[c][i] = buf[c][i + 1]
          BY <2>2
        <5>2. \A j \in 1..i - 1 : /\ j + 1 \in 1..(i + 1) - 1
                                  /\ buf'[c][j] = buf[c][j + 1]
          BY <2>2, <5>1
        <5>3. /\ buf[c][i + 1] \in due[c]
              /\ \A m \in got[c] : Before(m, buf[c][i + 1])
              /\ \A j \in 1..(i + 1) - 1 : Before(buf[c][j], buf[c][i + 1])
          BY <5>1 DEF OrderInv, InOrder
        <5> QED BY <1>2, <2>2, <5>1, <5>2, <5>3
      <4> QED BY <3>2, <4>1, <4>2
    <3> QED BY <3>1, <3>2
  <2> QED BY <1>1, <2>4, <2>5, <2>6 DEF OrderInv
<1>5. Receive(c) \/ UNCHANGED <<buf, got>>
  BY DEF Disconnect, Flushed, Handler, Announce, Subscribe, Notice,
         Unsubscribe, connVars
<1> QED BY <1>3, <1>4, <1>5

\* A publisher enters the range with a new number.
LEMMA OrderEnter ==
  ASSUME OrderInv, HubInv', NEW p \in Publishers, Enter(p), pub[p] # "send",
         UNCHANGED <<buf, got>>,
         \/ pub[p] = "lock" /\ sent' = sent
         \/ sent' = [sent EXCEPT ![p] = @ + 1]
  PROVE  OrderInv'
<1> USE DEF OrderInv, HubInv
<1>1. /\ pub' = [pub EXCEPT ![p] = "send"]
      /\ todo' = [todo EXCEPT ![p] = subs[topic'[p]]]
      /\ \A c \in Conns :
           due'[c] = IF c \in subs[topic'[p]]
                     THEN due[c] \cup {<<p, sent'[p]>>} ELSE due[c]
  BY EnterFacts DEF TypeOK
<1>2. \A q \in Publishers : /\ q # p => /\ sent'[q] = sent[q]
                                        /\ todo'[q] = todo[q]
                                        /\ pub'[q] = pub[q]
                            /\ sent[q] \in Nat /\ sent'[q] \in Nat
  BY <1>1 DEF TypeOK
<1>3. /\ pub[p] = "lock" => sent'[p] >= sent[p]
      /\ pub[p] # "lock" => sent'[p] = sent[p] + 1
      /\ pub'[p] = "send" /\ sent[p] <= sent'[p]
      /\ todo'[p] \subseteq Conns /\ todo'[p] = subs[topic'[p]]
  BY <1>1, <1>2 DEF TypeOK
<1>4. Numbered'
  <2> SUFFICES ASSUME NEW c \in Conns, NEW m \in Reached(c)
               PROVE  /\ m[2] <= sent'[m[1]]
                      /\ pub'[m[1]] = "lock" \/ c \in todo'[m[1]]
                           => m[2] < sent'[m[1]]
    BY DEF Numbered, Reached
  <2>1. m[1] \in Publishers /\ m[2] \in Nat
    BY ReachedFacts
  <2>2. /\ m[2] <= sent[m[1]]
        /\ pub[m[1]] = "lock" \/ c \in todo[m[1]] => m[2] < sent[m[1]]
    BY DEF Numbered
  <2>3. CASE m[1] # p BY <1>2, <2>1, <2>2, <2>3
  <2>4. CASE m[1] = p BY <1>2, <1>3, <2>1, <2>2, <2>4
  <2> QED BY <2>3, <2>4
<1>5. Owed'
  <2> SUFFICES ASSUME NEW q \in Publishers, NEW c \in todo'[q]
               PROVE  <<q, sent'[q]>> \in due'[c]
    BY DEF Owed, Msg
  <2>1. c \in Conns BY DEF TypeOK
  <2>2. CASE q = p BY <1>1, <1>3, <2>1, <2>2
  <2>3. CASE q # p BY <1>1, <1>2, <2>1, <2>3 DEF Owed, Msg
  <2> QED BY <2>2, <2>3
<1>6. InOrder'
  <2>1. \A c \in Conns : due[c] \subseteq due'[c] BY <1>1
  <2> QED BY <2>1 DEF InOrder, Before
<1> QED BY <1>4, <1>5, <1>6

\* A publisher sends its message after all its earlier ones.
LEMMA OrderSend ==
  ASSUME OrderInv, HubInv', NEW p \in Publishers, NEW c \in Conns, Send(p, c)
  PROVE  OrderInv'
<1> USE DEF OrderInv, HubInv
<1> DEFINE old == buf[c]
           m0 == Msg(p)
<1>1. /\ pub[p] = "send" /\ c \in todo[p] /\ UNCHANGED <<got, pub, sent, due>>
      /\ \A d \in Conns : d # c => buf'[d] = buf[d]
      /\ buf'[c] = (IF HasRoom(c) THEN Append(old, m0) ELSE old)
      /\ todo' = [todo EXCEPT ![p] = @ \ {c}]
  BY DEF Send, TypeOK
<1>2. old \in Seq(Message) /\ m0 \in Message /\ m0[1] = p /\ m0[2] = sent[p]
  BY ReachedFacts DEF TypeOK
<1>3. /\ Len(old) \in Nat
      /\ Len(buf'[c]) \in Nat
      /\ \A i \in 1..Len(buf'[c]) :
           \/ i \in 1..Len(old) /\ buf'[c][i] = old[i]
           \/ i = Len(old) + 1 /\ buf'[c][i] = m0
  <2>1. CASE HasRoom(c)
    <3>1. buf'[c] = Append(old, m0) BY <1>1, <2>1
    <3>2. /\ Len(old) \in Nat /\ Len(buf'[c]) = Len(old) + 1
          /\ \A i \in 1..Len(old) : buf'[c][i] = old[i]
          /\ buf'[c][Len(old) + 1] = m0
      BY <1>2, <3>1, AppendFacts
    <3> QED BY <3>2
  <2>2. CASE ~HasRoom(c) BY <1>1, <1>2, <2>2
  <2> QED BY <2>1, <2>2
<1>4. /\ \A d \in Conns : d # c => Reached(d)' = Reached(d)
      /\ Reached(c)' \subseteq Reached(c) \cup {m0}
  <2> HIDE DEF old, m0
  <2>1. \A d \in Conns : d # c => Reached(d)' = Reached(d)
    BY <1>1 DEF Reached
  <2>2. old = buf[c] BY DEF old
  <2> QED BY <1>1, <1>3, <2>1, <2>2 DEF Reached
<1>5. /\ \A q \in Publishers : todo'[q] \subseteq todo[q]
      /\ c \notin todo'[p]
  BY <1>1 DEF TypeOK
<1>6. m0 \in due[c] /\ \A m \in Reached(c) : Before(m, m0)
  <2>1. m0 \in due[c] BY <1>1 DEF Owed
  <2>2. ASSUME NEW m \in Reached(c), m[1] = p PROVE m[2] < sent[p]
    BY <1>1, <2>2 DEF Numbered
  <2> QED BY <1>2, <2>1, <2>2 DEF Before
<1> HIDE DEF old, m0
<1>7. Numbered'
  <2> SUFFICES ASSUME NEW d \in Conns, NEW m \in Reached(d)'
               PROVE  /\ m[2] <= sent[m[1]]
                      /\ pub[m[1]] = "lock" \/ d \in todo'[m[1]]
                           => m[2] < sent[m[1]]
    BY <1>1 DEF Numbered
  <2>1. CASE m \in Reached(d)
    <3>1. m[1] \in Publishers BY <2>1, ReachedFacts
    <3> QED BY <1>5, <2>1, <3>1 DEF Numbered
  <2>2. CASE m \notin Reached(d)
    <3>1. d = c /\ m = m0 BY <1>4, <2>2
    <3>2. sent[p] \in Nat BY DEF TypeOK
    <3> QED BY <1>1, <1>2, <1>5, <3>1, <3>2
  <2> QED BY <2>1, <2>2
<1>8. Owed' BY <1>1, <1>5 DEF Owed, Msg
<1>9. InOrder'
  <2> SUFFICES ASSUME NEW d \in Conns
               PROVE  /\ got[d] \subseteq due[d]
                      /\ \A i \in 1..Len(buf'[d]) :
                           /\ buf'[d][i] \in due[d]
                           /\ \A m \in got[d] : Before(m, buf'[d][i])
                           /\ \A j \in 1..i - 1 : Before(buf'[d][j], buf'[d][i])
    BY <1>1 DEF InOrder, Before
  <2>1. CASE d # c BY <1>1, <2>1 DEF InOrder
  <2>2. CASE d = c
    <3>1. got[c] \subseteq due[c] BY DEF InOrder
    <3>2. ASSUME NEW i \in 1..Len(buf'[c])
          PROVE  /\ buf'[c][i] \in due[c]
                 /\ \A m \in got[c] : Before(m, buf'[c][i])
                 /\ \A j \in 1..i - 1 : Before(buf'[c][j], buf'[c][i])
      <4>1. \A j \in 1..i - 1 : j \in 1..Len(old) /\ buf'[c][j] = old[j]
        BY <1>3
      <4>2. CASE i \in 1..Len(old)
        <5>1. buf'[c][i] = old[i] BY <1>3, <4>2
        <5> QED BY <4>1, <4>2, <5>1 DEF InOrder, old
      <4>3. CASE i = Len(old) + 1
        <5>1. buf'[c][i] = m0 BY <1>3, <4>3
        <5>2. /\ got[c] \subseteq Reached(c)
              /\ \A j \in 1..Len(old) : old[j] \in Reached(c)
          BY DEF Reached, old
        <5> QED BY <1>6, <4>1, <5>1, <5>2
      <4> QED BY <1>3, <4>2, <4>3
    <3> QED BY <2>2, <3>1, <3>2
  <2> QED BY <2>1, <2>2
<1> QED BY <1>7, <1>8, <1>9

\* The steps of publishers keep the order.
LEMMA OrderPub ==
  ASSUME OrderInv, NEW p \in Publishers,
         Publishing(p) \/ \E t \in Topics : Publish(p, t)
  PROVE  OrderInv'
<1>1. HubInv' BY HubPub DEF OrderInv
<1>2. ASSUME NEW t \in Topics, Publish(p, t) PROVE OrderInv'
  <2>1. /\ pub[p] = "idle" /\ sent' = [sent EXCEPT ![p] = @ + 1]
        /\ UNCHANGED <<buf, got>>
    BY <1>2 DEF Publish, connVars
  <2>2. CASE writer = NoConn
    BY <1>1, <1>2, <2>1, <2>2, OrderEnter DEF Publish
  <2>3. CASE writer # NoConn
    <3>1. pub' = [pub EXCEPT ![p] = "lock"] /\ UNCHANGED <<todo, due>>
      BY <1>2, <2>3 DEF Publish
    <3>2. todo[p] = {} BY <2>1 DEF OrderInv, HubInv, Visiting
    <3>3. Numbered'
      <4> SUFFICES ASSUME NEW c \in Conns, NEW m \in Reached(c)
                   PROVE  /\ m[2] <= sent'[m[1]]
                          /\ pub'[m[1]] = "lock" \/ c \in todo[m[1]]
                               => m[2] < sent'[m[1]]
        BY <2>1, <3>1 DEF Numbered, Reached
      <4>1. m[1] \in Publishers /\ m[2] \in Nat
        BY ReachedFacts DEF OrderInv, HubInv
      <4>2. /\ m[2] <= sent[m[1]]
            /\ pub[m[1]] = "lock" \/ c \in todo[m[1]] => m[2] < sent[m[1]]
        BY DEF OrderInv, Numbered
      <4>3. sent[m[1]] \in Nat /\ sent[p] \in Nat
        BY <4>1 DEF OrderInv, HubInv, TypeOK
      <4>4. CASE m[1] = p
        <5>1. sent'[p] = sent[p] + 1
          BY <2>1 DEF OrderInv, HubInv, TypeOK
        <5> QED BY <4>1, <4>2, <4>3, <4>4, <5>1
      <4>5. CASE m[1] # p
        <5>1. sent'[m[1]] = sent[m[1]] /\ pub'[m[1]] = pub[m[1]]
          BY <2>1, <3>1, <4>1, <4>5 DEF OrderInv, HubInv, TypeOK
        <5> QED BY <4>2, <5>1
      <4> QED BY <4>4, <4>5
    <3>4. Owed'
      <4> SUFFICES ASSUME NEW q \in Publishers, NEW c \in todo[q]
                   PROVE  <<q, sent'[q]>> \in due[c]
        BY <3>1 DEF Owed, Msg
      <4>1. q # p BY <3>2
      <4> QED BY <2>1, <4>1 DEF OrderInv, HubInv, TypeOK, Owed, Msg
    <3>5. InOrder' BY <2>1, <3>1 DEF OrderInv, InOrder, Before
    <3> QED BY <1>1, <3>3, <3>4, <3>5 DEF OrderInv
  <2> QED BY <2>2, <2>3
<1>3. CASE Admitted(p)
  BY <1>1, <1>3, OrderEnter DEF Admitted, connVars
<1>4. ASSUME NEW c \in Conns, Send(p, c) PROVE OrderInv'
  BY <1>1, <1>4, OrderSend
<1>5. CASE Published(p)
  <2>1. /\ pub' = [pub EXCEPT ![p] = "idle"]
        /\ UNCHANGED <<buf, got, sent, todo, due>>
    BY <1>5 DEF Published, connVars
  <2>2. Numbered'
    <3> SUFFICES ASSUME NEW c \in Conns, NEW m \in Reached(c)
                 PROVE  /\ m[2] <= sent[m[1]]
                        /\ pub'[m[1]] = "lock" \/ c \in todo[m[1]]
                             => m[2] < sent[m[1]]
      BY <2>1 DEF Numbered, Reached
    <3>1. m[1] \in Publishers BY ReachedFacts DEF OrderInv, HubInv
    <3>2. pub'[m[1]] = "lock" => pub[m[1]] = "lock"
      BY <2>1, <3>1 DEF OrderInv, HubInv, TypeOK
    <3> QED BY <3>2 DEF OrderInv, Numbered
  <2>3. Owed' /\ InOrder'
    BY <2>1 DEF OrderInv, Owed, Msg, InOrder, Before
  <2> QED BY <1>1, <2>2, <2>3 DEF OrderInv
<1> QED BY <1>2, <1>3, <1>4, <1>5 DEF Publishing

\* Every step keeps the order.
LEMMA OrderStep == OrderInv /\ [Next]_vars => OrderInv'
<1>1. ASSUME OrderInv, UNCHANGED vars PROVE OrderInv'
  <2>1. HubInv' BY <1>1, HubStep DEF OrderInv
  <2> QED
    BY <1>1, <2>1 DEF OrderInv, Numbered, Reached, Owed, InOrder, Msg, Before,
                      vars, connVars, pubVars
<1> QED BY <1>1, OrderConn, OrderPub DEF Next

\* A client sees each publisher's messages in the order they were published,
\* none twice and none it was not due, whatever the buffers hold and lose.
THEOREM DeliversInOrder == Spec => []InOrder
<1>1. OrderInv => InOrder
  BY DEF OrderInv
<1> QED BY OrderInit, OrderStep, <1>1, PTL DEF Spec

-----------------------------------------------------------------------------
(* Nothing is missed.                                                      *)

\* Message m is on its way to connection c, or there.
Reaches(c, m) ==
  m \in Reached(c) \/ \E p \in Publishers : c \in todo[p] /\ m = Msg(p)

\* With the invariant of the hub, NothingMissed says just this.
LEMMA MissedIs ==
  ASSUME HubInv
  PROVE  NothingMissed <=> \A c \in Conns \ lagged : \A m \in due[c] : Reaches(c, m)
<1>1. \A p \in Publishers : \A c \in todo[p] : pub[p] = "send"
  BY DEF HubInv, Visiting, TypeOK
<1> QED BY <1>1 DEF NothingMissed, Reaches, Reached

\* Every step brings the messages a connection is due nearer, or records that
\* its buffer was full.
LEMMA MissedStep ==
  ASSUME HubInv, NothingMissed, [Next]_vars
  PROVE  NothingMissed'
<1>1. HubInv' BY HubStep
<1>2. \A c \in Conns \ lagged : \A m \in due[c] : Reaches(c, m)
  BY MissedIs
<1>3. ASSUME \A c \in Conns \ lagged' : \A m \in due'[c] : Reaches(c, m)'
      PROVE  NothingMissed'
  <2>1. \A p \in Publishers : \A c \in todo'[p] : pub'[p] = "send"
    BY <1>1 DEF HubInv, Visiting, TypeOK
  <2> QED BY <1>3, <2>1 DEF NothingMissed, Reaches, Reached
<1>4. CASE UNCHANGED <<buf, got, todo, sent, due, lagged>>
  BY <1>2, <1>3, <1>4 DEF Reaches, Reached, Msg
<1>5. ASSUME NEW c \in Conns, Receive(c) PROVE NothingMissed'
  <2>1. /\ UNCHANGED <<todo, sent, due, lagged>>
        /\ buf[c] \in Seq(Message) /\ buf[c] # <<>>
        /\ \A d \in Conns : d # c => buf'[d] = buf[d] /\ got'[d] = got[d]
        /\ buf'[c] = Tail(buf[c]) /\ got'[c] = got[c] \cup {Head(buf[c])}
    BY <1>5 DEF Receive, HubInv, TypeOK, pubVars
  <2>2. \A d \in Conns : d # c => Reached(d)' = Reached(d)
    BY <2>1 DEF Reached
  <2>3. ASSUME NEW i \in 1..Len(buf[c]) PROVE buf[c][i] \in Reached(c)'
    <3>1. /\ Len(buf[c]) \in Nat \ {0} /\ Head(buf[c]) = buf[c][1]
          /\ Len(buf'[c]) = Len(buf[c]) - 1
          /\ \A j \in 1..Len(buf[c]) - 1 : buf'[c][j] = buf[c][j + 1]
      BY <2>1, TailFacts
    <3>2. CASE i = 1 BY <2>1, <3>1, <3>2 DEF Reached
    <3>3. CASE i # 1
      <4>1. i - 1 \in 1..Len(buf'[c]) /\ buf'[c][i - 1] = buf[c][i]
        BY <3>1, <3>3
      <4> QED BY <4>1 DEF Reached
    <3> QED BY <3>2, <3>3
  <2>4. Reached(c) \subseteq Reached(c)'
    <3>1. got[c] \subseteq Reached(c)' BY <2>1 DEF Reached
    <3> QED BY <2>3, <3>1 DEF Reached
  <2> QED BY <1>2, <1>3, <2>1, <2>2, <2>4 DEF Reaches, Msg
<1>6. ASSUME NEW p \in Publishers, Enter(p), todo[p] = {},
             sent' \in [Publishers -> Nat], topic'[p] \in Topics,
             \A q \in Publishers : q # p => sent'[q] = sent[q],
             UNCHANGED <<buf, got, lagged>>
      PROVE  NothingMissed'
  <2>1. /\ todo' = [todo EXCEPT ![p] = subs[topic'[p]]]
        /\ \A c \in Conns :
             due'[c] = IF c \in subs[topic'[p]]
                       THEN due[c] \cup {<<p, sent'[p]>>} ELSE due[c]
    BY <1>6, EnterFacts DEF HubInv
  <2>2. todo'[p] = subs[topic'[p]]
        /\ \A q \in Publishers : q # p => todo'[q] = todo[q]
    BY <2>1 DEF HubInv, TypeOK
  <2>3. \A c \in Conns : \A m : Reaches(c, m) => Reaches(c, m)'
    BY <1>6, <2>2 DEF Reaches, Reached, Msg
  <2>5. ASSUME NEW c \in Conns \ lagged', NEW m \in due'[c]
        PROVE  Reaches(c, m)'
    <3>1. CASE m \in due[c] BY <1>2, <1>6, <2>3, <3>1
    <3>2. CASE m \notin due[c]
      <4>1. c \in todo'[p] /\ m = Msg(p)' BY <2>1, <2>2, <3>2 DEF Msg
      <4> QED BY <4>1 DEF Reaches
    <3> QED BY <3>1, <3>2
  <2> QED BY <1>3, <2>5
<1>7. ASSUME NEW p \in Publishers, NEW t \in Topics, Publish(p, t)
      PROVE  NothingMissed'
  <2>1. /\ pub[p] = "idle" /\ todo[p] = {} /\ UNCHANGED <<buf, got, lagged>>
        /\ sent' = [sent EXCEPT ![p] = @ + 1] /\ topic'[p] = t
    BY <1>7 DEF Publish, connVars, HubInv, Visiting, TypeOK
  <2>2. /\ sent' \in [Publishers -> Nat]
        /\ \A q \in Publishers : q # p => sent'[q] = sent[q]
    BY <2>1 DEF HubInv, TypeOK
  <2>3. CASE writer = NoConn
    BY <1>6, <1>7, <2>1, <2>2, <2>3 DEF Publish
  <2>4. CASE writer # NoConn
    <3>1. UNCHANGED <<todo, due>> BY <1>7, <2>4 DEF Publish
    <3>2. \A c \in Conns : \A m : Reaches(c, m) => Reaches(c, m)'
      BY <2>1, <2>2, <3>1 DEF Reaches, Reached, Msg
    <3> QED BY <1>2, <1>3, <2>1, <3>1, <3>2
  <2> QED BY <2>3, <2>4
<1>8. ASSUME NEW p \in Publishers, Admitted(p) PROVE NothingMissed'
  <2>1. /\ Enter(p) /\ todo[p] = {} /\ UNCHANGED <<buf, got, lagged, sent, topic>>
    BY <1>8 DEF Admitted, connVars, HubInv, Visiting
  <2>2. sent' \in [Publishers -> Nat] /\ topic'[p] \in Topics
    BY <2>1 DEF HubInv, TypeOK
  <2> QED BY <1>6, <2>1, <2>2
<1>9. ASSUME NEW p \in Publishers, NEW c \in Conns, Send(p, c)
      PROVE  NothingMissed'
  <2>1. /\ UNCHANGED <<got, sent, due>>
        /\ \A d \in Conns : d # c => buf'[d] = buf[d]
        /\ buf'[c] = (IF HasRoom(c) THEN Append(buf[c], Msg(p)) ELSE buf[c])
        /\ todo' = [todo EXCEPT ![p] = @ \ {c}]
        /\ lagged' = IF Len(buf[c]) = Cap THEN lagged \cup {c} ELSE lagged
    BY <1>9 DEF Send, HubInv, TypeOK
  <2>2. /\ buf[c] \in Seq(Message) /\ Msg(p) \in Message /\ Len(buf[c]) <= Cap
    BY ReachedFacts DEF HubInv, TypeOK
  <2>3. /\ Reached(c) \subseteq Reached(c)'
        /\ HasRoom(c) => Msg(p) \in Reached(c)'
    <3>1. CASE HasRoom(c)
      <4>1. buf'[c] = Append(buf[c], Msg(p)) BY <2>1, <3>1
      <4>2. /\ Len(buf[c]) \in Nat /\ Len(buf'[c]) = Len(buf[c]) + 1
            /\ \A i \in 1..Len(buf[c]) : buf'[c][i] = buf[c][i]
            /\ buf'[c][Len(buf[c]) + 1] = Msg(p)
        BY <2>2, <4>1, AppendFacts
      <4> QED BY <2>1, <4>2 DEF Reached
    <3>2. CASE ~HasRoom(c) BY <2>1, <3>2 DEF Reached
    <3> QED BY <3>1, <3>2
  <2>4. \A d \in Conns : d # c => Reached(d)' = Reached(d)
    BY <2>1 DEF Reached
  <2>5. HasRoom(c) \/ c \in lagged'
    <3>1. Len(buf[c]) \in Nat BY <2>2
    <3> QED BY <2>1, <2>2, <3>1, BufferAssumption DEF HasRoom
  <2>6. \A q \in Publishers : todo'[q] = IF q = p THEN todo[p] \ {c} ELSE todo[q]
    BY <2>1 DEF HubInv, TypeOK
  <2>7. ASSUME NEW d \in Conns \ lagged', NEW m \in due'[d]
        PROVE  Reaches(d, m)'
    <3>1. d \notin lagged /\ m \in due[d] BY <2>1
    <3>2. CASE m \in Reached(d) BY <2>3, <2>4, <3>2 DEF Reaches
    <3>3. ASSUME NEW q \in Publishers, d \in todo[q], m = Msg(q)
          PROVE  Reaches(d, m)'
      <4>1. CASE q = p /\ d = c
        BY <2>3, <2>5, <3>3, <4>1 DEF Reaches
      <4>2. CASE ~(q = p /\ d = c)
        <5>1. d \in todo'[q] /\ m = Msg(q)' BY <2>1, <2>6, <3>3, <4>2 DEF Msg
        <5> QED BY <5>1 DEF Reaches
      <4> QED BY <4>1, <4>2
    <3> QED BY <1>2, <3>1, <3>2, <3>3 DEF Reaches
  <2> QED BY <1>3, <2>7
<1>10. ASSUME NEW p \in Publishers, Published(p) PROVE NothingMissed'
  BY <1>4, <1>10 DEF Published, connVars
<1>11. ASSUME NEW c \in Conns, Disconnect(c) \/ Flushed(c) \/ Handler(c)
       PROVE  NothingMissed'
  BY <1>4, <1>11 DEF Disconnect, Flushed, Handler, Announce, Subscribe, Notice,
                     Unsubscribe, pubVars, connVars
<1>12. CASE UNCHANGED vars
  BY <1>4, <1>12 DEF vars, connVars, pubVars
<1> QED
  BY <1>5, <1>7, <1>8, <1>9, <1>10, <1>11, <1>12 DEF Next, Publishing

\* A connection whose buffer was never found full gets every message published
\* to its topic while it was subscribed.
THEOREM MissesNothing == Spec => []NothingMissed
<1>1. Init => NothingMissed
  BY DEF Init, NothingMissed
<1>2. HubInv /\ NothingMissed /\ [Next]_vars => HubInv' /\ NothingMissed'
  BY HubStep, MissedStep
<1> QED BY HubInit, <1>1, <1>2, PTL DEF Spec

=============================================================================
