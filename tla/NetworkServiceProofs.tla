------------------------ MODULE NetworkServiceProofs ------------------------
(***************************************************************************)
(* The network service never sleeps on work, and both ways through it what *)
(* is under way keeps its order and is neither lost nor doubled, for any   *)
(* peers, any topics and any number of network events.                     *)
(***************************************************************************)
EXTENDS NetworkService, TLAPS

\* What is known to be empty at each point of the poll when no wake-up has come
\* since it began: the channel once the first loop is over, the network once the
\* swarm has found nothing there, everything once the poll has returned.
WorkInv ==
    /\ woken \in BOOLEAN
    /\ pc \in {"idle", "recv", "swarm", "behaviour", "last"}
    /\ pc # "idle" => service = "running"
    /\ ~woken /\ service = "running" /\ pc # "recv" => network_recv = <<>>
    /\ ~woken /\ pc = "last" => raw = <<>>
    /\ NoLostWork

\* A new node has nothing to do.
LEMMA InitWork == Init => WorkInv
BY DEF Init, WorkInv, NoLostWork

\* Every step keeps the account.
LEMMA NextWork == WorkInv /\ [Next]_vars => WorkInv'
<1> SUFFICES ASSUME WorkInv, [Next]_vars PROVE WorkInv'
  OBVIOUS
<1> USE DEF WorkInv, NoLostWork
<1>1. ASSUME NEW kind \in RawKinds, NEW p \in Peers,
             NEW topics \in TopicLists \cup {<<>>},
             NetworkEvent(kind, p, topics)
      PROVE  WorkInv'
  BY <1>1 DEF NetworkEvent, channelVars
<1>2. CASE PollService
  BY ZenonT(40), <1>2 DEF PollService, swarmVars, channelVars
<1>3. CASE Recv
  BY <1>3 DEF Recv, taskVars
<1>4. CASE RecvDone
  BY <1>4 DEF RecvDone, swarmVars, channelVars
<1>5. CASE Swarm
  BY <1>5 DEF Swarm, channelVars
<1>6. CASE InjectRPCMessage
  BY <1>6 DEF InjectRPCMessage, Polling, channelVars, taskVars
<1>7. CASE SendEvent
  BY <1>7 DEF SendEvent, Polling, channelVars
<1>8. CASE InjectOther
  BY <1>8 DEF InjectOther, Polling, channelVars, taskVars
<1>9. CASE Libp2pEvent
  BY <1>9 DEF Libp2pEvent, Polling
<1>10. CASE NotReady
  BY <1>10 DEF NotReady, Polling, swarmVars, channelVars
<1>11. CASE Exit
  BY <1>11 DEF Exit, swarmVars
<1>12. CASE on_say_hello
  BY ZenonT(40), <1>12 DEF on_say_hello, Issue, Handled, swarmVars
<1>13. CASE on_rpc
  BY <1>13 DEF on_rpc, Handled, swarmVars, taskVars
<1>14. CASE on_pubsub_message
  <2>1. UNCHANGED <<swarmVars, pc, service>>
    BY <1>14 DEF on_pubsub_message
  <2>2. \/ UNCHANGED <<network_recv, woken>>
        \/ \E kind, p : Issue(kind, p)
    BY <1>14 DEF on_pubsub_message
  <2> QED
    BY ZenonT(40), <2>1, <2>2 DEF Issue, swarmVars
<1>15. CASE UNCHANGED vars
  BY <1>15 DEF vars, swarmVars, channelVars, taskVars
<1> QED
  BY <1>1, <1>2, <1>3, <1>4, <1>5, <1>6, <1>7, <1>8, <1>9, <1>10, <1>11,
     <1>12, <1>13, <1>14, <1>15 DEF Next, ServiceStep, HandlerStep

\* When the network service task is idle and not woken, no channel, behaviour or
\* network event waits for it: its poll() always drains them all before it
\* returns NotReady.
THEOREM NoLostWorkCorrect == Spec => []NoLostWork
<1>1. WorkInv => NoLostWork
  BY DEF WorkInv
<1> QED
  BY InitWork, NextWork, <1>1, PTL DEF Spec

-----------------------------------------------------------------------------
(* What a queue holds when a message is put in or taken out.               *)

Item(e) == [kind |-> e.kind, peer |-> e.peer, n |-> e.n]

\* What is in Items.
LEMMA ItemsAre ==
    ASSUME NEW queue, NEW kinds, NEW x
    PROVE  x \in Items(queue, kinds) <=>
               \E k \in DOMAIN queue : queue[k].kind \in kinds /\ x = Item(queue[k])
BY Zenon DEF Items, Item

\* Append adds its message behind the others.
LEMMA AppendAt ==
    ASSUME NEW S, NEW s \in Seq(S), NEW e \in S
    PROVE  /\ Append(s, e) \in Seq(S)
           /\ Len(s) + 1 \in DOMAIN Append(s, e) /\ Append(s, e)[Len(s) + 1] = e
           /\ \A k \in DOMAIN s : k \in DOMAIN Append(s, e) /\ Append(s, e)[k] = s[k] /\ k < Len(s) + 1
           /\ \A k \in DOMAIN Append(s, e) : \/ k \in DOMAIN s /\ Append(s, e)[k] = s[k]
                                             \/ k = Len(s) + 1 /\ Append(s, e)[k] = e
OBVIOUS

\* Tail takes the first message away.
LEMMA TailAt ==
    ASSUME NEW S, NEW s \in Seq(S), s # <<>>
    PROVE  /\ Tail(s) \in Seq(S) /\ Head(s) \in S
           /\ 1 \in DOMAIN s /\ s[1] = Head(s)
           /\ \A k \in DOMAIN Tail(s) : k + 1 \in DOMAIN s /\ Tail(s)[k] = s[k + 1] /\ 1 < k + 1 /\ k \in Nat
           /\ \A k \in DOMAIN s : k = 1 \/ (k - 1 \in DOMAIN Tail(s) /\ Tail(s)[k - 1] = s[k])
OBVIOUS

\* A queue holds a message after Append if it is the new one or was there.
LEMMA AppendItems ==
    ASSUME NEW S, NEW s \in Seq(S), NEW e \in S, NEW kinds
    PROVE  /\ \A x : x \in Items(Append(s, e), kinds) <=>
                         x \in Items(s, kinds) \/ (e.kind \in kinds /\ x = Item(e))
           /\ Sorted(s, kinds) /\ (e.kind \in kinds => \A x \in Items(s, kinds) : x.n < e.n)
                  => Sorted(Append(s, e), kinds)
<1> DEFINE t == Append(s, e)
<1>1. /\ Len(s) + 1 \in DOMAIN t /\ t[Len(s) + 1] = e
      /\ \A k \in DOMAIN s : k \in DOMAIN t /\ t[k] = s[k] /\ k < Len(s) + 1
      /\ \A k \in DOMAIN t : (k \in DOMAIN s /\ t[k] = s[k]) \/ (k = Len(s) + 1 /\ t[k] = e)
  BY ONLY Zenon, AppendAt, s \in Seq(S), e \in S
<1>2. /\ Len(s) + 1 \in Nat /\ ~(Len(s) + 1 < Len(s) + 1)
      /\ \A k \in DOMAIN s : k \in Nat /\ ~(Len(s) + 1 < k)
  OBVIOUS
<1> HIDE DEF t
<1>3. ASSUME NEW x
      PROVE  x \in Items(t, kinds) <=> x \in Items(s, kinds) \/ (e.kind \in kinds /\ x = Item(e))
  <2>1. x \in Items(t, kinds) <=> \E k \in DOMAIN t : t[k].kind \in kinds /\ x = Item(t[k])
    BY ONLY Zenon DEF Items, Item
  <2>2. x \in Items(s, kinds) <=> \E k \in DOMAIN s : s[k].kind \in kinds /\ x = Item(s[k])
    BY ONLY Zenon DEF Items, Item
  <2> QED
    BY ONLY Zenon, <1>1, <2>1, <2>2
<1>4. ASSUME Sorted(s, kinds), e.kind \in kinds => \A x \in Items(s, kinds) : x.n < e.n PROVE Sorted(t, kinds)
  <2> SUFFICES ASSUME NEW j \in DOMAIN t, NEW k \in DOMAIN t, j < k, t[j].kind \in kinds, t[k].kind \in kinds
               PROVE  t[j].n < t[k].n
    BY Zenon DEF Sorted
  <2>1. j \in DOMAIN s /\ t[j] = s[j]
    BY Zenon, <1>1, <1>2
  <2>2. CASE k \in DOMAIN s /\ t[k] = s[k]
    BY Zenon, <1>4, <2>1, <2>2 DEF Sorted
  <2>3. CASE t[k] = e
    <3>1. Item(s[j]) \in Items(s, kinds)
      BY Zenon, <2>1, ItemsAre
    <3>2. Item(s[j]).n = s[j].n
      BY DEF Item
    <3> QED
      BY Zenon, <1>4, <2>1, <2>3, <3>1, <3>2
  <2> QED
    BY Zenon, <1>1, <2>2, <2>3
<1> QED
  BY Zenon, <1>3, <1>4 DEF t

\* A queue holds a message if it is the first or there after Tail.
LEMMA TailItems ==
    ASSUME NEW S, NEW s \in Seq(S), s # <<>>, NEW kinds
    PROVE  /\ \A x : x \in Items(s, kinds) <=>
                         x \in Items(Tail(s), kinds) \/ (Head(s).kind \in kinds /\ x = Item(Head(s)))
           /\ Sorted(s, kinds) => /\ Sorted(Tail(s), kinds)
                                  /\ Head(s).kind \in kinds => \A x \in Items(Tail(s), kinds) : Head(s).n < x.n
<1> DEFINE t == Tail(s)
           e == Head(s)
<1>1. /\ 1 \in DOMAIN s /\ s[1] = e
      /\ \A k \in DOMAIN t : k + 1 \in DOMAIN s /\ t[k] = s[k + 1] /\ 1 < k + 1 /\ k \in Nat
      /\ \A k \in DOMAIN s : k = 1 \/ (k - 1 \in DOMAIN t /\ t[k - 1] = s[k])
  BY ONLY Zenon, TailAt, s \in Seq(S), s # <<>>
<1> HIDE DEF t, e
<1>2. ASSUME NEW x
      PROVE  x \in Items(s, kinds) <=> x \in Items(t, kinds) \/ (e.kind \in kinds /\ x = Item(e))
  <2>1. x \in Items(t, kinds) <=> \E k \in DOMAIN t : t[k].kind \in kinds /\ x = Item(t[k])
    BY ONLY Zenon DEF Items, Item
  <2>2. x \in Items(s, kinds) <=> \E k \in DOMAIN s : s[k].kind \in kinds /\ x = Item(s[k])
    BY ONLY Zenon DEF Items, Item
  <2> QED
    BY ONLY Zenon, <1>1, <2>1, <2>2
<1>3. ASSUME Sorted(s, kinds) PROVE Sorted(t, kinds)
  <2> SUFFICES ASSUME NEW j \in DOMAIN t, NEW k \in DOMAIN t, j < k, t[j].kind \in kinds, t[k].kind \in kinds
               PROVE  t[j].n < t[k].n
    BY Zenon DEF Sorted
  <2>1. j + 1 < k + 1
    BY <1>1
  <2> QED
    BY Zenon, <1>1, <1>3, <2>1 DEF Sorted
<1>4. ASSUME Sorted(s, kinds), e.kind \in kinds, NEW x \in Items(t, kinds) PROVE e.n < x.n
  <2>1. PICK k \in DOMAIN t : t[k].kind \in kinds /\ x = Item(t[k])
    BY ONLY Zenon, <1>4 DEF Items, Item
  <2>2. x.n = t[k].n
    BY <2>1 DEF Item
  <2> QED
    BY Zenon, <1>1, <1>4, <2>1, <2>2 DEF Sorted
<1> QED
  BY Zenon, <1>2, <1>3, <1>4 DEF t, e

-----------------------------------------------------------------------------
(* Queues in a row.                                                        *)

\* The queue t holds what s holds, of some kinds, and in order if s does.
Same(s, t, kinds) ==
    Items(t, kinds) = Items(s, kinds) /\ (Sorted(s, kinds) => Sorted(t, kinds))

\* The other kinds come and go unseen.
LEMMA SameQueue ==
    ASSUME NEW S, NEW s \in Seq(S), NEW kinds
    PROVE  /\ Same(s, s, kinds)
           /\ \A e \in S : e.kind \notin kinds => Same(s, Append(s, e), kinds)
           /\ s # <<>> /\ Head(s).kind \notin kinds => Same(s, Tail(s), kinds)
<1>1. ASSUME NEW e \in S, e.kind \notin kinds PROVE Same(s, Append(s, e), kinds)
  <2>1. \A x : x \in Items(Append(s, e), kinds) <=> x \in Items(s, kinds)
    BY Zenon, <1>1, AppendItems
  <2>2. Sorted(s, kinds) => Sorted(Append(s, e), kinds)
    BY Zenon, <1>1, AppendItems
  <2> QED
    BY Zenon, <2>1, <2>2 DEF Same
<1>2. ASSUME s # <<>>, Head(s).kind \notin kinds PROVE Same(s, Tail(s), kinds)
  <2>1. \A x : x \in Items(Tail(s), kinds) <=> x \in Items(s, kinds)
    BY Zenon, <1>2, TailItems
  <2>2. Sorted(s, kinds) => Sorted(Tail(s), kinds)
    BY Zenon, <1>2, TailItems
  <2> QED
    BY Zenon, <2>1, <2>2 DEF Same
<1> QED
  BY Zenon, <1>1, <1>2 DEF Same

\* A row in which every queue holds what it held.
LEMMA SameRow ==
    ASSUME NEW row, NEW new, NEW kinds, DOMAIN new = DOMAIN row,
           \A a \in DOMAIN row : Same(row[a], new[a], kinds)
    PROVE  /\ Ordered(row, kinds) => Ordered(new, kinds)
           /\ \A log, more : Items(more, kinds) = Items(log, kinds) /\ Complete(row, kinds, log)
                                 => Complete(new, kinds, more)
<1>1. Ordered(row, kinds) => Ordered(new, kinds)
  BY Zenon DEF Same, Ordered
<1>2. ASSUME NEW log, NEW more, Items(more, kinds) = Items(log, kinds), Complete(row, kinds, log)
      PROVE  Complete(new, kinds, more)
  BY Zenon, <1>2 DEF Same, Complete
<1> QED
  BY Zenon, <1>1, <1>2

\* A message moves from a queue to the one before it.
LEMMA MoveRow ==
    ASSUME NEW S, NEW row, NEW new, NEW kinds, DOMAIN new = DOMAIN row, DOMAIN row \subseteq Nat,
           NEW a \in DOMAIN row, a + 1 \in DOMAIN row, row[a] \in Seq(S), row[a + 1] \in Seq(S),
           row[a + 1] # <<>>, new[a] = Append(row[a], Head(row[a + 1])), new[a + 1] = Tail(row[a + 1]),
           \A b \in DOMAIN row : b # a /\ b # a + 1 => Same(row[b], new[b], kinds)
    PROVE  /\ Ordered(row, kinds) => Ordered(new, kinds)
           /\ \A log : Complete(row, kinds, log) => Complete(new, kinds, log)
<1> DEFINE h == Head(row[a + 1])
           r == h.kind \in kinds
           I(b) == Items(row[b], kinds)
           J(b) == Items(new[b], kinds)
<1>1. h \in S
  BY Zenon, TailAt
<1>2. \A x : x \in J(a) <=> x \in I(a) \/ (r /\ x = Item(h))
  <2>1. \A x : x \in Items(Append(row[a], h), kinds) <=>
                  x \in Items(row[a], kinds) \/ (h.kind \in kinds /\ x = Item(h))
    <3> HIDE DEF h
    <3> QED
      BY ONLY Zenon, <1>1, row[a] \in Seq(S), AppendItems
  <2> QED
    BY Zenon, <2>1
<1>3. \A x : x \in I(a + 1) <=> x \in J(a + 1) \/ (r /\ x = Item(h))
  BY Zenon, TailItems
<1>4. /\ Sorted(row[a], kinds) /\ (r => \A x \in I(a) : x.n < h.n) => Sorted(new[a], kinds)
      /\ Sorted(row[a + 1], kinds) => Sorted(new[a + 1], kinds) /\ (r => \A x \in J(a + 1) : h.n < x.n)
  <2>1. Sorted(row[a], kinds) /\ (r => \A x \in I(a) : x.n < h.n) => Sorted(new[a], kinds)
    BY Zenon, <1>1, AppendItems
  <2>2. Sorted(row[a + 1], kinds) => Sorted(new[a + 1], kinds) /\ (r => \A x \in J(a + 1) : h.n < x.n)
    BY Zenon, TailItems
  <2> QED
    BY Zenon, <2>1, <2>2
<1>5. \A b \in DOMAIN row : b # a /\ b # a + 1 => J(b) = I(b) /\ (Sorted(row[b], kinds) => Sorted(new[b], kinds))
  BY Zenon DEF Same
<1>6. Item(h).n = h.n
  BY DEF Item
<1>7. a \in Nat /\ a < a + 1 /\ \A b \in DOMAIN row : /\ b < a => b < a + 1
                                                     /\ a < b /\ b # a + 1 => a + 1 < b
                                                     /\ ~(b < b)
  OBVIOUS
<1> HIDE DEF h, r, I, J
<1>8. ASSUME Ordered(row, kinds) PROVE Ordered(new, kinds)
  <2>1. /\ \A b \in DOMAIN row : Sorted(row[b], kinds)
        /\ \A b, c \in DOMAIN row : b < c => \A x \in I(b), y \in I(c) : x.n < y.n
    BY Zenon, <1>8 DEF Ordered, I
  <2>2. r => \A x \in I(a) : x.n < h.n
    BY Zenon, <2>1, <1>3, <1>6, <1>7
  <2>3. \A b \in DOMAIN row : Sorted(new[b], kinds)
    BY Zenon, <2>1, <2>2, <1>4, <1>5
  <2>4. ASSUME NEW b \in DOMAIN row, NEW c \in DOMAIN row, b < c, NEW x \in J(b), NEW y \in J(c) PROVE x.n < y.n
    <3>1. x \in I(b) \/ (b = a /\ r /\ x = Item(h) /\ x \in I(a + 1))
      BY Zenon, <1>2, <1>3, <1>5
    <3>2. y \in I(c) \/ (c = a /\ y \in I(a + 1))
      BY Zenon, <1>2, <1>3, <1>5
    <3>3. CASE x \in I(b)
      <4>1. CASE y \in I(c)
        BY Zenon, <2>1, <2>4, <3>3, <4>1
      <4>2. CASE c = a /\ y \in I(a + 1)
        <5>1. b < a + 1
          BY <2>4, <4>2, <1>7
        <5> QED
          BY Zenon, <2>1, <3>3, <4>2, <5>1
      <4> QED
        BY Zenon, <3>2, <4>1, <4>2
    <3>4. CASE b = a /\ r /\ x = Item(h) /\ x \in I(a + 1)
      <4>1. CASE c = a + 1
        BY Zenon, <4>1, <3>4, <2>1, <1>4, <1>6
      <4>2. CASE c # a + 1
        <5>1. a + 1 < c /\ c # a
          BY <4>2, <2>4, <3>4, <1>7
        <5> QED
          BY Zenon, <5>1, <2>1, <3>2, <3>4
      <4> QED
        BY Zenon, <4>1, <4>2
    <3> QED
      BY Zenon, <3>1, <3>3, <3>4
  <2> QED
    BY Zenon, <2>3, <2>4 DEF Ordered, J
<1>9. ASSUME NEW log, Complete(row, kinds, log) PROVE Complete(new, kinds, log)
  <2>1. /\ \A x \in Items(log, kinds) : \E b \in DOMAIN row : x \in I(b)
        /\ \A b \in DOMAIN row : I(b) \subseteq Items(log, kinds)
    BY Zenon, <1>9 DEF Complete, I
  <2>2. ASSUME NEW x \in Items(log, kinds) PROVE \E b \in DOMAIN row : x \in J(b)
    <3>1. PICK b \in DOMAIN row : x \in I(b)
      BY Zenon, <2>1
    <3> QED
      BY Zenon, <3>1, <1>2, <1>3, <1>5
  <2>3. ASSUME NEW b \in DOMAIN row PROVE J(b) \subseteq Items(log, kinds)
    BY Zenon, <2>1, <1>2, <1>3, <1>5
  <2> QED
    BY Zenon, <2>2, <2>3 DEF Complete, J
<1> QED
  BY Zenon, <1>8, <1>9

\* A message enters the last queue of the row: order asks that its number is higher
\* than those in the row, and completeness that it is entered in the log.
LEMMA NewRow ==
    ASSUME NEW S, NEW row, NEW new, NEW kinds, DOMAIN new = DOMAIN row, DOMAIN row \subseteq Nat,
           NEW z \in DOMAIN row, \A b \in DOMAIN row : ~(z < b),
           row[z] \in Seq(S), NEW e \in S, new[z] = Append(row[z], e),
           \A b \in DOMAIN row : b # z => Same(row[b], new[b], kinds)
    PROVE  /\ Ordered(row, kinds) /\ (e.kind \in kinds => \A b \in DOMAIN row : \A x \in Items(row[b], kinds) : x.n < e.n)
                  => Ordered(new, kinds)
           /\ \A log \in Seq(S) : Complete(row, kinds, log) => Complete(new, kinds, Append(log, e))
<1> DEFINE r == e.kind \in kinds
           I(b) == Items(row[b], kinds)
           J(b) == Items(new[b], kinds)
<1>1. /\ \A x : x \in J(z) <=> x \in I(z) \/ (r /\ x = Item(e))
      /\ Sorted(row[z], kinds) /\ (r => \A x \in I(z) : x.n < e.n) => Sorted(new[z], kinds)
  BY Zenon, AppendItems
<1>2. \A b \in DOMAIN row : b # z => J(b) = I(b) /\ (Sorted(row[b], kinds) => Sorted(new[b], kinds))
  BY Zenon DEF Same
<1>3. Item(e).n = e.n
  BY DEF Item
<1> HIDE DEF r, I, J
<1>4. ASSUME Ordered(row, kinds), r => \A b \in DOMAIN row : \A x \in I(b) : x.n < e.n PROVE Ordered(new, kinds)
  <2>1. /\ \A b \in DOMAIN row : Sorted(row[b], kinds)
        /\ \A b, c \in DOMAIN row : b < c => \A x \in I(b), y \in I(c) : x.n < y.n
    BY Zenon, <1>4 DEF Ordered, I
  <2>2. \A b \in DOMAIN row : Sorted(new[b], kinds)
    BY Zenon, <1>1, <1>2, <1>4, <2>1
  <2>3. ASSUME NEW b \in DOMAIN row, NEW c \in DOMAIN row, b < c, NEW x \in J(b), NEW y \in J(c) PROVE x.n < y.n
    <3>1. b # z /\ x \in I(b)
      BY Zenon, <2>3, <1>2
    <3>2. y \in I(c) \/ (r /\ y = Item(e))
      BY Zenon, <1>1, <1>2
    <3> QED
      BY Zenon, <3>1, <3>2, <2>1, <2>3, <1>3, <1>4
  <2> QED
    BY Zenon, <2>2, <2>3 DEF Ordered, J
<1>5. ASSUME NEW log \in Seq(S), Complete(row, kinds, log) PROVE Complete(new, kinds, Append(log, e))
  <2> DEFINE L == Items(log, kinds)
             M == Items(Append(log, e), kinds)
  <2>1. \A x : x \in M <=> x \in L \/ (r /\ x = Item(e))
    BY Zenon, AppendItems DEF r
  <2>2. /\ \A x \in L : \E b \in DOMAIN row : x \in I(b)
        /\ \A b \in DOMAIN row : I(b) \subseteq L
    BY Zenon, <1>5 DEF Complete, I
  <2> HIDE DEF L, M
  <2>3. ASSUME NEW x \in M PROVE \E b \in DOMAIN row : x \in J(b)
    BY Zenon, <2>1, <2>2, <1>1, <1>2
  <2>4. ASSUME NEW b \in DOMAIN row PROVE J(b) \subseteq M
    BY Zenon, <2>1, <2>2, <1>1, <1>2
  <2> QED
    BY Zenon, <2>3, <2>4 DEF Complete, J, M
<1> QED
  BY Zenon, <1>4, <1>5 DEF r, I

-----------------------------------------------------------------------------
(* The way of what peers send, and the way of the requests.                *)

\* handled, handler_recv, events, the queue of a behaviour and the network, in order;
\* all but the network hold what the swarm has taken.
Deliver(h, q, e, x, w, log, kinds) ==
    Ordered(<<h, q, e, x, w>>, kinds) /\ Complete(<<h, q, e, x>>, kinds, log)

\* The requests given to the swarm, rpc_events and network_recv, in order; they hold what
\* was issued.
Leave(g, x, r, log, kinds) ==
    Ordered(<<g, x, r>>, kinds) /\ Complete(<<g, x, r>>, kinds, log)

Things == Event \cup Request

\* Every queue holds what it held.
LEMMA DeliverSame ==
    ASSUME NEW K, NEW h, NEW q, NEW e, NEW x, NEW w, NEW log,
           NEW h1, NEW q1, NEW e1, NEW x1, NEW w1, NEW log1,
           Same(h, h1, K), Same(q, q1, K), Same(e, e1, K), Same(x, x1, K), Same(w, w1, K),
           Items(log1, K) = Items(log, K), Deliver(h, q, e, x, w, log, K)
    PROVE  Deliver(h1, q1, e1, x1, w1, log1, K)
<1> DEFINE row == <<h, q, e, x, w>>
           new == <<h1, q1, e1, x1, w1>>
           body == <<h, q, e, x>>
           after == <<h1, q1, e1, x1>>
<1>1. DOMAIN new = DOMAIN row /\ \A a \in DOMAIN row : Same(row[a], new[a], K)
  OBVIOUS
<1>2. DOMAIN after = DOMAIN body /\ \A a \in DOMAIN body : Same(body[a], after[a], K)
  OBVIOUS
<1> HIDE DEF row, new, body, after
<1>3. Ordered(row, K) => Ordered(new, K)
  BY ONLY Zenon, <1>1, SameRow
<1>4. Complete(body, K, log) => Complete(after, K, log1)
  BY ONLY Zenon, <1>2, SameRow, Items(log1, K) = Items(log, K)
<1> QED
  BY Zenon, <1>3, <1>4 DEF Deliver, row, new, body, after

\* The message handler is done with a message.
LEMMA DeliverHandled ==
    ASSUME NEW K, NEW h \in Seq(Things), NEW q \in Seq(Things), NEW e, NEW x, NEW w, NEW log,
           q # <<>>, Deliver(h, q, e, x, w, log, K)
    PROVE  Deliver(Append(h, Head(q)), Tail(q), e, x, w, log, K)
<1> DEFINE row == <<h, q, e, x, w>>
           new == <<Append(h, Head(q)), Tail(q), e, x, w>>
           body == <<h, q, e, x>>
           after == <<Append(h, Head(q)), Tail(q), e, x>>
<1>1. /\ DOMAIN new = DOMAIN row /\ DOMAIN row \subseteq Nat /\ 1 \in DOMAIN row /\ 1 + 1 \in DOMAIN row
      /\ row[1] \in Seq(Things) /\ row[1 + 1] \in Seq(Things) /\ row[1 + 1] # <<>>
      /\ new[1] = Append(row[1], Head(row[1 + 1])) /\ new[1 + 1] = Tail(row[1 + 1])
      /\ \A b \in DOMAIN row : b # 1 /\ b # 1 + 1 => Same(row[b], new[b], K)
  BY DEF Same
<1>2. /\ DOMAIN after = DOMAIN body /\ DOMAIN body \subseteq Nat /\ 1 \in DOMAIN body /\ 1 + 1 \in DOMAIN body
      /\ body[1] \in Seq(Things) /\ body[1 + 1] \in Seq(Things) /\ body[1 + 1] # <<>>
      /\ after[1] = Append(body[1], Head(body[1 + 1])) /\ after[1 + 1] = Tail(body[1 + 1])
      /\ \A b \in DOMAIN body : b # 1 /\ b # 1 + 1 => Same(body[b], after[b], K)
  BY DEF Same
<1> HIDE DEF row, new, body, after
<1>3. Ordered(row, K) => Ordered(new, K)
  BY ONLY Zenon, <1>1, MoveRow
<1>4. Complete(body, K, log) => Complete(after, K, log)
  BY ONLY Zenon, <1>2, MoveRow
<1> QED
  BY Zenon, <1>3, <1>4 DEF Deliver, row, new, body, after

\* Libp2pService::poll passes an event on to the message handler.
LEMMA DeliverEvent ==
    ASSUME NEW K, NEW h, NEW q \in Seq(Things), NEW e \in Seq(Things), NEW x, NEW w, NEW log,
           e # <<>>, Deliver(h, q, e, x, w, log, K)
    PROVE  Deliver(h, Append(q, Head(e)), Tail(e), x, w, log, K)
<1> DEFINE row == <<h, q, e, x, w>>
           new == <<h, Append(q, Head(e)), Tail(e), x, w>>
           body == <<h, q, e, x>>
           after == <<h, Append(q, Head(e)), Tail(e), x>>
<1>1. /\ DOMAIN new = DOMAIN row /\ DOMAIN row \subseteq Nat /\ 2 \in DOMAIN row /\ 2 + 1 \in DOMAIN row
      /\ row[2] \in Seq(Things) /\ row[2 + 1] \in Seq(Things) /\ row[2 + 1] # <<>>
      /\ new[2] = Append(row[2], Head(row[2 + 1])) /\ new[2 + 1] = Tail(row[2 + 1])
      /\ \A b \in DOMAIN row : b # 2 /\ b # 2 + 1 => Same(row[b], new[b], K)
  BY DEF Same
<1>2. /\ DOMAIN after = DOMAIN body /\ DOMAIN body \subseteq Nat /\ 2 \in DOMAIN body /\ 2 + 1 \in DOMAIN body
      /\ body[2] \in Seq(Things) /\ body[2 + 1] \in Seq(Things) /\ body[2 + 1] # <<>>
      /\ after[2] = Append(body[2], Head(body[2 + 1])) /\ after[2 + 1] = Tail(body[2 + 1])
      /\ \A b \in DOMAIN body : b # 2 /\ b # 2 + 1 => Same(body[b], after[b], K)
  BY DEF Same
<1> HIDE DEF row, new, body, after
<1>3. Ordered(row, K) => Ordered(new, K)
  BY ONLY Zenon, <1>1, MoveRow
<1>4. Complete(body, K, log) => Complete(after, K, log)
  BY ONLY Zenon, <1>2, MoveRow
<1> QED
  BY Zenon, <1>3, <1>4 DEF Deliver, row, new, body, after

\* Behaviour::inject_event passes an event on.
LEMMA DeliverInjected ==
    ASSUME NEW K, NEW h, NEW q, NEW e \in Seq(Things), NEW x \in Seq(Things), NEW w, NEW log,
           x # <<>>, Deliver(h, q, e, x, w, log, K)
    PROVE  Deliver(h, q, Append(e, Head(x)), Tail(x), w, log, K)
<1> DEFINE row == <<h, q, e, x, w>>
           new == <<h, q, Append(e, Head(x)), Tail(x), w>>
           body == <<h, q, e, x>>
           after == <<h, q, Append(e, Head(x)), Tail(x)>>
<1>1. /\ DOMAIN new = DOMAIN row /\ DOMAIN row \subseteq Nat /\ 3 \in DOMAIN row /\ 3 + 1 \in DOMAIN row
      /\ row[3] \in Seq(Things) /\ row[3 + 1] \in Seq(Things) /\ row[3 + 1] # <<>>
      /\ new[3] = Append(row[3], Head(row[3 + 1])) /\ new[3 + 1] = Tail(row[3 + 1])
      /\ \A b \in DOMAIN row : b # 3 /\ b # 3 + 1 => Same(row[b], new[b], K)
  BY DEF Same
<1>2. /\ DOMAIN after = DOMAIN body /\ DOMAIN body \subseteq Nat /\ 3 \in DOMAIN body /\ 3 + 1 \in DOMAIN body
      /\ body[3] \in Seq(Things) /\ body[3 + 1] \in Seq(Things) /\ body[3 + 1] # <<>>
      /\ after[3] = Append(body[3], Head(body[3 + 1])) /\ after[3 + 1] = Tail(body[3 + 1])
      /\ \A b \in DOMAIN body : b # 3 /\ b # 3 + 1 => Same(body[b], after[b], K)
  BY DEF Same
<1> HIDE DEF row, new, body, after
<1>3. Ordered(row, K) => Ordered(new, K)
  BY ONLY Zenon, <1>1, MoveRow
<1>4. Complete(body, K, log) => Complete(after, K, log)
  BY ONLY ZenonT(40), <1>2, MoveRow
<1> QED
  BY Zenon, <1>3, <1>4 DEF Deliver, row, new, body, after

\* The swarm takes a network event into the queue of a behaviour.
LEMMA DeliverTaken ==
    ASSUME NEW K, NEW h, NEW q, NEW e, NEW x \in Seq(Things), NEW w \in Seq(Things), NEW log \in Seq(Things),
           w # <<>>, Deliver(h, q, e, x, w, log, K)
    PROVE  Deliver(h, q, e, Append(x, Head(w)), Tail(w), Append(log, Head(w)), K)
<1> DEFINE row == <<h, q, e, x, w>>
           new == <<h, q, e, Append(x, Head(w)), Tail(w)>>
           body == <<h, q, e, x>>
           after == <<h, q, e, Append(x, Head(w))>>
<1>1. /\ DOMAIN new = DOMAIN row /\ DOMAIN row \subseteq Nat /\ 4 \in DOMAIN row /\ 4 + 1 \in DOMAIN row
      /\ row[4] \in Seq(Things) /\ row[4 + 1] \in Seq(Things) /\ row[4 + 1] # <<>>
      /\ new[4] = Append(row[4], Head(row[4 + 1])) /\ new[4 + 1] = Tail(row[4 + 1])
      /\ \A b \in DOMAIN row : b # 4 /\ b # 4 + 1 => Same(row[b], new[b], K)
  BY DEF Same
<1>2. Head(w) \in Things
  BY Zenon, TailAt
<1>3. /\ DOMAIN after = DOMAIN body /\ DOMAIN body \subseteq Nat /\ 4 \in DOMAIN body
      /\ \A b \in DOMAIN body : ~(4 < b)
      /\ body[4] \in Seq(Things) /\ after[4] = Append(body[4], Head(w))
      /\ \A b \in DOMAIN body : b # 4 => Same(body[b], after[b], K)
  BY DEF Same
<1> HIDE DEF row, new, body, after
<1>4. Ordered(row, K) => Ordered(new, K)
  BY ONLY Zenon, <1>1, MoveRow
<1>5. Complete(body, K, log) => Complete(after, K, Append(log, Head(w)))
  BY ONLY ZenonT(40), <1>2, <1>3, log \in Seq(Things), NewRow
<1> QED
  BY Zenon, <1>4, <1>5 DEF Deliver, row, new, body, after

\* The network brings an event, with a number higher than all in the row.
LEMMA DeliverArrived ==
    ASSUME NEW K, NEW h, NEW q, NEW e, NEW x, NEW w \in Seq(Things), NEW log, NEW m \in Things,
           \A y \in Items(log, K) : y.n < m.n, \A y \in Items(w, K) : y.n < m.n,
           Deliver(h, q, e, x, w, log, K)
    PROVE  Deliver(h, q, e, x, Append(w, m), log, K)
<1> DEFINE row == <<h, q, e, x, w>>
           new == <<h, q, e, x, Append(w, m)>>
           body == <<h, q, e, x>>
<1>1. /\ DOMAIN new = DOMAIN row /\ DOMAIN row \subseteq Nat /\ 5 \in DOMAIN row
      /\ \A b \in DOMAIN row : ~(5 < b)
      /\ row[5] \in Seq(Things) /\ new[5] = Append(row[5], m)
      /\ \A b \in DOMAIN row : b # 5 => Same(row[b], new[b], K)
  BY DEF Same
<1>2. \A b \in DOMAIN row : row[b] = w \/ (b \in DOMAIN body /\ row[b] = body[b])
  OBVIOUS
<1> HIDE DEF row, new, body
<1>3. \A b \in DOMAIN row : \A y \in Items(row[b], K) : y.n < m.n
  <2>1. \A b \in DOMAIN body : Items(body[b], K) \subseteq Items(log, K)
    BY Zenon DEF Deliver, Complete, body
  <2> QED
    BY Zenon, <1>2, <2>1
<1>4. Ordered(row, K) => Ordered(new, K)
  BY ONLY ZenonT(40), <1>1, <1>3, m \in Things, NewRow
<1> QED
  BY Zenon, <1>4 DEF Deliver, row, new

\* Every queue holds the requests it held.
LEMMA LeaveSame ==
    ASSUME NEW K, NEW g, NEW x, NEW r, NEW log, NEW g1, NEW x1, NEW r1,
           Same(g, g1, K), Same(x, x1, K), Same(r, r1, K), Leave(g, x, r, log, K)
    PROVE  Leave(g1, x1, r1, log, K)
<1> DEFINE row == <<g, x, r>>
           new == <<g1, x1, r1>>
<1>1. DOMAIN new = DOMAIN row /\ \A a \in DOMAIN row : Same(row[a], new[a], K)
  OBVIOUS
<1> HIDE DEF row, new
<1>2. Ordered(row, K) => Ordered(new, K)
  BY ONLY Zenon, <1>1, SameRow
<1>3. Complete(row, K, log) => Complete(new, K, log)
  BY ONLY Zenon, <1>1, SameRow
<1> QED
  BY Zenon, <1>2, <1>3 DEF Leave, row, new

\* RPC::poll gives a request to the swarm.
LEMMA LeaveSent ==
    ASSUME NEW K, NEW g \in Seq(Things), NEW x \in Seq(Things), NEW r, NEW log,
           x # <<>>, Leave(g, x, r, log, K)
    PROVE  Leave(Append(g, Head(x)), Tail(x), r, log, K)
<1> DEFINE row == <<g, x, r>>
           new == <<Append(g, Head(x)), Tail(x), r>>
<1>1. /\ DOMAIN new = DOMAIN row /\ DOMAIN row \subseteq Nat /\ 1 \in DOMAIN row /\ 1 + 1 \in DOMAIN row
      /\ row[1] \in Seq(Things) /\ row[1 + 1] \in Seq(Things) /\ row[1 + 1] # <<>>
      /\ new[1] = Append(row[1], Head(row[1 + 1])) /\ new[1 + 1] = Tail(row[1 + 1])
      /\ \A b \in DOMAIN row : b # 1 /\ b # 1 + 1 => Same(row[b], new[b], K)
  BY DEF Same
<1> HIDE DEF row, new
<1>2. Ordered(row, K) => Ordered(new, K)
  BY ONLY Zenon, <1>1, MoveRow
<1>3. Complete(row, K, log) => Complete(new, K, log)
  BY ONLY Zenon, <1>1, MoveRow
<1> QED
  BY Zenon, <1>2, <1>3 DEF Leave, row, new

\* The network service takes a request from the channel.
LEMMA LeaveReceived ==
    ASSUME NEW K, NEW g, NEW x \in Seq(Things), NEW r \in Seq(Things), NEW log,
           r # <<>>, Leave(g, x, r, log, K)
    PROVE  Leave(g, Append(x, Head(r)), Tail(r), log, K)
<1> DEFINE row == <<g, x, r>>
           new == <<g, Append(x, Head(r)), Tail(r)>>
<1>1. /\ DOMAIN new = DOMAIN row /\ DOMAIN row \subseteq Nat /\ 2 \in DOMAIN row /\ 2 + 1 \in DOMAIN row
      /\ row[2] \in Seq(Things) /\ row[2 + 1] \in Seq(Things) /\ row[2 + 1] # <<>>
      /\ new[2] = Append(row[2], Head(row[2 + 1])) /\ new[2 + 1] = Tail(row[2 + 1])
      /\ \A b \in DOMAIN row : b # 2 /\ b # 2 + 1 => Same(row[b], new[b], K)
  BY DEF Same
<1> HIDE DEF row, new
<1>2. Ordered(row, K) => Ordered(new, K)
  BY ONLY Zenon, <1>1, MoveRow
<1>3. Complete(row, K, log) => Complete(new, K, log)
  BY ONLY Zenon, <1>1, MoveRow
<1> QED
  BY Zenon, <1>2, <1>3 DEF Leave, row, new

\* The message handler issues a request, with a number higher than those before.
LEMMA LeaveIssued ==
    ASSUME NEW K, NEW g, NEW x, NEW r \in Seq(Things), NEW log \in Seq(Things), NEW m \in Things,
           \A y \in Items(log, K) : y.n < m.n, Leave(g, x, r, log, K)
    PROVE  Leave(g, x, Append(r, m), Append(log, m), K)
<1> DEFINE row == <<g, x, r>>
           new == <<g, x, Append(r, m)>>
<1>1. /\ DOMAIN new = DOMAIN row /\ DOMAIN row \subseteq Nat /\ 3 \in DOMAIN row
      /\ \A b \in DOMAIN row : ~(3 < b)
      /\ row[3] \in Seq(Things) /\ new[3] = Append(row[3], m)
      /\ \A b \in DOMAIN row : b # 3 => Same(row[b], new[b], K)
  BY DEF Same
<1> HIDE DEF row, new
<1>2. \A b \in DOMAIN row : \A y \in Items(row[b], K) : y.n < m.n
  BY Zenon DEF Leave, Complete, row
<1>3. Ordered(row, K) => Ordered(new, K)
  BY ONLY ZenonT(40), <1>1, <1>2, m \in Things, NewRow
<1>4. Complete(row, K, log) => Complete(new, K, Append(log, m))
  BY ONLY Zenon, <1>1, m \in Things, log \in Seq(Things), NewRow
<1> QED
  BY Zenon, <1>3, <1>4 DEF Leave, row, new

-----------------------------------------------------------------------------
(* The types of the queues.                                                *)

\* At first the queues are empty.
LEMMA InitType == Init => TypeOK
BY NetworkAssumption DEF Init, TypeOK

\* A message that is put in or taken out keeps the type of the queue.
LEMMA SeqType ==
    ASSUME NEW S, NEW s \in Seq(S)
    PROVE  /\ \A e \in S : Append(s, e) \in Seq(S)
           /\ s # <<>> => Tail(s) \in Seq(S) /\ Head(s) \in S
           /\ <<>> \in Seq(S)
OBVIOUS

\* So does a first message that is changed in place.
LEMMA SetFirst ==
    ASSUME NEW S, NEW s \in Seq(S), 1 \in DOMAIN s, NEW e \in S
    PROVE  /\ [s EXCEPT ![1] = e] \in Seq(S) /\ DOMAIN [s EXCEPT ![1] = e] = DOMAIN s
           /\ [s EXCEPT ![1] = e][1] = e /\ \A k \in DOMAIN s : k # 1 => [s EXCEPT ![1] = e][k] = s[k]
OBVIOUS

\* on_pubsub_message goes on to the next topic.
LEMMA CutType ==
    ASSUME NEW m \in Event, m.topics # <<>>
    PROVE  [m EXCEPT !.topics = Tail(m.topics)] \in Event
<1>1. m.topics \in Seq(Topics)
  BY DEF Event
<1>2. Tail(m.topics) \in Seq(Topics)
  BY Zenon, <1>1, TailAt
<1> QED
  BY Zenon, <1>2 DEF Event

\* Every step keeps the types: requests and network events share RPC.events, but only
\* network events leave it upwards, and only requests towards the peers.
LEMMA NextType == TypeOK /\ [Next]_vars => TypeOK'
<1> SUFFICES ASSUME TypeOK, [Next]_vars PROVE TypeOK'
  BY Zenon
<1>0. /\ raw \in Seq(Event) /\ others \in Seq(Event) /\ events \in Seq(Event)
      /\ rpc_events \in Seq(Things) /\ network_recv \in Seq(Request) /\ handler_recv \in Seq(Event)
      /\ taken \in Seq(Event) /\ handled \in Seq(Event) /\ issued \in Seq(Request)
      /\ sent \in Seq([req : Request, up : BOOLEAN])
  BY Zenon DEF TypeOK, Things
<1>k. /\ \A m \in Things : m.kind \in AllRawKinds => m \in Event
      /\ \A m \in Things : m.kind \in RequestKinds => m \in Request
      /\ \A m \in Event : m \in Things /\ m.peer \in Peers
      /\ \A m \in Request : m \in Things
  <2>1. \A m \in Event : m.kind \in AllRawKinds /\ m.peer \in Peers
    BY DEF Event
  <2>2. \A m \in Request : m.kind \in RequestKinds
    BY DEF Request
  <2>3. \A kind \in RequestKinds : kind \notin AllRawKinds
    BY DEF AllRawKinds, RequestKinds
  <2> QED
    BY Zenon, <2>1, <2>2, <2>3 DEF Things
<1>1. ASSUME NEW kind \in RawKinds, NEW p \in Peers, NEW topics \in TopicLists \cup {<<>>},
             NetworkEvent(kind, p, topics)
      PROVE  TypeOK'
  <2> DEFINE m == [kind |-> kind, peer |-> p, topics |-> topics, n |-> nraw + 1]
  <2>1. nraw \in 0..MaxRaw /\ nraw < MaxRaw /\ nraw' = nraw + 1
    BY Zenon, <1>1 DEF NetworkEvent, TypeOK
  <2>2. nraw' \in 0..MaxRaw /\ nraw + 1 \in Nat
    BY <2>1, NetworkAssumption
  <2>3. kind \in AllRawKinds /\ topics \in Seq(Topics)
    <3>1. <<>> \in Seq(Topics)
      OBVIOUS
    <3> QED
      BY Zenon, <3>1, NetworkAssumption
  <2>4. m \in Event
    BY <2>2, <2>3 DEF Event
  <2> HIDE DEF m
  <2>5. raw' \in Seq(Event)
    BY Zenon, <1>0, <1>1, <2>4, SeqType DEF NetworkEvent, m
  <2> QED
    BY Zenon, <1>1, <2>2, <2>5 DEF NetworkEvent, TypeOK, channelVars
<1>2. CASE PollService \/ RecvDone \/ NotReady
  BY Zenon, <1>2 DEF PollService, RecvDone, NotReady, TypeOK, swarmVars, channelVars
<1>3. CASE Recv
  <2>1. Head(network_recv) \in Request /\ Tail(network_recv) \in Seq(Request)
    BY Zenon, <1>0, <1>3, SeqType DEF Recv
  <2>2. Append(rpc_events, Head(network_recv)) \in Seq(Things)
    BY Zenon, <1>0, <1>k, <2>1, SeqType
  <2> QED
    BY Zenon, <1>3, <2>1, <2>2 DEF Recv, TypeOK, taskVars, Things
<1>4. CASE Swarm
  <2>1. CASE raw = <<>>
    BY Zenon, <1>4, <2>1 DEF Swarm, TypeOK, channelVars
  <2>2. CASE raw # <<>>
    <3>1. Head(raw) \in Event /\ Tail(raw) \in Seq(Event)
      BY Zenon, <1>0, <2>2, SeqType
    <3>2. /\ Append(rpc_events, Head(raw)) \in Seq(Things) /\ Append(others, Head(raw)) \in Seq(Event)
          /\ Append(taken, Head(raw)) \in Seq(Event) /\ Head(raw).peer \in Peers
      BY Zenon, <1>0, <1>k, <3>1, SeqType
    <3>3. raw' = Tail(raw) /\ pc' = "behaviour"
          /\ UNCHANGED <<events, sent, channelVars, woken, service, handler, nraw, handled, issued>>
      BY Zenon, <1>4, <2>2 DEF Swarm
    <3>4. /\ rpc_events' \in {rpc_events, Append(rpc_events, Head(raw))}
          /\ others' \in {others, Append(others, Head(raw))}
          /\ taken' \in {taken, Append(taken, Head(raw))}
          /\ connected' \in {connected, connected \cup {Head(raw).peer}, connected \ {Head(raw).peer}}
      BY Zenon, <1>4, <2>2 DEF Swarm
    <3>5. connected' \subseteq Peers
      BY Zenon, <3>2, <3>4 DEF TypeOK
    <3>6. rpc_events' \in Seq(Things) /\ others' \in Seq(Event) /\ taken' \in Seq(Event)
      BY Zenon, <1>0, <3>2, <3>4
    <3> QED
      BY Zenon, <3>1, <3>3, <3>5, <3>6 DEF TypeOK, channelVars, Things
  <2> QED
    BY Zenon, <2>1, <2>2
<1>5. CASE InjectRPCMessage
  <2>1. /\ rpc_events # <<>> /\ Head(rpc_events).kind \in AllRawKinds /\ rpc_events' = Tail(rpc_events)
        /\ events' \in {events, Append(events, Head(rpc_events))}
        /\ UNCHANGED <<raw, connected, others, taken, sent, channelVars, taskVars, nraw, handled, issued>>
    BY Zenon, <1>5 DEF InjectRPCMessage
  <2>2. rpc_events' \in Seq(Things) /\ Head(rpc_events) \in Event
    BY Zenon, <1>0, <1>k, <2>1, SeqType
  <2>3. events' \in Seq(Event)
    <3>1. Append(events, Head(rpc_events)) \in Seq(Event)
      BY Zenon, <1>0, <2>2, SeqType
    <3> QED
      BY Zenon, <1>0, <2>1, <3>1
  <2> QED
    BY Zenon, <2>1, <2>2, <2>3 DEF TypeOK, channelVars, taskVars, Things
<1>6. CASE SendEvent
  <2> DEFINE m == [req |-> Head(rpc_events), up |-> Head(rpc_events).peer \in connected]
  <2>1. /\ rpc_events # <<>> /\ Head(rpc_events).kind \in RequestKinds /\ rpc_events' = Tail(rpc_events)
        /\ sent' = Append(sent, m) /\ pc' = "swarm"
        /\ UNCHANGED <<raw, connected, others, events, taken, channelVars, woken, service, handler, nraw, handled,
                       issued>>
    BY Zenon, <1>6 DEF SendEvent
  <2>2. rpc_events' \in Seq(Things) /\ Head(rpc_events) \in Request
    BY Zenon, <1>0, <1>k, <2>1, SeqType
  <2>3. m \in [req : Request, up : BOOLEAN]
    BY <2>2
  <2> HIDE DEF m
  <2>4. sent' \in Seq([req : Request, up : BOOLEAN])
    BY Zenon, <1>0, <2>1, <2>3, SeqType
  <2> QED
    BY Zenon, <2>1, <2>2, <2>4 DEF TypeOK, channelVars, Things
<1>7. CASE InjectOther
  <2>1. /\ others # <<>> /\ others' = Tail(others) /\ events' \in {events, Append(events, Head(others))}
        /\ UNCHANGED <<raw, connected, rpc_events, taken, sent, channelVars, taskVars, nraw, handled, issued>>
    BY Zenon, <1>7 DEF InjectOther
  <2>2. others' \in Seq(Event) /\ Head(others) \in Event
    BY Zenon, <1>0, <2>1, SeqType
  <2>3. events' \in Seq(Event)
    <3>1. Append(events, Head(others)) \in Seq(Event)
      BY Zenon, <1>0, <2>2, SeqType
    <3> QED
      BY Zenon, <1>0, <2>1, <3>1
  <2> QED
    BY Zenon, <2>1, <2>2, <2>3 DEF TypeOK, channelVars, taskVars
<1>8. CASE Libp2pEvent
  <2>1. /\ events # <<>> /\ events' = Tail(events) /\ pc' = "swarm"
        /\ handler_recv' \in {handler_recv, Append(handler_recv, Head(events))}
        /\ UNCHANGED <<raw, connected, rpc_events, others, taken, sent, network_recv, woken, service, handler, nraw,
                       handled, issued>>
    BY Zenon, <1>8 DEF Libp2pEvent
  <2>2. events' \in Seq(Event) /\ Head(events) \in Event
    BY Zenon, <1>0, <2>1, SeqType
  <2>3. handler_recv' \in Seq(Event)
    <3>1. Append(handler_recv, Head(events)) \in Seq(Event)
      BY Zenon, <1>0, <2>2, SeqType
    <3> QED
      BY Zenon, <1>0, <2>1, <3>1
  <2> QED
    BY Zenon, <2>1, <2>2, <2>3 DEF TypeOK
<1>9. CASE Exit
  <2>1. network_recv' \in Seq(Request)
    BY Zenon, <1>0, <1>9, SeqType DEF Exit
  <2> QED
    BY Zenon, <1>9, <2>1 DEF Exit, TypeOK, swarmVars
<1>10. ASSUME NEW kind \in RequestKinds, NEW p \in Peers, Issue(kind, p)
       PROVE  network_recv' \in Seq(Request) /\ issued' \in Seq(Request) /\ woken' \in BOOLEAN
  <2> DEFINE m == [kind |-> kind, peer |-> p, n |-> Len(issued) + 1]
  <2>1. m \in Request
    BY <1>0 DEF Request
  <2>2. \/ network_recv' = Append(network_recv, m) /\ issued' = Append(issued, m) /\ woken' = TRUE
        \/ UNCHANGED <<network_recv, issued, woken>>
    BY Zenon, <1>10 DEF Issue
  <2> HIDE DEF m
  <2>3. Append(network_recv, m) \in Seq(Request) /\ Append(issued, m) \in Seq(Request)
    BY Zenon, <1>0, <2>1, SeqType
  <2> QED
    BY Zenon, <1>0, <2>2, <2>3 DEF TypeOK
<1>11. handler_recv # <<>> =>
           /\ Head(handler_recv) \in Event /\ Tail(handler_recv) \in Seq(Event) /\ Head(handler_recv).peer \in Peers
           /\ Append(handled, Head(handler_recv)) \in Seq(Event)
  BY Zenon, <1>0, <1>k, SeqType
<1>12. CASE on_say_hello \/ on_rpc
  <2>1. /\ handler_recv # <<>> /\ handler_recv' = Tail(handler_recv)
        /\ handled' = Append(handled, Head(handler_recv))
        /\ UNCHANGED <<swarmVars, pc, service, handler, nraw>>
        /\ Issue("Status", Head(handler_recv).peer) \/ UNCHANGED <<network_recv, issued, woken>>
    BY Zenon, <1>12 DEF on_say_hello, on_rpc, Handling, Handled, taskVars
  <2>2. network_recv' \in Seq(Request) /\ issued' \in Seq(Request) /\ woken' \in BOOLEAN
    BY Zenon, <1>10, <1>11, <2>1 DEF TypeOK, RequestKinds
  <2> QED
    BY Zenon, <1>11, <2>1, <2>2 DEF TypeOK, swarmVars
<1>13. CASE on_pubsub_message
  <2> DEFINE m == Head(handler_recv)
             cut == [handler_recv EXCEPT ![1].topics = Tail(@)]
  <2>1. /\ handler_recv # <<>>
        /\ UNCHANGED <<swarmVars, pc, service, nraw>>
        /\ handled' \in {handled, Append(handled, m)}
        /\ handler' \in {handler, "panicked"}
        /\ handler_recv' \in {Tail(handler_recv), <<>>} \/ (m.topics # <<>> /\ handler_recv' = cut)
        /\ Issue("BlockSync", m.peer) \/ UNCHANGED <<network_recv, issued, woken>>
    BY Zenon, <1>13 DEF on_pubsub_message, Handling, Handled
  <2>2. network_recv' \in Seq(Request) /\ issued' \in Seq(Request) /\ woken' \in BOOLEAN
    BY Zenon, <1>10, <1>11, <2>1 DEF TypeOK, RequestKinds
  <2>3. m.topics # <<>> => cut \in Seq(Event)
    <3>1. 1 \in DOMAIN handler_recv /\ handler_recv[1] = m
      BY Zenon, <1>0, <2>1, TailAt
    <3> SUFFICES ASSUME m.topics # <<>> PROVE cut \in Seq(Event)
      BY Zenon
    <3>2. cut = [handler_recv EXCEPT ![1] = [m EXCEPT !.topics = Tail(m.topics)]]
      <4>1. cut = [handler_recv EXCEPT ![1] = [handler_recv[1] EXCEPT !.topics = Tail(handler_recv[1].topics)]]
        BY Zenon
      <4> QED
        BY Zenon, <3>1, <4>1
    <3>3. [m EXCEPT !.topics = Tail(m.topics)] \in Event
      BY Zenon, <1>11, <2>1, CutType
    <3> QED
      BY ZenonT(40), <1>0, <3>1, <3>2, <3>3, SetFirst
  <2>4. handler_recv' \in Seq(Event) /\ handled' \in Seq(Event)
    BY Zenon, <1>0, <1>11, <2>1, <2>3, SeqType
  <2> QED
    BY Zenon, <2>1, <2>2, <2>4 DEF TypeOK, swarmVars
<1>14. CASE UNCHANGED vars
  BY Zenon, <1>14 DEF vars, swarmVars, channelVars, taskVars, TypeOK
<1> QED
  BY Zenon, <1>1, <1>2, <1>3, <1>4, <1>5, <1>6, <1>7, <1>8, <1>9, <1>12, <1>13, <1>14
     DEF Next, ServiceStep, HandlerStep

-----------------------------------------------------------------------------
(* The numbers.                                                            *)

Bounded(queue, m) == \A k \in DOMAIN queue : queue[k].n <= m

\* Numbers are given in turn: the network's to the events it brings, the message
\* handler's to the requests it issues.
NumberInv == Bounded(raw, nraw) /\ Bounded(taken, nraw) /\ Bounded(issued, Len(issued))

\* What is in the queues, by type.
LEMMA QueueTypes ==
    ASSUME TypeOK
    PROVE  /\ raw \in Seq(Event) /\ others \in Seq(Event) /\ events \in Seq(Event)
           /\ rpc_events \in Seq(Things) /\ network_recv \in Seq(Request) /\ handler_recv \in Seq(Event)
           /\ taken \in Seq(Event) /\ handled \in Seq(Event) /\ issued \in Seq(Request)
           /\ raw \in Seq(Things) /\ others \in Seq(Things) /\ events \in Seq(Things)
           /\ network_recv \in Seq(Things) /\ handler_recv \in Seq(Things)
           /\ taken \in Seq(Things) /\ handled \in Seq(Things) /\ issued \in Seq(Things)
           /\ nraw \in Nat /\ Len(issued) \in Nat
<1>1. \A s : s \in Seq(Event) \/ s \in Seq(Request) => s \in Seq(Things)
  BY DEF Things
<1>2. /\ raw \in Seq(Event) /\ others \in Seq(Event) /\ events \in Seq(Event)
      /\ rpc_events \in Seq(Things) /\ network_recv \in Seq(Request) /\ handler_recv \in Seq(Event)
      /\ taken \in Seq(Event) /\ handled \in Seq(Event) /\ issued \in Seq(Request)
  BY Zenon DEF TypeOK, Things
<1>3. nraw \in Nat /\ Len(issued) \in Nat
  BY NetworkAssumption DEF TypeOK
<1> QED
  BY Zenon, <1>1, <1>2, <1>3

\* Bounds go up with the counter.
LEMMA BoundedNext ==
    ASSUME NEW s \in Seq(Things), NEW m \in Nat, Bounded(s, m)
    PROVE  /\ Bounded(s, m + 1)
           /\ \A e \in Things : e.n <= m => Bounded(Append(s, e), m)
           /\ \A e \in Things : e.n = m + 1 => Bounded(Append(s, e), m + 1)
           /\ s # <<>> => Bounded(Tail(s), m) /\ Head(s).n <= m
           /\ \A K : \A x \in Items(s, K) : x.n < m + 1
<1>0. \A k \in DOMAIN s : s[k] \in Things
  OBVIOUS
<1>1. \A e \in Things : e.n \in Nat
  BY DEF Things, Event, Request
<1>2. Bounded(s, m + 1)
  BY <1>0, <1>1 DEF Bounded
<1>3. ASSUME NEW e \in Things, NEW b, Bounded(s, b), e.n <= b PROVE Bounded(Append(s, e), b)
  <2>1. \A k \in DOMAIN Append(s, e) : (k \in DOMAIN s /\ Append(s, e)[k] = s[k]) \/ Append(s, e)[k] = e
    BY AppendAt
  <2> QED
    BY Zenon, <1>3, <2>1 DEF Bounded
<1>4. \A e \in Things : e.n = m + 1 => Bounded(Append(s, e), m + 1)
  <2>1. \A e \in Things : e.n = m + 1 => e.n <= m + 1
    BY <1>1
  <2> QED
    BY Zenon, <1>2, <1>3, <2>1
<1>5. ASSUME s # <<>> PROVE Bounded(Tail(s), m) /\ Head(s).n <= m
  <2>1. /\ 1 \in DOMAIN s /\ s[1] = Head(s)
        /\ \A k \in DOMAIN Tail(s) : k + 1 \in DOMAIN s /\ Tail(s)[k] = s[k + 1]
    BY Zenon, <1>5, TailAt
  <2> QED
    BY Zenon, <2>1 DEF Bounded
<1>6. ASSUME NEW K, NEW x \in Items(s, K) PROVE x.n < m + 1
  <2>1. PICK k \in DOMAIN s : x = Item(s[k])
    BY Zenon, <1>6 DEF Items, Item
  <2>2. x.n = s[k].n
    BY <2>1 DEF Item
  <2>3. s[k].n \in Nat /\ s[k].n <= m
    BY Zenon, <1>0, <1>1 DEF Bounded
  <2> QED
    BY <2>2, <2>3
<1> QED
  BY Zenon, <1>2, <1>3, <1>4, <1>5, <1>6

\* Every step keeps the numbers within what has been given.
LEMMA NextNumber == TypeOK /\ NumberInv /\ [Next]_vars => NumberInv'
<1> SUFFICES ASSUME TypeOK, NumberInv, [Next]_vars PROVE NumberInv'
  BY Zenon
<1>0. /\ raw \in Seq(Things) /\ taken \in Seq(Things) /\ issued \in Seq(Things) /\ issued \in Seq(Request)
      /\ nraw \in Nat /\ Len(issued) \in Nat /\ raw \in Seq(Event) /\ handler_recv \in Seq(Event)
  BY Zenon, QueueTypes
<1>1. CASE UNCHANGED <<raw, taken, nraw, issued>>
  BY Zenon, <1>1 DEF NumberInv, Bounded
<1>2. ASSUME NEW kind \in RawKinds, NEW p \in Peers, NEW topics \in TopicLists \cup {<<>>},
             NetworkEvent(kind, p, topics)
      PROVE  NumberInv'
  <2> DEFINE m == [kind |-> kind, peer |-> p, topics |-> topics, n |-> nraw + 1]
  <2>1. raw' = Append(raw, m) /\ nraw' = nraw + 1 /\ UNCHANGED <<taken, issued>>
    BY Zenon, <1>2 DEF NetworkEvent
  <2>2. m \in Things
    <3>1. <<>> \in Seq(Topics) /\ nraw + 1 \in Nat
      BY <1>0
    <3>2. kind \in AllRawKinds /\ topics \in Seq(Topics)
      BY Zenon, <3>1, NetworkAssumption
    <3> QED
      BY <3>1, <3>2 DEF Event, Things
  <2>3. m.n = nraw + 1
    OBVIOUS
  <2> HIDE DEF m
  <2>4. Bounded(raw', nraw') /\ Bounded(taken', nraw')
    BY Zenon, <1>0, <2>1, <2>2, <2>3, BoundedNext DEF NumberInv
  <2> QED
    BY Zenon, <2>1, <2>4 DEF NumberInv, Bounded
<1>3. CASE Swarm
  <2>1. CASE raw = <<>>
    BY Zenon, <1>1, <1>3, <2>1 DEF Swarm
  <2>2. CASE raw # <<>>
    <3>1. raw' = Tail(raw) /\ taken' \in {taken, Append(taken, Head(raw))} /\ UNCHANGED <<nraw, issued>>
      BY Zenon, <1>3, <2>2 DEF Swarm
    <3>2. Bounded(Tail(raw), nraw) /\ Head(raw).n <= nraw /\ Head(raw) \in Things
      BY Zenon, <1>0, <2>2, BoundedNext, TailAt DEF NumberInv
    <3>3. Bounded(taken, nraw) /\ Bounded(Append(taken, Head(raw)), nraw)
      BY Zenon, <1>0, <3>2, BoundedNext DEF NumberInv
    <3> QED
      BY Zenon, <3>1, <3>2, <3>3 DEF NumberInv, Bounded
  <2> QED
    BY Zenon, <2>1, <2>2
<1>4. ASSUME NEW kind \in RequestKinds, NEW p \in Peers, Issue(kind, p), UNCHANGED <<raw, taken, nraw>>
      PROVE  NumberInv'
  <2> DEFINE m == [kind |-> kind, peer |-> p, n |-> Len(issued) + 1]
  <2>1. issued' = Append(issued, m) \/ issued' = issued
    BY Zenon, <1>4 DEF Issue
  <2>2. m \in Things /\ m \in Request /\ m.n = Len(issued) + 1
    BY <1>0 DEF Things, Request
  <2> HIDE DEF m
  <2>3. Len(Append(issued, m)) = Len(issued) + 1
    BY <1>0, <2>2
  <2>4. Bounded(Append(issued, m), Len(issued) + 1)
    BY Zenon, <1>0, <2>2, BoundedNext DEF NumberInv
  <2> QED
    BY Zenon, <1>4, <2>1, <2>3, <2>4 DEF NumberInv, Bounded
<1>5. CASE on_say_hello \/ on_pubsub_message
  <2>1. handler_recv # <<>> /\ UNCHANGED <<raw, taken, nraw>>
        /\ \/ issued' = issued
           \/ \E kind \in RequestKinds : Issue(kind, Head(handler_recv).peer)
    BY Zenon, <1>5 DEF on_say_hello, on_pubsub_message, Handling, swarmVars, RequestKinds
  <2>2. Head(handler_recv).peer \in Peers
    <3>1. Head(handler_recv) \in Event
      BY Zenon, <1>0, <2>1, TailAt
    <3> QED
      BY <3>1 DEF Event
  <2> QED
    BY Zenon, <1>1, <1>4, <2>1, <2>2
<1>6. CASE \/ PollService \/ Recv \/ RecvDone \/ InjectRPCMessage \/ SendEvent \/ InjectOther \/ Libp2pEvent
           \/ NotReady \/ on_rpc \/ Exit \/ UNCHANGED vars
  BY Zenon, <1>1, <1>6 DEF PollService, Recv, RecvDone, InjectRPCMessage, SendEvent, InjectOther, Libp2pEvent,
                          NotReady, on_rpc, Exit, vars, swarmVars
<1> QED
  BY Zenon, <1>2, <1>3, <1>5, <1>6 DEF Next, ServiceStep, HandlerStep

-----------------------------------------------------------------------------
(* What peers sent reaches the message handler in order.                   *)

\* The two streams of DeliveredInOrder.
Delivered ==
    /\ Deliver(handled, handler_recv, events, rpc_events, raw, taken, {"RPC"})
    /\ Deliver(handled, handler_recv, events, others, raw, taken, {"Gossip"})

\* DeliveredInOrder in the terms of the lemmas on rows.
LEMMA DeliveredIs == DeliveredInOrder <=> (handler = "running" => Delivered)
BY Zenon DEF DeliveredInOrder, Delivered, Deliver

\* A queue is as it was, or gained or lost a message of another kind.
Unseen(s, t, kinds) ==
    \/ t = s
    \/ \E e \in Things : e.kind \notin kinds /\ t = Append(s, e)
    \/ s # <<>> /\ Head(s).kind \notin kinds /\ t = Tail(s)

\* Then it holds the same of the kinds looked at.
LEMMA UnseenSame ==
    ASSUME NEW s \in Seq(Things), NEW t, NEW kinds, Unseen(s, t, kinds)
    PROVE  Same(s, t, kinds)
BY Zenon, SameQueue DEF Unseen

\* A step in which no queue gains or loses a message of some kinds.
LEMMA DeliverUnseen ==
    ASSUME NEW K, TypeOK, NEW x \in Seq(Things), NEW x1, Unseen(x, x1, K),
           Unseen(handled, handled', K), Unseen(handler_recv, handler_recv', K), Unseen(events, events', K),
           Unseen(raw, raw', K), Unseen(taken, taken', K),
           Deliver(handled, handler_recv, events, x, raw, taken, K)
    PROVE  Deliver(handled', handler_recv', events', x1, raw', taken', K)
<1>1. /\ handled \in Seq(Things) /\ handler_recv \in Seq(Things) /\ events \in Seq(Things)
      /\ raw \in Seq(Things) /\ taken \in Seq(Things)
  BY Zenon, QueueTypes
<1>2. /\ Same(handled, handled', K) /\ Same(handler_recv, handler_recv', K) /\ Same(events, events', K)
      /\ Same(x, x1, K) /\ Same(raw, raw', K) /\ Same(taken, taken', K)
  BY Zenon, <1>1, UnseenSame
<1>3. Items(taken', K) = Items(taken, K)
  BY Zenon, <1>2 DEF Same
<1> QED
  BY ONLY Zenon, <1>2, <1>3, Deliver(handled, handler_recv, events, x, raw, taken, K), DeliverSame

\* on_pubsub_message takes a topic off the message in front, which stays the message it is.
LEMMA SameCut ==
    ASSUME TypeOK, handler_recv # <<>>, Head(handler_recv).topics # <<>>, NEW K
    PROVE  Same(handler_recv, [handler_recv EXCEPT ![1].topics = Tail(@)], K)
<1> DEFINE s == handler_recv
           c == [s[1] EXCEPT !.topics = Tail(s[1].topics)]
           t == [s EXCEPT ![1] = c]
<1>1. s \in Seq(Event) /\ s # <<>>
  BY Zenon, QueueTypes
<1>2. 1 \in DOMAIN s /\ s[1] = Head(s) /\ s[1] \in Event
  BY Zenon, <1>1, TailAt
<1>3. c \in Event
  BY Zenon, <1>2, CutType
<1>4. c.kind = s[1].kind /\ c.peer = s[1].peer /\ c.n = s[1].n
  BY <1>2 DEF Event
<1>5. [handler_recv EXCEPT ![1].topics = Tail(@)] = t
  BY Zenon
<1> HIDE DEF c
<1>6. DOMAIN t = DOMAIN s /\ t[1] = c /\ \A k \in DOMAIN s : k # 1 => t[k] = s[k]
  BY ONLY Zenon, <1>1, <1>2, <1>3, SetFirst
<1> HIDE DEF s, t
<1>7. \A k \in DOMAIN s : t[k].kind = s[k].kind /\ t[k].peer = s[k].peer /\ t[k].n = s[k].n
  BY Zenon, <1>2, <1>4, <1>6
<1>8. \A k \in DOMAIN s : Item(t[k]) = Item(s[k])
  BY Zenon, <1>7 DEF Item
<1>9. \A x : x \in Items(t, K) <=> x \in Items(s, K)
  <2> TAKE x
  <2>1. x \in Items(t, K) <=> \E k \in DOMAIN t : t[k].kind \in K /\ x = Item(t[k])
    BY Zenon DEF Items, Item
  <2>2. x \in Items(s, K) <=> \E k \in DOMAIN s : s[k].kind \in K /\ x = Item(s[k])
    BY Zenon DEF Items, Item
  <2> QED
    BY ONLY Zenon, <1>6, <1>7, <1>8, <2>1, <2>2
<1>10. Sorted(s, K) => Sorted(t, K)
  BY Zenon, <1>6, <1>7 DEF Sorted
<1> QED
  BY Zenon, <1>5, <1>9, <1>10 DEF Same, s

\* Every step of the network, the network service and the message handler keeps the two
\* streams in order and complete, while the message handler runs.
LEMMA NextDelivered == TypeOK /\ NumberInv /\ DeliveredInOrder /\ [Next]_vars => DeliveredInOrder'
<1> SUFFICES ASSUME TypeOK, NumberInv, handler = "running" => Delivered, [Next]_vars, handler' = "running"
             PROVE  Delivered'
  BY Zenon, DeliveredIs DEF DeliveredInOrder, Delivered, Deliver
<1> DEFINE R == {"RPC"}
           G == {"Gossip"}
<1>0. \A k : (k \in R <=> k = "RPC") /\ (k \in G <=> k = "Gossip")
  OBVIOUS
<1>t. /\ raw \in Seq(Things) /\ others \in Seq(Things) /\ events \in Seq(Things) /\ rpc_events \in Seq(Things)
      /\ network_recv \in Seq(Things) /\ handler_recv \in Seq(Things) /\ taken \in Seq(Things)
      /\ handled \in Seq(Things) /\ nraw \in Nat
  BY Zenon, QueueTypes
<1>h. handler = "running"
  BY Zenon DEF Next, ServiceStep, HandlerStep, NetworkEvent, PollService, Recv, RecvDone, Swarm, InjectRPCMessage,
               SendEvent, InjectOther, Libp2pEvent, NotReady, Exit, on_say_hello, on_rpc, on_pubsub_message,
               Handling, vars, taskVars
<1>d. /\ Deliver(handled, handler_recv, events, rpc_events, raw, taken, R)
      /\ Deliver(handled, handler_recv, events, others, raw, taken, G)
  BY Zenon, <1>h DEF Delivered
<1>g. \A k \in RequestKinds : k # "RPC" /\ k # "Gossip"
  BY DEF RequestKinds
<1>q. SUFFICES /\ Deliver(handled', handler_recv', events', rpc_events', raw', taken', R)
               /\ Deliver(handled', handler_recv', events', others', raw', taken', G)
  BY Zenon DEF Delivered
<1> HIDE DEF R, G
<1>1. CASE UNCHANGED <<handled, handler_recv, events, rpc_events, others, raw, taken>>
  BY Zenon, <1>d, <1>1
<1>2. ASSUME NEW kind \in RawKinds, NEW p \in Peers, NEW topics \in TopicLists \cup {<<>>},
             NetworkEvent(kind, p, topics)
      PROVE  /\ Deliver(handled', handler_recv', events', rpc_events', raw', taken', R)
             /\ Deliver(handled', handler_recv', events', others', raw', taken', G)
  <2> DEFINE m == [kind |-> kind, peer |-> p, topics |-> topics, n |-> nraw + 1]
  <2>1. raw' = Append(raw, m) /\ UNCHANGED <<handled, handler_recv, events, rpc_events, others, taken>>
    BY Zenon, <1>2 DEF NetworkEvent, channelVars
  <2>2. m \in Things
    <3>1. <<>> \in Seq(Topics) /\ nraw + 1 \in Nat
      BY <1>t
    <3>2. kind \in AllRawKinds /\ topics \in Seq(Topics)
      BY Zenon, <3>1, NetworkAssumption
    <3> QED
      BY <3>1, <3>2 DEF Event, Things
  <2>3. m.n = nraw + 1
    OBVIOUS
  <2> HIDE DEF m
  <2>4. \A K : (\A y \in Items(raw, K) : y.n < m.n) /\ (\A y \in Items(taken, K) : y.n < m.n)
    BY Zenon, <1>t, <2>3, BoundedNext DEF NumberInv
  <2>5. Deliver(handled, handler_recv, events, rpc_events, Append(raw, m), taken, R)
    BY ONLY Zenon, <1>t, <1>d, <2>2, <2>4, DeliverArrived
  <2>6. Deliver(handled, handler_recv, events, others, Append(raw, m), taken, G)
    BY ONLY Zenon, <1>t, <1>d, <2>2, <2>4, DeliverArrived
  <2> QED
    BY Zenon, <2>1, <2>5, <2>6
<1>3. CASE Recv
  <2>1. /\ network_recv # <<>> /\ rpc_events' = Append(rpc_events, Head(network_recv))
        /\ UNCHANGED <<handled, handler_recv, events, others, raw, taken>>
    BY Zenon, <1>3 DEF Recv
  <2>2. Head(network_recv) \in Things /\ Head(network_recv) \in Request
    BY Zenon, <1>t, <2>1, TailAt, QueueTypes
  <2>3. Head(network_recv).kind \notin R
    BY <1>0, <2>2 DEF Request, RequestKinds
  <2>4. Deliver(handled', handler_recv', events', rpc_events', raw', taken', R)
    BY Zenon, <1>t, <1>d, <2>1, <2>2, <2>3, DeliverUnseen DEF Unseen
  <2> QED
    BY Zenon, <1>d, <2>1, <2>4
<1>4. CASE Swarm
  <2>1. CASE raw = <<>>
    BY ZenonT(40), <1>1, <1>4, <2>1 DEF Swarm, channelVars
  <2>2. CASE raw # <<>>
    <3>0. raw' = Tail(raw) /\ UNCHANGED <<handled, handler_recv, events>>
      BY Zenon, <1>4, <2>2 DEF Swarm, channelVars
    <3>1. Head(raw) \in Things
      BY Zenon, <1>t, <2>2, TailAt
    <3>2. CASE Head(raw).kind = "RPC"
      <4>1. rpc_events' = Append(rpc_events, Head(raw)) /\ taken' = Append(taken, Head(raw)) /\ others' = others
        BY <1>4, <2>2, <3>2 DEF Swarm
      <4>2. Deliver(handled, handler_recv, events, Append(rpc_events, Head(raw)), Tail(raw), Append(taken, Head(raw)), R)
        BY ONLY Zenon, <1>t, <1>d, <2>2, DeliverTaken
      <4>3. Head(raw).kind \notin G
        BY <1>0, <3>2
      <4>4. Deliver(handled', handler_recv', events', others', raw', taken', G)
        BY Zenon, <1>t, <1>d, <2>2, <3>0, <3>1, <4>1, <4>3, DeliverUnseen DEF Unseen
      <4> QED
        BY Zenon, <3>0, <4>1, <4>2, <4>4
    <3>3. CASE Head(raw).kind \in {"Gossip", "Subscribed", "Discovered", "Expired"}
      <4>1. others' = Append(others, Head(raw)) /\ taken' = Append(taken, Head(raw)) /\ rpc_events' = rpc_events
        BY <1>4, <2>2, <3>3 DEF Swarm
      <4>2. Deliver(handled, handler_recv, events, Append(others, Head(raw)), Tail(raw), Append(taken, Head(raw)), G)
        BY ONLY Zenon, <1>t, <1>d, <2>2, DeliverTaken
      <4>3. Head(raw).kind \notin R
        BY <1>0, <3>3
      <4>4. Deliver(handled', handler_recv', events', rpc_events', raw', taken', R)
        BY Zenon, <1>t, <1>d, <2>2, <3>0, <3>1, <4>1, <4>3, DeliverUnseen DEF Unseen
      <4> QED
        BY Zenon, <3>0, <4>1, <4>2, <4>4
    <3>4. CASE Head(raw).kind \in {"Dialed", "Accepted", "Disconnected"}
      <4>1. rpc_events' \in {rpc_events, Append(rpc_events, Head(raw))} /\ UNCHANGED <<others, taken>>
        BY <1>4, <2>2, <3>4 DEF Swarm
      <4>2. Head(raw).kind \notin R /\ Head(raw).kind \notin G
        BY <1>0, <3>4
      <4>3. Unseen(rpc_events, rpc_events', R) /\ Unseen(raw, raw', R) /\ Unseen(raw, raw', G)
        BY Zenon, <2>2, <3>0, <3>1, <4>1, <4>2 DEF Unseen
      <4>4. Deliver(handled', handler_recv', events', rpc_events', raw', taken', R)
        BY Zenon, <1>t, <1>d, <3>0, <4>1, <4>3, DeliverUnseen DEF Unseen
      <4>5. Deliver(handled', handler_recv', events', others', raw', taken', G)
        BY Zenon, <1>t, <1>d, <3>0, <4>1, <4>3, DeliverUnseen DEF Unseen
      <4> QED
        BY Zenon, <4>4, <4>5
    <3> QED
      BY <1>4, <2>2, <3>2, <3>3, <3>4 DEF Swarm
  <2> QED
    BY Zenon, <2>1, <2>2
<1>5. CASE InjectRPCMessage
  <2>1. rpc_events # <<>> /\ rpc_events' = Tail(rpc_events) /\ UNCHANGED <<handled, handler_recv, others, raw, taken>>
    BY Zenon, <1>5 DEF InjectRPCMessage, channelVars
  <2>2. Head(rpc_events) \in Things
    BY Zenon, <1>t, <2>1, TailAt
  <2>3. CASE Head(rpc_events).kind = "RPC"
    <3>1. events' = Append(events, Head(rpc_events))
      BY Zenon, <1>5, <2>3 DEF InjectRPCMessage
    <3>2. Deliver(handled, handler_recv, Append(events, Head(rpc_events)), Tail(rpc_events), raw, taken, R)
      BY ONLY Zenon, <1>t, <1>d, <2>1, DeliverInjected
    <3>3. Head(rpc_events).kind \notin G
      BY <1>0, <2>3
    <3>4. Deliver(handled', handler_recv', events', others', raw', taken', G)
      BY Zenon, <1>t, <1>d, <2>1, <2>2, <3>1, <3>3, DeliverUnseen DEF Unseen
    <3> QED
      BY Zenon, <2>1, <3>1, <3>2, <3>4
  <2>4. CASE Head(rpc_events).kind # "RPC"
    <3>1. events' = events
      BY Zenon, <1>5, <2>4 DEF InjectRPCMessage
    <3>2. Deliver(handled', handler_recv', events', rpc_events', raw', taken', R)
      BY Zenon, <1>0, <1>t, <1>d, <2>1, <2>4, <3>1, DeliverUnseen DEF Unseen
    <3> QED
      BY Zenon, <1>d, <2>1, <3>1, <3>2
  <2> QED
    BY Zenon, <2>3, <2>4
<1>6. CASE SendEvent
  <2>1. /\ rpc_events # <<>> /\ rpc_events' = Tail(rpc_events) /\ Head(rpc_events).kind \in RequestKinds
        /\ UNCHANGED <<handled, handler_recv, events, others, raw, taken>>
    BY Zenon, <1>6 DEF SendEvent, channelVars
  <2>2. Head(rpc_events).kind \notin R
    BY Zenon, <1>0, <1>g, <2>1
  <2>3. Deliver(handled', handler_recv', events', rpc_events', raw', taken', R)
    BY Zenon, <1>t, <1>d, <2>1, <2>2, DeliverUnseen DEF Unseen
  <2> QED
    BY Zenon, <1>d, <2>1, <2>3
<1>7. CASE InjectOther
  <2>1. others # <<>> /\ others' = Tail(others) /\ UNCHANGED <<handled, handler_recv, rpc_events, raw, taken>>
    BY Zenon, <1>7 DEF InjectOther, channelVars
  <2>2. Head(others) \in Things
    BY Zenon, <1>t, <2>1, TailAt
  <2>3. /\ Head(others).kind # "RPC"
        /\ events' = Append(events, Head(others)) \/ (events' = events /\ Head(others).kind # "Gossip")
    BY <1>7 DEF InjectOther
  <2>4. Deliver(handled', handler_recv', events', rpc_events', raw', taken', R)
    <3>1. Head(others).kind \notin R
      BY Zenon, <1>0, <2>3
    <3>2. Unseen(events, events', R)
      BY Zenon, <2>2, <2>3, <3>1 DEF Unseen
    <3> QED
      BY Zenon, <1>t, <1>d, <2>1, <3>2, DeliverUnseen DEF Unseen
  <2>5. CASE events' = Append(events, Head(others))
    <3>1. Deliver(handled, handler_recv, Append(events, Head(others)), Tail(others), raw, taken, G)
      BY ONLY Zenon, <1>t, <1>d, <2>1, DeliverInjected
    <3> QED
      BY Zenon, <2>1, <2>4, <2>5, <3>1
  <2>6. CASE events' = events /\ Head(others).kind # "Gossip"
    <3>1. Head(others).kind \notin G
      BY Zenon, <1>0, <2>6
    <3>2. Deliver(handled', handler_recv', events', others', raw', taken', G)
      BY Zenon, <1>t, <1>d, <2>1, <2>6, <3>1, DeliverUnseen DEF Unseen
    <3> QED
      BY Zenon, <2>4, <3>2
  <2> QED
    BY Zenon, <2>3, <2>5, <2>6
<1>8. CASE Libp2pEvent
  <2>1. events # <<>> /\ events' = Tail(events) /\ UNCHANGED <<handled, rpc_events, others, raw, taken>>
    BY Zenon, <1>8 DEF Libp2pEvent
  <2>2. CASE Head(events).kind \in {"Discovered", "Expired"}
    <3>1. handler_recv' = handler_recv
      BY Zenon, <1>8, <2>2 DEF Libp2pEvent
    <3>2. Head(events).kind \notin R /\ Head(events).kind \notin G
      BY <1>0, <2>2
    <3>3. Deliver(handled', handler_recv', events', rpc_events', raw', taken', R)
      BY Zenon, <1>t, <1>d, <2>1, <3>1, <3>2, DeliverUnseen DEF Unseen
    <3>4. Deliver(handled', handler_recv', events', others', raw', taken', G)
      BY Zenon, <1>t, <1>d, <2>1, <3>1, <3>2, DeliverUnseen DEF Unseen
    <3> QED
      BY Zenon, <3>3, <3>4
  <2>3. CASE Head(events).kind \notin {"Discovered", "Expired"}
    <3>1. handler_recv' = Append(handler_recv, Head(events))
      BY <1>8, <1>h, <2>3 DEF Libp2pEvent
    <3>2. Deliver(handled, Append(handler_recv, Head(events)), Tail(events), rpc_events, raw, taken, R)
      BY ONLY Zenon, <1>t, <1>d, <2>1, DeliverEvent
    <3>3. Deliver(handled, Append(handler_recv, Head(events)), Tail(events), others, raw, taken, G)
      BY ONLY Zenon, <1>t, <1>d, <2>1, DeliverEvent
    <3> QED
      BY Zenon, <2>1, <3>1, <3>2, <3>3
  <2> QED
    BY Zenon, <2>2, <2>3
<1>9. ASSUME Handled, handler_recv # <<>>, UNCHANGED swarmVars
      PROVE  /\ Deliver(handled', handler_recv', events', rpc_events', raw', taken', R)
             /\ Deliver(handled', handler_recv', events', others', raw', taken', G)
  <2>1. Deliver(Append(handled, Head(handler_recv)), Tail(handler_recv), events, rpc_events, raw, taken, R)
    BY ONLY Zenon, <1>t, <1>d, <1>9, DeliverHandled
  <2>2. Deliver(Append(handled, Head(handler_recv)), Tail(handler_recv), events, others, raw, taken, G)
    BY ONLY Zenon, <1>t, <1>d, <1>9, DeliverHandled
  <2> QED
    BY Zenon, <1>9, <2>1, <2>2 DEF Handled, swarmVars
<1>10. CASE on_pubsub_message
  <2> DEFINE topics == Head(handler_recv).topics
             cut == [handler_recv EXCEPT ![1].topics = Tail(@)]
  <2>1. /\ handler_recv # <<>> /\ UNCHANGED swarmVars
        /\ Handled \/ (topics # <<>> /\ handler_recv' = cut /\ handled' = handled)
    BY <1>10 DEF on_pubsub_message, Handling
  <2>2. ASSUME topics # <<>>, NEW K PROVE Same(handler_recv, cut, K)
    BY Zenon, <2>1, <2>2, SameCut
  <2>3. CASE handler_recv' = cut /\ handled' = handled /\ topics # <<>>
    <3> HIDE DEF cut
    <3>1. /\ Same(handler_recv, handler_recv', R) /\ Same(handler_recv, handler_recv', G)
          /\ UNCHANGED <<handled, events, rpc_events, others, raw, taken>>
      BY Zenon, <2>1, <2>2, <2>3 DEF swarmVars
    <3>2. \A s, K : Same(s, s, K)
      BY Zenon DEF Same
    <3>3. Deliver(handled, handler_recv', events, rpc_events, raw, taken, R)
      BY ONLY Zenon, <1>d, <3>1, <3>2, DeliverSame
    <3>4. Deliver(handled, handler_recv', events, others, raw, taken, G)
      BY ONLY ZenonT(40), <1>d, <3>1, <3>2, DeliverSame
    <3> QED
      BY Zenon, <3>1, <3>3, <3>4
  <2> QED
    BY Zenon, <1>9, <2>1, <2>3
<1>11. CASE on_say_hello \/ on_rpc
  BY Zenon, <1>9, <1>11 DEF on_say_hello, on_rpc, Handling
<1>12. CASE PollService \/ RecvDone \/ NotReady \/ Exit \/ UNCHANGED vars
  BY Zenon, <1>1, <1>12 DEF PollService, RecvDone, NotReady, Exit, vars, swarmVars, channelVars
<1> QED
  BY Zenon, <1>2, <1>3, <1>4, <1>5, <1>6, <1>7, <1>8, <1>10, <1>11, <1>12 DEF Next, ServiceStep, HandlerStep

-----------------------------------------------------------------------------
(* Requests leave in the order in which they were issued.                  *)

\* The requests given to the swarm.
Given(s) == [k \in DOMAIN s |-> s[k].req]

\* The stream of RequestsInOrder.
Left == Leave(Given(sent), rpc_events, network_recv, issued, RequestKinds)

\* RequestsInOrder in the terms of the lemmas on rows.
LEMMA LeftIs == RequestsInOrder <=> (service = "running" => Left)
BY Zenon DEF RequestsInOrder, Left, Leave, Given

\* What has been given is a sequence of requests, and grows as sent does.
LEMMA GivenIs ==
    ASSUME NEW s \in Seq([req : Request, up : BOOLEAN])
    PROVE  /\ Given(s) \in Seq(Things)
           /\ \A r \in [req : Request, up : BOOLEAN] : Given(Append(s, r)) = Append(Given(s), r.req)
<1>1. Given(s) \in Seq(Request)
  <2>0. \A S : \A q \in Seq(S) : Len(q) \in Nat /\ DOMAIN q = 1..Len(q) /\ \A k \in DOMAIN q : q[k] \in S
    OBVIOUS
  <2>1. Len(s) \in Nat /\ DOMAIN s = 1..Len(s) /\ \A k \in DOMAIN s : s[k] \in [req : Request, up : BOOLEAN]
    BY Zenon, <2>0
  <2>2. \A k \in DOMAIN s : s[k].req \in Request
    BY <2>1
  <2>3. Given(s) \in [1..Len(s) -> Request]
    BY Zenon, <2>1, <2>2 DEF Given
  <2>4. \A n \in Nat : \A f \in [1..n -> Request] : f \in Seq(Request)
    OBVIOUS
  <2> QED
    BY Zenon, <2>1, <2>3, <2>4
<1>2. ASSUME NEW r \in [req : Request, up : BOOLEAN]
      PROVE  Given(Append(s, r)) = Append(Given(s), r.req)
  <2> DEFINE t == Append(s, r)
             g == Append(Given(s), r.req)
  <2>1. r.req \in Request /\ Len(Given(s)) = Len(s) /\ DOMAIN Given(s) = DOMAIN s
    BY <1>1 DEF Given
  <2>2. /\ DOMAIN t = 1..(Len(s) + 1) /\ t[Len(s) + 1] = r
        /\ \A k \in DOMAIN s : t[k] = s[k]
    OBVIOUS
  <2>3. /\ g \in Seq(Request) /\ DOMAIN g = 1..(Len(s) + 1) /\ g[Len(s) + 1] = r.req
        /\ \A k \in DOMAIN s : g[k] = Given(s)[k]
    BY <1>1, <2>1
  <2>4. \A k \in 1..(Len(s) + 1) : k \in DOMAIN s \/ k = Len(s) + 1
    OBVIOUS
  <2>5. g = [k \in DOMAIN g |-> g[k]]
    BY <2>3
  <2> HIDE DEF t, g
  <2>6. \A k \in DOMAIN t : t[k].req = g[k]
    BY Zenon, <2>2, <2>3, <2>4 DEF Given
  <2>7. [k \in DOMAIN t |-> t[k].req] = [k \in DOMAIN g |-> g[k]]
    BY Zenon, <2>2, <2>3, <2>6
  <2> QED
    BY Zenon, <2>5, <2>7 DEF Given, t, g
<1>3. Given(s) \in Seq(Things)
  BY <1>1 DEF Things
<1> QED
  BY Zenon, <1>2, <1>3

\* A step that only moves network events leaves the requests as they are.
LEMMA LeaveUnseen ==
    ASSUME TypeOK, Unseen(rpc_events, rpc_events', RequestKinds), UNCHANGED <<sent, network_recv, issued>>, Left
    PROVE  Left'
<1>1. rpc_events \in Seq(Things)
  BY Zenon, QueueTypes
<1>2. Same(rpc_events, rpc_events', RequestKinds)
  BY Zenon, <1>1, UnseenSame
<1>3. \A s : Same(s, s, RequestKinds)
  BY Zenon DEF Same
<1>4. Leave(Given(sent), rpc_events, network_recv, issued, RequestKinds)
  BY Zenon DEF Left
<1>5. Leave(Given(sent), rpc_events', network_recv, issued, RequestKinds)
  BY ONLY Zenon, <1>2, <1>3, <1>4, LeaveSame
<1> QED
  BY Zenon, <1>5 DEF Left

\* Every step of the network, the network service and the message handler keeps the
\* requests in order and complete, while the network service runs.
LEMMA NextRequests == TypeOK /\ NumberInv /\ RequestsInOrder /\ [Next]_vars => RequestsInOrder'
<1> SUFFICES ASSUME TypeOK, NumberInv, service = "running" => Left, [Next]_vars, service' = "running"
             PROVE  Left'
  BY Zenon, LeftIs DEF RequestsInOrder, Left, Leave, Given
<1>t. /\ raw \in Seq(Things) /\ rpc_events \in Seq(Things) /\ network_recv \in Seq(Things)
      /\ issued \in Seq(Things) /\ Len(issued) \in Nat /\ raw \in Seq(Event) /\ handler_recv \in Seq(Event)
  BY Zenon, QueueTypes
<1>s. sent \in Seq([req : Request, up : BOOLEAN]) /\ Given(sent) \in Seq(Things)
  BY Zenon, GivenIs DEF TypeOK
<1>r. service = "running"
  BY Zenon DEF Next, ServiceStep, HandlerStep, NetworkEvent, PollService, Recv, RecvDone, Swarm, InjectRPCMessage,
               SendEvent, InjectOther, Libp2pEvent, NotReady, Exit, on_say_hello, on_rpc, on_pubsub_message,
               vars, taskVars
<1>l. Left
  BY Zenon, <1>r
<1>e. \A e \in Event : e.kind \notin RequestKinds
  BY DEF Event, AllRawKinds, RequestKinds
<1>1. ASSUME Unseen(rpc_events, rpc_events', RequestKinds), UNCHANGED <<sent, network_recv, issued>>
      PROVE  Left'
  BY Zenon, <1>1, <1>l, LeaveUnseen
<1>2. CASE UNCHANGED <<rpc_events, sent, network_recv, issued>>
  BY Zenon, <1>1, <1>2 DEF Unseen
<1>3. CASE Recv
  <2>1. /\ network_recv # <<>> /\ network_recv' = Tail(network_recv)
        /\ rpc_events' = Append(rpc_events, Head(network_recv)) /\ UNCHANGED <<sent, issued>>
    BY Zenon, <1>3 DEF Recv
  <2>2. Leave(Given(sent), rpc_events, network_recv, issued, RequestKinds)
    BY Zenon, <1>l DEF Left
  <2>3. Leave(Given(sent), Append(rpc_events, Head(network_recv)), Tail(network_recv), issued, RequestKinds)
    BY ONLY Zenon, <1>t, <2>1, <2>2, LeaveReceived
  <2> QED
    BY Zenon, <2>1, <2>3 DEF Left
<1>4. CASE Swarm
  <2>1. CASE raw = <<>>
    BY Zenon, <1>2, <1>4, <2>1 DEF Swarm, channelVars
  <2>2. CASE raw # <<>>
    <3>1. UNCHANGED <<sent, network_recv, issued>> /\ rpc_events' \in {rpc_events, Append(rpc_events, Head(raw))}
      BY Zenon, <1>4, <2>2 DEF Swarm, channelVars
    <3>2. Head(raw) \in Event /\ Head(raw) \in Things
      BY Zenon, <1>t, <2>2, TailAt
    <3>3. Unseen(rpc_events, rpc_events', RequestKinds)
      BY Zenon, <1>e, <3>1, <3>2 DEF Unseen
    <3> QED
      BY Zenon, <1>1, <3>1, <3>3
  <2> QED
    BY Zenon, <2>1, <2>2
<1>5. CASE InjectRPCMessage
  <2>1. /\ rpc_events # <<>> /\ rpc_events' = Tail(rpc_events) /\ Head(rpc_events).kind \in AllRawKinds
        /\ UNCHANGED <<sent, network_recv, issued>>
    BY Zenon, <1>5 DEF InjectRPCMessage, channelVars
  <2>2. Head(rpc_events).kind \notin RequestKinds
    BY <2>1 DEF AllRawKinds, RequestKinds
  <2> QED
    BY Zenon, <1>1, <2>1, <2>2 DEF Unseen
<1>6. CASE SendEvent
  <2> DEFINE r == [req |-> Head(rpc_events), up |-> Head(rpc_events).peer \in connected]
  <2>1. /\ rpc_events # <<>> /\ rpc_events' = Tail(rpc_events) /\ Head(rpc_events).kind \in RequestKinds
        /\ sent' = Append(sent, r) /\ UNCHANGED <<network_recv, issued>>
    BY Zenon, <1>6 DEF SendEvent, channelVars
  <2>2. Head(rpc_events) \in Request
    <3>1. Head(rpc_events) \in Things
      BY Zenon, <1>t, <2>1, TailAt
    <3> QED
      BY Zenon, <1>e, <2>1, <3>1 DEF Things
  <2>3. r \in [req : Request, up : BOOLEAN] /\ r.req = Head(rpc_events)
    BY <2>2
  <2> HIDE DEF r
  <2>4. Given(sent') = Append(Given(sent), Head(rpc_events))
    BY Zenon, <1>s, <2>1, <2>3, GivenIs
  <2>5. Leave(Given(sent), rpc_events, network_recv, issued, RequestKinds)
    BY Zenon, <1>l DEF Left
  <2>6. Leave(Append(Given(sent), Head(rpc_events)), Tail(rpc_events), network_recv, issued, RequestKinds)
    BY ONLY Zenon, <1>s, <1>t, <2>1, <2>5, LeaveSent
  <2> QED
    BY Zenon, <2>1, <2>4, <2>6 DEF Left
<1>7. ASSUME NEW kind \in RequestKinds, NEW p \in Peers, Issue(kind, p), UNCHANGED <<sent, rpc_events>>
      PROVE  Left'
  <2> DEFINE m == [kind |-> kind, peer |-> p, n |-> Len(issued) + 1]
  <2>1. network_recv' = Append(network_recv, m) /\ issued' = Append(issued, m)
    BY Zenon, <1>r, <1>7 DEF Issue
  <2>2. m \in Things /\ m.n = Len(issued) + 1
    BY <1>t DEF Things, Request
  <2> HIDE DEF m
  <2>3. \A y \in Items(issued, RequestKinds) : y.n < m.n
    BY Zenon, <1>t, <2>2, BoundedNext DEF NumberInv
  <2>4. Leave(Given(sent), rpc_events, network_recv, issued, RequestKinds)
    BY Zenon, <1>l DEF Left
  <2>5. Leave(Given(sent), rpc_events, Append(network_recv, m), Append(issued, m), RequestKinds)
    BY ONLY Zenon, <1>t, <2>2, <2>3, <2>4, LeaveIssued
  <2> QED
    BY Zenon, <1>7, <2>1, <2>5 DEF Left
<1>8. CASE on_say_hello \/ on_pubsub_message
  <2>1. /\ handler_recv # <<>> /\ UNCHANGED <<sent, rpc_events>>
        /\ \/ UNCHANGED <<network_recv, issued>>
           \/ \E kind \in RequestKinds : Issue(kind, Head(handler_recv).peer)
    BY Zenon, <1>8 DEF on_say_hello, on_pubsub_message, Handling, swarmVars, RequestKinds
  <2>2. Head(handler_recv).peer \in Peers
    <3>1. Head(handler_recv) \in Event
      BY Zenon, <1>t, <2>1, TailAt
    <3> QED
      BY <3>1 DEF Event
  <2> QED
    BY Zenon, <1>2, <1>7, <2>1, <2>2
<1>9. CASE \/ \E kind \in RawKinds, p \in Peers, topics \in TopicLists \cup {<<>>} : NetworkEvent(kind, p, topics)
           \/ PollService \/ RecvDone \/ InjectOther \/ Libp2pEvent \/ NotReady \/ on_rpc \/ UNCHANGED vars
  BY Zenon, <1>2, <1>9 DEF NetworkEvent, PollService, RecvDone, InjectOther, Libp2pEvent, NotReady, on_rpc, vars,
                          swarmVars, channelVars
<1>10. CASE Exit
  BY <1>10 DEF Exit
<1> QED
  BY Zenon, <1>3, <1>4, <1>5, <1>6, <1>8, <1>9, <1>10 DEF Next, ServiceStep, HandlerStep

\* Both ways through RPC, Behaviour and the channels of network_service and the message
\* handler nothing is lost, doubled or overtaken: what the swarm has taken from the network
\* reaches the message handler in order, the RPC events as one stream and the gossip messages
\* as another, and requests reach the swarm in the order in which they were issued.
THEOREM InOrderCorrect == Spec => []InOrder
<1> DEFINE IInv == TypeOK /\ NumberInv /\ DeliveredInOrder /\ RequestsInOrder
<1>1. Init => IInv
  <2> SUFFICES ASSUME Init PROVE IInv
    BY Zenon
  <2>1. TypeOK
    BY Zenon, InitType
  <2>2. NumberInv
    BY DEF Init, NumberInv, Bounded
  <2>3. /\ raw = <<>> /\ handled = <<>> /\ handler_recv = <<>> /\ events = <<>> /\ rpc_events = <<>>
        /\ others = <<>> /\ taken = <<>> /\ network_recv = <<>> /\ issued = <<>> /\ Given(sent) = <<>>
    BY DEF Init, Given
  <2>4. \A K : Items(<<>>, K) = {} /\ Sorted(<<>>, K)
    BY DEF Items, Sorted
  <2>5. \A K : Deliver(<<>>, <<>>, <<>>, <<>>, <<>>, <<>>, K) /\ Leave(<<>>, <<>>, <<>>, <<>>, K)
    BY <2>4 DEF Deliver, Leave, Ordered, Complete
  <2>6. Delivered /\ Left
    BY Zenon, <2>3, <2>5 DEF Delivered, Left
  <2> QED
    BY Zenon, <2>1, <2>2, <2>6, DeliveredIs, LeftIs
<1>2. IInv /\ [Next]_vars => IInv'
  BY Zenon, NextType, NextNumber, NextDelivered, NextRequests
<1>3. IInv => InOrder
  BY Zenon DEF InOrder
<1> QED
  BY <1>1, <1>2, <1>3, PTL DEF Spec
=============================================================================
