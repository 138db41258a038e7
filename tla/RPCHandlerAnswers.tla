-------------------------- MODULE RPCHandlerAnswers --------------------------
(***************************************************************************)
(* Theorems about what RPCHandler sends in answer to inbound requests, for *)
(* any ids, any responses and any bounds.                                  *)
(***************************************************************************)
EXTENDS RPCHandlerProofs

(* One inbound substream: its state s, the items w handed to it, the items *)
(* q queued behind them and the responses g the application gave for it.   *)

\* The numbers of the application's responses in a sequence of items rise.
Rising(w) ==
    \A j, k \in DOMAIN w : j < k /\ w[j].n # 0 /\ w[k].n # 0 => w[j].n < w[k].n
Before(w, q) ==
    \A j \in DOMAIN w, k \in DOMAIN q : w[j].n # 0 /\ q[k].n # 0 => w[j].n < q[k].n
UpTo(w, g) == \A j \in DOMAIN w : w[j].n <= Len(g)
Ordered(w, q, g) == Rising(w) /\ Rising(q) /\ Before(w, q) /\ UpTo(w, g) /\ UpTo(q, g)

\* An error that comes first is sent by itself: nothing is queued before something was
\* sent, and the substream closes when that error has been sent.
ErrorFirst(w) == w # <<>> /\ w[1].kind = "Error"
ErrorAlone(s, w, q) ==
    /\ s.st = "Idle" => q = <<>>
    /\ w = <<>> => q = <<>> /\ s.st # "Send"
    /\ ErrorFirst(w) => /\ Len(w) = 1 /\ s.st # "Idle"
                        /\ s.st = "Send" => s.closing

\* While the timer is armed and only chunks and terminations were given, what was given
\* is what was sent followed by what is queued; a substream that closes has had every
\* chunk.
Stream(s, g) == s.key /\ \A j \in DOMAIN g : g[j] \in {"Chunk", "Termination"}
SentThenQueued(w, q, g) ==
    /\ Len(w) + Len(q) = Len(g)
    /\ \A j \in DOMAIN w : w[j] = [kind |-> "Chunk", n |-> j] /\ g[j] = "Chunk"
    /\ \A j \in DOMAIN q : q[j] = [kind |-> g[Len(w) + j], n |-> Len(w) + j]
AllChunks(w, g) ==
    \E k \in 1..Len(g) :
        /\ g[k] = "Termination"
        /\ \A j \in 1..(k - 1) : g[j] = "Chunk"
        /\ w = [j \in 1..(k - 1) |-> [kind |-> "Chunk", n |-> j]]
Streamed(s, w, q, g) ==
    Stream(s, g) =>
        /\ s.st \in {"Send", "Idle"} => ~s.closing /\ SentThenQueued(w, q, g)
        /\ s.st = "Closing" => AllChunks(w, g)

Answered(s, w, q, g) ==
    Ordered(w, q, g) /\ ErrorAlone(s, w, q) /\ Streamed(s, w, q, g)

\* A substream that has just been negotiated.
LEMMA AnswersOpened ==
    Answered([st |-> "Idle", closing |-> FALSE, key |-> TRUE], <<>>, <<>>, <<>>)
  BY DEF Answered, Ordered, Rising, Before, UpTo, ErrorAlone, ErrorFirst, Streamed,
         SentThenQueued

\* The item of the response the application gives next.
NextItem(kind, g) == [kind |-> kind, n |-> Len(g) + 1]

\* How a sequence and its extension are related.
LEMMA AppendStep ==
    ASSUME NEW S, NEW w \in Seq(S), NEW e \in S
    PROVE  /\ Append(w, e) \in Seq(S) /\ Append(w, e) # <<>>
           /\ Len(w) \in Nat /\ Len(Append(w, e)) = Len(w) + 1
           /\ DOMAIN w = 1..Len(w)
           /\ \A k \in DOMAIN w :
                  k \in DOMAIN Append(w, e) /\ Append(w, e)[k] = w[k] /\ k < Len(w) + 1
           /\ \A k \in DOMAIN Append(w, e) :
                  \/ k \in DOMAIN w /\ Append(w, e)[k] = w[k]
                  \/ k = Len(w) + 1 /\ Append(w, e)[k] = e
           /\ Len(w) + 1 \in DOMAIN Append(w, e)
           /\ Append(w, e)[Len(w) + 1] = e
  OBVIOUS

\* Items are numbered.
LEMMA ItemNumbers ==
    ASSUME NEW w \in Seq(Item)
    PROVE  \A j \in DOMAIN w : w[j] \in Item /\ w[j].n \in Nat
  <1>1. \A i \in Item : i.n \in 0..MaxResponses
    BY Zenon DEF Item
  <1>2. 0..MaxResponses \subseteq Nat
    BY HandlerAssumption
  <1>3. \A j \in DOMAIN w : w[j] \in Item
    OBVIOUS
  <1>4. QED
    BY Zenon, <1>1, <1>2, <1>3

\* One more response given, nothing sent: the order is kept.
LEMMA OrderedGiven ==
    ASSUME NEW w \in Seq(Item), NEW q \in Seq(Item), NEW g \in Seq(ResponseKinds),
           NEW kind \in ResponseKinds, Ordered(w, q, g)
    PROVE  Ordered(w, q, Append(g, kind))
  <1>1. Len(Append(g, kind)) = Len(g) + 1 /\ Len(g) \in Nat
    OBVIOUS
  <1>2. \A j \in DOMAIN w : w[j] \in Item /\ w[j].n \in Nat
    BY Zenon, ItemNumbers
  <1>3. \A j \in DOMAIN q : q[j] \in Item /\ q[j].n \in Nat
    BY Zenon, ItemNumbers
  <1>4. UpTo(w, Append(g, kind)) /\ UpTo(q, Append(g, kind))
    BY <1>1, <1>2, <1>3 DEF Ordered, UpTo
  <1>5. QED
    BY Zenon, <1>4 DEF Ordered

\* One more response sent at once, the queue being empty.
LEMMA OrderedSent ==
    ASSUME NEW w \in Seq(Item), NEW g \in Seq(ResponseKinds), NEW kind \in ResponseKinds,
           NextItem(kind, g) \in Item, Ordered(w, <<>>, g)
    PROVE  Ordered(Append(w, NextItem(kind, g)), <<>>, Append(g, kind))
  <1> DEFINE e == NextItem(kind, g)
             v == Append(w, e)
  <1>1. Len(Append(g, kind)) = Len(g) + 1 /\ Len(g) \in Nat
    OBVIOUS
  <1>2. \A j \in DOMAIN w : w[j] \in Item /\ w[j].n \in Nat
    BY Zenon, ItemNumbers
  <1>3. e.n = Len(g) + 1
    BY Zenon DEF NextItem
  <1>4. \A k \in DOMAIN v : \/ k \in DOMAIN w /\ v[k] = w[k] /\ k < Len(w) + 1
                            \/ k = Len(w) + 1 /\ v[k] = e
    OBVIOUS
  <1> HIDE DEF e, v
  <1>5. UpTo(v, Append(g, kind))
    BY <1>1, <1>2, <1>3, <1>4 DEF Ordered, UpTo
  <1>6. Rising(v)
    BY <1>1, <1>2, <1>3, <1>4 DEF Ordered, UpTo, Rising
  <1>7. Rising(<<>>) /\ Before(v, <<>>) /\ UpTo(<<>>, Append(g, kind))
    BY DEF Rising, Before, UpTo
  <1>8. QED
    BY Zenon, <1>5, <1>6, <1>7 DEF Ordered, v, e

\* One more response queued.
LEMMA OrderedQueued ==
    ASSUME NEW w \in Seq(Item), NEW q \in Seq(Item), NEW g \in Seq(ResponseKinds),
           NEW kind \in ResponseKinds, NextItem(kind, g) \in Item, Ordered(w, q, g)
    PROVE  Ordered(w, Append(q, NextItem(kind, g)), Append(g, kind))
  <1> DEFINE e == NextItem(kind, g)
             v == Append(q, e)
  <1>1. Len(Append(g, kind)) = Len(g) + 1 /\ Len(g) \in Nat
    OBVIOUS
  <1>2. /\ \A j \in DOMAIN w : w[j] \in Item /\ w[j].n \in Nat
        /\ \A j \in DOMAIN q : q[j] \in Item /\ q[j].n \in Nat
    BY Zenon, ItemNumbers
  <1>3. e.n = Len(g) + 1
    BY Zenon DEF NextItem
  <1>4. \A k \in DOMAIN v : \/ k \in DOMAIN q /\ v[k] = q[k] /\ k < Len(q) + 1
                            \/ k = Len(q) + 1 /\ v[k] = e
    OBVIOUS
  <1> HIDE DEF e, v
  <1>5. UpTo(v, Append(g, kind)) /\ UpTo(w, Append(g, kind))
    BY <1>1, <1>2, <1>3, <1>4 DEF Ordered, UpTo
  <1>6. Rising(v)
    BY <1>1, <1>2, <1>3, <1>4 DEF Ordered, UpTo, Rising
  <1>7. Before(w, v)
    BY <1>1, <1>2, <1>3, <1>4 DEF Ordered, UpTo, Before
  <1>8. QED
    BY Zenon, <1>5, <1>6, <1>7 DEF Ordered, v, e

\* The items a timeout adds have no number.
LEMMA OrderedTimeout ==
    ASSUME NEW w \in Seq(Item), NEW q \in Seq(Item), NEW g \in Seq(ResponseKinds),
           Ordered(w, q, g)
    PROVE  /\ Ordered(w, q \o <<TimeoutError, TimeoutTermination>>, g)
           /\ Ordered(Append(w, TimeoutError), q, g)
  <1>1. /\ TimeoutError \in Item /\ TimeoutTermination \in Item
        /\ TimeoutError.n = 0 /\ TimeoutTermination.n = 0
    BY HandlerAssumption DEF TimeoutError, TimeoutTermination, Item, ResponseKinds
  <1>2. Len(g) \in Nat
    OBVIOUS
  <1>3. Ordered(w, q \o <<TimeoutError, TimeoutTermination>>, g)
    <2> DEFINE v == q \o <<TimeoutError, TimeoutTermination>>
    <2>1. \A k \in DOMAIN v : \/ k \in DOMAIN q /\ v[k] = q[k]
                              \/ v[k].n = 0
      BY <1>1
    <2> HIDE DEF v
    <2>2. Rising(v) /\ Before(w, v) /\ UpTo(v, g)
      BY <1>2, <2>1 DEF Ordered, Rising, Before, UpTo
    <2>3. QED
      BY Zenon, <2>2 DEF Ordered, v
  <1>4. Ordered(Append(w, TimeoutError), q, g)
    <2> DEFINE v == Append(w, TimeoutError)
    <2>1. \A k \in DOMAIN v : \/ k \in DOMAIN w /\ v[k] = w[k]
                              \/ v[k].n = 0
      BY <1>1
    <2> HIDE DEF v
    <2>2. Rising(v) /\ Before(v, q) /\ UpTo(v, g)
      BY <1>2, <2>1 DEF Ordered, Rising, Before, UpTo
    <2>3. QED
      BY Zenon, <2>2 DEF Ordered, v
  <1>5. QED
    BY Zenon, <1>3, <1>4

\* The oldest queued item is sent, or leaves the queue without being sent.
LEMMA OrderedDrained ==
    ASSUME NEW w \in Seq(Item), NEW q \in Seq(Item), NEW g \in Seq(ResponseKinds),
           Ordered(w, q, g), q # <<>>
    PROVE  /\ Ordered(w, Tail(q), g)
           /\ Ordered(Append(w, Head(q)), Tail(q), g)
  <1> DEFINE e == Head(q)
             v == Append(w, e)
             t == Tail(q)
  <1>1. 1 \in DOMAIN q /\ e = q[1] /\ e \in Item
    OBVIOUS
  <1>2. \A k \in DOMAIN t : /\ k \in Nat /\ k + 1 \in DOMAIN q /\ t[k] = q[k + 1] /\ 1 < k + 1
    OBVIOUS
  <1>3. \A k \in DOMAIN v : \/ k \in DOMAIN w /\ v[k] = w[k] /\ k < Len(w) + 1
                            \/ k = Len(w) + 1 /\ v[k] = e
    BY <1>1
  <1> HIDE DEF e, v, t
  <1>4. Rising(t) /\ Before(w, t) /\ UpTo(t, g)
    <2>1. Rising(t)
      <3> SUFFICES ASSUME NEW j \in DOMAIN t, NEW k \in DOMAIN t, j < k,
                          t[j].n # 0, t[k].n # 0
                   PROVE  t[j].n < t[k].n
        BY Zenon DEF Rising
      <3>1. /\ j + 1 \in DOMAIN q /\ t[j] = q[j + 1]
            /\ k + 1 \in DOMAIN q /\ t[k] = q[k + 1] /\ j + 1 < k + 1
        BY <1>2
      <3>2. QED
        BY Zenon, <3>1 DEF Ordered, Rising
    <2>2. Before(w, t)
      <3> SUFFICES ASSUME NEW j \in DOMAIN w, NEW k \in DOMAIN t, w[j].n # 0, t[k].n # 0
                   PROVE  w[j].n < t[k].n
        BY Zenon DEF Before
      <3>1. k + 1 \in DOMAIN q /\ t[k] = q[k + 1]
        BY Zenon, <1>2
      <3>2. QED
        BY Zenon, <3>1 DEF Ordered, Before
    <2>3. UpTo(t, g)
      BY Zenon, <1>2 DEF Ordered, UpTo
    <2>4. QED
      BY Zenon, <2>1, <2>2, <2>3
  <1>5. Rising(v)
    BY <1>1, <1>3 DEF Ordered, Rising, Before
  <1>6. Before(v, t)
    <2>1. \A k \in DOMAIN t : e.n # 0 /\ t[k].n # 0 => e.n < t[k].n
      BY Zenon, <1>1, <1>2 DEF Ordered, Rising
    <2>2. QED
      BY Zenon, <1>3, <1>4, <2>1 DEF Before
  <1>7. UpTo(v, g)
    BY Zenon, <1>1, <1>3 DEF Ordered, UpTo
  <1>8. QED
    BY Zenon, <1>4, <1>5, <1>6, <1>7 DEF Ordered, v, t, e

-----------------------------------------------------------------------------
\* Whether only chunks and terminations were given does not depend on later ones.
LEMMA StreamGiven ==
    ASSUME NEW s \in InState, NEW z \in InState, NEW g \in Seq(ResponseKinds),
           NEW kind \in ResponseKinds, z.key => s.key, Stream(z, Append(g, kind))
    PROVE  Stream(s, g) /\ kind \in {"Chunk", "Termination"}
  BY AppendStep DEF Stream

\* Every chunk was sent, whatever is given later.
LEMMA AllChunksGiven ==
    ASSUME NEW w \in Seq(Item), NEW g \in Seq(ResponseKinds), NEW kind \in ResponseKinds,
           AllChunks(w, g)
    PROVE  AllChunks(w, Append(g, kind))
  <1> DEFINE h == Append(g, kind)
  <1>1. Len(h) = Len(g) + 1 /\ Len(g) \in Nat /\ \A j \in 1..Len(g) : h[j] = g[j]
    OBVIOUS
  <1>2. PICK k \in 1..Len(g) :
            /\ g[k] = "Termination"
            /\ \A j \in 1..(k - 1) : g[j] = "Chunk"
            /\ w = [j \in 1..(k - 1) |-> [kind |-> "Chunk", n |-> j]]
    BY Zenon DEF AllChunks
  <1> HIDE DEF h
  <1>3. k \in 1..Len(h) /\ h[k] = "Termination" /\ \A j \in 1..(k - 1) : h[j] = "Chunk"
    BY SMTT(20), <1>1, <1>2
  <1>4. AllChunks(w, h)
    BY Zenon, <1>2, <1>3 DEF AllChunks
  <1>5. QED
    BY Zenon, <1>4 DEF h

\* What was sent, followed by a termination, is every chunk.
LEMMA AllChunksSent ==
    ASSUME NEW w \in Seq(Item), NEW g \in Seq(ResponseKinds),
           Len(w) + 1 \in 1..Len(g), g[Len(w) + 1] = "Termination",
           \A j \in DOMAIN w : w[j] = [kind |-> "Chunk", n |-> j] /\ g[j] = "Chunk"
    PROVE  AllChunks(w, g)
  <1>1. Len(w) \in Nat /\ DOMAIN w = 1..Len(w) /\ (Len(w) + 1) - 1 = Len(w)
    OBVIOUS
  <1>2. w = [j \in 1..Len(w) |-> [kind |-> "Chunk", n |-> j]]
    BY <1>1
  <1>3. QED
    BY Zenon, <1>1, <1>2 DEF AllChunks

\* The application ends the stream of an idle substream.
LEMMA AnsweredEnd ==
    ASSUME NEW s \in InState, NEW w \in Seq(Item), NEW q \in Seq(Item),
           NEW g \in Seq(ResponseKinds), Answered(s, w, q, g), s.st = "Idle"
    PROVE  Answered([st |-> "Closing", closing |-> FALSE, key |-> s.key], w, q,
                    Append(g, "Termination"))
  <1> DEFINE z == [st |-> "Closing", closing |-> FALSE, key |-> s.key]
             h == Append(g, "Termination")
  <1>0. "Termination" \in ResponseKinds /\ z \in InState /\ q = <<>>
    BY Zenon DEF ResponseKinds, InState, Answered, ErrorAlone
  <1>1. Ordered(w, q, h)
    BY Zenon, <1>0, OrderedGiven DEF Answered
  <1>2. ErrorAlone(z, w, q)
    BY Zenon DEF Answered, ErrorAlone
  <1>3. Streamed(z, w, q, h)
    <2> SUFFICES ASSUME Stream(z, h)
                 PROVE  AllChunks(w, h)
      BY Zenon DEF Streamed
    <2>1. Stream(s, g)
      BY Zenon, <1>0, StreamGiven
    <2>2. SentThenQueued(w, q, g)
      BY Zenon, <2>1 DEF Answered, Streamed
    <2>3. Len(q) = 0 /\ Len(w) = Len(g)
      BY <1>0, <2>2 DEF SentThenQueued
    <2>4. Len(w) + 1 \in 1..Len(h) /\ h[Len(w) + 1] = "Termination" /\ h \in Seq(ResponseKinds)
      BY <1>0, <2>3
    <2>5. \A j \in DOMAIN w : w[j] = [kind |-> "Chunk", n |-> j] /\ h[j] = "Chunk"
      <3>1. \A j \in DOMAIN w : j \in DOMAIN g
        BY <2>3
      <3>2. \A j \in DOMAIN g : h[j] = g[j]
        OBVIOUS
      <3>3. QED
        BY Zenon, <2>2, <3>1, <3>2 DEF SentThenQueued
    <2>6. QED
      BY Zenon, <2>4, <2>5, AllChunksSent
  <1>4. QED
    BY Zenon, <1>1, <1>2, <1>3 DEF Answered

\* The application answers on an idle substream: the item is sent at once, and the
\* substream closes behind it unless it is a chunk.
LEMMA AnsweredNow ==
    ASSUME NEW s \in InState, NEW w \in Seq(Item), NEW q \in Seq(Item),
           NEW g \in Seq(ResponseKinds), Answered(s, w, q, g), s.st = "Idle",
           NEW kind \in ResponseKinds, kind # "Termination", NextItem(kind, g) \in Item,
           NEW c \in BOOLEAN, c <=> kind # "Chunk"
    PROVE  Answered([st |-> "Send", closing |-> c, key |-> s.key],
                    Append(w, NextItem(kind, g)), q, Append(g, kind))
  <1> DEFINE z == [st |-> "Send", closing |-> c, key |-> s.key]
             e == NextItem(kind, g)
             v == Append(w, e)
             h == Append(g, kind)
  <1>0. z \in InState /\ q = <<>> /\ v \in Seq(Item) /\ v # <<>>
    BY AppendStep DEF InState, Answered, ErrorAlone
  <1>1. Ordered(v, q, h)
    BY Zenon, <1>0, OrderedSent DEF Answered
  <1>2. ErrorAlone(z, v, q)
    <2>1. ErrorFirst(v) => Len(v) = 1 /\ kind = "Error"
      <3>1. CASE w = <<>>
        BY <3>1 DEF ErrorFirst, NextItem
      <3>2. CASE w # <<>>
        <4>1. v[1] = w[1]
          BY <3>2
        <4>2. QED
          BY Zenon, <3>2, <4>1 DEF ErrorFirst, Answered, ErrorAlone
      <3>3. QED
        BY Zenon, <3>1, <3>2
    <2>2. QED
      BY Zenon, <1>0, <2>1 DEF ErrorAlone
  <1>3. Streamed(z, v, q, h)
    <2> SUFFICES ASSUME Stream(z, h)
                 PROVE  ~z.closing /\ SentThenQueued(v, q, h)
      BY Zenon DEF Streamed
    <2>1. Stream(s, g) /\ kind = "Chunk"
      BY <1>0, StreamGiven
    <2>2. SentThenQueued(w, q, g)
      BY Zenon, <2>1 DEF Answered, Streamed
    <2>3. Len(q) = 0 /\ Len(w) = Len(g) /\ Len(v) = Len(h) /\ Len(h) \in Nat
      BY <1>0, <2>2 DEF SentThenQueued
    <2>4. \A j \in DOMAIN v : v[j] = [kind |-> "Chunk", n |-> j] /\ h[j] = "Chunk"
      <3>1. \A j \in DOMAIN w : v[j] = [kind |-> "Chunk", n |-> j] /\ h[j] = "Chunk"
        BY <2>2, <2>3 DEF SentThenQueued
      <3>2. v[Len(w) + 1] = [kind |-> "Chunk", n |-> Len(w) + 1] /\ h[Len(w) + 1] = "Chunk"
        BY <2>1, <2>3 DEF NextItem
      <3>3. \A k \in DOMAIN v : k \in DOMAIN w \/ k = Len(w) + 1
        BY Zenon, AppendStep
      <3>4. QED
        BY Zenon, <3>1, <3>2, <3>3
    <2>5. Len(v) + Len(q) = Len(h)
      BY ONLY <2>3
    <2>6. ~z.closing /\ \A j \in DOMAIN q : FALSE
      BY <1>0, <2>1
    <2>7. QED
      BY Zenon, <2>4, <2>5, <2>6 DEF SentThenQueued
  <1>4. QED
    BY Zenon, <1>1, <1>2, <1>3 DEF Answered

\* The application answers while a send is in progress: the item is queued.
LEMMA AnsweredLater ==
    ASSUME NEW s \in InState, NEW w \in Seq(Item), NEW q \in Seq(Item),
           NEW g \in Seq(ResponseKinds), Answered(s, w, q, g), s.st = "Send",
           NEW kind \in ResponseKinds, NextItem(kind, g) \in Item
    PROVE  Answered(s, w, Append(q, NextItem(kind, g)), Append(g, kind))
  <1> DEFINE e == NextItem(kind, g)
             v == Append(q, e)
             h == Append(g, kind)
  <1>1. Ordered(w, v, h)
    BY Zenon, OrderedQueued DEF Answered
  <1>2. ErrorAlone(s, w, v)
    BY Zenon DEF Answered, ErrorAlone
  <1>3. Streamed(s, w, v, h)
    <2> SUFFICES ASSUME Stream(s, h)
                 PROVE  ~s.closing /\ SentThenQueued(w, v, h)
      BY Zenon DEF Streamed
    <2>1. Stream(s, g)
      BY Zenon, StreamGiven
    <2>2. ~s.closing /\ SentThenQueued(w, q, g)
      BY Zenon, <2>1 DEF Answered, Streamed
    <2>3. /\ Len(w) \in Nat /\ Len(q) \in Nat /\ Len(g) = Len(w) + Len(q)
          /\ Len(h) = Len(g) + 1 /\ Len(v) = Len(q) + 1
      BY <2>2 DEF SentThenQueued
    <2>4. \A j \in DOMAIN w : w[j] = [kind |-> "Chunk", n |-> j] /\ h[j] = "Chunk"
      <3>1. \A j \in DOMAIN w : j \in DOMAIN g
        BY <2>3
      <3>2. \A j \in DOMAIN g : h[j] = g[j]
        OBVIOUS
      <3>3. QED
        BY Zenon, <2>2, <3>1, <3>2 DEF SentThenQueued
    <2>5. \A j \in DOMAIN v : v[j] = [kind |-> h[Len(w) + j], n |-> Len(w) + j]
      <3>1. \A j \in DOMAIN q : v[j] = q[j] /\ h[Len(w) + j] = g[Len(w) + j]
        BY <2>3
      <3>2. \A j \in DOMAIN q : v[j] = [kind |-> h[Len(w) + j], n |-> Len(w) + j]
        BY Zenon, <2>2, <3>1 DEF SentThenQueued
      <3>3. v[Len(q) + 1] = [kind |-> h[Len(w) + (Len(q) + 1)], n |-> Len(w) + (Len(q) + 1)]
        <4>1. Len(w) + (Len(q) + 1) = Len(g) + 1
          BY <2>3
        <4>2. v[Len(q) + 1] = e /\ h[Len(g) + 1] = kind
          OBVIOUS
        <4>3. QED
          BY Zenon, <4>1, <4>2 DEF NextItem
      <3>4. \A k \in DOMAIN v : k \in DOMAIN q \/ k = Len(q) + 1
        BY Zenon, AppendStep
      <3>5. QED
        BY Zenon, <3>2, <3>3, <3>4
    <2>6. Len(w) + Len(v) = Len(h)
      BY <2>3
    <2>7. QED
      BY Zenon, <2>2, <2>4, <2>5, <2>6 DEF SentThenQueued
  <1>4. QED
    BY Zenon, <1>1, <1>2, <1>3 DEF Answered

\* A single response given while a send is in progress is not sent; the substream closes
\* after the send.
LEMMA AnsweredClosing ==
    ASSUME NEW s \in InState, NEW w \in Seq(Item), NEW q \in Seq(Item),
           NEW g \in Seq(ResponseKinds), Answered(s, w, q, g), s.st = "Send"
    PROVE  Answered([s EXCEPT !.closing = TRUE], w, q, Append(g, "Status"))
  <1> DEFINE z == [s EXCEPT !.closing = TRUE]
             h == Append(g, "Status")
  <1>0. "Status" \in ResponseKinds /\ z \in InState /\ z.st = "Send" /\ z.closing
    BY Zenon DEF ResponseKinds, InState
  <1>1. Ordered(w, q, h)
    BY Zenon, <1>0, OrderedGiven DEF Answered
  <1>2. ErrorAlone(z, w, q)
    BY Zenon, <1>0 DEF Answered, ErrorAlone
  <1>3. Streamed(z, w, q, h)
    BY <1>0, StreamGiven DEF Streamed
  <1>4. QED
    BY Zenon, <1>1, <1>2, <1>3 DEF Answered

\* A response for a substream that is closing or gone goes nowhere.
LEMMA AnsweredNowhere ==
    ASSUME NEW s \in InState, NEW w \in Seq(Item), NEW q \in Seq(Item),
           NEW g \in Seq(ResponseKinds), Answered(s, w, q, g),
           s.st \in {"Closing", "Absent"}, NEW kind \in ResponseKinds
    PROVE  Answered(s, w, q, Append(g, kind))
  <1> DEFINE h == Append(g, kind)
  <1>1. Ordered(w, q, h) /\ ErrorAlone(s, w, q)
    BY Zenon, OrderedGiven DEF Answered
  <1>2. Streamed(s, w, q, h)
    <2> SUFFICES ASSUME Stream(s, h), s.st = "Closing"
                 PROVE  AllChunks(w, h)
      BY Zenon DEF Streamed
    <2>1. Stream(s, g)
      BY Zenon, StreamGiven
    <2>2. AllChunks(w, g)
      BY Zenon, <2>1 DEF Answered, Streamed
    <2>3. QED
      BY Zenon, <2>2, AllChunksGiven
  <1>3. QED
    BY Zenon, <1>1, <1>2 DEF Answered

\* What a substream whose timer fired holds: the timeout closes it, in each state.
LEMMA AnsweredTimeout ==
    ASSUME NEW s \in InState, NEW w \in Seq(Item), NEW q \in Seq(Item),
           NEW g \in Seq(ResponseKinds), Answered(s, w, q, g)
    PROVE  /\ s.st = "Send" /\ ~s.closing =>
                  Answered([st |-> "Send", closing |-> s.closing, key |-> FALSE], w,
                           q \o <<TimeoutError, TimeoutTermination>>, g)
           /\ s.st = "Send" /\ s.closing =>
                  Answered([st |-> "Send", closing |-> s.closing, key |-> FALSE], w, q, g)
           /\ s.st = "Idle" =>
                  Answered([st |-> "Send", closing |-> TRUE, key |-> FALSE],
                           Append(w, TimeoutError), q, g)
           /\ s.st \in {"Idle", "Closing"} =>
                  Answered([st |-> "Closing", closing |-> FALSE, key |-> FALSE], w, q, g)
  <1>1. ASSUME NEW z \in InState, ~z.key, NEW v, NEW p
        PROVE  Streamed(z, v, p, g)
    BY Zenon, <1>1 DEF Streamed, Stream
  <1>2. /\ [st |-> "Send", closing |-> s.closing, key |-> FALSE] \in InState
        /\ [st |-> "Send", closing |-> TRUE, key |-> FALSE] \in InState
        /\ [st |-> "Closing", closing |-> FALSE, key |-> FALSE] \in InState
        /\ TimeoutError \in Item
    BY HandlerAssumption DEF InState, TimeoutError, Item, ResponseKinds
  <1>3. ASSUME s.st = "Send", ~s.closing
        PROVE  Answered([st |-> "Send", closing |-> s.closing, key |-> FALSE], w,
                        q \o <<TimeoutError, TimeoutTermination>>, g)
    <2>1. Ordered(w, q \o <<TimeoutError, TimeoutTermination>>, g)
      BY Zenon, OrderedTimeout DEF Answered
    <2>2. ErrorAlone([st |-> "Send", closing |-> s.closing, key |-> FALSE], w,
                     q \o <<TimeoutError, TimeoutTermination>>)
      BY Zenon, <1>3 DEF Answered, ErrorAlone
    <2>3. QED
      BY Zenon, <1>1, <1>2, <2>1, <2>2 DEF Answered
  <1>4. ASSUME s.st = "Send", s.closing
        PROVE  Answered([st |-> "Send", closing |-> s.closing, key |-> FALSE], w, q, g)
    <2>1. ErrorAlone([st |-> "Send", closing |-> s.closing, key |-> FALSE], w, q)
      BY Zenon, <1>4 DEF Answered, ErrorAlone
    <2>2. QED
      BY Zenon, <1>1, <1>2, <2>1 DEF Answered
  <1>5. ASSUME s.st = "Idle"
        PROVE  Answered([st |-> "Send", closing |-> TRUE, key |-> FALSE],
                        Append(w, TimeoutError), q, g)
    <2>1. Ordered(Append(w, TimeoutError), q, g)
      BY Zenon, OrderedTimeout DEF Answered
    <2>2. ErrorFirst(Append(w, TimeoutError)) => Len(Append(w, TimeoutError)) = 1
      <3>1. CASE w = <<>>
        BY <3>1
      <3>2. CASE w # <<>>
        <4>1. Append(w, TimeoutError)[1] = w[1]
          BY <1>2, <3>2
        <4>2. QED
          BY Zenon, <1>5, <3>2, <4>1 DEF ErrorFirst, Answered, ErrorAlone
      <3>3. QED
        BY Zenon, <3>1, <3>2
    <2>3. Append(w, TimeoutError) # <<>>
      BY Zenon, <1>2, AppendStep
    <2>4. ErrorAlone([st |-> "Send", closing |-> TRUE, key |-> FALSE],
                     Append(w, TimeoutError), q)
      BY Zenon, <2>2, <2>3 DEF ErrorAlone
    <2>5. QED
      BY Zenon, <1>1, <1>2, <2>1, <2>4 DEF Answered
  <1>6. ASSUME s.st \in {"Idle", "Closing"}
        PROVE  Answered([st |-> "Closing", closing |-> FALSE, key |-> FALSE], w, q, g)
    <2>1. ErrorAlone([st |-> "Closing", closing |-> FALSE, key |-> FALSE], w, q)
      BY Zenon, <1>6 DEF Answered, ErrorAlone
    <2>2. QED
      BY Zenon, <1>1, <1>2, <2>1 DEF Answered
  <1>7. QED
    BY Zenon, <1>3, <1>4, <1>5, <1>6

\* The oldest queued item goes to the substream once the send before it completed; a
\* termination closes the substream instead.
LEMMA AnsweredDrained ==
    ASSUME NEW s \in InState, NEW w \in Seq(Item), NEW q \in Seq(Item),
           NEW g \in Seq(ResponseKinds), Answered(s, w, q, g),
           s.st \in {"Send", "Idle"}, ~s.closing, q # <<>>
    PROVE  /\ Head(q).kind = "Termination" =>
                  Answered([st |-> "Closing", closing |-> FALSE, key |-> s.key], w, Tail(q), g)
           /\ Head(q).kind # "Termination" =>
                  Answered([st |-> "Send", closing |-> FALSE, key |-> s.key],
                           Append(w, Head(q)), Tail(q), g)
  <1> DEFINE e == Head(q)
             v == Append(w, e)
             t == Tail(q)
             c == [st |-> "Closing", closing |-> FALSE, key |-> s.key]
             z == [st |-> "Send", closing |-> FALSE, key |-> s.key]
  <1>0. /\ s.st = "Send" /\ w # <<>> /\ ~ErrorFirst(w)
    BY Zenon DEF Answered, ErrorAlone
  <1>1. /\ e \in Item /\ t \in Seq(Item) /\ v \in Seq(Item) /\ v # <<>> /\ v[1] = w[1]
        /\ 1 \in DOMAIN q /\ e = q[1] /\ Len(q) \in Nat /\ Len(t) = Len(q) - 1
    <2>1. /\ e \in Item /\ t \in Seq(Item) /\ 1 \in DOMAIN q /\ e = q[1]
          /\ Len(q) \in Nat /\ Len(t) = Len(q) - 1
      OBVIOUS
    <2>2. 1 \in DOMAIN w
      BY <1>0
    <2>3. v \in Seq(Item) /\ v # <<>> /\ \A k \in DOMAIN w : v[k] = w[k]
      BY SMTT(20), <2>1
    <2>4. QED
      BY Zenon, <2>1, <2>2, <2>3
  <1>2. Ordered(w, t, g) /\ Ordered(v, t, g)
    BY Zenon, OrderedDrained DEF Answered
  <1>3. ErrorAlone(c, w, t) /\ ErrorAlone(z, v, t)
    <2>1. ~ErrorFirst(v)
      BY Zenon, <1>0, <1>1 DEF ErrorFirst
    <2>2. QED
      BY Zenon, <1>0, <1>1, <2>1 DEF ErrorAlone
  <1>4. ASSUME Stream(s, g)
        PROVE  /\ SentThenQueued(w, q, g)
               /\ Len(w) \in Nat /\ Len(g) \in Nat /\ Len(w) + Len(q) = Len(g)
               /\ e = [kind |-> g[Len(w) + 1], n |-> Len(w) + 1]
    <2>1. SentThenQueued(w, q, g)
      BY Zenon, <1>4 DEF Answered, Streamed
    <2>2. e = [kind |-> g[Len(w) + 1], n |-> Len(w) + 1] /\ Len(w) + Len(q) = Len(g)
      BY Zenon, <1>1, <2>1 DEF SentThenQueued
    <2>3. Len(w) \in Nat /\ Len(g) \in Nat
      OBVIOUS
    <2>4. QED
      BY Zenon, <2>1, <2>2, <2>3
  <1>5. ASSUME e.kind = "Termination"
        PROVE  Streamed(c, w, t, g)
    <2> SUFFICES ASSUME Stream(s, g)
                 PROVE  AllChunks(w, g)
      BY Zenon DEF Streamed, Stream
    <2>1. g[Len(w) + 1] = "Termination" /\ Len(w) + 1 \in 1..Len(g)
      BY <1>1, <1>4, <1>5
    <2>2. QED
      BY Zenon, <1>4, <2>1, AllChunksSent DEF SentThenQueued
  <1>6. ASSUME e.kind # "Termination"
        PROVE  Streamed(z, v, t, g)
    <2> SUFFICES ASSUME Stream(s, g)
                 PROVE  SentThenQueued(v, t, g)
      BY Zenon DEF Streamed, Stream
    <2>1. Len(w) + 1 \in DOMAIN g /\ g[Len(w) + 1] = "Chunk"
      BY <1>1, <1>4, <1>6 DEF Stream
    <2>2. \A j \in DOMAIN v : v[j] = [kind |-> "Chunk", n |-> j] /\ g[j] = "Chunk"
      <3>1. \A k \in DOMAIN v : \/ k \in DOMAIN w /\ v[k] = w[k]
                                \/ k = Len(w) + 1 /\ v[k] = e
        BY Zenon, <1>1, AppendStep
      <3>2. QED
        BY Zenon, <1>4, <2>1, <3>1 DEF SentThenQueued
    <2>3. Len(v) = Len(w) + 1 /\ Len(v) + Len(t) = Len(g)
      BY <1>1, <1>4
    <2>4. \A j \in DOMAIN t : t[j] = [kind |-> g[Len(v) + j], n |-> Len(v) + j]
      <3> TAKE j \in DOMAIN t
      <3>1. j + 1 \in DOMAIN q /\ t[j] = q[j + 1] /\ j \in Nat
        OBVIOUS
      <3>2. Len(w) + (j + 1) = Len(v) + j
        BY SMTT(20), <1>1, <1>4, <2>3, <3>1
      <3>3. q[j + 1] = [kind |-> g[Len(w) + (j + 1)], n |-> Len(w) + (j + 1)]
        BY Zenon, <1>4, <3>1 DEF SentThenQueued
      <3>4. QED
        BY Zenon, <3>1, <3>2, <3>3
    <2>5. QED
      BY Zenon, <2>2, <2>3, <2>4 DEF SentThenQueued
  <1>7. QED
    BY Zenon, <1>2, <1>3, <1>5, <1>6 DEF Answered

\* A send that completes with nothing queued leaves the substream idle, or closing when
\* it was to be closed; a substream that is gone has nothing to answer.
LEMMA AnsweredOver ==
    ASSUME NEW s \in InState, NEW w \in Seq(Item), NEW q \in Seq(Item),
           NEW g \in Seq(ResponseKinds), Answered(s, w, q, g), s.st # "Absent"
    PROVE  /\ s.st \in {"Send", "Idle"} /\ (s.st = "Send" => ~s.closing) /\ q = <<>> =>
                  Answered([st |-> "Idle", closing |-> FALSE, key |-> s.key], w, q, g)
           /\ s.st = "Send" /\ s.closing =>
                  Answered([st |-> "Closing", closing |-> FALSE, key |-> s.key], w, q, g)
           /\ s.st = "Send" => Answered(InAbsent, w, q, g)
           /\ s.st = "Closing" => Answered(InAbsent, w, <<>>, g)
  <1>1. ASSUME s.st \in {"Send", "Idle"}, s.st = "Send" => ~s.closing, q = <<>>
        PROVE  Answered([st |-> "Idle", closing |-> FALSE, key |-> s.key], w, q, g)
    <2>1. ErrorAlone([st |-> "Idle", closing |-> FALSE, key |-> s.key], w, q)
      BY Zenon, <1>1 DEF Answered, ErrorAlone
    <2>2. Streamed([st |-> "Idle", closing |-> FALSE, key |-> s.key], w, q, g)
      BY Zenon, <1>1 DEF Answered, Streamed, Stream
    <2>3. QED
      BY Zenon, <2>1, <2>2 DEF Answered
  <1>2. ASSUME s.st = "Send", s.closing
        PROVE  Answered([st |-> "Closing", closing |-> FALSE, key |-> s.key], w, q, g)
    <2>1. ErrorAlone([st |-> "Closing", closing |-> FALSE, key |-> s.key], w, q)
      BY Zenon, <1>2 DEF Answered, ErrorAlone
    <2>2. Streamed([st |-> "Closing", closing |-> FALSE, key |-> s.key], w, q, g)
      BY Zenon, <1>2 DEF Answered, Streamed, Stream
    <2>3. QED
      BY Zenon, <2>1, <2>2 DEF Answered
  <1>3. ASSUME s.st = "Send"
        PROVE  Answered(InAbsent, w, q, g)
    <2>1. ErrorAlone(InAbsent, w, q)
      BY Zenon, <1>3 DEF Answered, ErrorAlone, InAbsent
    <2>2. Streamed(InAbsent, w, q, g)
      BY Zenon DEF Streamed, Stream, InAbsent
    <2>3. QED
      BY Zenon, <2>1, <2>2 DEF Answered
  <1>4. ASSUME s.st = "Closing"
        PROVE  Answered(InAbsent, w, <<>>, g)
    <2>1. DOMAIN <<>> = {}
      OBVIOUS
    <2>2. Ordered(w, <<>>, g)
      BY Zenon, <2>1 DEF Answered, Ordered, Rising, Before, UpTo
    <2>3. ErrorAlone(InAbsent, w, <<>>)
      BY Zenon, <1>4 DEF Answered, ErrorAlone, InAbsent
    <2>4. Streamed(InAbsent, w, <<>>, g)
      BY ZenonT(40) DEF Streamed, Stream, InAbsent
    <2>5. QED
      BY Zenon, <2>2, <2>3, <2>4 DEF Answered
  <1>5. QED
    BY Zenon, <1>1, <1>2, <1>3, <1>4

-----------------------------------------------------------------------------
(* Answers to inbound requests.                                            *)

\* What holds of every inbound substream; only a request that was handed over is
\* answered.
AnswersInv ==
    \A id \in InIds :
        /\ Answered(inbound_substreams[id], wire[id], queued_outbound_items[id], given[id])
        /\ given[id] # <<>> => id \in seen

\* Only these actions touch the answers.
LEMMA AnswersFrame ==
    ASSUME [Next]_vars
    PROVE  \/ InjectInboundRequest
           \/ \E id \in InIds, kind \in Responses : InjectResponse(id, kind)
           \/ \E id \in InIds : \/ PurgeInbound(id)
                                \/ InboundSent(id) \/ InboundSendError(id)
                                \/ InboundIdle(id) \/ InboundClosed(id)
           \/ /\ UNCHANGED <<inbound_substreams, queued_outbound_items, wire, given>>
              /\ seen \subseteq seen'
  BY ZenonT(40) DEF Next, vars, PollStep, Callback, Deadline, PollPendingError,
         PollEventsOut, PollBegin, PurgeOutbound, BeginInbound,
         InboundNotReady, BeginOutbound, OutboundResponse, OutboundEnd,
         OutboundError, OutboundClosed, OutboundNotReady, PollDial,
         InjectRequest, InjectFullyNegotiatedOutbound, InjectDialUpgradeError,
         InjectInboundGoodbye, OutboundDeadline, InboundDeadline, inVars, eventVars

\* Nothing of the other inbound substreams changes.
SameBut(id) ==
    \A i \in InIds : i # id =>
        /\ inbound_substreams'[i] = inbound_substreams[i] /\ wire'[i] = wire[i]
        /\ queued_outbound_items'[i] = queued_outbound_items[i] /\ given'[i] = given[i]

\* A step on one inbound substream: what it leaves there is all there is to show.
LEMMA AnswersAt ==
    ASSUME AnswersInv, NEW id \in InIds, SameBut(id), seen \subseteq seen',
           Answered(inbound_substreams'[id], wire'[id], queued_outbound_items'[id],
                    given'[id]),
           given'[id] # <<>> => id \in seen'
    PROVE  AnswersInv'
  <1>1. ASSUME NEW i \in InIds, i # id
        PROVE  /\ Answered(inbound_substreams'[i], wire'[i], queued_outbound_items'[i],
                           given'[i])
               /\ given'[i] # <<>> => i \in seen'
    <2>1. /\ inbound_substreams'[i] = inbound_substreams[i] /\ wire'[i] = wire[i]
          /\ queued_outbound_items'[i] = queued_outbound_items[i] /\ given'[i] = given[i]
      BY Zenon, <1>1 DEF SameBut
    <2>2. QED
      BY Zenon, <2>1 DEF AnswersInv
  <1>2. QED
    BY Zenon, <1>1 DEF AnswersInv

\* What is known of one inbound substream before a step.
LEMMA AnswersKnown ==
    ASSUME TypeIn, TypeEvents, AnswersInv, NEW id \in InIds
    PROVE  /\ inbound_substreams[id] \in InState
           /\ wire[id] \in Seq(Item) /\ queued_outbound_items[id] \in Seq(Item)
           /\ given[id] \in Seq(ResponseKinds)
           /\ Answered(inbound_substreams[id], wire[id], queued_outbound_items[id], given[id])
           /\ given[id] # <<>> => id \in seen
  BY Zenon DEF TypeIn, TypeEvents, AnswersInv

\* The application's responses.
LEMMA AnswersGiven ==
    ASSUME TypeIn, TypeEvents, AnswersInv, NEW id \in InIds, NEW kind \in Responses,
           InjectResponse(id, kind)
    PROVE  AnswersInv'
  <1> DEFINE s == inbound_substreams[id]
             w == wire[id]
             q == queued_outbound_items[id]
             g == given[id]
             e == NextItem(kind, g)
  <1>1. /\ s \in InState /\ w \in Seq(Item) /\ q \in Seq(Item) /\ g \in Seq(ResponseKinds)
        /\ Answered(s, w, q, g)
    BY Zenon, AnswersKnown
  <1>2. kind \in ResponseKinds
    BY Zenon, HandlerAssumption
  <1>3. Len(g) < MaxResponses /\ id \in seen /\ seen' = seen
    BY Zenon DEF InjectResponse
  <1>4. e \in Item
    BY <1>1, <1>2, <1>3, HandlerAssumption DEF NextItem, Item
  <1>5. given' = [given EXCEPT ![id] = Append(g, kind)]
    BY Zenon DEF InjectResponse
  <1>6. given'[id] = Append(g, kind) /\ \A i \in InIds : i # id => given'[i] = given[i]
    BY Zenon, <1>5 DEF TypeEvents
  <1>7. CASE s.st = "Idle" /\ kind = "Termination"
    <2>1. /\ inbound_substreams' = [inbound_substreams EXCEPT
                 ![id] = [st |-> "Closing", closing |-> FALSE, key |-> s.key]]
          /\ queued_outbound_items' = queued_outbound_items /\ wire' = wire
      BY Zenon, <1>7 DEF InjectResponse, SetState
    <2>2. /\ inbound_substreams'[id] = [st |-> "Closing", closing |-> FALSE, key |-> s.key]
          /\ SameBut(id)
      BY Zenon, <1>6, <2>1 DEF SameBut, TypeIn
    <2>3. Answered(inbound_substreams'[id], wire'[id], queued_outbound_items'[id], given'[id])
      BY Zenon, <1>1, <1>6, <1>7, <2>1, <2>2, AnsweredEnd
    <2>4. QED
      BY Zenon, <1>3, <2>2, <2>3, AnswersAt
  <1>8. CASE s.st = "Idle" /\ kind # "Termination"
    <2> DEFINE c == ~response_multiple_responses(kind) \/ is_error(kind)
    <2>0. c \in BOOLEAN /\ (c <=> kind # "Chunk")
      BY Zenon, <1>2, <1>8 DEF response_multiple_responses, is_error, ResponseKinds
    <2>1. /\ StartSend(id, e, c) /\ queued_outbound_items' = queued_outbound_items
      BY Zenon, <1>8 DEF InjectResponse, NextItem
    <2> HIDE DEF c
    <2>2. /\ inbound_substreams'[id] = [st |-> "Send", closing |-> c, key |-> s.key]
          /\ wire'[id] = Append(w, e)
          /\ SameBut(id)
      BY Zenon, <1>6, <2>1 DEF StartSend, SameBut, TypeIn
    <2>3. Answered(inbound_substreams'[id], wire'[id], queued_outbound_items'[id], given'[id])
      BY Zenon, <1>1, <1>2, <1>4, <1>6, <1>8, <2>0, <2>1, <2>2, AnsweredNow
    <2>4. QED
      BY Zenon, <1>3, <2>2, <2>3, AnswersAt
  <1>9. CASE s.st = "Send" /\ response_multiple_responses(kind)
    <2>1. /\ queued_outbound_items' = [queued_outbound_items EXCEPT ![id] = Append(q, e)]
          /\ inbound_substreams' = inbound_substreams /\ wire' = wire
      BY Zenon, <1>9 DEF InjectResponse, NextItem
    <2>2. queued_outbound_items'[id] = Append(q, e) /\ SameBut(id)
      BY Zenon, <1>6, <2>1 DEF SameBut, TypeIn
    <2>3. Answered(inbound_substreams'[id], wire'[id], queued_outbound_items'[id], given'[id])
      BY Zenon, <1>1, <1>2, <1>4, <1>6, <1>9, <2>1, <2>2, AnsweredLater
    <2>4. QED
      BY Zenon, <1>3, <2>2, <2>3, AnswersAt
  <1>10. CASE s.st = "Send" /\ ~response_multiple_responses(kind)
    <2>1. /\ inbound_substreams' = [inbound_substreams EXCEPT ![id] = [s EXCEPT !.closing = TRUE]]
          /\ queued_outbound_items' = queued_outbound_items /\ wire' = wire
          /\ kind = "Status"
      BY Zenon, <1>10 DEF InjectResponse, response_multiple_responses
    <2>2. inbound_substreams'[id] = [s EXCEPT !.closing = TRUE] /\ SameBut(id)
      BY Zenon, <1>6, <2>1 DEF SameBut, TypeIn
    <2>3. Answered([s EXCEPT !.closing = TRUE], w, q, Append(g, "Status"))
      BY Zenon, <1>1, <1>10, AnsweredClosing
    <2>4. Answered(inbound_substreams'[id], wire'[id], queued_outbound_items'[id], given'[id])
      BY Zenon, <1>6, <2>1, <2>2, <2>3
    <2>5. QED
      BY Zenon, <1>3, <2>2, <2>4, AnswersAt
  <1>11. CASE s.st \in {"Closing", "Absent"}
    <2>1. inbound_substreams' = inbound_substreams /\ wire' = wire
          /\ queued_outbound_items' = queued_outbound_items
      BY <1>11 DEF InjectResponse
    <2>2. SameBut(id)
      BY Zenon, <1>6, <2>1 DEF SameBut
    <2>3. Answered(inbound_substreams'[id], wire'[id], queued_outbound_items'[id], given'[id])
      BY Zenon, <1>1, <1>2, <1>6, <1>11, <2>1, AnsweredNowhere
    <2>4. QED
      BY Zenon, <1>3, <2>2, <2>3, AnswersAt
  <1>12. QED
    BY Zenon, <1>7, <1>8, <1>9, <1>10, <1>11 DEF InjectResponse

\* poll() finds the timer of an inbound substream expired.
LEMMA AnswersPurged ==
    ASSUME TypeIn, TypeEvents, AnswersInv, NEW id \in InIds, PurgeInbound(id)
    PROVE  AnswersInv'
  <1> DEFINE s == inbound_substreams[id]
             w == wire[id]
             q == queued_outbound_items[id]
             g == given[id]
  <1>1. /\ s \in InState /\ w \in Seq(Item) /\ q \in Seq(Item) /\ g \in Seq(ResponseKinds)
        /\ Answered(s, w, q, g) /\ (g # <<>> => id \in seen)
    BY Zenon, AnswersKnown
  <1>2. given' = given /\ seen' = seen
    BY Zenon DEF PurgeInbound, eventVars
  <1>3. SUFFICES /\ Answered(inbound_substreams'[id], wire'[id], queued_outbound_items'[id], g)
                 /\ SameBut(id)
    BY Zenon, <1>1, <1>2, AnswersAt
  <1>4. CASE UNCHANGED <<inbound_substreams, queued_outbound_items, wire>>
    BY Zenon, <1>1, <1>2, <1>4 DEF SameBut
  <1>5. CASE s.st = "Send" /\ close(id)
    <2>1. /\ inbound_substreams' = [inbound_substreams EXCEPT
                 ![id] = [st |-> "Send", closing |-> s.closing, key |-> FALSE]]
          /\ queued_outbound_items' =
                 IF s.closing THEN queued_outbound_items
                 ELSE [queued_outbound_items EXCEPT
                           ![id] = q \o <<TimeoutError, TimeoutTermination>>]
          /\ wire' = wire
      BY <1>5 DEF close
    <2>2. /\ inbound_substreams'[id] = [st |-> "Send", closing |-> s.closing, key |-> FALSE]
          /\ s.closing => queued_outbound_items'[id] = q
          /\ ~s.closing => queued_outbound_items'[id] = q \o <<TimeoutError, TimeoutTermination>>
          /\ SameBut(id)
      BY Zenon, <1>2, <2>1 DEF SameBut, TypeIn
    <2>3. /\ ~s.closing => Answered([st |-> "Send", closing |-> s.closing, key |-> FALSE], w,
                                    q \o <<TimeoutError, TimeoutTermination>>, g)
          /\ s.closing => Answered([st |-> "Send", closing |-> s.closing, key |-> FALSE], w, q, g)
      BY Zenon, <1>1, <1>5, AnsweredTimeout
    <2>4. QED
      BY Zenon, <2>1, <2>2, <2>3
  <1>6. CASE /\ s.st \in {"Idle", "Closing"}
             /\ inbound_substreams' = [inbound_substreams EXCEPT
                    ![id] = [st |-> "Closing", closing |-> FALSE, key |-> FALSE]]
             /\ queued_outbound_items' = queued_outbound_items /\ wire' = wire
    <2>1. /\ inbound_substreams'[id] = [st |-> "Closing", closing |-> FALSE, key |-> FALSE]
          /\ SameBut(id)
      BY Zenon, <1>2, <1>6 DEF SameBut, TypeIn
    <2>2. Answered([st |-> "Closing", closing |-> FALSE, key |-> FALSE], w, q, g)
      BY Zenon, <1>1, <1>6, AnsweredTimeout
    <2>3. QED
      BY Zenon, <1>6, <2>1, <2>2
  <1>7. CASE /\ s.st = "Idle"
             /\ inbound_substreams' = [inbound_substreams EXCEPT
                    ![id] = [st |-> "Send", closing |-> TRUE, key |-> FALSE]]
             /\ wire' = [wire EXCEPT ![id] = Append(w, TimeoutError)]
             /\ queued_outbound_items' = queued_outbound_items
    <2>1. /\ inbound_substreams'[id] = [st |-> "Send", closing |-> TRUE, key |-> FALSE]
          /\ wire'[id] = Append(w, TimeoutError)
          /\ SameBut(id)
      BY Zenon, <1>2, <1>7 DEF SameBut, TypeIn
    <2>2. Answered([st |-> "Send", closing |-> TRUE, key |-> FALSE],
                   Append(w, TimeoutError), q, g)
      BY Zenon, <1>1, <1>7, AnsweredTimeout
    <2>3. QED
      BY Zenon, <1>7, <2>1, <2>2
  <1>8. QED
    BY Zenon, <1>4, <1>5, <1>6, <1>7 DEF PurgeInbound, close

\* apply_queued_responses sends the oldest queued item, or closes the substream when that
\* is the termination of its stream, or leaves it idle.
LEMMA AnswersApplied ==
    ASSUME TypeIn, TypeEvents, AnswersInv, NEW id \in InIds, apply_queued_responses(id),
           UNCHANGED <<given, seen>>, inbound_substreams[id].st \in {"Send", "Idle"},
           inbound_substreams[id].st = "Send" => ~inbound_substreams[id].closing
    PROVE  AnswersInv'
  <1> DEFINE s == inbound_substreams[id]
             w == wire[id]
             q == queued_outbound_items[id]
             g == given[id]
  <1>1. /\ s \in InState /\ w \in Seq(Item) /\ q \in Seq(Item) /\ g \in Seq(ResponseKinds)
        /\ Answered(s, w, q, g) /\ (g # <<>> => id \in seen)
    BY Zenon, AnswersKnown
  <1>2. SUFFICES /\ Answered(inbound_substreams'[id], wire'[id], queued_outbound_items'[id], g)
                 /\ SameBut(id)
    BY Zenon, <1>1, AnswersAt
  <1>3. CASE q = <<>>
    <2>1. /\ inbound_substreams' = [inbound_substreams EXCEPT
                 ![id] = [st |-> "Idle", closing |-> FALSE, key |-> s.key]]
          /\ queued_outbound_items' = queued_outbound_items /\ wire' = wire
      BY Zenon, <1>3 DEF apply_queued_responses, SetState
    <2>2. /\ inbound_substreams'[id] = [st |-> "Idle", closing |-> FALSE, key |-> s.key]
          /\ SameBut(id)
      BY Zenon, <2>1 DEF SameBut, TypeIn
    <2>3. s.st # "Absent"
      OBVIOUS
    <2>4. Answered([st |-> "Idle", closing |-> FALSE, key |-> s.key], w, q, g)
      BY Zenon, <1>1, <1>3, <2>3, AnsweredOver
    <2>5. QED
      BY Zenon, <2>1, <2>2, <2>4
  <1>4. CASE q # <<>>
    <2>1. ~s.closing
      BY Zenon, <1>1, <1>4 DEF Answered, ErrorAlone
    <2>2. /\ Head(q).kind = "Termination" =>
                 Answered([st |-> "Closing", closing |-> FALSE, key |-> s.key], w, Tail(q), g)
          /\ Head(q).kind # "Termination" =>
                 Answered([st |-> "Send", closing |-> FALSE, key |-> s.key],
                          Append(w, Head(q)), Tail(q), g)
      BY Zenon, <1>1, <1>4, <2>1, AnsweredDrained
    <2>3. queued_outbound_items' = [queued_outbound_items EXCEPT ![id] = Tail(q)]
      BY Zenon, <1>4 DEF apply_queued_responses
    <2>4. CASE Head(q).kind = "Termination"
      <3>1. /\ inbound_substreams' = [inbound_substreams EXCEPT
                   ![id] = [st |-> "Closing", closing |-> FALSE, key |-> s.key]]
            /\ wire' = wire
        BY Zenon, <1>4, <2>4 DEF apply_queued_responses, SetState
      <3>2. /\ inbound_substreams'[id] = [st |-> "Closing", closing |-> FALSE, key |-> s.key]
            /\ queued_outbound_items'[id] = Tail(q)
            /\ SameBut(id)
        BY Zenon, <2>3, <3>1 DEF SameBut, TypeIn
      <3>3. QED
        BY Zenon, <2>2, <2>4, <3>1, <3>2
    <2>5. CASE Head(q).kind # "Termination"
      <3>1. /\ inbound_substreams' = [inbound_substreams EXCEPT
                   ![id] = [st |-> "Send", closing |-> FALSE, key |-> s.key]]
            /\ wire' = [wire EXCEPT ![id] = Append(w, Head(q))]
        BY Zenon, <1>4, <2>5 DEF apply_queued_responses, StartSend
      <3>2. /\ inbound_substreams'[id] = [st |-> "Send", closing |-> FALSE, key |-> s.key]
            /\ wire'[id] = Append(w, Head(q))
            /\ queued_outbound_items'[id] = Tail(q)
            /\ SameBut(id)
        BY Zenon, <2>3, <3>1 DEF SameBut, TypeIn
      <3>3. QED
        BY Zenon, <2>2, <2>5, <3>2
    <2>6. QED
      BY Zenon, <2>4, <2>5
  <1>5. QED
    BY Zenon, <1>3, <1>4

\* poll() drives an inbound substream: its send completes or fails, it is idle, or it is
\* closed.
LEMMA AnswersDriven ==
    ASSUME TypeIn, TypeEvents, AnswersInv, NEW id \in InIds,
           \/ InboundSent(id) \/ InboundSendError(id)
           \/ InboundIdle(id) \/ InboundClosed(id)
    PROVE  AnswersInv'
  <1> DEFINE s == inbound_substreams[id]
             w == wire[id]
             q == queued_outbound_items[id]
             g == given[id]
  <1>1. /\ s \in InState /\ w \in Seq(Item) /\ q \in Seq(Item) /\ g \in Seq(ResponseKinds)
        /\ Answered(s, w, q, g) /\ (g # <<>> => id \in seen)
    BY Zenon, AnswersKnown
  <1>2. given' = given /\ seen' = seen
    BY Zenon DEF InboundSent, InboundSendError, InboundIdle, InboundClosed, eventVars
  <1>3. ASSUME /\ Answered(inbound_substreams'[id], wire'[id], queued_outbound_items'[id], g)
               /\ SameBut(id)
        PROVE  AnswersInv'
    BY Zenon, <1>1, <1>2, <1>3, AnswersAt
  <1>4. CASE InboundSent(id) /\ s.closing
    <2>1. /\ inbound_substreams' = [inbound_substreams EXCEPT
                 ![id] = [st |-> "Closing", closing |-> FALSE, key |-> s.key]]
          /\ queued_outbound_items' = queued_outbound_items /\ wire' = wire
          /\ s.st = "Send"
      BY Zenon, <1>4 DEF InboundSent, SetState
    <2>2. /\ inbound_substreams'[id] = [st |-> "Closing", closing |-> FALSE, key |-> s.key]
          /\ SameBut(id)
      BY Zenon, <1>2, <2>1 DEF SameBut, TypeIn
    <2>3. Answered([st |-> "Closing", closing |-> FALSE, key |-> s.key], w, q, g)
      BY Zenon, <1>1, <1>4, <2>1, AnsweredOver
    <2>4. QED
      BY Zenon, <1>3, <2>1, <2>2, <2>3
  <1>5. CASE (InboundSent(id) /\ ~s.closing) \/ InboundIdle(id)
    <2>1. /\ apply_queued_responses(id) /\ s.st \in {"Send", "Idle"}
          /\ s.st = "Send" => ~s.closing
      BY Zenon, <1>5 DEF InboundSent, InboundIdle
    <2>2. QED
      BY Zenon, <1>2, <2>1, AnswersApplied
  <1>6. CASE InboundSendError(id)
    <2>1. /\ inbound_substreams' = [inbound_substreams EXCEPT ![id] = InAbsent]
          /\ queued_outbound_items' = queued_outbound_items /\ wire' = wire
          /\ s.st = "Send"
      BY Zenon, <1>6 DEF InboundSendError, DropInbound
    <2>2. inbound_substreams'[id] = InAbsent /\ SameBut(id)
      BY Zenon, <1>2, <2>1 DEF SameBut, TypeIn
    <2>3. Answered(InAbsent, w, q, g)
      BY Zenon, <1>1, <2>1, AnsweredOver
    <2>4. QED
      BY Zenon, <1>3, <2>1, <2>2, <2>3
  <1>7. CASE InboundClosed(id)
    <2>1. /\ inbound_substreams' = [inbound_substreams EXCEPT ![id] = InAbsent]
          /\ queued_outbound_items' = [queued_outbound_items EXCEPT ![id] = <<>>]
          /\ wire' = wire /\ s.st = "Closing"
      BY Zenon, <1>7 DEF InboundClosed, DropInbound
    <2>2. /\ inbound_substreams'[id] = InAbsent /\ queued_outbound_items'[id] = <<>>
          /\ SameBut(id)
      BY Zenon, <1>2, <2>1 DEF SameBut, TypeIn
    <2>3. Answered(InAbsent, w, <<>>, g)
      BY Zenon, <1>1, <2>1, AnsweredOver
    <2>4. QED
      BY Zenon, <1>3, <2>1, <2>2, <2>3
  <1>8. QED
    BY Zenon, <1>4, <1>5, <1>6, <1>7

\* A request negotiated by a peer gets an id no answer was ever given for.
LEMMA AnswersNegotiated ==
    ASSUME TypeIn, TypeEvents, AnswersInv, Fresh, InjectInboundRequest
    PROVE  AnswersInv'
  <1>1. PICK id : id = current_inbound_substream_id
    BY Zenon
  <1>2. /\ id \in InIds
        /\ inbound_substreams' = [inbound_substreams EXCEPT
               ![id] = [st |-> "Idle", closing |-> FALSE, key |-> TRUE]]
        /\ queued_outbound_items' = queued_outbound_items /\ wire' = wire
        /\ given' = given /\ seen' = seen
    BY Zenon, <1>1 DEF InjectInboundRequest
  <1>3. id >= current_inbound_substream_id
    BY <1>1, <1>2 DEF InIds
  <1>4. wire[id] = <<>> /\ id \notin seen
    BY Zenon, <1>2, <1>3 DEF Fresh
  <1>5. /\ Answered(inbound_substreams[id], wire[id], queued_outbound_items[id], given[id])
        /\ given[id] = <<>>
    BY Zenon, <1>2, <1>4 DEF AnswersInv
  <1>6. queued_outbound_items[id] = <<>>
    BY Zenon, <1>4, <1>5 DEF Answered, ErrorAlone
  <1>7. /\ inbound_substreams'[id] = [st |-> "Idle", closing |-> FALSE, key |-> TRUE]
        /\ SameBut(id)
    BY Zenon, <1>2 DEF SameBut, TypeIn
  <1>8. Answered(inbound_substreams'[id], wire'[id], queued_outbound_items'[id], given'[id])
    BY Zenon, <1>2, <1>4, <1>5, <1>6, <1>7, AnswersOpened
  <1>9. QED
    BY Zenon, <1>2, <1>5, <1>7, <1>8, AnswersAt

\* Every step keeps what is known of the answers.
LEMMA AnswersStep ==
    ASSUME IInv, AnswersInv, [Next]_vars
    PROVE  AnswersInv'
  <1>1. TypeIn /\ TypeEvents /\ Fresh
    BY Zenon DEF IInv, TypeOK, EventsInv
  <1>2. CASE InjectInboundRequest
    BY Zenon, <1>1, <1>2, AnswersNegotiated
  <1>3. ASSUME NEW id \in InIds, NEW kind \in Responses, InjectResponse(id, kind)
        PROVE  AnswersInv'
    BY Zenon, <1>1, <1>3, AnswersGiven
  <1>4. ASSUME NEW id \in InIds,
               \/ PurgeInbound(id)
               \/ InboundSent(id) \/ InboundSendError(id)
               \/ InboundIdle(id) \/ InboundClosed(id)
        PROVE  AnswersInv'
    BY Zenon, <1>1, <1>4, AnswersPurged, AnswersDriven
  <1>5. CASE /\ UNCHANGED <<inbound_substreams, queued_outbound_items, wire, given>>
             /\ seen \subseteq seen'
    BY Zenon, <1>5 DEF AnswersInv
  <1>6. QED
    BY Zenon, <1>2, <1>3, <1>4, <1>5, AnswersFrame

\* Nothing was answered yet.
LEMMA AnswersInit ==
    ASSUME Init
    PROVE  AnswersInv
  <1> SUFFICES ASSUME NEW id \in InIds
               PROVE  /\ Answered(inbound_substreams[id], wire[id],
                                  queued_outbound_items[id], given[id])
                      /\ given[id] # <<>> => id \in seen
    BY Zenon DEF AnswersInv
  <1>1. /\ inbound_substreams[id] = InAbsent /\ wire[id] = <<>>
        /\ queued_outbound_items[id] = <<>> /\ given[id] = <<>>
    BY Zenon DEF Init
  <1>2. Answered(InAbsent, <<>>, <<>>, <<>>)
    BY DEF Answered, Ordered, Rising, Before, UpTo, ErrorAlone, ErrorFirst, Streamed,
           Stream, InAbsent
  <1>3. QED
    BY Zenon, <1>1, <1>2

\* What was sent is in order; an error that comes first is all that was sent.
LEMMA AnswersInvImplies ==
    ASSUME TypeIn, AnswersInv
    PROVE  WireInOrder /\ FirstErrorIsLast
  BY Zenon DEF AnswersInv, Answered, Ordered, Rising, ErrorAlone, ErrorFirst, WireInOrder,
         FirstErrorIsLast

\* A peer that gets an error as the first response to its request gets nothing else: an
\* idle substream closes behind the error, whether the application or the timeout gave it.
THEOREM ErrorsComeAlone == Spec => []FirstErrorIsLast
  <1>1. Init => AnswersInv
    BY Zenon, AnswersInit
  <1>2. IInv /\ AnswersInv /\ [Next]_vars => AnswersInv'
    BY Zenon, AnswersStep
  <1>3. IInv /\ AnswersInv => FirstErrorIsLast
    BY Zenon, AnswersInvImplies DEF IInv, TypeOK
  <1>4. QED
    BY <1>1, <1>2, <1>3, Invariance, PTL DEF Spec

\* A peer gets the responses in the order they were given, each once; when the application
\* ends a stream before the timer fires, every chunk was sent before poll() lets the
\* substream go.
THEOREM AnswersKeepOrder == Spec => AnswersInOrder
  <1> DEFINE Chunks ==
        \A id \in InIds :
          (/\ inbound_substreams[id].st = "Closing"
           /\ inbound_substreams[id].key
           /\ inbound_substreams'[id].st = "Absent"
           /\ \A j \in DOMAIN given[id] : given[id][j] \in {"Chunk", "Termination"})
          => GivenChunks(id)
  <1>1. Init => AnswersInv
    BY Zenon, AnswersInit
  <1>2. IInv /\ AnswersInv /\ [Next]_vars => AnswersInv'
    BY Zenon, AnswersStep
  <1>3. IInv /\ AnswersInv => WireInOrder
    BY Zenon, AnswersInvImplies DEF IInv, TypeOK
  <1>4. AnswersInv => Chunks
    BY Zenon DEF AnswersInv, Answered, Streamed, Stream, AllChunks, GivenChunks
  <1>5. AnswersInv /\ [Next]_vars => [Chunks]_vars
    BY Zenon, <1>4
  <1>6. QED
    BY <1>1, <1>2, <1>3, <1>5, Invariance, PTL DEF Spec, AnswersInOrder,
       ChunksBeforeTermination
=============================================================================
