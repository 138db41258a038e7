---------------------- MODULE WebSocketTransportProofs ----------------------
(***************************************************************************)
(* Every reply of the server finds the caller it belongs to, and every     *)
(* notification the stream it belongs to, for any number of callers, calls *)
(* of any kinds, and any interleaving of the callers with ws_task and the  *)
(* server.                                                                 *)
(***************************************************************************)
EXTENDS WebSocketTransport, TLAPS

-----------------------------------------------------------------------------
(* The ids that prepare() draws.                                           *)

\* The ids of all calls are below n and no two are the same.
Unique(f, n) ==
    /\ \A c \in Callers : \A i \in 1..Len(f[c]) : f[c][i] < n
    /\ \A c, d \in Callers : \A i \in 1..Len(f[c]), j \in 1..Len(f[d]) :
           f[c][i] = f[d][j] => c = d /\ i = j

\* Ids are drawn once and grow; a call that has been prepared has all of its ids.
IdInv ==
    /\ id \in Nat \ {0}
    /\ step \in [Callers -> Steps]
    /\ ids \in [Callers -> Seq(Nat \ {0})]
    /\ \A c \in Callers : /\ Len(ids[c]) <= Size(c)
                          /\ step[c] # "prepare" => Len(ids[c]) = Size(c)
    /\ Unique(ids, id)

\* A call is one request, two or none.
LEMMA SizeType == \A c \in Callers : Size(c) \in 0..2
BY DEF Size

\* At first no call has an id.
LEMMA InitId == Init => IdInv
BY SizeType DEF Init, IdInv, Unique, Steps

\* Only Prepare draws ids, and nobody goes back to it.
LEMMA OnlyPrepareDraws ==
    ASSUME IdInv, [Next]_vars, \A c \in Callers : ~Prepare(c)
    PROVE  /\ UNCHANGED <<id, ids>>
           /\ step' \in [Callers -> Steps]
           /\ \A c \in Callers : step'[c] = "prepare" <=> step[c] = "prepare"
<1> USE DEF IdInv, Steps
<1>1. ASSUME NEW c \in Callers, Register(c)
      PROVE  /\ UNCHANGED <<id, ids>> /\ step' \in [Callers -> Steps]
             /\ \A d \in Callers : step'[d] = "prepare" <=> step[d] = "prepare"
  BY Zenon, <1>1 DEF Register, After
<1>2. ASSUME NEW c \in Callers, Send(c)
      PROVE  /\ UNCHANGED <<id, ids>> /\ step' \in [Callers -> Steps]
             /\ \A d \in Callers : step'[d] = "prepare" <=> step[d] = "prepare"
  BY Zenon, <1>2 DEF Send, After
<1>3. ASSUME NEW c \in Callers, Await(c)
      PROVE  /\ UNCHANGED <<id, ids>> /\ step' \in [Callers -> Steps]
             /\ \A d \in Callers : step'[d] = "prepare" <=> step[d] = "prepare"
  BY Zenon, <1>3 DEF Await
<1>4. ASSUME NEW c \in Callers, Subscribe(c) \/ DropStream(c) \/ Unsubscribe(c)
      PROVE  /\ UNCHANGED <<id, ids>> /\ step' \in [Callers -> Steps]
             /\ \A d \in Callers : step'[d] = "prepare" <=> step[d] = "prepare"
  BY Zenon, <1>4 DEF Subscribe, DropStream, Unsubscribe
<1>5. CASE TaskStep \/ End
  BY Zenon, <1>5 DEF TaskStep, End, Connect, Forward, IncomingNotification, IncomingResponse,
              IncomingMisnumbered, IncomingControl, callerVars
<1>6. CASE \E c \in Callers, ok \in BOOLEAN : Reply(c, ok)
  BY Zenon, <1>6 DEF Reply, callerVars
<1>7. CASE \E k \in SubscriptionIds : Notify(k)
  BY Zenon, <1>7 DEF Notify, callerVars
<1>8. CASE \E what \in {"Ping", "Close", "misnumbered", "garbage"} : Control(what)
  BY Zenon, <1>8 DEF Control, callerVars
<1>9. CASE UNCHANGED vars
  BY Zenon, <1>9 DEF vars, callerVars
<1> QED
  BY Zenon, <1>1, <1>2, <1>3, <1>4, <1>5, <1>6, <1>7, <1>8, <1>9 DEF Next, CallerStep

\* fetch_add gives a caller an id nobody has.
LEMMA DrawFresh ==
    ASSUME NEW f \in [Callers -> Seq(Nat \ {0})], NEW n \in Nat \ {0}, NEW c \in Callers,
           Unique(f, n)
    PROVE  Unique([f EXCEPT ![c] = Append(@, n)], n + 1)
<1> DEFINE g == [f EXCEPT ![c] = Append(@, n)]
<1>1. \A d \in Callers : Len(f[d]) \in Nat /\ \A i \in 1..Len(f[d]) : f[d][i] \in Nat
  OBVIOUS
<1>2. ASSUME NEW d \in Callers, NEW i \in 1..Len(g[d])
      PROVE  \/ d = c /\ i = Len(f[c]) + 1 /\ g[d][i] = n
             \/ i \in 1..Len(f[d]) /\ g[d][i] = f[d][i] /\ f[d][i] < n /\ f[d][i] \in Nat
  <2>1. CASE d = c
    <3>1. g[d] = Append(f[c], n) /\ Len(g[d]) = Len(f[c]) + 1
      BY <2>1
    <3> QED
      BY <3>1, <2>1, <1>1 DEF Unique
  <2>2. CASE d # c
    <3>1. g[d] = f[d]
      BY Zenon, <2>2
    <3> QED
      BY Zenon, <3>1, <1>1 DEF Unique
  <2> QED
    BY Zenon, <2>1, <2>2
<1> HIDE DEF g
<1>3. ASSUME NEW d \in Callers, NEW i \in 1..Len(g[d]) PROVE g[d][i] < n + 1
  <2>1. g[d][i] = n \/ (g[d][i] < n /\ g[d][i] \in Nat)
    BY Zenon, <1>2
  <2> QED
    BY <2>1
<1>4. ASSUME NEW d \in Callers, NEW e \in Callers,
             NEW i \in 1..Len(g[d]), NEW j \in 1..Len(g[e]), g[d][i] = g[e][j]
      PROVE  d = e /\ i = j
  <2>1. \/ d = c /\ i = Len(f[c]) + 1 /\ g[d][i] = n
        \/ i \in 1..Len(f[d]) /\ g[d][i] = f[d][i] /\ f[d][i] < n /\ f[d][i] \in Nat
    BY Zenon, <1>2
  <2>2. \/ e = c /\ j = Len(f[c]) + 1 /\ g[e][j] = n
        \/ j \in 1..Len(f[e]) /\ g[e][j] = f[e][j] /\ f[e][j] < n /\ f[e][j] \in Nat
    BY Zenon, <1>2
  <2>3. CASE i \in 1..Len(f[d]) /\ j \in 1..Len(f[e]) /\ f[d][i] = f[e][j]
    BY <2>3 DEF Unique
  <2> QED
    BY SMTT(30), <2>1, <2>2, <2>3, <1>4
<1>5. Unique(g, n + 1)
  BY Zenon, <1>3, <1>4 DEF Unique
<1> QED
  BY Zenon, <1>5 DEF g

\* Every step keeps the ids apart: fetch_add moves the counter past the id it gives.
LEMMA NextId == IdInv /\ [Next]_vars => IdInv'
<1> SUFFICES ASSUME IdInv, [Next]_vars PROVE IdInv'
  BY Zenon
<1>1. CASE \A c \in Callers : ~Prepare(c)
  BY Zenon, <1>1, OnlyPrepareDraws DEF IdInv
<1>2. ASSUME NEW c \in Callers, Prepare(c) PROVE IdInv'
  <2> USE SizeType DEF IdInv
  <2>1. CASE Len(ids[c]) = Size(c) /\ UNCHANGED <<id, ids>> /\
             step' = [step EXCEPT ![c] = After("prepare")]
    BY Zenon, <2>1 DEF After, Steps
  <2>2. CASE /\ Len(ids[c]) < Size(c) /\ ids' = [ids EXCEPT ![c] = Append(@, id)]
             /\ fetch_add /\ UNCHANGED step
    <3>1. id' = id + 1 /\ step' = step
      BY Zenon, <2>2 DEF fetch_add
    <3>2. /\ ids'[c] = Append(ids[c], id) /\ \A d \in Callers \ {c} : ids'[d] = ids[d]
          /\ ids' \in [Callers -> Seq(Nat \ {0})]
      BY <2>2
    <3>3. /\ Len(ids'[c]) = Len(ids[c]) + 1 /\ ids'[c][Len(ids[c]) + 1] = id
          /\ \A i \in 1..Len(ids[c]) : ids'[c][i] = ids[c][i]
      BY <3>2
    <3>. /\ \A d \in Callers : Len(ids[d]) \in Nat /\ Len(ids'[d]) \in Nat
         /\ \A d \in Callers : \A i \in 1..Len(ids[d]) : ids[d][i] \in Nat
      BY <3>2
    <3>0. Len(ids[c]) \in Nat /\ Size(c) \in Nat /\ Len(ids[c]) < Size(c)
      BY <2>2
    <3>6. \A d \in Callers : /\ Len(ids'[d]) <= Size(d)
                             /\ step'[d] # "prepare" => Len(ids'[d]) = Size(d)
      <4> TAKE d \in Callers
      <4>1. CASE d = c
        <5>1. step'[c] = "prepare"
          BY Zenon, <3>1, <1>2 DEF Prepare
        <5>2. Len(ids'[c]) <= Size(c)
          BY ONLY <3>0, <3>3
        <5> QED
          BY ONLY Zenon, <4>1, <5>1, <5>2
      <4>2. CASE d # c
        BY Zenon, <4>2, <3>1, <3>2
      <4> QED
        BY Zenon, <4>1, <4>2
    <3>7. Unique(ids', id')
      BY Zenon, <2>2, <3>1, DrawFresh
    <3>8. id' \in Nat \ {0}
      BY <3>1
    <3>9. step' \in [Callers -> Steps]
      BY Zenon, <3>1
    <3>10. ids' \in [Callers -> Seq(Nat \ {0})]
      BY Zenon, <3>2
    <3>11. Unique(ids, id)'
      BY ONLY Zenon, <3>7 DEF Unique
    <3> QED
      BY ONLY Zenon, <3>6, <3>8, <3>9, <3>10, <3>11 DEF IdInv
  <2> QED
    BY Zenon, <1>2, <2>1, <2>2 DEF Prepare
<1> QED
  BY Zenon, <1>1, <1>2

-----------------------------------------------------------------------------
(* Where the request of a call is, or its reply.                           *)

\* Where the messages of a channel are after one is sent.
LEMMA AppendAt ==
    ASSUME NEW S, NEW s \in Seq(S), NEW m \in S
    PROVE  /\ Append(s, m) \in Seq(S)
           /\ \A k \in DOMAIN Append(s, m) :
                  \/ k \in DOMAIN s /\ Append(s, m)[k] = s[k]
                  \/ k = Len(s) + 1 /\ Append(s, m)[k] = m /\ k \notin DOMAIN s
OBVIOUS

\* Where the messages of a channel are after the first is received.
LEMMA TailAt ==
    ASSUME NEW S, NEW s \in Seq(S), s # <<>>
    PROVE  /\ Tail(s) \in Seq(S)
           /\ 1 \in DOMAIN s /\ Head(s) = s[1] /\ s[1] \in S
           /\ \A k \in DOMAIN Tail(s) : /\ k \in Nat /\ k + 1 \in DOMAIN s /\ k + 1 # 1
                                        /\ Tail(s)[k] = s[k + 1]
OBVIOUS

WriterMessages == [what : {"Text"}, caller : Callers] \cup [what : {"Pong", "Close"}]
IncomingMessages ==
    {ParseError} \cup [what : {"outputs"}, ids : Seq(Nat), ok : BOOLEAN, sub : Nat]
    \cup [what : {"note"}, sub : Nat, n : Nat] \cup [what : {"Ping", "Close", "misnumbered"}]

HasId(c) == Size(c) > 0
TextAt(c, k) == k \in DOMAIN writer /\ writer[k].what = "Text" /\ writer[k].caller = c
ReplyAt(c, k) == k \in DOMAIN incoming /\ incoming[k].what = "outputs" /\ incoming[k].ids = ids[c]

\* Before its text is sent nothing of a call is under way.
Unsent == {"prepare", "register", "send", "send_panic"}

\* The reply to a call is still to be read.
Open(c) == step[c] \in Unsent \/ (\E k : TextAt(c, k)) \/ c \in server \/ (\E k : ReplyAt(c, k))

\* A reply that has been read is not under way again.
Closing == \A c \in Callers : Open(c)' => Open(c)

\* A text is in one place at most, in it once, and only after it was sent; a response
\* with outputs belongs to a call that has ids.
PlaceInv ==
    /\ writer \in Seq(WriterMessages) /\ incoming \in Seq(IncomingMessages)
    /\ server \subseteq Callers
    /\ \A c \in Callers : \A k : TextAt(c, k) =>
           /\ step[c] \notin Unsent /\ c \notin server
           /\ \A j : TextAt(c, j) => j = k
           /\ HasId(c) => \A j : ~ReplyAt(c, j)
    /\ \A c \in server : /\ step[c] \notin Unsent
                         /\ HasId(c) => \A j : ~ReplyAt(c, j)
    /\ \A c \in Callers : HasId(c) => \A j, k : ReplyAt(c, j) /\ ReplyAt(c, k) => j = k
    /\ \A k \in DOMAIN incoming : incoming[k].what = "outputs" =>
           \E c \in Callers : HasId(c) /\ step[c] \notin Unsent /\ incoming[k].ids = ids[c]

\* No two calls with ids have the same.
LEMMA OwnIds ==
    ASSUME IdInv, NEW c \in Callers, NEW d \in Callers, HasId(d), step[d] # "prepare",
           ids[c] = ids[d]
    PROVE  c = d
<1>1. Len(ids[d]) = Size(d) /\ Size(d) \in 1..2 /\ Unique(ids, id)
  BY SizeType DEF IdInv, HasId
<1>2. 1 \in 1..Len(ids[d]) /\ 1 \in 1..Len(ids[c])
  BY <1>1
<1> QED
  BY ONLY Zenon, <1>1, <1>2, c \in Callers, d \in Callers, ids[c] = ids[d] DEF Unique

\* At first no request is under way.
LEMMA InitPlace == Init => PlaceInv
BY DEF Init, PlaceInv, TextAt, ReplyAt

\* What the server counts are naturals.
CountInv == granted \in Nat /\ notes \in [SubscriptionIds -> Nat]

\* The server's counters only grow.
LEMMA NextCount == CountInv /\ [Next]_vars => CountInv'
<1> SUFFICES ASSUME CountInv, [Next]_vars PROVE CountInv'
  BY Zenon
<1> USE DEF CountInv
<1>1. CASE \E c \in Callers : CallerStep(c) \/ DropStream(c) \/ Unsubscribe(c)
  BY Zenon, <1>1 DEF CallerStep, Prepare, Register, Send, Await, Subscribe, DropStream, Unsubscribe,
              serverVars
<1>2. CASE TaskStep \/ End \/ UNCHANGED vars
  BY Zenon, <1>2 DEF TaskStep, End, Connect, Forward, IncomingNotification, IncomingResponse,
              IncomingMisnumbered, IncomingControl, serverVars, vars
<1>3. CASE \E c \in Callers, ok \in BOOLEAN : Reply(c, ok)
  BY <1>3 DEF Reply
<1>4. CASE \E k \in SubscriptionIds : Notify(k)
  BY <1>4 DEF Notify
<1>5. CASE \E what \in {"Ping", "Close", "misnumbered", "garbage"} : Control(what)
  BY Zenon, <1>5 DEF Control
<1> QED
  BY Zenon, <1>1, <1>2, <1>3, <1>4, <1>5 DEF Next

\* A response with outputs is that of one call, which has sent its text.
LEMMA ReplyOwner ==
    ASSUME IdInv, PlaceInv, NEW c \in Callers, NEW k, ReplyAt(c, k)
    PROVE  HasId(c) /\ step[c] \notin Unsent
<1>1. PICK d \in Callers : HasId(d) /\ step[d] \notin Unsent /\ incoming[k].ids = ids[d]
  BY Zenon DEF PlaceInv, ReplyAt
<1>2. c = d
  BY Zenon, <1>1, OwnIds DEF ReplyAt, Unsent
<1> QED
  BY Zenon, <1>1, <1>2

\* A call that draws an id does not take over the reply of another.
LEMMA ReplyStill ==
    ASSUME IdInv, IdInv', PlaceInv, UNCHANGED incoming,
           \A c \in Callers : step[c] \notin Unsent => step'[c] \notin Unsent /\ ids'[c] = ids[c]
    PROVE  \A c \in Callers : \A k : ReplyAt(c, k)' => ReplyAt(c, k)
<1> SUFFICES ASSUME NEW c \in Callers, NEW k, ReplyAt(c, k)' PROVE ReplyAt(c, k)
  BY Zenon
<1>1. k \in DOMAIN incoming /\ incoming[k].what = "outputs" /\ incoming[k].ids = ids'[c]
  BY Zenon DEF ReplyAt
<1>2. PICK d \in Callers : HasId(d) /\ step[d] \notin Unsent /\ incoming[k].ids = ids[d]
  BY Zenon, <1>1 DEF PlaceInv
<1>3. ids'[c] = ids'[d] /\ step'[d] \notin Unsent
  BY Zenon, <1>1, <1>2
<1>4. c = d
  <2>1. step'[d] # "prepare" /\ HasId(d)
    BY Zenon, <1>2, <1>3 DEF Unsent
  <2>2. Len(ids'[d]) = Size(d) /\ Size(d) \in 1..2
    BY <2>1, SizeType DEF IdInv, HasId
  <2>3. 1 \in 1..Len(ids'[d]) /\ 1 \in 1..Len(ids'[c])
    BY <1>3, <2>2
  <2>4. \A a, b \in Callers : \A i \in 1..Len(ids'[a]), l \in 1..Len(ids'[b]) :
            ids'[a][i] = ids'[b][l] => a = b
    BY Zenon DEF IdInv, Unique
  <2> QED
    BY Zenon, <1>3, <2>3, <2>4
<1> QED
  BY Zenon, <1>1, <1>2, <1>4 DEF ReplyAt

\* Steps that neither send nor receive.
LEMMA PlaceStill ==
    ASSUME IdInv, IdInv', PlaceInv, UNCHANGED <<writer, incoming, server>>,
           \A c \in Callers : step[c] \notin Unsent => step'[c] \notin Unsent /\ ids'[c] = ids[c]
    PROVE  PlaceInv' /\ Closing
<1>1. \A c \in Callers : \A k : ReplyAt(c, k)' => ReplyAt(c, k)
  BY Zenon, ReplyStill
<1>2. \A c \in Callers : \A k : TextAt(c, k)' <=> TextAt(c, k)
  BY Zenon DEF TextAt
<1>3. PlaceInv'
  BY Zenon, <1>1, <1>2 DEF PlaceInv
<1>4. Closing
  BY Zenon, <1>1, <1>2 DEF Closing, Open
<1> QED
  BY Zenon, <1>3, <1>4

\* Send puts the one request of a call into the channel, ws_task forwards it to the
\* server, and the server answers it once: it is never in two places, and when its reply
\* has been read nothing of it comes back.
LEMMA NextPlace == IdInv /\ IdInv' /\ CountInv /\ PlaceInv /\ [Next]_vars => PlaceInv' /\ Closing
<1> SUFFICES ASSUME IdInv, IdInv', CountInv, PlaceInv, [Next]_vars PROVE PlaceInv' /\ Closing
  BY Zenon
<1> USE DEF Unsent
<1>1. ASSUME NEW c \in Callers,
             Prepare(c) \/ Register(c) \/ Await(c) \/ Subscribe(c) \/ DropStream(c) \/ Unsubscribe(c)
      PROVE  PlaceInv' /\ Closing
  <2>1. UNCHANGED <<writer, incoming, server>>
    BY Zenon, <1>1 DEF Prepare, Register, Await, Subscribe, DropStream, Unsubscribe, serverVars
  <2>2. \A d \in Callers : step[d] \notin Unsent => step'[d] \notin Unsent /\ ids'[d] = ids[d]
    <3>1. CASE Prepare(c)
      BY Zenon, <3>1 DEF Prepare, IdInv
    <3>2. CASE Register(c)
      BY Zenon, <3>2 DEF Register, IdInv
    <3>3. CASE Await(c)
      BY Zenon, <3>3 DEF Await, IdInv
    <3>4. CASE Subscribe(c) \/ DropStream(c) \/ Unsubscribe(c)
      BY Zenon, <3>4 DEF Subscribe, DropStream, Unsubscribe, IdInv
    <3> QED
      BY Zenon, <1>1, <3>1, <3>2, <3>3, <3>4
  <2> QED
    BY Zenon, <2>1, <2>2, PlaceStill
<1>2. CASE Connect \/ End \/ UNCHANGED vars
  <2>1. UNCHANGED <<writer, incoming, server, step, ids>>
    BY Zenon, <1>2 DEF Connect, End, vars, callerVars, serverVars
  <2> QED
    BY Zenon, <2>1, PlaceStill
<1>3. ASSUME NEW c \in Callers, Send(c) PROVE PlaceInv' /\ Closing
  <2>0. UNCHANGED <<ids, server, incoming>> /\ step[c] = "send"
    BY Zenon, <1>3 DEF Send, serverVars
  <2>1. CASE step' = [step EXCEPT ![c] = "send_panic"] /\ UNCHANGED writer
    <3>1. \A d \in Callers : step[d] \notin Unsent => step'[d] \notin Unsent
      BY Zenon, <2>0, <2>1 DEF IdInv
    <3> QED
      BY Zenon, <2>0, <2>1, <3>1, PlaceStill
  <2>2. CASE /\ step' = [step EXCEPT ![c] = "await"]
             /\ writer' = Append(writer, [what |-> "Text", caller |-> c])
    <3> DEFINE m == [what |-> "Text", caller |-> c]
    <3>1. m \in WriterMessages /\ m.what = "Text" /\ m.caller = c
      BY Zenon DEF WriterMessages
    <3>2. /\ writer' \in Seq(WriterMessages)
          /\ \A k \in DOMAIN writer' : \/ k \in DOMAIN writer /\ writer'[k] = writer[k]
                                       \/ k = Len(writer) + 1 /\ writer'[k] = m
      BY <2>2, <3>1, AppendAt DEF PlaceInv
    <3>3. \A k : ~TextAt(c, k) /\ ~ReplyAt(c, k)
      BY Zenon, <2>0, ReplyOwner DEF PlaceInv
    <3>4. c \notin server
      BY Zenon, <2>0 DEF PlaceInv
    <3>5. \A d \in Callers : \A k : ReplyAt(d, k)' <=> ReplyAt(d, k)
      BY Zenon, <2>0 DEF ReplyAt
    <3>6. \A d \in Callers \ {c} : \A k : TextAt(d, k)' => TextAt(d, k)
      BY Zenon, <3>1, <3>2 DEF TextAt
    <3>7. \A k : TextAt(c, k)' => k = Len(writer) + 1
      BY Zenon, <3>2, <3>3 DEF TextAt
    <3>8. step'[c] = "await" /\ \A d \in Callers \ {c} : step'[d] = step[d]
      BY Zenon, <2>2 DEF IdInv
    <3>9. \A d \in Callers : \A k : TextAt(d, k)' =>
              /\ step'[d] \notin Unsent /\ d \notin server'
              /\ \A j : TextAt(d, j)' => j = k
              /\ HasId(d) => \A j : ~ReplyAt(d, j)'
      <4> TAKE d \in Callers
      <4>1. CASE d = c
        BY Zenon, <4>1, <2>0, <3>3, <3>4, <3>5, <3>7, <3>8
      <4>2. CASE d # c
        BY Zenon, <4>2, <2>0, <3>5, <3>6, <3>8 DEF PlaceInv
      <4> QED
        BY Zenon, <4>1, <4>2
    <3>10. \A d \in Callers : step[d] \notin Unsent => step'[d] \notin Unsent
      BY Zenon, <3>8
    <3>11. PlaceInv'
      BY Zenon, <2>0, <3>2, <3>5, <3>9, <3>10 DEF PlaceInv
    <3>12. \A d \in Callers \ {c} : Open(d)' => Open(d)
      BY Zenon, <2>0, <3>5, <3>6, <3>8 DEF Open
    <3> QED
      BY Zenon, <2>0, <3>11, <3>12 DEF Closing, Open
  <2> QED
    BY Zenon, <1>3, <2>1, <2>2 DEF Send, After
<1>4. CASE Forward
  <2>1. /\ UNCHANGED <<step, ids, incoming>> /\ writer # <<>> /\ writer' = Tail(writer)
        /\ server' = IF Head(writer).what = "Text" THEN server \cup {Head(writer).caller} ELSE server
    BY Zenon, <1>4 DEF Forward, callerVars
  <2>2. /\ writer' \in Seq(WriterMessages)
        /\ 1 \in DOMAIN writer /\ Head(writer) = writer[1] /\ writer[1] \in WriterMessages
        /\ \A k \in DOMAIN writer' : /\ k \in Nat /\ k + 1 \in DOMAIN writer /\ k + 1 # 1
                                     /\ writer'[k] = writer[k + 1]
    BY <2>1, TailAt DEF PlaceInv
  <2>3. \A d \in Callers : \A k : TextAt(d, k)' => k \in Nat /\ TextAt(d, k + 1) /\ ~TextAt(d, 1)
    BY ZenonT(40), <2>2 DEF TextAt, PlaceInv
  <2>4. \A d \in Callers : \A k : ReplyAt(d, k)' <=> ReplyAt(d, k)
    BY Zenon, <2>1 DEF ReplyAt
  <2>5. \A d \in server' : d \in Callers /\ (d \in server \/ TextAt(d, 1))
    BY Zenon, <2>1, <2>2 DEF TextAt, WriterMessages, PlaceInv
  <2>6. \A d \in Callers : \A k : TextAt(d, k)' =>
            /\ step[d] \notin Unsent /\ d \notin server'
            /\ \A j : TextAt(d, j)' => j = k
            /\ HasId(d) => \A j : ~ReplyAt(d, j)
    <3> SUFFICES ASSUME NEW d \in Callers, NEW k, TextAt(d, k)'
                 PROVE  /\ step[d] \notin Unsent /\ d \notin server'
                        /\ \A j : TextAt(d, j)' => j = k
                        /\ HasId(d) => \A j : ~ReplyAt(d, j)
      BY Zenon
    <3>1. k \in Nat /\ TextAt(d, k + 1) /\ ~TextAt(d, 1)
      BY Zenon, <2>3
    <3>2. /\ step[d] \notin Unsent /\ d \notin server /\ (HasId(d) => \A j : ~ReplyAt(d, j))
          /\ \A j : TextAt(d, j) => j = k + 1
      BY Zenon, <3>1 DEF PlaceInv
    <3>3. \A j : TextAt(d, j)' => j = k
      BY <2>3, <3>1, <3>2
    <3> QED
      BY Zenon, <2>5, <3>1, <3>2, <3>3
  <2>7. \A d \in server' : step[d] \notin Unsent /\ (HasId(d) => \A j : ~ReplyAt(d, j))
    BY Zenon, <2>5 DEF PlaceInv
  <2>8. PlaceInv'
    BY Zenon, <2>1, <2>2, <2>4, <2>5, <2>6, <2>7 DEF PlaceInv
  <2>9. Closing
    BY Zenon, <2>1, <2>3, <2>4, <2>5 DEF Closing, Open
  <2> QED
    BY Zenon, <2>8, <2>9
\* ws_task reads a message; the writer may get a pong or a close.
<1>5. CASE IncomingNotification \/ IncomingResponse \/ IncomingMisnumbered \/ IncomingControl
  <2>1. UNCHANGED <<step, ids, server>> /\ incoming # <<>> /\ incoming' = Tail(incoming)
    BY Zenon, <1>5 DEF IncomingNotification, IncomingResponse, IncomingMisnumbered, IncomingControl, callerVars, serverVars
  <2>2. \/ writer' = writer
        \/ \E m \in [what : {"Pong", "Close"}] : writer' = Append(writer, m)
    <3>1. CASE IncomingControl
      BY Zenon, <3>1 DEF IncomingControl
    <3>2. CASE IncomingNotification \/ IncomingResponse \/ IncomingMisnumbered
      BY Zenon, <3>2 DEF IncomingNotification, IncomingResponse, IncomingMisnumbered
    <3> QED
      BY Zenon, <1>5, <3>1, <3>2
  <2>3. writer' \in Seq(WriterMessages) /\ \A d \in Callers : \A k : TextAt(d, k)' => TextAt(d, k)
    <3>1. CASE writer' = writer
      BY Zenon, <3>1 DEF PlaceInv, TextAt
    <3>2. ASSUME NEW m \in [what : {"Pong", "Close"}], writer' = Append(writer, m)
          PROVE  writer' \in Seq(WriterMessages) /\ \A d \in Callers : \A k : TextAt(d, k)' => TextAt(d, k)
      <4>1. m \in WriterMessages /\ m.what # "Text"
        BY Zenon DEF WriterMessages
      <4>2. /\ writer' \in Seq(WriterMessages)
            /\ \A k \in DOMAIN writer' : \/ k \in DOMAIN writer /\ writer'[k] = writer[k]
                                         \/ writer'[k] = m
        BY <3>2, <4>1, AppendAt DEF PlaceInv
      <4> QED
        BY Zenon, <4>1, <4>2 DEF TextAt
    <3> QED
      BY Zenon, <2>2, <3>1, <3>2
  <2>4. /\ incoming' \in Seq(IncomingMessages)
        /\ \A k \in DOMAIN incoming' : k \in Nat /\ k + 1 \in DOMAIN incoming /\ incoming'[k] = incoming[k + 1]
    BY <2>1, TailAt DEF PlaceInv
  <2>5. \A d \in Callers : \A k : ReplyAt(d, k)' => k \in Nat /\ ReplyAt(d, k + 1)
    BY Zenon, <2>1, <2>4 DEF ReplyAt
  <2>6. \A d \in Callers : HasId(d) => \A j, k : ReplyAt(d, j)' /\ ReplyAt(d, k)' => j = k
    <3> SUFFICES ASSUME NEW d \in Callers, HasId(d), NEW j, NEW k, ReplyAt(d, j)', ReplyAt(d, k)'
                 PROVE  j = k
      BY Zenon
    <3>1. j \in Nat /\ k \in Nat /\ j + 1 = k + 1
      BY <2>5 DEF PlaceInv
    <3> QED
      BY ONLY <3>1
  <2>7. \A k \in DOMAIN incoming' : incoming'[k].what = "outputs" =>
            \E c \in Callers : HasId(c) /\ step[c] \notin Unsent /\ incoming'[k].ids = ids[c]
    BY <2>4 DEF PlaceInv
  <2>8. \A d \in Callers : \A k : TextAt(d, k)' =>
            /\ step[d] \notin Unsent /\ d \notin server
            /\ \A j : TextAt(d, j)' => j = k
            /\ HasId(d) => \A j : ~ReplyAt(d, j)'
    BY <2>3, <2>5 DEF PlaceInv
  <2>9. \A d \in server : step[d] \notin Unsent /\ (HasId(d) => \A j : ~ReplyAt(d, j)')
    BY <2>5 DEF PlaceInv
  <2>10. PlaceInv'
    BY Zenon, <2>1, <2>3, <2>4, <2>6, <2>7, <2>8, <2>9 DEF PlaceInv
  <2>11. Closing
    BY Zenon, <2>1, <2>3, <2>5 DEF Closing, Open
  <2> QED
    BY Zenon, <2>10, <2>11
<1>6. ASSUME NEW c \in Callers, NEW ok \in BOOLEAN, Reply(c, ok) PROVE PlaceInv' /\ Closing
  <2> DEFINE k0 == IF KindOf[c] = "Subscribe" /\ ok THEN granted + 1 ELSE 0
             m == IF KindOf[c] = "EmptyBatch" THEN ParseError ELSE Outputs(ids[c], ok, k0)
  <2>1. /\ UNCHANGED <<step, ids, writer>> /\ c \in server /\ server' = server \ {c}
        /\ incoming' = Append(incoming, m)
    BY Zenon, <1>6 DEF Reply, callerVars
  <2>2. m \in IncomingMessages
    <3>1. granted \in Nat /\ ids[c] \in Seq(Nat)
      BY DEF IdInv, CountInv
    <3> QED
      BY <3>1 DEF IncomingMessages, Outputs
  <2>3. m.what = "outputs" => HasId(c) /\ m.ids = ids[c]
    BY TransportAssumption DEF Outputs, ParseError, HasId, Size, CallKinds
  <2> HIDE DEF m, k0
  <2>4. /\ incoming' \in Seq(IncomingMessages)
        /\ \A k \in DOMAIN incoming' : \/ k \in DOMAIN incoming /\ incoming'[k] = incoming[k]
                                       \/ k = Len(incoming) + 1 /\ incoming'[k] = m
    BY <2>1, <2>2, AppendAt DEF PlaceInv
  <2>5. \A d \in Callers : \A k : TextAt(d, k)' <=> TextAt(d, k)
    BY Zenon, <2>1 DEF TextAt
  <2>6. step[c] \notin Unsent /\ \A k : ~TextAt(c, k) /\ ~(HasId(c) /\ ReplyAt(c, k))
    BY Zenon, <2>1 DEF PlaceInv
  <2>7. \A d \in Callers : \A k : ReplyAt(d, k)' =>
            ReplyAt(d, k) \/ (k = Len(incoming) + 1 /\ d = c)
    <3> SUFFICES ASSUME NEW d \in Callers, NEW k, ReplyAt(d, k)', ~ReplyAt(d, k)
                 PROVE  k = Len(incoming) + 1 /\ d = c
      BY Zenon
    <3>1. k = Len(incoming) + 1 /\ m.what = "outputs" /\ m.ids = ids[d]
      BY Zenon, <2>1, <2>4 DEF ReplyAt
    <3>2. d = c
      BY Zenon, <3>1, <2>3, <2>6, OwnIds
    <3> QED
      BY Zenon, <3>1, <3>2
  <2>8. \A d \in Callers : HasId(d) => \A j, k : ReplyAt(d, j)' /\ ReplyAt(d, k)' => j = k
    BY <2>6, <2>7 DEF PlaceInv
  <2>9. \A k \in DOMAIN incoming' : incoming'[k].what = "outputs" =>
            \E d \in Callers : HasId(d) /\ step[d] \notin Unsent /\ incoming'[k].ids = ids[d]
    BY ZenonT(40), <2>3, <2>4, <2>6 DEF PlaceInv
  <2>10. \A d \in Callers : \A k : TextAt(d, k) =>
             /\ step[d] \notin Unsent /\ d \notin server'
             /\ \A j : TextAt(d, j) => j = k
             /\ HasId(d) => \A j : ~ReplyAt(d, j)'
    BY ZenonT(40), <2>1, <2>6, <2>7 DEF PlaceInv
  <2>11. \A d \in server' : step[d] \notin Unsent /\ (HasId(d) => \A j : ~ReplyAt(d, j)')
    BY Zenon, <2>1, <2>7 DEF PlaceInv
  <2>12. PlaceInv'
    BY Zenon, <2>1, <2>4, <2>5, <2>8, <2>9, <2>10, <2>11 DEF PlaceInv
  <2>13. Closing
    BY Zenon, <2>1, <2>5, <2>7 DEF Closing, Open
  <2> QED
    BY Zenon, <2>12, <2>13
\* The server sends something that is no answer to a call with an id.
<1>7. ASSUME NEW m \in IncomingMessages, m.what # "outputs", incoming' = Append(incoming, m),
             UNCHANGED <<step, ids, writer, server>>
      PROVE  PlaceInv' /\ Closing
  <2>1. /\ incoming' \in Seq(IncomingMessages)
        /\ \A k \in DOMAIN incoming' : \/ k \in DOMAIN incoming /\ incoming'[k] = incoming[k]
                                       \/ incoming'[k] = m
    BY <1>7, AppendAt DEF PlaceInv
  <2>2. \A d \in Callers : \A k : TextAt(d, k)' <=> TextAt(d, k)
    BY Zenon, <1>7 DEF TextAt
  <2>3. \A d \in Callers : \A k : ReplyAt(d, k)' => ReplyAt(d, k)
    BY Zenon, <1>7, <2>1 DEF ReplyAt
  <2>4. \A k \in DOMAIN incoming' : incoming'[k].what = "outputs" =>
            \E d \in Callers : HasId(d) /\ step[d] \notin Unsent /\ incoming'[k].ids = ids[d]
    BY <1>7, <2>1 DEF PlaceInv
  <2>5. PlaceInv'
    BY Zenon, <1>7, <2>1, <2>2, <2>3, <2>4 DEF PlaceInv
  <2>6. Closing
    BY Zenon, <1>7, <2>2, <2>3 DEF Closing, Open
  <2> QED
    BY Zenon, <2>5, <2>6
<1>8. CASE \E k \in SubscriptionIds : Notify(k)
  <2>1. PICK k \in SubscriptionIds : Notify(k)
    BY Zenon, <1>8
  <2> DEFINE m == [what |-> "note", sub |-> k, n |-> notes[k] + 1]
  <2>2. m \in IncomingMessages /\ m.what # "outputs"
    BY DEF IncomingMessages, CountInv, SubscriptionIds
  <2> HIDE DEF m
  <2>3. incoming' = Append(incoming, m) /\ UNCHANGED <<step, ids, writer, server>>
    BY Zenon, <2>1 DEF Notify, callerVars, m
  <2> QED
    BY Zenon, <2>2, <2>3, <1>7
<1>9. CASE \E what \in {"Ping", "Close", "misnumbered", "garbage"} : Control(what)
  <2>1. PICK what \in {"Ping", "Close", "misnumbered", "garbage"} : Control(what)
    BY Zenon, <1>9
  <2> DEFINE m == IF what = "garbage" THEN ParseError ELSE [what |-> what]
  <2>2. m \in IncomingMessages /\ m.what # "outputs"
    BY Zenon DEF IncomingMessages, ParseError
  <2> HIDE DEF m
  <2>3. incoming' = Append(incoming, m) /\ UNCHANGED <<step, ids, writer, server>>
    BY Zenon, <2>1 DEF Control, callerVars, m
  <2> QED
    BY Zenon, <2>2, <2>3, <1>7
<1> QED
  BY Zenon, <1>1, <1>2, <1>3, <1>4, <1>5, <1>6, <1>8, <1>9 DEF Next, CallerStep, TaskStep

-----------------------------------------------------------------------------
(* The senders in pendings.                                                *)

Answers == {Nothing, Canceled} \cup IncomingMessages

\* A sender is stored under the first id of its call, from before the text is sent until
\* the reply is read; a call with an id has no answer before, and then its own.
PendInv ==
    /\ answer \in [Callers -> Answers]
    /\ \A k \in DOMAIN pendings : /\ k \in Nat /\ pendings[k] \in Callers
                                  /\ step[pendings[k]] \notin {"prepare", "register"}
                                  /\ first_id(pendings[k]) = k
    /\ \A c \in Callers : HasId(c) /\ step[c] \notin {"prepare", "register"} /\ answer[c] = Nothing =>
           first_id(c) \in DOMAIN pendings /\ pendings[first_id(c)] = c
    /\ \A c \in Callers : HasId(c) /\ Open(c) => answer[c] = Nothing
    /\ AnsweredByOwn

\* The id a prepared call waits under is its own, or 0 if it has none.
LEMMA FirstId ==
    ASSUME IdInv
    PROVE  /\ \A c \in Callers : first_id(c) \in Nat
           /\ \A c \in Callers : step[c] # "prepare" =>
                  (HasId(c) <=> first_id(c) # 0) /\ (HasId(c) => ids[c] # <<>> /\ first_id(c) = ids[c][1])
           /\ \A c, d \in Callers : /\ step[c] # "prepare" /\ step[d] # "prepare" /\ HasId(d)
                                    /\ first_id(c) = first_id(d)
                                    => c = d
<1>1. ids \in [Callers -> Seq(Nat \ {0})]
  BY Zenon DEF IdInv
<1>2. \A c \in Callers : ids[c] # <<>> => 1 \in 1..Len(ids[c]) /\ ids[c][1] \in Nat \ {0}
  BY <1>1
<1>3. \A c \in Callers : step[c] # "prepare" => (HasId(c) <=> ids[c] # <<>>)
  BY SizeType, <1>1 DEF IdInv, HasId
<1>4. \A c, d \in Callers : ids[c] # <<>> /\ ids[d] # <<>> /\ ids[c][1] = ids[d][1] => c = d
  BY Zenon, <1>2 DEF IdInv, Unique
<1>5. \A c \in Callers : first_id(c) = IF ids[c] = <<>> THEN 0 ELSE ids[c][1]
  BY Zenon DEF first_id
<1>6. \A c \in Callers : first_id(c) \in Nat /\ (ids[c] # <<>> <=> first_id(c) # 0)
  BY <1>2, <1>5
<1>7. \A c, d \in Callers : ids[d] # <<>> /\ first_id(c) = first_id(d) => c = d
  BY ZenonT(40), <1>4, <1>5, <1>6
<1> QED
  BY Zenon, <1>3, <1>5, <1>6, <1>7

\* What is under way was sent, and its reply is still to be read.
LEMMA UnderWayOpen ==
    ASSUME IdInv, PlaceInv, NEW c \in Callers, UnderWay(c)
    PROVE  Open(c) /\ step[c] \notin Unsent
<1>1. (\E k : TextAt(c, k)) \/ c \in server \/ (\E k : ReplyAt(c, k))
  BY Zenon DEF UnderWay, TextAt, ReplyAt
<1>2. step[c] \notin Unsent
  BY Zenon, <1>1, ReplyOwner DEF PlaceInv
<1> QED
  BY Zenon, <1>1, <1>2 DEF Open

\* At first no sender is stored and no call answered.
LEMMA InitPend == Init => PendInv
BY DEF Init, PendInv, AnsweredByOwn, Answers

\* Steps that leave the senders and the answers alone.
LEMMA PendStill ==
    ASSUME PendInv, Closing, UNCHANGED <<pendings, answer>>,
           \A c \in Callers : step[c] \notin {"prepare", "register"} =>
               step'[c] \notin {"prepare", "register"} /\ ids'[c] = ids[c],
           \A c \in Callers : step[c] \in {"prepare", "register"} => step'[c] \in {"prepare", "register"}
    PROVE  PendInv'
<1>1. \A c \in Callers : ids'[c] = ids[c] => first_id(c)' = first_id(c)
  BY Zenon DEF first_id
<1>2. AnsweredByOwn'
  BY Zenon DEF PendInv, AnsweredByOwn, HasId, Open, Unsent
<1>3. \A k \in DOMAIN pendings : /\ k \in Nat /\ pendings[k] \in Callers
                                 /\ step'[pendings[k]] \notin {"prepare", "register"}
                                 /\ first_id(pendings[k])' = k
  BY <1>1 DEF PendInv
<1>4. \A c \in Callers : HasId(c) /\ step'[c] \notin {"prepare", "register"} /\ answer[c] = Nothing =>
          first_id(c)' \in DOMAIN pendings /\ pendings[first_id(c)'] = c
  BY <1>1 DEF PendInv
<1>5. \A c \in Callers : HasId(c) /\ Open(c)' => answer[c] = Nothing
  BY Zenon DEF PendInv, Closing
<1>6. answer \in [Callers -> Answers]
  BY Zenon DEF PendInv
<1> QED
  BY Zenon, <1>2, <1>3, <1>4, <1>5, <1>6 DEF PendInv

\* handle_pending_response answers the call that waits under k, if the message is its
\* reply, the last of it there is, or the call has no id.
LEMMA PendAnswer ==
    ASSUME PendInv, Closing, UNCHANGED <<step, ids>>,
           NEW k, NEW a \in IncomingMessages, a # Nothing, handle_pending_response(k, a),
           \A c \in Callers : HasId(c) /\ first_id(c) = k /\ step[c] # "prepare" =>
               a.what = "outputs" /\ a.ids = ids[c] /\ ~Open(c)'
    PROVE  PendInv'
<1>1. \A c \in Callers : first_id(c)' = first_id(c)
  BY Zenon DEF first_id
<1>2. /\ DOMAIN pendings' = DOMAIN pendings \ {k}
      /\ \A j \in DOMAIN pendings' : pendings'[j] = pendings[j]
      /\ \/ answer' = answer /\ k \notin DOMAIN pendings
         \/ k \in DOMAIN pendings /\ answer' = [answer EXCEPT ![pendings[k]] = a]
  BY Zenon, TransportAssumption DEF handle_pending_response, remove, get, PendInv
<1>3. answer' \in [Callers -> Answers]
  BY ZenonT(40), <1>2 DEF PendInv, Answers
<1>4. ASSUME NEW c \in Callers, HasId(c)
      PROVE  /\ step[c] \notin {"prepare", "register"} /\ answer'[c] = Nothing =>
                    first_id(c) \in DOMAIN pendings' /\ pendings'[first_id(c)] = c
             /\ Open(c)' => answer'[c] = Nothing
             /\ answer'[c] = Nothing \/ (answer'[c].what = "outputs" /\ answer'[c].ids = ids[c])
  <2>1. CASE k \in DOMAIN pendings /\ pendings[k] = c
    <3>1. step[c] # "prepare" /\ first_id(c) = k /\ answer'[c] = a
      BY Zenon, <2>1, <1>2 DEF PendInv
    <3> QED
      BY Zenon, <3>1, <1>4
  <2>2. CASE k \notin DOMAIN pendings \/ pendings[k] # c
    <3>1. answer'[c] = answer[c]
      BY Zenon, <2>2, <1>2 DEF PendInv
    <3> QED
      BY <1>2, <1>4, <2>2, <3>1 DEF PendInv, Closing, AnsweredByOwn, HasId
  <2> QED
    BY Zenon, <2>1, <2>2
<1>5. AnsweredByOwn'
  BY Zenon, <1>4 DEF AnsweredByOwn, HasId
<1>6. \A j \in DOMAIN pendings' : /\ j \in Nat /\ pendings'[j] \in Callers
                                  /\ step'[pendings'[j]] \notin {"prepare", "register"}
                                  /\ (first_id(pendings[j]))' = j
  <2>1. \A j \in DOMAIN pendings' : /\ j \in Nat /\ pendings'[j] \in Callers
                                    /\ step[pendings'[j]] \notin {"prepare", "register"}
                                    /\ first_id(pendings'[j]) = j
    BY Zenon, <1>2 DEF PendInv
  <2> QED
    BY Zenon, <2>1 DEF first_id
<1>7. \A c \in Callers : HasId(c) /\ step'[c] \notin {"prepare", "register"} /\ answer'[c] = Nothing =>
          first_id(c)' \in DOMAIN pendings' /\ pendings'[first_id(c)'] = c
  BY Zenon, <1>1, <1>4
<1>8. \A c \in Callers : HasId(c) /\ Open(c)' => answer'[c] = Nothing
  BY Zenon, <1>4
<1> QED
  BY Zenon, <1>3, <1>5, <1>6, <1>7, <1>8 DEF PendInv

\* send_request stores the caller's sender under an id of its own: a sender it replaces
\* is that of a call without an id.
LEMMA PendRegister ==
    ASSUME IdInv, PendInv, Closing, NEW c \in Callers, Register(c)
    PROVE  PendInv'
<1> DEFINE k == first_id(c)
<1>1. /\ step[c] = "register" /\ step' = [step EXCEPT ![c] = "send"] /\ UNCHANGED ids
      /\ pendings' = insert(pendings, k, c)
      /\ answer' = IF get(pendings, k) \in Callers THEN [answer EXCEPT ![get(pendings, k)] = Canceled]
                   ELSE answer
  BY Zenon DEF Register, After
<1>2. k \in Nat /\ \A d \in Callers : first_id(d)' = first_id(d)
  BY Zenon, <1>1, FirstId DEF first_id
<1>3. /\ DOMAIN pendings' = DOMAIN pendings \cup {k} /\ pendings'[k] = c
      /\ \A j \in DOMAIN pendings \ {k} : pendings'[j] = pendings[j]
  BY Zenon, <1>1 DEF insert
<1>4. /\ step'[c] = "send" /\ \A d \in Callers \ {c} : step'[d] = step[d]
      /\ step[c] # "prepare"
  BY Zenon, <1>1 DEF IdInv
<1>5. k \in DOMAIN pendings => /\ pendings[k] \in Callers /\ first_id(pendings[k]) = k
                               /\ step[pendings[k]] \notin {"prepare", "register"}
  BY Zenon DEF PendInv
<1>6. k \in DOMAIN pendings => ~HasId(pendings[k])
  <2> SUFFICES ASSUME k \in DOMAIN pendings, HasId(pendings[k]) PROVE FALSE
    BY Zenon
  <2>1. c = pendings[k]
    BY Zenon, <1>4, <1>5, FirstId
  <2> QED
    BY Zenon, <1>1, <1>5, <2>1
<1>7. answer' \in [Callers -> Answers] /\ \A d \in Callers : HasId(d) => answer'[d] = answer[d]
  <2>1. CASE k \in DOMAIN pendings
    BY Zenon, <1>1, <1>5, <1>6, <2>1 DEF get, PendInv, Answers
  <2>2. CASE k \notin DOMAIN pendings
    BY Zenon, <1>1, <2>2, TransportAssumption DEF get, PendInv
  <2> QED
    BY Zenon, <2>1, <2>2
<1> HIDE DEF k
<1>8. ASSUME NEW j \in DOMAIN pendings'
      PROVE  /\ j \in Nat /\ pendings'[j] \in Callers
             /\ step'[pendings'[j]] \notin {"prepare", "register"} /\ first_id(pendings'[j]) = j
  <2>1. CASE j = k
    BY Zenon, <2>1, <1>2, <1>3, <1>4 DEF k
  <2>2. CASE j # k
    BY <2>2, <1>3, <1>4 DEF PendInv
  <2> QED
    BY Zenon, <2>1, <2>2
<1>9. ASSUME NEW d \in Callers, HasId(d), step'[d] \notin {"prepare", "register"}, answer'[d] = Nothing
      PROVE  first_id(d) \in DOMAIN pendings' /\ pendings'[first_id(d)] = d
  <2>1. CASE d = c
    BY Zenon, <2>1, <1>3 DEF k
  <2>2. CASE d # c
    <3>1. first_id(d) \in DOMAIN pendings /\ pendings[first_id(d)] = d
      BY Zenon, <1>4, <1>7, <1>9, <2>2 DEF PendInv
    <3> QED
      BY Zenon, <1>3, <1>6, <1>9, <3>1
  <2> QED
    BY Zenon, <2>1, <2>2
<1>10. AnsweredByOwn'
  BY ZenonT(40), <1>1, <1>7 DEF PendInv, AnsweredByOwn, HasId
<1>11. \A d \in Callers : HasId(d) /\ Open(d)' => answer'[d] = Nothing
  BY Zenon, <1>7 DEF PendInv, Closing
<1>2b. \A j \in DOMAIN pendings' : /\ j \in Nat /\ pendings'[j] \in Callers
                                   /\ step'[pendings'[j]] \notin {"prepare", "register"}
                                   /\ (first_id(pendings[j]))' = j
  BY Zenon, <1>1, <1>8 DEF first_id
<1>13. \A d \in Callers : HasId(d) /\ step'[d] \notin {"prepare", "register"} /\ answer'[d] = Nothing =>
           first_id(d)' \in DOMAIN pendings' /\ pendings'[first_id(d)'] = d
  BY Zenon, <1>2, <1>9
<1> QED
  BY Zenon, <1>7, <1>10, <1>11, <1>2b, <1>13 DEF PendInv

\* ws_task reads the reply of a call, its last trace, or a text that has no id.
LEMMA PendRead ==
    ASSUME IdInv, PlaceInv, PlaceInv', Closing, PendInv, IncomingResponse
    PROVE  PendInv'
<1> DEFINE m == Head(incoming)
<1>1. /\ UNCHANGED <<step, ids, writer, server>> /\ incoming # <<>> /\ incoming' = Tail(incoming)
      /\ m.what \in {"outputs", "error"}
      /\ handle_pending_response(IF m.what = "error" THEN 0 ELSE output_id(m.ids), m)
  BY Zenon DEF IncomingResponse, serverVars
<1>2. incoming \in Seq(IncomingMessages)
  BY Zenon DEF PlaceInv
<1>3. /\ m \in IncomingMessages /\ m = incoming[1] /\ 1 \in DOMAIN incoming /\ m # Nothing
      /\ \A k \in DOMAIN incoming' : k + 1 \in DOMAIN incoming /\ k + 1 # 1 /\ incoming'[k] = incoming[k + 1]
  BY <1>1, <1>2, TailAt DEF Nothing
<1> HIDE DEF m
<1>4. CASE m.what = "error"
  <2>1. \A c \in Callers : HasId(c) /\ step[c] # "prepare" => first_id(c) # 0
    BY Zenon, FirstId
  <2>2. handle_pending_response(0, m)
    BY Zenon, <1>1, <1>4
  <2> QED
    BY Zenon, <1>1, <1>3, <2>1, <2>2, PendAnswer
<1>5. CASE m.what = "outputs"
  <2>1. PICK d \in Callers : HasId(d) /\ step[d] \notin Unsent /\ m.ids = ids[d]
    BY Zenon, <1>3, <1>5 DEF PlaceInv
  <2>2. handle_pending_response(first_id(d), m)
    BY Zenon, <1>1, <1>5, <2>1 DEF output_id, first_id
  <2>3. ReplyAt(d, 1)
    BY Zenon, <1>3, <1>5, <2>1 DEF ReplyAt
  <2>4. \A k : ~TextAt(d, k) /\ d \notin server /\ (ReplyAt(d, k) => k = 1)
    BY Zenon, <2>1, <2>3 DEF PlaceInv
  <2>5. \A k : ReplyAt(d, k)' => ReplyAt(d, k + 1) /\ k + 1 # 1
    BY Zenon, <1>1, <1>3 DEF ReplyAt
  <2>6. ~Open(d)'
    BY Zenon, <1>1, <2>1, <2>4, <2>5 DEF Open, TextAt
  <2>7. \A c \in Callers : HasId(c) /\ first_id(c) = first_id(d) /\ step[c] # "prepare" => c = d
    BY Zenon, <2>1, FirstId DEF Unsent
  <2> QED
    BY Zenon, <1>1, <1>3, <1>5, <2>1, <2>2, <2>6, <2>7, PendAnswer
<1> QED
  BY Zenon, <1>1, <1>4, <1>5

\* Every step keeps a sender stored while the reply to its call is to come, and answers
\* a call with its own outputs only: handle_pending_response removes the entry under the
\* id it reads, and Register stores one before the text is sent.
LEMMA NextPend ==
    IdInv /\ PlaceInv /\ PlaceInv' /\ Closing /\ PendInv /\ [Next]_vars => PendInv'
<1> SUFFICES ASSUME IdInv, PlaceInv, PlaceInv', Closing, PendInv, [Next]_vars PROVE PendInv'
  BY Zenon
<1>1. CASE UNCHANGED <<pendings, answer, step, ids>>
  BY Zenon, <1>1, PendStill
<1>2. ASSUME NEW c \in Callers, Prepare(c) \/ Send(c) \/ Await(c) \/ Subscribe(c) \/ DropStream(c) \/ Unsubscribe(c)
      PROVE  PendInv'
  <2>1. UNCHANGED <<pendings, answer>>
    BY Zenon, <1>2 DEF Prepare, Send, Await, Subscribe, DropStream, Unsubscribe
  <2>2. \A d \in Callers : /\ step[d] \notin {"prepare", "register"} =>
                                step'[d] \notin {"prepare", "register"} /\ ids'[d] = ids[d]
                           /\ step[d] \in {"prepare", "register"} => step'[d] \in {"prepare", "register"}
    <3>1. CASE Prepare(c)
      BY Zenon, <3>1 DEF Prepare, After, IdInv
    <3>2. CASE Send(c)
      BY Zenon, <3>2 DEF Send, After, IdInv
    <3>3. CASE Await(c)
      BY Zenon, <3>3 DEF Await, IdInv
    <3>4. CASE Subscribe(c) \/ DropStream(c) \/ Unsubscribe(c)
      BY Zenon, <3>4 DEF Subscribe, DropStream, Unsubscribe, IdInv
    <3> QED
      BY Zenon, <1>2, <3>1, <3>2, <3>3, <3>4
  <2> QED
    BY Zenon, <2>1, <2>2, PendStill
<1>3. CASE IncomingNotification
  <2>1. UNCHANGED <<step, ids>>
    BY Zenon, <1>3 DEF IncomingNotification
  <2>2. CASE UNCHANGED <<pendings, answer>>
    BY Zenon, <2>1, <2>2, <1>1
  <2>3. CASE handle_pending_response(0, ParseError)
    <3>1. \A c \in Callers : HasId(c) /\ step[c] # "prepare" => first_id(c) # 0
      BY Zenon, FirstId
    <3>2. ParseError \in IncomingMessages /\ ParseError # Nothing
      BY Zenon DEF IncomingMessages, ParseError, Nothing
    <3> QED
      BY Zenon, <2>1, <2>3, <3>1, <3>2, PendAnswer
  <2> QED
    BY Zenon, <1>3, <2>2, <2>3 DEF IncomingNotification, handle_subscription
<1>4. CASE Connect \/ Forward \/ IncomingMisnumbered \/ IncomingControl \/ End \/ UNCHANGED vars
  BY Zenon, <1>1, <1>4 DEF Connect, Forward, IncomingMisnumbered, IncomingControl, End, vars, callerVars
<1>5. CASE \/ \E c \in Callers, ok \in BOOLEAN : Reply(c, ok)
           \/ \E k \in SubscriptionIds : Notify(k)
           \/ \E what \in {"Ping", "Close", "misnumbered", "garbage"} : Control(what)
  BY Zenon, <1>1, <1>5 DEF Reply, Notify, Control, callerVars
<1> QED
  BY Zenon, <1>2, <1>3, <1>4, <1>5, PendRegister, PendRead DEF Next, CallerStep, TaskStep

-----------------------------------------------------------------------------
(* The theorem.                                                            *)

\* A stream's sender belongs to a caller, and ws_task is in one of its states.
TaskInv ==
    /\ \A k \in DOMAIN subscriptions : subscriptions[k] \in Callers
    /\ task \in {"connecting", "running", "ended", "panicked"}

\* Subscribe and unsubscribe store a caller's sender or remove it; ws_task connects,
\* runs, and ends or panics.
LEMMA NextTask == TaskInv /\ [Next]_vars => TaskInv'
<1> SUFFICES ASSUME TaskInv, [Next]_vars PROVE TaskInv'
  BY Zenon
<1>0. CASE UNCHANGED <<subscriptions, task>>
  BY Zenon, <1>0 DEF TaskInv
<1>1. ASSUME NEW c \in Callers, CallerStep(c) \/ DropStream(c) \/ Unsubscribe(c)
      PROVE  TaskInv'
  <2>1. CASE Prepare(c) \/ Register(c) \/ Send(c) \/ Await(c) \/ DropStream(c)
    BY Zenon, <1>0, <2>1 DEF Prepare, Register, Send, Await, DropStream
  <2>2. CASE Subscribe(c) \/ Unsubscribe(c)
    BY Zenon, <2>2 DEF Subscribe, Unsubscribe, insert, remove, TaskInv
  <2> QED
    BY Zenon, <1>1, <2>1, <2>2 DEF CallerStep
<1>2. CASE TaskStep \/ End \/ UNCHANGED vars
  BY Zenon, <1>2 DEF TaskInv, TaskStep, Connect, Forward, IncomingNotification, IncomingResponse,
              IncomingMisnumbered, IncomingControl, End, vars, handle_subscription
<1>3. CASE \/ \E c \in Callers, ok \in BOOLEAN : Reply(c, ok)
           \/ \E k \in SubscriptionIds : Notify(k)
           \/ \E what \in {"Ping", "Close", "misnumbered", "garbage"} : Control(what)
  BY Zenon, <1>0, <1>3 DEF Reply, Notify, Control
<1> QED
  BY Zenon, <1>1, <1>2, <1>3 DEF Next

\* The inductive invariant.
Inv == IdInv /\ CountInv /\ PlaceInv /\ PendInv /\ TaskInv

\* The invariant says what the run checks.
LEMMA InvSuffices == Inv => RepliesGoHome
<1> SUFFICES ASSUME Inv PROVE RepliesGoHome
  BY Zenon
<1>2. TypeOK
  BY Zenon DEF Inv, TypeOK, IdInv, CountInv, PlaceInv, PendInv, TaskInv
<1>3. ReplyFindsCaller
  <2> SUFFICES ASSUME NEW c \in Callers, HasId(c), UnderWay(c) PROVE get(pendings, first_id(c)) = c
    BY Zenon DEF ReplyFindsCaller, HasId
  <2>1. Open(c) /\ step[c] \notin Unsent
    BY Zenon, UnderWayOpen DEF Inv
  <2> QED
    BY Zenon, <2>1 DEF Inv, PendInv, Unsent, get
<1> QED
  BY Zenon, <1>2, <1>3 DEF Inv, PendInv, RepliesGoHome

\* At first the invariant holds.
LEMMA InitInv == Init => Inv
<1>1. Init => CountInv /\ TaskInv
  BY DEF Init, CountInv, TaskInv
<1> QED
  BY Zenon, <1>1, InitId, InitPlace, InitPend DEF Inv

\* Every step of a caller, of ws_task and of the server preserves the invariant.
LEMMA NextInv == Inv /\ [Next]_vars => Inv'
BY Zenon, NextId, NextCount, NextPlace, NextPend, NextTask DEF Inv

\* Every reply goes to the call it answers, neither lost nor crossed, for any number of
\* callers and calls, however the steps of the callers, of ws_task and of the server
\* interleave: send_request stores the sender before it sends the text, and ids are
\* drawn by an atomic fetch_add.
THEOREM RepliesGoHomeCorrect == Spec => []RepliesGoHome
BY InitInv, NextInv, InvSuffices, PTL DEF Spec

-----------------------------------------------------------------------------
(* The subscription ids.                                                   *)

\* The server has granted the subscription k to the caller's request: k is in the reply
\* on its way, in the answer or in the caller's hands.
Grant(c, k) ==
    \/ \E j : ReplyAt(c, j) /\ incoming[j].sub = k
    \/ answer[c].what = "outputs" /\ answer[c].sub = k
    \/ sub[c] = k

\* No subscription is granted to two callers.
GrantInv ==
    /\ sub \in [Callers -> Nat]
    /\ \A c \in Callers, k \in Nat \ {0} : Grant(c, k) =>
           k <= granted /\ \A d \in Callers : Grant(d, k) => d = c

\* Steps that grant nothing.
LEMMA GrantStill ==
    ASSUME GrantInv, granted' = granted, sub' \in [Callers -> Nat],
           \A c \in Callers, k \in Nat \ {0} : Grant(c, k)' => Grant(c, k)
    PROVE  GrantInv'
BY Zenon DEF GrantInv

\* The server grants a number nobody has, to the call it answers.
LEMMA GrantReply ==
    ASSUME IdInv, CountInv, PlaceInv, GrantInv, NEW c \in Callers, NEW ok \in BOOLEAN, Reply(c, ok)
    PROVE  GrantInv'
<1> DEFINE k == IF KindOf[c] = "Subscribe" /\ ok THEN granted + 1 ELSE 0
           m == IF KindOf[c] = "EmptyBatch" THEN ParseError ELSE Outputs(ids[c], ok, k)
<1>1. /\ c \in server /\ UNCHANGED <<ids, answer, sub>>
      /\ granted' = (IF k # 0 THEN k ELSE granted) /\ incoming' = Append(incoming, m)
  BY Zenon DEF Reply, callerVars
<1>2. incoming \in Seq(IncomingMessages) /\ step[c] # "prepare"
  BY Zenon, <1>1 DEF PlaceInv, Unsent
<1>3. k \in Nat /\ granted \in Nat /\ granted' \in Nat /\ (k = 0 \/ k = granted + 1) /\ k <= granted'
      /\ granted <= granted'
  BY <1>1 DEF CountInv
<1>4. m \in IncomingMessages /\ (m.what = "outputs" => HasId(c) /\ m.ids = ids[c] /\ m.sub = k)
  <2>1. ids[c] \in Seq(Nat)
    BY DEF IdInv
  <2>2. CASE KindOf[c] = "EmptyBatch"
    BY Zenon, <2>2 DEF IncomingMessages, ParseError
  <2>3. CASE KindOf[c] # "EmptyBatch"
    <3>1. HasId(c)
      BY <2>3 DEF HasId, Size
    <3> QED
      BY <2>1, <2>3, <3>1, <1>3 DEF IncomingMessages, Outputs
  <2> QED
    BY Zenon, <2>2, <2>3
<1> HIDE DEF k, m
<1>5. \A j \in DOMAIN incoming' : \/ j \in DOMAIN incoming /\ incoming'[j] = incoming[j]
                                  \/ incoming'[j] = m
  BY <1>1, <1>2, <1>4, AppendAt
<1>6. ASSUME NEW d \in Callers, NEW j \in Nat \ {0}, Grant(d, j)'
      PROVE  Grant(d, j) \/ (d = c /\ j = k)
  <2>1. CASE \E i : ReplyAt(d, i)' /\ incoming'[i].sub = j
    <3>1. PICK i : ReplyAt(d, i)' /\ incoming'[i].sub = j
      BY Zenon, <2>1
    <3>2. i \in DOMAIN incoming' /\ incoming'[i].what = "outputs" /\ incoming'[i].ids = ids[d]
      BY Zenon, <3>1, <1>1 DEF ReplyAt
    <3>3. CASE i \in DOMAIN incoming /\ incoming'[i] = incoming[i]
      BY Zenon, <3>1, <3>2, <3>3 DEF Grant, ReplyAt
    <3>4. CASE incoming'[i] = m
      BY Zenon, <3>1, <3>2, <3>4, <1>2, <1>4, OwnIds
    <3> QED
      BY Zenon, <1>5, <3>2, <3>3, <3>4
  <2> QED
    BY Zenon, <1>1, <1>6, <2>1 DEF Grant
<1>7. \A d \in Callers, j \in Nat \ {0} : Grant(d, j) => j # granted + 1 /\ j <= granted'
  BY <1>3 DEF GrantInv
<1>8. ASSUME NEW d \in Callers, NEW j \in Nat \ {0}, Grant(d, j)'
      PROVE  j <= granted' /\ \A e \in Callers : Grant(e, j)' => e = d
  BY Zenon, <1>3, <1>6, <1>7, <1>8 DEF GrantInv
<1> QED
  BY Zenon, <1>1, <1>8 DEF GrantInv

\* The replies after ws_task has received a message were there before.
LEMMA RepliesShift ==
    ASSUME incoming \in Seq(IncomingMessages), incoming # <<>>, incoming' = Tail(incoming), UNCHANGED ids,
           NEW c \in Callers, NEW j, ReplyAt(c, j)'
    PROVE  ReplyAt(c, j + 1) /\ incoming'[j] = incoming[j + 1]
<1>1. j \in DOMAIN incoming' /\ incoming'[j].what = "outputs" /\ incoming'[j].ids = ids[c]
  BY Zenon DEF ReplyAt
<1>2. j + 1 \in DOMAIN incoming /\ incoming'[j] = incoming[j + 1]
  BY Zenon, <1>1, TailAt
<1> QED
  BY Zenon, <1>1, <1>2 DEF ReplyAt

\* A reply is granted to the call it is handed to.
LEMMA GrantRead ==
    ASSUME IdInv, PlaceInv, PendInv, GrantInv, IncomingResponse
    PROVE  GrantInv'
<1> DEFINE m == Head(incoming)
           k == IF m.what = "error" THEN 0 ELSE output_id(m.ids)
<1>1. /\ UNCHANGED <<step, ids, sub, granted>> /\ incoming # <<>> /\ incoming' = Tail(incoming)
      /\ m.what \in {"outputs", "error"}
      /\ answer' = IF get(pendings, k) \in Callers
                   THEN [answer EXCEPT ![get(pendings, k)] = m] ELSE answer
  BY Zenon DEF IncomingResponse, serverVars, handle_pending_response
<1>0. incoming \in Seq(IncomingMessages)
  BY Zenon DEF PlaceInv
<1>2. m = incoming[1] /\ 1 \in DOMAIN incoming
  BY Zenon, <1>0, <1>1, TailAt
<1> HIDE DEF m
<1>3. ASSUME NEW c \in Callers, m.what = "outputs", get(pendings, k) = c PROVE ReplyAt(c, 1)
  <2>1. PICK d \in Callers : HasId(d) /\ step[d] \notin Unsent /\ m.ids = ids[d]
    BY Zenon, <1>2, <1>3 DEF PlaceInv
  <2>2. k = first_id(d)
    BY Zenon, <1>3, <2>1 DEF output_id, first_id
  <2>3. step[c] # "prepare" /\ first_id(c) = k
    BY Zenon, <1>3, TransportAssumption DEF get, PendInv
  <2>4. c = d
    BY Zenon, <2>1, <2>2, <2>3, FirstId DEF Unsent
  <2> QED
    BY Zenon, <1>2, <1>3, <2>1, <2>4 DEF ReplyAt
<1>4. ASSUME NEW c \in Callers, NEW j \in Nat \ {0}, Grant(c, j)' PROVE Grant(c, j)
  <2>1. CASE \E i : ReplyAt(c, i)' /\ incoming'[i].sub = j
    BY Zenon, <2>1, <1>0, <1>1, RepliesShift DEF Grant
  <2>2. CASE answer'[c].what = "outputs" /\ answer'[c].sub = j
    <3>1. CASE answer'[c] = answer[c]
      BY Zenon, <2>2, <3>1 DEF Grant
    <3>2. CASE answer'[c] # answer[c]
      <4>1. get(pendings, k) = c /\ answer'[c] = m
        BY Zenon, <3>2, <1>1 DEF PendInv
      <4> QED
        BY Zenon, <4>1, <2>2, <1>2, <1>3 DEF Grant
    <3> QED
      BY Zenon, <3>1, <3>2
  <2> QED
    BY Zenon, <1>1, <1>4, <2>1, <2>2 DEF Grant
<1> QED
  BY Zenon, <1>1, <1>4, GrantStill DEF GrantInv

\* No step hands a subscription to a second caller: the server numbers them, and each
\* reply goes to its own call.
LEMMA NextGrant ==
    IdInv /\ IdInv' /\ CountInv /\ PlaceInv /\ PendInv /\ GrantInv /\ [Next]_vars => GrantInv'
<1> SUFFICES ASSUME IdInv, IdInv', CountInv, PlaceInv, PendInv, GrantInv, [Next]_vars PROVE GrantInv'
  BY Zenon
<1>0. sub \in [Callers -> Nat] /\ answer \in [Callers -> Answers] /\ incoming \in Seq(IncomingMessages)
  BY Zenon DEF GrantInv, PendInv, PlaceInv
<1>1. CASE UNCHANGED <<incoming, ids, answer, sub, granted>>
  <2>1. \A c \in Callers, k \in Nat \ {0} : Grant(c, k)' => Grant(c, k)
    BY Zenon, <1>1 DEF Grant, ReplyAt
  <2> QED
    BY Zenon, <1>0, <1>1, <2>1, GrantStill
<1>2. ASSUME NEW c \in Callers, Prepare(c) PROVE GrantInv'
  <2>1. UNCHANGED <<incoming, answer, sub, granted>>
    BY Zenon, <1>2 DEF Prepare, serverVars
  <2>2. \A d \in Callers : step[d] \notin Unsent => step'[d] \notin Unsent /\ ids'[d] = ids[d]
    BY Zenon, <1>2 DEF Prepare, Unsent, IdInv
  <2>3. \A d \in Callers : \A k : ReplyAt(d, k)' => ReplyAt(d, k)
    BY Zenon, <2>1, <2>2, ReplyStill
  <2>4. \A d \in Callers, k \in Nat \ {0} : Grant(d, k)' => Grant(d, k)
    BY Zenon, <2>1, <2>3 DEF Grant
  <2> QED
    BY Zenon, <1>0, <2>1, <2>4, GrantStill
<1>3. ASSUME NEW c \in Callers, Register(c) PROVE GrantInv'
  <2>1. UNCHANGED <<incoming, ids, sub, granted>>
        /\ \A d \in Callers : answer'[d] = answer[d] \/ answer'[d] = Canceled
    BY Zenon, <1>0, <1>3 DEF Register, serverVars
  <2>2. Canceled.what # "outputs"
    BY DEF Canceled
  <2>3. \A d \in Callers, k \in Nat \ {0} : Grant(d, k)' => Grant(d, k)
    BY Zenon, <2>1, <2>2 DEF Grant, ReplyAt
  <2> QED
    BY Zenon, <1>0, <2>1, <2>3, GrantStill
<1>4. ASSUME NEW c \in Callers, Await(c) PROVE GrantInv'
  <2>1. /\ UNCHANGED <<incoming, ids, answer, granted>>
        /\ sub' = IF answer[c].what = "outputs" THEN [sub EXCEPT ![c] = answer[c].sub] ELSE sub
    BY Zenon, <1>4 DEF Await, serverVars
  <2>2. answer[c].what = "outputs" => answer[c].sub \in Nat
    BY <1>0 DEF Answers, IncomingMessages, Nothing, Canceled, ParseError
  <2>3. sub' \in [Callers -> Nat]
    BY Zenon, <1>0, <2>1, <2>2
  <2>4. \A d \in Callers, k \in Nat \ {0} : Grant(d, k)' => Grant(d, k)
    BY Zenon, <1>0, <2>1 DEF Grant, ReplyAt
  <2> QED
    BY Zenon, <2>1, <2>3, <2>4, GrantStill
<1>5. CASE IncomingNotification
  <2>1. /\ UNCHANGED <<ids, sub, granted>> /\ incoming # <<>> /\ incoming' = Tail(incoming)
        /\ \A d \in Callers : answer'[d] = answer[d] \/ answer'[d] = ParseError
    BY Zenon, <1>0, <1>5 DEF IncomingNotification, handle_subscription, handle_pending_response, serverVars
  <2>2. \A d \in Callers : \A j : ReplyAt(d, j)' => ReplyAt(d, j + 1) /\ incoming'[j] = incoming[j + 1]
    BY Zenon, <1>0, <2>1, RepliesShift
  <2>3. ParseError.what # "outputs"
    BY DEF ParseError
  <2>4. \A d \in Callers, k \in Nat \ {0} : Grant(d, k)' => Grant(d, k)
    BY ZenonT(40), <2>1, <2>2, <2>3 DEF Grant
  <2> QED
    BY Zenon, <1>0, <2>1, <2>4, GrantStill
<1>6. CASE IncomingMisnumbered \/ IncomingControl
  <2>1. UNCHANGED <<ids, answer, sub, granted>> /\ incoming # <<>> /\ incoming' = Tail(incoming)
    BY Zenon, <1>6 DEF IncomingMisnumbered, IncomingControl, callerVars, serverVars
  <2>2. \A d \in Callers : \A j : ReplyAt(d, j)' => ReplyAt(d, j + 1) /\ incoming'[j] = incoming[j + 1]
    BY Zenon, <1>0, <2>1, RepliesShift
  <2>3. \A d \in Callers, k \in Nat \ {0} : Grant(d, k)' => Grant(d, k)
    BY Zenon, <2>1, <2>2 DEF Grant
  <2> QED
    BY Zenon, <1>0, <2>1, <2>3, GrantStill
<1>7. CASE \/ \E k \in SubscriptionIds : Notify(k)
           \/ \E what \in {"Ping", "Close", "misnumbered", "garbage"} : Control(what)
  <2>1. PICK m \in IncomingMessages : /\ m.what # "outputs" /\ incoming' = Append(incoming, m)
                                      /\ UNCHANGED <<ids, answer, sub, granted>>
    <3>1. CASE \E k \in SubscriptionIds : Notify(k)
      <4>1. PICK k \in SubscriptionIds : Notify(k)
        BY Zenon, <3>1
      <4>2. k \in Nat /\ notes[k] + 1 \in Nat
        BY DEF SubscriptionIds, CountInv
      <4>3. [what |-> "note", sub |-> k, n |-> notes[k] + 1] \in IncomingMessages
        BY <4>2 DEF IncomingMessages
      <4> QED
        BY Zenon, <4>1, <4>3 DEF Notify, callerVars
    <3>2. CASE \E what \in {"Ping", "Close", "misnumbered", "garbage"} : Control(what)
      <4>1. PICK what \in {"Ping", "Close", "misnumbered", "garbage"} : Control(what)
        BY Zenon, <3>2
      <4> DEFINE m == IF what = "garbage" THEN ParseError ELSE [what |-> what]
      <4>2. m \in IncomingMessages /\ m.what # "outputs"
        BY DEF IncomingMessages, ParseError
      <4>3. incoming' = Append(incoming, m) /\ UNCHANGED <<ids, answer, sub, granted>>
        BY Zenon, <4>1 DEF Control, callerVars
      <4> QED
        BY Zenon, <4>2, <4>3
    <3> QED
      BY Zenon, <1>7, <3>1, <3>2
  <2>2. \A j \in DOMAIN incoming' : \/ j \in DOMAIN incoming /\ incoming'[j] = incoming[j]
                                    \/ incoming'[j] = m
    BY <1>0, <2>1, AppendAt
  <2>3. \A d \in Callers, k \in Nat \ {0} : Grant(d, k)' => Grant(d, k)
    BY Zenon, <2>1, <2>2 DEF Grant, ReplyAt
  <2> QED
    BY Zenon, <1>0, <2>1, <2>3, GrantStill
<1>8. CASE \/ \E c \in Callers : Send(c) \/ Subscribe(c) \/ DropStream(c) \/ Unsubscribe(c)
           \/ Connect \/ Forward \/ End \/ UNCHANGED vars
  BY Zenon, <1>1, <1>8 DEF Send, Subscribe, DropStream, Unsubscribe, Connect, Forward, End, vars,
                          callerVars, serverVars
<1> QED
  BY Zenon, <1>2, <1>3, <1>4, <1>5, <1>6, <1>7, <1>8, GrantReply, GrantRead DEF Next, CallerStep, TaskStep

-----------------------------------------------------------------------------
(* The notifications on their way.                                         *)

\* Of the subscriptions' notifications, the ones sent (snt) and not read (rd) are in
\* the channel, in order.
NotesRight(channel, rd, snt) ==
    /\ \A i \in DOMAIN channel : channel[i].what = "note" =>
           /\ channel[i].sub \in SubscriptionIds
           /\ rd[channel[i].sub] < channel[i].n /\ channel[i].n <= snt[channel[i].sub]
    /\ \A i, j \in DOMAIN channel :
           /\ i < j /\ channel[i].what = "note" /\ channel[j].what = "note"
           /\ channel[i].sub = channel[j].sub
           => channel[i].n < channel[j].n
    /\ \A k \in SubscriptionIds, n \in Nat : rd[k] < n /\ n <= snt[k] =>
           \E i \in DOMAIN channel : channel[i].what = "note" /\ channel[i].sub = k /\ channel[i].n = n

NoteInv ==
    /\ read \in [SubscriptionIds -> Nat]
    /\ \A k \in SubscriptionIds : read[k] <= notes[k]
    /\ NotesRight(incoming, read, notes)

\* A message that is sent comes after those in the channel.
LEMMA AppendHas ==
    ASSUME NEW S, NEW s \in Seq(S), NEW m \in S
    PROVE  /\ Len(s) + 1 \in DOMAIN Append(s, m) /\ Append(s, m)[Len(s) + 1] = m
           /\ \A i \in DOMAIN s : /\ i \in DOMAIN Append(s, m) /\ Append(s, m)[i] = s[i]
                                  /\ i < Len(s) + 1 /\ i \in Nat
OBVIOUS

\* The other messages move up when the first is received.
LEMMA TailHas ==
    ASSUME NEW S, NEW s \in Seq(S), s # <<>>
    PROVE  \A i \in DOMAIN s : /\ i \in Nat
                              /\ i # 1 => 1 < i /\ i - 1 \in DOMAIN Tail(s) /\ Tail(s)[i - 1] = s[i]
OBVIOUS

\* A notification has a number.
LEMMA NoteType ==
    ASSUME NEW s \in Seq(IncomingMessages)
    PROVE  \A i \in DOMAIN s : s[i].what = "note" => s[i].n \in Nat
<1>1. \A m \in IncomingMessages : m.what = "note" => m.n \in Nat
  BY DEF IncomingMessages, ParseError
<1>2. \A i \in DOMAIN s : s[i] \in IncomingMessages
  OBVIOUS
<1> QED
  BY Zenon, <1>1, <1>2

\* A message that is no notification leaves them as they are.
LEMMA NotesSkip ==
    ASSUME NEW s \in Seq(IncomingMessages), NEW rd \in [SubscriptionIds -> Nat],
           NEW snt \in [SubscriptionIds -> Nat], NotesRight(s, rd, snt)
    PROVE  /\ \A m \in IncomingMessages : m.what # "note" => NotesRight(Append(s, m), rd, snt)
           /\ s # <<>> /\ Head(s).what # "note" => NotesRight(Tail(s), rd, snt)
<1>1. ASSUME NEW m \in IncomingMessages, m.what # "note" PROVE NotesRight(Append(s, m), rd, snt)
  <2> DEFINE t == Append(s, m)
  <2>1. \A i \in DOMAIN t : t[i].what = "note" => i \in DOMAIN s /\ t[i] = s[i]
    BY <1>1, AppendAt
  <2>2. \A i \in DOMAIN s : i \in DOMAIN t /\ t[i] = s[i]
    BY AppendHas
  <2> HIDE DEF t
  <2>3. ASSUME NEW i \in DOMAIN t, t[i].what = "note"
        PROVE  t[i].sub \in SubscriptionIds /\ rd[t[i].sub] < t[i].n /\ t[i].n <= snt[t[i].sub]
    BY <2>1, <2>3 DEF NotesRight
  <2>4. ASSUME NEW i \in DOMAIN t, NEW j \in DOMAIN t, i < j, t[i].what = "note", t[j].what = "note",
               t[i].sub = t[j].sub
        PROVE  t[i].n < t[j].n
    <3>1. i \in DOMAIN s /\ j \in DOMAIN s /\ t[i] = s[i] /\ t[j] = s[j]
      BY Zenon, <2>1, <2>4
    <3> QED
      BY <2>4, <3>1 DEF NotesRight
  <2>5. ASSUME NEW k \in SubscriptionIds, NEW n \in Nat, rd[k] < n, n <= snt[k]
        PROVE  \E i \in DOMAIN t : t[i].what = "note" /\ t[i].sub = k /\ t[i].n = n
    <3>1. PICK i \in DOMAIN s : s[i].what = "note" /\ s[i].sub = k /\ s[i].n = n
      BY <2>5 DEF NotesRight
    <3> QED
      BY Zenon, <3>1, <2>2
  <2>6. NotesRight(t, rd, snt)
    BY ONLY ZenonT(40), <2>3, <2>4, <2>5 DEF NotesRight
  <2> QED
    BY Zenon, <2>6 DEF t
<1>2. ASSUME s # <<>>, Head(s).what # "note" PROVE NotesRight(Tail(s), rd, snt)
  <2> DEFINE t == Tail(s)
  <2>1. \A i \in DOMAIN t : i \in Nat /\ i + 1 \in DOMAIN s /\ t[i] = s[i + 1]
    BY <1>2, TailAt
  <2>2. \A i \in DOMAIN s : s[i].what = "note" => i - 1 \in DOMAIN t /\ t[i - 1] = s[i]
    <3>1. s[1] = Head(s)
      BY Zenon, <1>2, TailAt
    <3> QED
      BY <1>2, <3>1, TailHas
  <2> HIDE DEF t
  <2>3. ASSUME NEW i \in DOMAIN t, t[i].what = "note"
        PROVE  t[i].sub \in SubscriptionIds /\ rd[t[i].sub] < t[i].n /\ t[i].n <= snt[t[i].sub]
    BY <2>1, <2>3 DEF NotesRight
  <2>4. ASSUME NEW i \in DOMAIN t, NEW j \in DOMAIN t, i < j, t[i].what = "note", t[j].what = "note",
               t[i].sub = t[j].sub
        PROVE  t[i].n < t[j].n
    <3>1. i + 1 < j + 1
      BY <2>1, <2>4
    <3>2. i + 1 \in DOMAIN s /\ j + 1 \in DOMAIN s /\ t[i] = s[i + 1] /\ t[j] = s[j + 1]
      BY Zenon, <2>1
    <3> QED
      BY <2>4, <3>1, <3>2 DEF NotesRight
  <2>5. ASSUME NEW k \in SubscriptionIds, NEW n \in Nat, rd[k] < n, n <= snt[k]
        PROVE  \E i \in DOMAIN t : t[i].what = "note" /\ t[i].sub = k /\ t[i].n = n
    <3>1. PICK i \in DOMAIN s : s[i].what = "note" /\ s[i].sub = k /\ s[i].n = n
      BY ZenonT(40), <2>5 DEF NotesRight
    <3> QED
      BY Zenon, <3>1, <2>2
  <2>6. NotesRight(t, rd, snt)
    BY <2>3, <2>4, <2>5 DEF NotesRight
  <2> QED
    BY Zenon, <2>6 DEF t
<1> QED
  BY Zenon, <1>1, <1>2

\* The server sends the next notification of k.
LEMMA NotesSend ==
    ASSUME NEW s \in Seq(IncomingMessages), NEW rd \in [SubscriptionIds -> Nat],
           NEW snt \in [SubscriptionIds -> Nat], NotesRight(s, rd, snt), NEW k \in SubscriptionIds,
           rd[k] <= snt[k]
    PROVE  NotesRight(Append(s, [what |-> "note", sub |-> k, n |-> snt[k] + 1]), rd,
                      [snt EXCEPT ![k] = @ + 1])
<1> DEFINE m == [what |-> "note", sub |-> k, n |-> snt[k] + 1]
           t == Append(s, m)
           new == [snt EXCEPT ![k] = @ + 1]
<1>1. m.what = "note" /\ m.sub = k /\ m.n = snt[k] + 1 /\ snt[k] \in Nat /\ rd[k] \in Nat
  OBVIOUS
<1>2. m \in IncomingMessages
  BY DEF IncomingMessages, SubscriptionIds
<1>3. /\ new[k] = snt[k] + 1 /\ \A j \in SubscriptionIds : new[j] \in Nat /\ snt[j] \in Nat /\ snt[j] <= new[j]
      /\ \A j \in SubscriptionIds : j # k => new[j] = snt[j]
  OBVIOUS
<1> HIDE DEF m, new
<1>4. /\ \A i \in DOMAIN t : (i \in DOMAIN s /\ t[i] = s[i]) \/ (i = Len(s) + 1 /\ t[i] = m)
      /\ Len(s) + 1 \in DOMAIN t /\ t[Len(s) + 1] = m
      /\ \A i \in DOMAIN s : i \in DOMAIN t /\ t[i] = s[i] /\ i < Len(s) + 1 /\ i \in Nat
      /\ Len(s) \in Nat
  BY <1>2, AppendAt, AppendHas
<1> HIDE DEF t
<1>5. \A i \in DOMAIN s : s[i].what = "note" => s[i].n \in Nat /\ s[i].sub \in SubscriptionIds
  BY NoteType DEF NotesRight
<1>6. ASSUME NEW i \in DOMAIN t, t[i].what = "note"
      PROVE  t[i].sub \in SubscriptionIds /\ rd[t[i].sub] < t[i].n /\ t[i].n <= new[t[i].sub]
  <2>1. CASE i \in DOMAIN s /\ t[i] = s[i]
    <3>1. s[i].sub \in SubscriptionIds /\ rd[s[i].sub] < s[i].n /\ s[i].n <= snt[s[i].sub] /\ s[i].n \in Nat
      BY Zenon, <1>5, <1>6, <2>1 DEF NotesRight
    <3> QED
      BY <2>1, <3>1, <1>3
  <2>2. CASE t[i] = m
    BY <2>2, <1>1, <1>3
  <2> QED
    BY Zenon, <1>4, <2>1, <2>2
<1>7. ASSUME NEW i \in DOMAIN t, NEW j \in DOMAIN t, i < j, t[i].what = "note", t[j].what = "note",
             t[i].sub = t[j].sub
      PROVE  t[i].n < t[j].n
  <2>1. CASE i \in DOMAIN s /\ t[i] = s[i] /\ j \in DOMAIN s /\ t[j] = s[j]
    BY Zenon, <1>7, <2>1 DEF NotesRight
  <2>2. CASE i \in DOMAIN s /\ t[i] = s[i] /\ t[j] = m
    <3>1. s[i].n <= snt[k] /\ s[i].n \in Nat
      BY <1>1, <1>5, <1>7, <2>2 DEF NotesRight
    <3> QED
      BY <2>2, <3>1, <1>1
  <2>3. CASE i = Len(s) + 1
    <3>1. j = Len(s) + 1 \/ (j \in Nat /\ j < Len(s) + 1)
      BY Zenon, <1>4
    <3> QED
      BY <2>3, <3>1, <1>4, <1>7
  <2> QED
    BY Zenon, <1>4, <2>1, <2>2, <2>3
<1>8. ASSUME NEW j \in SubscriptionIds, NEW n \in Nat, rd[j] < n, n <= new[j]
      PROVE  \E i \in DOMAIN t : t[i].what = "note" /\ t[i].sub = j /\ t[i].n = n
  <2>1. CASE n <= snt[j]
    <3>1. PICK i \in DOMAIN s : s[i].what = "note" /\ s[i].sub = j /\ s[i].n = n
      BY ZenonT(40), <1>8, <2>1 DEF NotesRight
    <3> QED
      BY Zenon, <3>1, <1>4
  <2>2. CASE ~(n <= snt[j])
    <3>1. j = k /\ n = snt[k] + 1
      BY <1>3, <1>8, <2>2
    <3> QED
      BY Zenon, <3>1, <1>1, <1>4
  <2> QED
    BY Zenon, <2>1, <2>2
<1>9. NotesRight(t, rd, new)
  BY <1>6, <1>7, <1>8 DEF NotesRight
<1> QED
  BY Zenon, <1>9 DEF t, m, new

\* The notification that is read is the next one of its subscription.
LEMMA NotesTake ==
    ASSUME NEW s \in Seq(IncomingMessages), NEW rd \in [SubscriptionIds -> Nat],
           NEW snt \in [SubscriptionIds -> Nat], NotesRight(s, rd, snt), s # <<>>,
           Head(s).what = "note"
    PROVE  LET m == Head(s) IN
           /\ m.sub \in SubscriptionIds /\ m.n = rd[m.sub] + 1 /\ m.n <= snt[m.sub]
           /\ NotesRight(Tail(s), [rd EXCEPT ![m.sub] = m.n], snt)
<1> DEFINE m == Head(s)
           k == m.sub
           t == Tail(s)
           new == [rd EXCEPT ![k] = m.n]
<1>1. 1 \in DOMAIN s /\ m = s[1]
  BY Zenon, TailAt
<1>2. \A i \in DOMAIN t : i \in Nat /\ i + 1 \in DOMAIN s /\ i + 1 # 1 /\ t[i] = s[i + 1]
  BY ONLY Zenon, s \in Seq(IncomingMessages), s # <<>>, TailAt
<1>2b. \A i \in DOMAIN s : i # 1 => 1 < i /\ i - 1 \in DOMAIN t /\ t[i - 1] = s[i]
  BY ONLY s \in Seq(IncomingMessages), s # <<>>, TailHas
<1> HIDE DEF m, t
<1>3. \A i \in DOMAIN s : s[i].what = "note" => s[i].n \in Nat /\ s[i].sub \in SubscriptionIds
  BY NoteType DEF NotesRight
<1>4. m.what = "note"
  BY Zenon DEF m
<1>5. k \in SubscriptionIds /\ m.n \in Nat /\ rd[k] \in Nat /\ snt[k] \in Nat /\ rd[k] < m.n /\ m.n <= snt[k]
  BY Zenon, <1>1, <1>3, <1>4 DEF NotesRight
<1>6. m.n = rd[k] + 1
  <2>1. rd[k] + 1 \in Nat /\ rd[k] < rd[k] + 1 /\ rd[k] + 1 <= snt[k]
    BY <1>5
  <2>2. PICK i \in DOMAIN s : s[i].what = "note" /\ s[i].sub = k /\ s[i].n = rd[k] + 1
    BY ZenonT(40), <1>5, <2>1 DEF NotesRight
  <2>3. CASE i = 1
    BY Zenon, <2>2, <2>3, <1>1
  <2>4. CASE i # 1
    <3>1. 1 < i
      BY Zenon, <2>4, <1>2b
    <3>2. m.n < rd[k] + 1
      BY ZenonT(40), <3>1, <2>2, <1>1, <1>4 DEF NotesRight
    <3> QED
      BY <3>2, <1>5
  <2> QED
    BY Zenon, <2>3, <2>4
<1>7. new[k] = m.n /\ \A j \in SubscriptionIds : j # k => new[j] = rd[j]
  BY Zenon, <1>5
<1> HIDE DEF k, new
<1>8. ASSUME NEW i \in DOMAIN t, t[i].what = "note"
      PROVE  t[i].sub \in SubscriptionIds /\ new[t[i].sub] < t[i].n /\ t[i].n <= snt[t[i].sub]
  <2>1. /\ i + 1 \in DOMAIN s /\ t[i] = s[i + 1] /\ t[i].sub \in SubscriptionIds
        /\ rd[t[i].sub] < t[i].n /\ t[i].n <= snt[t[i].sub]
    BY <1>2, <1>8 DEF NotesRight
  <2>2. CASE t[i].sub = k
    <3>1. 1 < i + 1
      BY <1>2
    <3>2. m.n < t[i].n
      BY <1>1, <1>4, <1>8, <2>1, <2>2, <3>1 DEF NotesRight, k
    <3> QED
      BY Zenon, <2>1, <2>2, <3>2, <1>7
  <2>3. CASE t[i].sub # k
    BY Zenon, <2>1, <2>3, <1>7
  <2> QED
    BY Zenon, <2>2, <2>3
<1>9. ASSUME NEW i \in DOMAIN t, NEW j \in DOMAIN t, i < j, t[i].what = "note", t[j].what = "note",
             t[i].sub = t[j].sub
      PROVE  t[i].n < t[j].n
  <2>1. i + 1 < j + 1
    BY <1>2, <1>9
  <2> QED
    BY SMTT(20), <1>2, <1>9, <2>1 DEF NotesRight
<1>10. ASSUME NEW j \in SubscriptionIds, NEW n \in Nat, new[j] < n, n <= snt[j]
       PROVE  \E i \in DOMAIN t : t[i].what = "note" /\ t[i].sub = j /\ t[i].n = n
  <2>1. rd[j] < n /\ (j = k => n # m.n)
    BY <1>5, <1>6, <1>7, <1>10
  <2>2. PICK i \in DOMAIN s : s[i].what = "note" /\ s[i].sub = j /\ s[i].n = n
    BY ZenonT(40), <1>10, <2>1 DEF NotesRight
  <2>3. i # 1
    BY Zenon, <1>1, <2>1, <2>2 DEF k
  <2> QED
    BY Zenon, <1>2b, <2>2, <2>3
<1>11. NotesRight(t, new, snt)
  BY <1>8, <1>9, <1>10 DEF NotesRight
<1> QED
  BY Zenon, <1>5, <1>6, <1>11 DEF m, k, t, new

\* Every step keeps the notifications in the channel in order and complete: the server
\* sends the next one, ws_task reads the first.
LEMMA NextNote == IdInv /\ CountInv /\ PlaceInv /\ NoteInv /\ [Next]_vars => NoteInv'
<1> SUFFICES ASSUME IdInv, CountInv, PlaceInv, NoteInv, [Next]_vars PROVE NoteInv'
  BY Zenon
<1>0. /\ incoming \in Seq(IncomingMessages) /\ read \in [SubscriptionIds -> Nat]
      /\ notes \in [SubscriptionIds -> Nat] /\ NotesRight(incoming, read, notes)
  BY Zenon DEF PlaceInv, CountInv, NoteInv
<1>1. CASE UNCHANGED <<incoming, read, notes>>
  BY Zenon, <1>1 DEF NoteInv
<1>2. CASE IncomingNotification
  <2> DEFINE m == Head(incoming)
  <2>1. /\ incoming # <<>> /\ m.what = "note" /\ incoming' = Tail(incoming) /\ notes' = notes
        /\ read' = [read EXCEPT ![m.sub] = m.n]
    BY Zenon, <1>2 DEF IncomingNotification, handle_subscription, serverVars
  <2>2. m.sub \in SubscriptionIds /\ m.n = read[m.sub] + 1 /\ m.n <= notes[m.sub]
    BY Zenon, <1>0, <2>1, NotesTake
  <2>3. NotesRight(Tail(incoming), [read EXCEPT ![m.sub] = m.n], notes)
    BY Zenon, <1>0, <2>1, NotesTake
  <2> HIDE DEF m
  <2>4. read' \in [SubscriptionIds -> Nat] /\ \A k \in SubscriptionIds : read'[k] <= notes[k]
    BY <1>0, <2>1, <2>2 DEF NoteInv
  <2> QED
    BY Zenon, <2>1, <2>3, <2>4 DEF NoteInv
<1>3. CASE IncomingResponse \/ IncomingMisnumbered \/ IncomingControl
  <2>1. /\ incoming # <<>> /\ Head(incoming).what # "note" /\ incoming' = Tail(incoming)
        /\ UNCHANGED <<read, notes>>
    BY Zenon, <1>3 DEF IncomingResponse, IncomingMisnumbered, IncomingControl, serverVars
  <2> QED
    BY Zenon, <1>0, <2>1, NotesSkip DEF NoteInv
<1>4. ASSUME NEW k \in SubscriptionIds, Notify(k) PROVE NoteInv'
  <2>1. /\ incoming' = Append(incoming, [what |-> "note", sub |-> k, n |-> notes[k] + 1])
        /\ notes' = [notes EXCEPT ![k] = @ + 1] /\ read' = read
    BY Zenon, <1>4 DEF Notify
  <2>2. \A j \in SubscriptionIds : read[j] <= notes[j]
    BY Zenon DEF NoteInv
  <2>3. NotesRight(incoming', read', notes')
    BY Zenon, <1>0, <2>1, <2>2, NotesSend
  <2>4. \A j \in SubscriptionIds : read[j] <= notes'[j]
    BY <1>0, <2>1, <2>2
  <2> QED
    BY Zenon, <1>0, <2>1, <2>3, <2>4 DEF NoteInv
<1>5. CASE \/ \E c \in Callers, ok \in BOOLEAN : Reply(c, ok)
           \/ \E what \in {"Ping", "Close", "misnumbered", "garbage"} : Control(what)
  <2>1. \E m \in IncomingMessages : m.what # "note" /\ incoming' = Append(incoming, m)
    <3>1. ASSUME NEW c \in Callers, NEW ok \in BOOLEAN, Reply(c, ok)
          PROVE  \E m \in IncomingMessages : m.what # "note" /\ incoming' = Append(incoming, m)
      <4> DEFINE k == IF KindOf[c] = "Subscribe" /\ ok THEN granted + 1 ELSE 0
                 m == IF KindOf[c] = "EmptyBatch" THEN ParseError ELSE Outputs(ids[c], ok, k)
      <4>1. ids[c] \in Seq(Nat) /\ k \in Nat
        BY DEF IdInv, CountInv
      <4> HIDE DEF k
      <4>2. m \in IncomingMessages /\ m.what # "note"
        BY <4>1 DEF IncomingMessages, Outputs, ParseError
      <4>3. incoming' = Append(incoming, m)
        BY Zenon, <3>1 DEF Reply, k
      <4> QED
        BY Zenon, <4>2, <4>3
    <3>2. ASSUME NEW what \in {"Ping", "Close", "misnumbered", "garbage"}, Control(what)
          PROVE  \E m \in IncomingMessages : m.what # "note" /\ incoming' = Append(incoming, m)
      <4> DEFINE m == IF what = "garbage" THEN ParseError ELSE [what |-> what]
      <4>1. m \in IncomingMessages /\ m.what # "note"
        BY DEF IncomingMessages, ParseError
      <4>2. incoming' = Append(incoming, m)
        BY Zenon, <3>2 DEF Control
      <4> QED
        BY Zenon, <4>1, <4>2
    <3> QED
      BY Zenon, <1>5, <3>1, <3>2
  <2>2. UNCHANGED <<read, notes>>
    BY Zenon, <1>5 DEF Reply, Control
  <2> QED
    BY Zenon, <1>0, <2>1, <2>2, NotesSkip DEF NoteInv
<1>6. CASE \/ \E c \in Callers : CallerStep(c) \/ DropStream(c) \/ Unsubscribe(c)
           \/ Connect \/ Forward \/ End \/ UNCHANGED vars
  BY Zenon, <1>1, <1>6 DEF CallerStep, Prepare, Register, Send, Await, Subscribe, DropStream, Unsubscribe,
                          Connect, Forward, End, vars, serverVars
<1> QED
  BY Zenon, <1>2, <1>3, <1>4, <1>5, <1>6 DEF Next, TaskStep

-----------------------------------------------------------------------------
(* The streams.                                                            *)

\* subscriptions holds the callers that have a stream, each under its own id; nobody
\* else has been sent a notification.
StreamInv ==
    /\ stream \in [Callers -> Seq(Nat)]
    /\ \A k \in DOMAIN subscriptions : /\ subscriptions[k] \in Callers /\ sub[subscriptions[k]] = k
                                       /\ step[subscriptions[k]] \in {"stream", "dropped"}
    /\ \A c \in Callers : step[c] = "stream" /\ sub[c] # 0 =>
           sub[c] \in DOMAIN subscriptions /\ subscriptions[sub[c]] = c
    /\ \A c \in Callers : stream[c] # <<>> =>
           sub[c] \in SubscriptionIds /\ step[c] \in {"stream", "dropped", "done"}
    /\ StreamComplete

\* Steps that touch no stream: a caller that has one keeps it.
LEMMA StreamStill ==
    ASSUME StreamInv, UNCHANGED <<subscriptions, stream, read>>,
           \A c \in Callers : step[c] \in {"stream", "dropped", "done"} =>
               step'[c] = step[c] /\ sub'[c] = sub[c],
           \A c \in Callers : step'[c] = "stream" => step[c] = "stream"
    PROVE  StreamInv'
<1>1. \A k \in DOMAIN subscriptions : /\ subscriptions[k] \in Callers /\ sub'[subscriptions[k]] = k
                                      /\ step'[subscriptions[k]] \in {"stream", "dropped"}
  BY Zenon DEF StreamInv
<1>2. \A c \in Callers : step'[c] = "stream" /\ sub'[c] # 0 =>
          sub'[c] \in DOMAIN subscriptions /\ subscriptions[sub'[c]] = c
  BY DEF StreamInv
<1>3. \A c \in Callers : stream[c] # <<>> =>
          sub'[c] \in SubscriptionIds /\ step'[c] \in {"stream", "dropped", "done"}
  BY Zenon DEF StreamInv
<1>4. StreamComplete'
  BY DEF StreamInv, StreamComplete
<1> QED
  BY Zenon, <1>1, <1>2, <1>3, <1>4 DEF StreamInv

\* PubsubTransport::subscribe stores the caller's sender under an id of its own.
LEMMA StreamSubscribe ==
    ASSUME IdInv, GrantInv, StreamInv, NEW c \in Callers, Subscribe(c)
    PROVE  StreamInv'
<1>1. /\ step[c] = "subscribe" /\ step' = [step EXCEPT ![c] = "stream"] /\ UNCHANGED <<sub, stream, read, task>>
      /\ DOMAIN subscriptions' = DOMAIN subscriptions \cup {sub[c]}
      /\ subscriptions'[sub[c]] = c
      /\ \A k \in DOMAIN subscriptions : k # sub[c] => subscriptions'[k] = subscriptions[k]
  BY Zenon DEF Subscribe, insert
<1>2. step'[c] = "stream" /\ \A d \in Callers : d # c => step'[d] = step[d]
  BY Zenon, <1>1 DEF IdInv
<1>3. \A d \in Callers : d # c /\ sub[d] # 0 => sub[d] # sub[c]
  BY Zenon DEF GrantInv, Grant
<1>4. stream[c] = <<>>
  BY Zenon, <1>1 DEF StreamInv
<1>5. \A k \in DOMAIN subscriptions' : /\ subscriptions'[k] \in Callers /\ sub[subscriptions'[k]] = k
                                       /\ step'[subscriptions'[k]] \in {"stream", "dropped"}
  BY <1>1, <1>2 DEF StreamInv
<1>6. \A d \in Callers : step'[d] = "stream" /\ sub[d] # 0 =>
          sub[d] \in DOMAIN subscriptions' /\ subscriptions'[sub[d]] = d
  BY <1>1, <1>2, <1>3 DEF StreamInv
<1>7. \A d \in Callers : stream[d] # <<>> =>
          sub[d] \in SubscriptionIds /\ step'[d] \in {"stream", "dropped", "done"}
  BY Zenon, <1>2, <1>4 DEF StreamInv
<1>8. StreamComplete'
  BY <1>1, <1>2, <1>4 DEF StreamInv, StreamComplete
<1> QED
  BY Zenon, <1>1, <1>5, <1>6, <1>7, <1>8 DEF StreamInv

\* The stream of a caller that drops it, or unsubscribes, stays as it is; unsubscribe
\* removes no other caller's sender.
LEMMA StreamLeave ==
    ASSUME IdInv, GrantInv, StreamInv, NEW c \in Callers, DropStream(c) \/ Unsubscribe(c)
    PROVE  StreamInv'
<1>1. /\ step[c] \in {"stream", "dropped"} /\ UNCHANGED <<sub, stream, read, task>>
      /\ \/ step' = [step EXCEPT ![c] = "dropped"] /\ subscriptions' = subscriptions
         \/ step' = [step EXCEPT ![c] = "done"] /\ subscriptions' = remove(subscriptions, sub[c])
  BY Zenon DEF DropStream, Unsubscribe
<1>2. step'[c] \in {"dropped", "done"} /\ \A d \in Callers : d # c => step'[d] = step[d]
  BY Zenon, <1>1 DEF IdInv
<1>3. /\ \A k \in DOMAIN subscriptions' : k \in DOMAIN subscriptions /\ subscriptions'[k] = subscriptions[k]
      /\ \A k \in DOMAIN subscriptions : k # sub[c] => k \in DOMAIN subscriptions'
      /\ sub[c] \in DOMAIN subscriptions' => step'[c] = "dropped"
  BY Zenon, <1>1 DEF remove, IdInv
<1>4. \A d \in Callers : d # c /\ sub[d] # 0 => sub[d] # sub[c]
  BY Zenon DEF GrantInv, Grant
<1>5. ASSUME NEW k \in DOMAIN subscriptions'
      PROVE  /\ subscriptions'[k] \in Callers /\ sub[subscriptions'[k]] = k
             /\ step'[subscriptions'[k]] \in {"stream", "dropped"}
  <2>1. /\ subscriptions'[k] = subscriptions[k] /\ subscriptions[k] \in Callers /\ sub[subscriptions[k]] = k
        /\ step[subscriptions[k]] \in {"stream", "dropped"}
    BY Zenon, <1>3 DEF StreamInv
  <2>2. subscriptions[k] = c => step'[c] = "dropped"
    BY Zenon, <1>3, <2>1
  <2> QED
    BY Zenon, <1>2, <2>1, <2>2
<1>6. \A d \in Callers : step'[d] = "stream" /\ sub[d] # 0 =>
          sub[d] \in DOMAIN subscriptions' /\ subscriptions'[sub[d]] = d
  <2> SUFFICES ASSUME NEW d \in Callers, step'[d] = "stream", sub[d] # 0
               PROVE  sub[d] \in DOMAIN subscriptions' /\ subscriptions'[sub[d]] = d
    BY Zenon
  <2>1. d # c /\ step[d] = "stream"
    BY Zenon, <1>2
  <2> QED
    BY Zenon, <2>1, <1>3, <1>4 DEF StreamInv
<1>7. \A d \in Callers : stream[d] # <<>> =>
          sub[d] \in SubscriptionIds /\ step'[d] \in {"stream", "dropped", "done"}
  BY Zenon, <1>2 DEF StreamInv
<1>8. StreamComplete'
  <2>1. \A d \in Callers : step'[d] = "stream" => step[d] = "stream"
    BY Zenon, <1>2
  <2> QED
    BY <1>1, <2>1 DEF StreamInv, StreamComplete
<1> QED
  BY Zenon, <1>1, <1>5, <1>6, <1>7, <1>8 DEF StreamInv

\* What follows the last value of a stream extends it.
LEMMA Extended ==
    ASSUME NEW s \in Seq(Nat), NEW n \in Nat, s # <<>> => n = s[Len(s)] + 1,
           \A j \in 1..(Len(s) - 1) : s[j + 1] = s[j] + 1
    PROVE  /\ \A j \in 1..(Len(Append(s, n)) - 1) : Append(s, n)[j + 1] = Append(s, n)[j] + 1
           /\ Append(s, n)[Len(Append(s, n))] = n /\ Append(s, n) \in Seq(Nat)
<1> DEFINE t == Append(s, n)
<1>1. /\ t \in Seq(Nat) /\ Len(t) = Len(s) + 1 /\ Len(s) \in Nat /\ t[Len(s) + 1] = n
      /\ \A j \in 1..Len(s) : t[j] = s[j]
      /\ Len(s) # 0 => s # <<>>
  OBVIOUS
<1> HIDE DEF t
<1>2. ASSUME NEW j \in 1..(Len(t) - 1) PROVE t[j + 1] = t[j] + 1
  <2>1. CASE j = Len(s)
    BY <1>1, <2>1
  <2>2. CASE j # Len(s)
    <3>1. j \in 1..(Len(s) - 1) /\ j \in 1..Len(s) /\ j + 1 \in 1..Len(s)
      BY <1>1, <2>2
    <3> QED
      BY Zenon, <1>1, <3>1
  <2> QED
    BY Zenon, <2>1, <2>2
<1> QED
  BY Zenon, <1>1, <1>2 DEF t

\* A notification extends the stream its subscription feeds, the one that has been sent
\* all read before it; ws_task panics only if the user has dropped that stream.
LEMMA StreamRead ==
    ASSUME PlaceInv, CountInv, NoteInv, StreamInv, IncomingNotification
    PROVE  StreamInv'
<1> DEFINE m == Head(incoming)
           k == m.sub
           c == get(subscriptions, k)
<1>0. /\ incoming \in Seq(IncomingMessages) /\ read \in [SubscriptionIds -> Nat]
      /\ notes \in [SubscriptionIds -> Nat] /\ NotesRight(incoming, read, notes)
  BY Zenon DEF PlaceInv, CountInv, NoteInv
<1>1. /\ incoming # <<>> /\ m.what = "note" /\ UNCHANGED <<step, sub, subscriptions>>
      /\ read' = [read EXCEPT ![k] = m.n]
      /\ \/ /\ c \in Callers /\ step[c] = "dropped" /\ stream' = stream
         \/ /\ c \in Callers => step[c] # "dropped"
            /\ stream' = IF c \in Callers THEN [stream EXCEPT ![c] = Append(@, m.n)] ELSE stream
            /\ task' = task
  BY Zenon DEF IncomingNotification, handle_subscription
<1>2. k \in SubscriptionIds /\ m.n = read[k] + 1
  BY Zenon, <1>0, <1>1, NotesTake
<1> HIDE DEF m, k
<1>3. k # 0 /\ read[k] \in Nat /\ m.n \in Nat
  BY <1>0, <1>2 DEF SubscriptionIds
<1>4. read'[k] = m.n /\ \A j \in SubscriptionIds : j # k => read'[j] = read[j]
  BY Zenon, <1>0, <1>1, <1>2
<1>5. c \in Callers => subscriptions[k] = c /\ sub[c] = k /\ step[c] \in {"stream", "dropped"}
  BY Zenon, TransportAssumption DEF get, StreamInv
<1>6. \A d \in Callers : step[d] = "stream" /\ sub[d] = k => c = d
  BY <1>3 DEF StreamInv, get
<1> HIDE DEF c
<1>7. /\ stream \in [Callers -> Seq(Nat)]
      /\ \A d \in Callers : /\ \A j \in 1..(Len(stream[d]) - 1) : stream[d][j + 1] = stream[d][j] + 1
                            /\ step[d] = "stream" /\ stream[d] # <<>> =>
                                   stream[d][Len(stream[d])] = read[sub[d]] /\ sub[d] \in SubscriptionIds
  BY Zenon DEF StreamInv, StreamComplete
<1>8. ASSUME NEW d \in Callers
      PROVE  /\ stream'[d] \in Seq(Nat)
             /\ stream'[d] # <<>> =>
                    sub[d] \in SubscriptionIds /\ step[d] \in {"stream", "dropped", "done"}
             /\ \A j \in 1..(Len(stream'[d]) - 1) : stream'[d][j + 1] = stream'[d][j] + 1
             /\ step[d] = "stream" /\ stream'[d] # <<>> => stream'[d][Len(stream'[d])] = read'[sub[d]]
  <2>1. CASE c = d /\ step[c] # "dropped"
    <3>1. step[d] = "stream" /\ sub[d] = k /\ stream'[d] = Append(stream[d], m.n)
      BY Zenon, <1>1, <1>5, <1>7, <2>1
    <3>2. stream[d] \in Seq(Nat) /\ (stream[d] # <<>> => m.n = stream[d][Len(stream[d])] + 1)
      BY Zenon, <3>1, <1>2, <1>7
    <3>3. /\ \A j \in 1..(Len(stream'[d]) - 1) : stream'[d][j + 1] = stream'[d][j] + 1
          /\ stream'[d][Len(stream'[d])] = m.n /\ stream'[d] \in Seq(Nat)
      BY SMTT(20), <3>1, <3>2, <1>3, <1>7, Extended
    <3> QED
      BY Zenon, <3>1, <3>3, <1>2, <1>4
  <2>2. CASE ~(c = d /\ step[c] # "dropped")
    <3>1. stream'[d] = stream[d]
      BY Zenon, <1>1, <1>7, <2>2
    <3>2. step[d] = "stream" => sub[d] # k
      BY Zenon, <1>6, <2>2
    <3>3. stream[d] # <<>> => sub[d] \in SubscriptionIds /\ step[d] \in {"stream", "dropped", "done"}
      BY Zenon DEF StreamInv
    <3> QED
      BY Zenon, <3>1, <3>2, <3>3, <1>4, <1>7
  <2> QED
    BY Zenon, <2>1, <2>2
<1>9. stream' \in [Callers -> Seq(Nat)]
  <2>1. CASE stream' = stream
    BY Zenon, <2>1, <1>7
  <2>2. CASE c \in Callers /\ stream' = [stream EXCEPT ![c] = Append(@, m.n)]
    BY <2>2, <1>3, <1>7
  <2> QED
    BY Zenon, <1>1, <2>1, <2>2
<1>10. StreamComplete'
  BY Zenon, <1>1, <1>8 DEF StreamComplete
<1>12. /\ \A j \in DOMAIN subscriptions' : /\ subscriptions'[j] \in Callers /\ sub'[subscriptions'[j]] = j
                                           /\ step'[subscriptions'[j]] \in {"stream", "dropped"}
       /\ \A d \in Callers : step'[d] = "stream" /\ sub'[d] # 0 =>
              sub'[d] \in DOMAIN subscriptions' /\ subscriptions'[sub'[d]] = d
  BY Zenon, <1>1 DEF StreamInv
<1> QED
  BY Zenon, <1>1, <1>8, <1>9, <1>10, <1>12 DEF StreamInv

\* Every step keeps the streams complete: a sender is in subscriptions exactly while its
\* caller has a stream, under an id no other caller has.
LEMMA NextStream ==
    IdInv /\ CountInv /\ PlaceInv /\ GrantInv /\ NoteInv /\ StreamInv /\ [Next]_vars => StreamInv'
<1> SUFFICES ASSUME IdInv, CountInv, PlaceInv, GrantInv, NoteInv, StreamInv, [Next]_vars PROVE StreamInv'
  BY Zenon
<1>1. ASSUME NEW c \in Callers, Prepare(c) \/ Register(c) \/ Send(c) \/ Await(c) PROVE StreamInv'
  <2>1. UNCHANGED <<subscriptions, stream, read, task>>
    BY Zenon, <1>1 DEF Prepare, Register, Send, Await
  <2>2. /\ step[c] \in {"prepare", "register", "send", "await"} /\ step'[c] # "stream"
        /\ \A d \in Callers : d # c => step'[d] = step[d] /\ sub'[d] = sub[d]
    <3>1. CASE Prepare(c)
      BY Zenon, <3>1 DEF Prepare, After, IdInv
    <3>2. CASE Register(c)
      BY Zenon, <3>2 DEF Register, After, IdInv
    <3>3. CASE Send(c)
      BY Zenon, <3>3 DEF Send, After, IdInv
    <3>4. CASE Await(c)
      BY Zenon, <3>4 DEF Await, IdInv, GrantInv
    <3> QED
      BY Zenon, <1>1, <3>1, <3>2, <3>3, <3>4
  <2> QED
    BY Zenon, <2>1, <2>2, StreamStill
<1>2. CASE \/ Connect \/ Forward \/ IncomingResponse \/ IncomingMisnumbered \/ IncomingControl
           \/ End \/ UNCHANGED vars
           \/ \E c \in Callers, ok \in BOOLEAN : Reply(c, ok)
           \/ \E k \in SubscriptionIds : Notify(k)
           \/ \E what \in {"Ping", "Close", "misnumbered", "garbage"} : Control(what)
  <2>1. UNCHANGED <<subscriptions, stream, read, step, sub>>
    BY Zenon, <1>2 DEF Connect, Forward, IncomingResponse, IncomingMisnumbered, IncomingControl, End, vars, Reply, Notify, Control,
                      callerVars
  <2> QED
    BY Zenon, <2>1, StreamStill
<1> QED
  BY Zenon, <1>1, <1>2, StreamSubscribe, StreamLeave, StreamRead DEF Next, CallerStep, TaskStep

\* The invariants of the calls and of the streams hold together.
LEMMA StreamInvariance == Spec => [](Inv /\ GrantInv /\ NoteInv /\ StreamInv)
<1>1. Init => GrantInv /\ NoteInv /\ StreamInv
  <2> SUFFICES ASSUME Init PROVE GrantInv /\ NoteInv /\ StreamInv
    BY Zenon
  <2>1. GrantInv
    BY DEF Init, GrantInv, Grant, ReplyAt, Nothing
  <2>2. NoteInv
    BY DEF Init, NoteInv, NotesRight
  <2>3. StreamInv
    BY DEF Init, StreamInv, StreamComplete
  <2> QED
    BY Zenon, <2>1, <2>2, <2>3
<1>2. Inv /\ Inv' /\ GrantInv /\ NoteInv /\ StreamInv /\ [Next]_vars => (GrantInv /\ NoteInv /\ StreamInv)'
  BY Zenon, NextGrant, NextNote, NextStream DEF Inv
<1> QED
  BY <1>1, <1>2, InitInv, NextInv, PTL DEF Spec

\* A stream gets every notification that is read since its first, in order and once,
\* until it is dropped or unsubscribed, for any number of callers, subscriptions and
\* notifications: handle_subscription finds the stream's sender under the id the server
\* granted to that caller alone, until unsubscribe removes it.
THEOREM StreamsComplete == Spec => []StreamComplete
<1>1. StreamInv => StreamComplete
  BY Zenon DEF StreamInv
<1> QED
  BY <1>1, StreamInvariance, PTL

\* A step that ends ws_task by a panic is the reading of a notification, either with an
\* id that is no u64 or for the stream its user has dropped.
LEMMA PanicStep ==
    ASSUME StreamInv, [Next]_vars, task # "panicked", task' = "panicked"
    PROVE  \/ Head(incoming).what = "misnumbered"
           \/ /\ Head(incoming).what = "note"
              /\ \E c \in Callers : step[c] = "dropped" /\ sub[c] = Head(incoming).sub
<1>1. CASE \/ \E c \in Callers : CallerStep(c) \/ DropStream(c) \/ Unsubscribe(c)
           \/ \E c \in Callers, ok \in BOOLEAN : Reply(c, ok)
           \/ \E k \in SubscriptionIds : Notify(k)
           \/ \E what \in {"Ping", "Close", "misnumbered", "garbage"} : Control(what)
           \/ Connect \/ Forward \/ IncomingResponse \/ IncomingControl \/ End \/ UNCHANGED vars
  <2>1. task' \in {task, "running", "ended"}
    BY Zenon, <1>1 DEF CallerStep, Prepare, Register, Send, Await, Subscribe, DropStream,
              Unsubscribe, Reply, Notify, Control, Connect, Forward, IncomingResponse,
              IncomingControl, End, vars
  <2> QED
    BY <2>1
<1>2. CASE IncomingNotification
  <2> DEFINE k == Head(incoming).sub
             c == get(subscriptions, k)
  <2>1. Head(incoming).what = "note" /\ c \in Callers /\ step[c] = "dropped"
    BY Zenon, <1>2 DEF IncomingNotification, handle_subscription
  <2>2. sub[c] = k
    BY Zenon, <2>1, TransportAssumption DEF get, StreamInv
  <2> QED
    BY Zenon, <2>1, <2>2
<1>3. CASE IncomingMisnumbered
  BY Zenon, <1>3 DEF IncomingMisnumbered
<1> QED
  BY Zenon, <1>1, <1>2, <1>3 DEF Next, TaskStep

\* ws_task panics only when it reads a notification with an id that is no u64, or one for
\* a stream that was dropped and not unsubscribed: the expect() in handle_subscription is
\* met by every other order of subscribing, notifications and unsubscribing.
THEOREM OnlyDroppedEnds == Spec => OnlyDroppedStreamEnds
<1>1. ASSUME StreamInv, [Next]_vars
      PROVE  [task # "panicked" /\ task' = "panicked" =>
                 \/ Head(incoming).what = "misnumbered"
                 \/ /\ Head(incoming).what = "note"
                    /\ \E c \in Callers : step[c] = "dropped" /\ sub[c] = Head(incoming).sub]_vars
  BY Zenon, <1>1, PanicStep
<1> QED
  BY <1>1, StreamInvariance, PTL DEF Spec, OnlyDroppedStreamEnds
=============================================================================
