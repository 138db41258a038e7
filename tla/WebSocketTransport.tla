------------------------- MODULE WebSocketTransport -------------------------
(***************************************************************************)
(* The JSON-RPC client over a WebSocket: WebSocketTransport and its ws_task *)
(* (api-client/jsonrpc-client/src/transports/ws.rs), the calls built on it *)
(* (transports/mod.rs) and RpcClient::subscribe (api-client/src/client.rs).*)
(*                                                                         *)
(* Callers run in parallel with ws_task; they share pendings, subscriptions*)
(* and the channel to ws_task.  Each caller makes one call of its kind.    *)
(* The server is external: it answers requests in any order.               *)
(***************************************************************************)
EXTENDS Naturals, FiniteSets, Sequences

CONSTANTS
    Callers,
    KindOf,          \* the call each caller makes
    NoCaller,
    MayEnd,          \* the connection may be lost
    MaxNotes,        \* bound: notifications per subscription
    MaxControl       \* bound: pings, closes and malformed texts of the server

CallKinds == {"Single", "Batch", "EmptyBatch", "Subscribe"}

ASSUME TransportAssumption ==
    /\ IsFiniteSet(Callers)
    /\ KindOf \in [Callers -> CallKinds]
    /\ NoCaller \notin Callers
    /\ MayEnd \in BOOLEAN
    /\ MaxNotes \in Nat /\ MaxControl \in Nat

\* How many calls are prepared, and so how many ids drawn: 2 for a Batch.
Size(c) == CASE KindOf[c] = "Batch" -> 2
             [] KindOf[c] = "EmptyBatch" -> 0
             [] OTHER -> 1

\* Bound: the server makes one subscription for each subscribe call.
SubscriptionIds == 1..Cardinality(Callers)

VARIABLES
    id,              \* the next request id
    pendings,        \* HashMap: RequestId -> the caller whose sender is stored
    subscriptions,   \* HashMap: SubscriptionId -> the caller whose stream it feeds
    writer,          \* channel from the transport to ws_task
    task,            \* ws_task: "connecting", "running", "ended", "panicked"
    step,            \* where each caller is
    ids,             \* the ids each caller has drawn
    answer,          \* what the caller's oneshot channel holds
    sub,             \* the caller's subscription id, 0 for none
    stream,          \* the notifications its stream has been sent
    \* the server
    server,          \* requests it has received and not answered
    incoming,        \* messages on their way to the client
    granted,         \* subscriptions it has made
    notes,           \* notifications it has sent for each of them
    control,         \* pings, closes and malformed texts it has sent
    \* history
    read             \* notifications of each subscription ws_task has read

callerVars == <<step, ids, answer, sub>>
serverVars == <<server, granted, notes, control>>
vars == <<id, pendings, subscriptions, writer, task, callerVars, stream,
          serverVars, incoming, read>>

\* What a oneshot channel holds: nothing yet, a dropped sender, the error of a
\* text that is no response, or the ids of the outputs, whether they succeed and
\* the subscription id that is the result of a subscribe call.
Nothing == [what |-> "nothing"]
Canceled == [what |-> "canceled"]
ParseError == [what |-> "error"]
Outputs(is, ok, k) == [what |-> "outputs", ids |-> is, ok |-> ok, sub |-> k]

Init ==
    /\ id = 1
    /\ pendings = <<>> /\ subscriptions = <<>>
    /\ writer = <<>> /\ task = "connecting"
    /\ step = [c \in Callers |-> "prepare"]
    /\ ids = [c \in Callers |-> <<>>]
    /\ answer = [c \in Callers |-> Nothing]
    /\ sub = [c \in Callers |-> 0]
    /\ stream = [c \in Callers |-> <<>>]
    /\ server = {} /\ incoming = <<>> /\ granted = 0
    /\ notes = [k \in SubscriptionIds |-> 0]
    /\ control = 0
    /\ read = [k \in SubscriptionIds |-> 0]

-----------------------------------------------------------------------------
(* HashMap.                                                                *)

get(map, k) == IF k \in DOMAIN map THEN map[k] ELSE NoCaller
insert(map, k, c) == [j \in DOMAIN map \cup {k} |-> IF j = k THEN c ELSE map[j]]
remove(map, k) == [j \in DOMAIN map \ {k} |-> map[j]]

-----------------------------------------------------------------------------
(* A call.                                                                 *)

\* send_request stores the sender before it sends the text.  (The mutant sends
\* first.)
After_SendFirst(s) ==
    CASE s = "prepare" -> "send" [] s = "send" -> "register"
      [] s = "register" -> "await"
After(s) ==
    CASE s = "prepare" -> "register" [] s = "register" -> "send"
      [] s = "send" -> "await"

\* prepare: id.fetch_add(1).  execute_batch draws the ids of a batch one by one.
\* (The mutant: a caller may read the counter before another has added to it.)
fetch_add_Load == id' \in {id, id + 1}
fetch_add == id' = id + 1
Prepare(c) ==
    /\ step[c] = "prepare"
    /\ \/ /\ Len(ids[c]) < Size(c)
          /\ ids' = [ids EXCEPT ![c] = Append(@, id)]
          /\ fetch_add
          /\ UNCHANGED step
       \/ /\ Len(ids[c]) = Size(c)
          /\ step' = [step EXCEPT ![c] = After("prepare")]
          /\ UNCHANGED <<id, ids>>
    /\ UNCHANGED <<pendings, subscriptions, writer, task, answer, sub, stream,
                   serverVars, incoming, read>>

\* The id a call waits under: its first one, 0 for an empty batch.
first_id(c) == IF ids[c] = <<>> THEN 0 ELSE ids[c][1]

\* pendings.lock().insert(id, tx): a sender stored before under id is dropped.
Register(c) ==
    LET old == get(pendings, first_id(c)) IN
    /\ step[c] = "register"
    /\ step' = [step EXCEPT ![c] = After("register")]
    /\ pendings' = insert(pendings, first_id(c), c)
    /\ answer' = IF old \in Callers THEN [answer EXCEPT ![old] = Canceled]
                 ELSE answer
    /\ UNCHANGED <<id, subscriptions, writer, task, ids, sub, stream,
                   serverVars, incoming, read>>

\* unbounded_send(Text): panics once ws_task, which has the receiver, is over.
Send(c) ==
    /\ step[c] = "send"
    /\ IF task \in {"ended", "panicked"}
       THEN step' = [step EXCEPT ![c] = "send_panic"] /\ UNCHANGED writer
       ELSE /\ step' = [step EXCEPT ![c] = After("send")]
            /\ writer' = Append(writer, [what |-> "Text", caller |-> c])
    /\ UNCHANGED <<id, pendings, subscriptions, task, ids, answer, sub, stream,
                   serverVars, incoming, read>>

\* rx.await.unwrap(): panics when the sender was dropped.  subscribe goes on if
\* the call succeeded, the other calls return.
Await(c) ==
    LET a == answer[c] IN
    /\ step[c] = "await"
    /\ a # Nothing
    /\ step' = [step EXCEPT ![c] =
           CASE a = Canceled -> "await_panic"
             [] KindOf[c] = "Subscribe" /\ a # ParseError /\ a.ok -> "subscribe"
             [] OTHER -> "done"]
    /\ sub' = IF a.what = "outputs" THEN [sub EXCEPT ![c] = a.sub] ELSE sub
    /\ UNCHANGED <<id, pendings, subscriptions, writer, task, ids, answer,
                   stream, serverVars, incoming, read>>

\* PubsubTransport::subscribe with the id the server gave.
Subscribe(c) ==
    /\ step[c] = "subscribe"
    /\ step' = [step EXCEPT ![c] = "stream"]
    /\ subscriptions' = insert(subscriptions, sub[c], c)
    /\ UNCHANGED <<id, pendings, writer, task, ids, answer, sub, stream,
                   serverVars, incoming, read>>

\* The user drops the NotificationStream: the sender stays in subscriptions.
DropStream(c) ==
    /\ step[c] = "stream"
    /\ step' = [step EXCEPT ![c] = "dropped"]
    /\ UNCHANGED <<id, pendings, subscriptions, writer, task, ids, answer, sub,
                   stream, serverVars, incoming, read>>

Unsubscribe(c) ==
    /\ step[c] \in {"stream", "dropped"}
    /\ step' = [step EXCEPT ![c] = "done"]
    /\ subscriptions' = remove(subscriptions, sub[c])
    /\ UNCHANGED <<id, pendings, writer, task, ids, answer, sub, stream,
                   serverVars, incoming, read>>

-----------------------------------------------------------------------------
(* ws_task.                                                                *)

\* connect_async(..).expect(..): the task panics if the handshake fails.
Connect ==
    /\ task = "connecting"
    /\ task' \in IF MayEnd THEN {"running", "ended"} ELSE {"running"}
    /\ UNCHANGED <<id, pendings, subscriptions, writer, callerVars, stream,
                   serverVars, incoming, read>>

\* write_to_ws forwards a message: a request reaches the server.
Forward ==
    /\ task = "running" /\ writer # <<>>
    /\ writer' = Tail(writer)
    /\ server' = IF Head(writer).what = "Text"
                 THEN server \cup {Head(writer).caller} ELSE server
    /\ UNCHANGED <<id, pendings, subscriptions, task, callerVars, stream,
                   granted, notes, control, incoming, read>>

\* handle_pending_response: the entry under k goes, and its caller is answered.
handle_pending_response(k, a) ==
    /\ pendings' = remove(pendings, k)
    /\ answer' = IF get(pendings, k) \in Callers
                 THEN [answer EXCEPT ![get(pendings, k)] = a] ELSE answer

\* handle_subscription: the value goes to the subscription's stream, if it is
\* known; the send panics, and ws_task ends, when the user dropped the stream.
\* (The mutants: the entry is taken out of the map; the subscription must be known.)
handle_subscription_Known(k, n) ==
    LET c == get(subscriptions, k) IN
    /\ read' = [read EXCEPT ![k] = n]
    /\ UNCHANGED subscriptions
    /\ \/ /\ c \in Callers => step[c] = "dropped"
          /\ task' = "panicked"
          /\ UNCHANGED <<stream, pendings, answer>>
       \/ /\ c \in Callers /\ step[c] # "dropped"
          /\ stream' = [stream EXCEPT ![c] = Append(@, n)]
          /\ handle_pending_response(0, ParseError)
          /\ UNCHANGED task
handle_subscription_Removes(k, n) ==
    LET c == get(subscriptions, k) IN
    /\ read' = [read EXCEPT ![k] = n]
    /\ stream' = IF c \in Callers THEN [stream EXCEPT ![c] = Append(@, n)] ELSE stream
    /\ subscriptions' = remove(subscriptions, k)
    /\ handle_pending_response(0, ParseError)
    /\ UNCHANGED task
handle_subscription(k, n) ==
    LET c == get(subscriptions, k) IN
    /\ read' = [read EXCEPT ![k] = n]
    /\ UNCHANGED subscriptions
    /\ \/ /\ c \in Callers /\ step[c] = "dropped"
          /\ task' = "panicked"
          /\ UNCHANGED <<stream, pendings, answer>>
       \/ /\ c \in Callers => step[c] # "dropped"
          /\ stream' = IF c \in Callers THEN [stream EXCEPT ![c] = Append(@, n)]
                       ELSE stream
          \* a notification is no response: it is looked up under id 0
          /\ handle_pending_response(0, ParseError)
          /\ UNCHANGED task

\* The id a response is looked up under: that of its first output, 0 for an
\* empty batch.  (The mutant takes the last output.)
output_id_Last(is) == IF is = <<>> THEN 0 ELSE is[Len(is)]
output_id(is) == IF is = <<>> THEN 0 ELSE is[1]

\* handle_incoming_msg, by kind of message.
IncomingNotification ==
    /\ task = "running" /\ incoming # <<>> /\ Head(incoming).what = "note"
    /\ incoming' = Tail(incoming)
    /\ handle_subscription(Head(incoming).sub, Head(incoming).n)
    /\ UNCHANGED <<id, writer, step, ids, sub, serverVars>>

\* A notification whose id is a number but no u64 (id.as_u64().unwrap()).
IncomingMisnumbered ==
    /\ task = "running" /\ incoming # <<>> /\ Head(incoming).what = "misnumbered"
    /\ incoming' = Tail(incoming)
    /\ task' = "panicked"
    /\ UNCHANGED <<id, pendings, subscriptions, writer, callerVars, stream,
                   serverVars, read>>

IncomingResponse ==
    /\ task = "running" /\ incoming # <<>>
    /\ Head(incoming).what \in {"outputs", "error"}
    /\ incoming' = Tail(incoming)
    /\ handle_pending_response(
           IF Head(incoming).what = "error" THEN 0 ELSE output_id(Head(incoming).ids),
           Head(incoming))
    /\ UNCHANGED <<id, subscriptions, writer, task, step, ids, sub, stream,
                   serverVars, read>>

\* A ping is answered with a pong, a close with a close.
IncomingControl ==
    /\ task = "running" /\ incoming # <<>>
    /\ Head(incoming).what \in {"Ping", "Close"}
    /\ incoming' = Tail(incoming)
    /\ writer' = Append(writer, [what |-> IF Head(incoming).what = "Ping"
                                          THEN "Pong" ELSE "Close"])
    /\ UNCHANGED <<id, pendings, subscriptions, task, callerVars, stream,
                   serverVars, read>>

\* Either half of the connection ends, and with it select and ws_task.
End ==
    /\ MayEnd /\ task = "running"
    /\ task' = "ended"
    /\ UNCHANGED <<id, pendings, subscriptions, writer, callerVars, stream,
                   serverVars, incoming, read>>

-----------------------------------------------------------------------------
(* The server (external).  It answers a batch in the order of its calls, an *)
(* empty one with an error that has no id.                                 *)

Reply(c, ok) ==
    /\ c \in server
    /\ server' = server \ {c}
    /\ LET k == IF KindOf[c] = "Subscribe" /\ ok THEN granted + 1 ELSE 0 IN
       /\ granted' = IF k # 0 THEN k ELSE granted
       /\ incoming' = Append(incoming, IF KindOf[c] = "EmptyBatch" THEN ParseError
                                       ELSE Outputs(ids[c], ok, k))
    /\ UNCHANGED <<id, pendings, subscriptions, writer, task, callerVars, stream,
                   notes, control, read>>

Notify(k) ==
    /\ k <= granted /\ notes[k] < MaxNotes
    /\ notes' = [notes EXCEPT ![k] = @ + 1]
    /\ incoming' = Append(incoming, [what |-> "note", sub |-> k, n |-> notes[k] + 1])
    /\ UNCHANGED <<id, pendings, subscriptions, writer, task, callerVars, stream,
                   server, granted, control, read>>

\* Anything else the server sends: control frames, text that is neither a response nor
\* a notification, and a notification whose id is no u64.
Control(what) ==
    /\ task = "running" /\ control < MaxControl
    /\ control' = control + 1
    /\ incoming' = Append(incoming, IF what = "garbage" THEN ParseError
                                    ELSE [what |-> what])
    /\ UNCHANGED <<id, pendings, subscriptions, writer, task, callerVars, stream,
                   server, granted, notes, read>>

-----------------------------------------------------------------------------
CallerStep(c) == \/ Prepare(c) \/ Register(c) \/ Send(c) \/ Await(c)
                 \/ Subscribe(c)
TaskStep == \/ Connect \/ Forward \/ IncomingNotification \/ IncomingResponse
            \/ IncomingMisnumbered \/ IncomingControl

Next ==
    \/ \E c \in Callers : CallerStep(c) \/ DropStream(c) \/ Unsubscribe(c)
    \/ TaskStep \/ End
    \/ \E c \in Callers, ok \in BOOLEAN : Reply(c, ok)
    \/ \E k \in SubscriptionIds : Notify(k)
    \/ \E what \in {"Ping", "Close", "misnumbered", "garbage"} : Control(what)

Spec == Init /\ [][Next]_vars

\* Callers are polled, ws_task runs, its two halves progress, and the server
\* answers every request.
FairSpec ==
    /\ Spec
    /\ \A c \in Callers : WF_vars(CallerStep(c))
    /\ WF_vars(Connect) /\ WF_vars(Forward)
    /\ WF_vars(\/ IncomingNotification \/ IncomingResponse
               \/ IncomingMisnumbered \/ IncomingControl)
    /\ \A c \in Callers : WF_vars(\E ok \in BOOLEAN : Reply(c, ok))

-----------------------------------------------------------------------------
(* Safety.                                                                 *)

Steps == {"prepare", "register", "send", "await", "subscribe", "stream",
          "dropped", "done", "send_panic", "await_panic"}

\* The shared maps and the callers' local state hold values of their types; 0 is
\* not an id of a call.
TypeOK ==
    /\ id \in Nat \ {0}
    /\ \A k \in DOMAIN pendings : k \in Nat /\ pendings[k] \in Callers
    /\ \A k \in DOMAIN subscriptions : subscriptions[k] \in Callers
    /\ task \in {"connecting", "running", "ended", "panicked"}
    /\ step \in [Callers -> Steps]
    /\ ids \in [Callers -> Seq(Nat \ {0})]
    /\ server \subseteq Callers
    /\ granted \in Nat

\* Callers whose request is under way: sent, received or answered by a message
\* ws_task has not read yet.
UnderWay(c) ==
    \/ \E k \in DOMAIN writer : writer[k].what = "Text" /\ writer[k].caller = c
    \/ c \in server
    \/ \E k \in DOMAIN incoming :
           incoming[k].what = "outputs" /\ incoming[k].ids = ids[c]

\* No reply is lost: as long as the request of a call with an id or its reply is
\* under way, the caller's sender is stored under the id the reply will be looked
\* up by, however calls and replies interleave.
ReplyFindsCaller ==
    \A c \in Callers : Size(c) > 0 /\ UnderWay(c) =>
        get(pendings, first_id(c)) = c

\* A call with an id is only ever answered with the outputs of its own request:
\* never by another call's reply, a notification or a malformed text.
AnsweredByOwn ==
    \A c \in Callers : Size(c) > 0 =>
        \/ answer[c] = Nothing
        \/ answer[c].what = "outputs" /\ answer[c].ids = ids[c]

\* Every reply goes to the call it answers, neither lost nor crossed, however the
\* callers' steps and those of ws_task interleave.
RepliesGoHome == TypeOK /\ ReplyFindsCaller /\ AnsweredByOwn

\* A stream gets every notification read since its first, in order and once,
\* until it is dropped or unsubscribed.
StreamComplete ==
    \A c \in Callers :
        LET s == stream[c] IN
        /\ \A j \in 1..(Len(s) - 1) : s[j + 1] = s[j] + 1
        /\ step[c] = "stream" /\ s # <<>> => s[Len(s)] = read[sub[c]]

\* ws_task, and with it the transport of every caller, is brought down by a notification
\* only if its id is no u64 or its subscription's user dropped the stream and has not
\* unsubscribed: one that comes before its stream is registered, after unsubscribe, or
\* beside another user's dropped stream ends nothing.
OnlyDroppedStreamEnds ==
    [][task # "panicked" /\ task' = "panicked" =>
          \/ Head(incoming).what = "misnumbered"
          \/ /\ Head(incoming).what = "note"
             /\ \E c \in Callers : step[c] = "dropped" /\ sub[c] = Head(incoming).sub]_vars

\* Every call with an id returns, when the server answers and the connection
\* stays up: the other calls cannot keep its reply from it.
CallsReturn ==
    \A c \in Callers : Size(c) > 0 =>
        (step[c] = "await" ~> step[c] # "await" \/ task \in {"ended", "panicked"})

-----------------------------------------------------------------------------
(* What the assertions of the code say and the code does not do.           *)

\* ws.rs, send_request: expect("Sending `Text` Message should be successful").
TextSent == \A c \in Callers : step[c] # "send_panic"

\* ws.rs, send_request: rx.await.unwrap(), the sender is never dropped.
SenderKept == \A c \in Callers : step[c] # "await_panic"

\* ws.rs, handle_subscription: expect("Sending subscription result to the user
\* should be successful"): ws_task does not panic there.
ResultSent == task # "panicked"
=============================================================================
