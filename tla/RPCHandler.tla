----------------------------- MODULE RPCHandler -----------------------------
(***************************************************************************)
(* The per-connection RPC protocols handler, libp2p/src/rpc/handler.rs.    *)
(*                                                                         *)
(* The connection task owns the handler: it calls the inject_* callbacks   *)
(* and poll() one at a time.  poll() runs to its return before any other   *)
(* callback, so it is modelled as a sequence of small steps, with pc the   *)
(* part of poll() that runs next; the callbacks are enabled only at rest.  *)
(*                                                                         *)
(* An outbound request is a member of Requests, which the application      *)
(* sends at most once; IdOf is the RequestId the application gave it and   *)
(* KindOf its RPCRequest variant.  Keys of a DelayQueue are named by what  *)
(* they were inserted for: the request (outbound), the substream id        *)
(* (inbound).                                                              *)
(***************************************************************************)
EXTENDS Integers, FiniteSets, Sequences

CONSTANTS
    Requests,            \* the outbound requests the application may send
    Ids,                 \* RequestIds the application uses for them
    IdOf,                \* the RequestId of each request
    KindOf,              \* the RPCRequest variant of each request
    NoRequest,           \* no request: an absent outbound substream
    Responses,           \* the response kinds the application sends
    max_dial_negotiated, \* 8 in the code
    IO_ERROR_RETRIES,    \* 3 in the code
    MaxInbound,          \* bound: inbound substreams negotiated
    MaxResponses,        \* bound: responses per inbound substream
    MaxChunks,           \* bound: response chunks the peer sends per request
    MaxGoodbyes          \* bound: goodbyes the peer sends

\* What a call may be, from the enums of protocol.rs and methods.rs.
RequestKinds == {"Status", "Goodbye", "BlockSync"}
ResponseKinds == {"Status", "Chunk", "Error", "Termination"}

ASSUME HandlerAssumption ==
    /\ IdOf \in [Requests -> Ids]
    /\ KindOf \in [Requests -> RequestKinds]
    /\ NoRequest \notin Requests
    /\ IsFiniteSet(Requests)
    /\ Responses \subseteq ResponseKinds
    /\ max_dial_negotiated \in Nat \ {0}
    /\ IO_ERROR_RETRIES \in Nat \ {0}
    /\ MaxInbound \in Nat
    /\ MaxResponses \in Nat
    /\ MaxChunks \in Nat
    /\ MaxGoodbyes \in Nat

InIds == 1..MaxInbound

VARIABLES
    \* fields of RPCHandler
    pending_error,                \* the request whose negotiation failed
    events_out,                   \* ids of inbound requests to hand over
    dial_queue,
    dial_negotiated,
    inbound_substreams,
    inbound_substreams_delay,     \* ids whose timer is armed
    outbound_substreams,
    outbound_substreams_delay,    \* requests whose timer is armed
    queued_outbound_items,
    current_inbound_substream_id,
    keep_alive,
    outbound_io_error_retries,
    \* where poll() is
    pc,                           \* the part of poll() that runs next
    todo,                         \* keys its current loop has still to visit
    busy,                         \* the inbound id being drained, 0 for none
    \* the surroundings of the handler
    in_elapsed,                   \* inbound timers whose deadline has passed
    out_elapsed,                  \* outbound timers whose deadline has passed
    negotiating,                  \* requests the connection is negotiating
    \* history
    asked,                        \* requests the application has sent
    opened,                       \* of them, those stored when negotiated
    reports,                      \* what was reported about each request
    goodbyes,                     \* goodbyes received
    seen,                         \* inbound ids handed to the application
    given,                        \* responses it gave for each of them
    wire                          \* items handed to each inbound substream

dialVars == <<pending_error, dial_queue, dial_negotiated, keep_alive,
              outbound_io_error_retries, negotiating, asked, opened>>
outVars == <<outbound_substreams, outbound_substreams_delay, out_elapsed>>
inVars == <<inbound_substreams, inbound_substreams_delay, in_elapsed,
            queued_outbound_items, wire>>
eventVars == <<events_out, current_inbound_substream_id, goodbyes, seen, given>>
pollVars == <<pc, todo, busy>>
vars == <<dialVars, outVars, inVars, eventVars, pollVars, reports>>

-----------------------------------------------------------------------------
(* Substream states.  std::mem::replace leaves Poisoned behind only inside *)
(* a step, so it is not a state of the model.                              *)

\* InboundSubstreamState, with the delay key (Some or None) stored beside it.
InAbsent == [st |-> "Absent", closing |-> FALSE, key |-> FALSE]
InState == [st : {"Absent", "Send", "Idle", "Closing"},
            closing : BOOLEAN, key : BOOLEAN]

\* OutboundSubstreamState, with the request it carries.
OutAbsent == [st |-> "Absent", req |-> NoRequest]
OutState == [st : {"Pending", "Closing"}, req : Requests] \cup {OutAbsent}

\* A response the application gives (the n-th for its substream), or one the
\* handler makes up when the substream times out (n = 0).
Item == [kind : ResponseKinds, n : 0..MaxResponses]
TimeoutError == [kind |-> "Error", n |-> 0]
TimeoutTermination == [kind |-> "Termination", n |-> 0]

is_error(kind) == kind \notin {"Status", "Chunk"}
\* (The mutant takes a stream termination for a single response.)
response_multiple_responses_OnlyChunk(kind) == kind = "Chunk"
response_multiple_responses(kind) == kind # "Status"
expect_response(r) == KindOf[r] # "Goodbye"
multiple_responses(r) == KindOf[r] = "BlockSync"

Report == {"Chunk", "Final", "StreamTermination", "Failed",
           "TimedOut", "DialFailed"}

InPresent == {i \in InIds : inbound_substreams[i].st # "Absent"}
OutPresent == {i \in Ids : outbound_substreams[i].st # "Absent"}

\* RPCEvent given to the application about request r.
Tell(r, what) == reports' = [reports EXCEPT ![r] = Append(@, what)]

\* poll() returns.
Return == pc' = "rest" /\ todo' = {} /\ busy' = 0

-----------------------------------------------------------------------------
Init ==
    /\ pending_error = NoRequest
    /\ events_out = <<>>
    /\ dial_queue = <<>>
    /\ dial_negotiated = 0
    /\ inbound_substreams = [i \in InIds |-> InAbsent]
    /\ inbound_substreams_delay = {}
    /\ outbound_substreams = [i \in Ids |-> OutAbsent]
    /\ outbound_substreams_delay = {}
    /\ queued_outbound_items = [i \in InIds |-> <<>>]
    /\ current_inbound_substream_id = 1
    /\ keep_alive = "Yes"
    /\ outbound_io_error_retries = 0
    /\ pc = "rest" /\ todo = {} /\ busy = 0
    /\ in_elapsed = {} /\ out_elapsed = {} /\ negotiating = {}
    /\ asked = {} /\ opened = {}
    /\ reports = [r \in Requests |-> <<>>]
    /\ goodbyes = 0
    /\ seen = {}
    /\ given = [i \in InIds |-> <<>>]
    /\ wire = [i \in InIds |-> <<>>]

-----------------------------------------------------------------------------
(* Callbacks about outbound requests.                                      *)

\* (The mutant leaves keep_alive as it is.)
send_request_Quiet(r) == dial_queue' = Append(dial_queue, r) /\ UNCHANGED keep_alive
send_request(r) ==
    /\ keep_alive' = "Yes"
    /\ dial_queue' = Append(dial_queue, r)

\* inject_event(RPCEvent::Request): the application sends request r.
InjectRequest(r) ==
    /\ pc = "rest"
    /\ r \notin asked
    /\ asked' = asked \cup {r}
    /\ send_request(r)
    /\ UNCHANGED <<pending_error, dial_negotiated, outbound_io_error_retries,
                   negotiating, opened, outVars, inVars, eventVars, pollVars,
                   reports>>

\* The substream for r is open and the request has been written to it.
InjectFullyNegotiatedOutbound(r) ==
    /\ pc = "rest"
    /\ r \in negotiating
    /\ negotiating' = negotiating \ {r}
    /\ dial_negotiated' = dial_negotiated - 1
    /\ keep_alive' = IF /\ dial_negotiated = 1
                        /\ dial_queue = <<>>
                        /\ OutPresent = {}
                     THEN "Until" ELSE "Yes"
    /\ IF expect_response(r)
       THEN /\ opened' = opened \cup {r}
            /\ outbound_substreams_delay' = outbound_substreams_delay \cup {r}
            /\ outbound_substreams' = [outbound_substreams EXCEPT
                   ![IdOf[r]] = [st |-> "Pending", req |-> r]]
       ELSE UNCHANGED <<opened, outbound_substreams_delay, outbound_substreams>>
    /\ UNCHANGED <<pending_error, dial_queue, outbound_io_error_retries, asked,
                   out_elapsed, inVars, eventVars, pollVars, reports>>

\* Whether one more IO error leaves the request a retry.  (The mutant retries
\* once too often.)
MayRetry_OffByOne == outbound_io_error_retries < IO_ERROR_RETRIES
MayRetry == outbound_io_error_retries + 1 < IO_ERROR_RETRIES

\* One error waits for poll(); another one is only logged.  (The mutant keeps the newest.)
add_error_Newest(r) == r
add_error(r) == IF pending_error = NoRequest THEN r ELSE pending_error

\* Negotiation for r failed; io: with RPCError::IoError.
InjectDialUpgradeError(r, io) ==
    /\ pc = "rest"
    /\ r \in negotiating
    /\ negotiating' = negotiating \ {r}
    /\ \/ /\ io /\ MayRetry
          /\ outbound_io_error_retries' = outbound_io_error_retries + 1
          /\ send_request(r)
          /\ UNCHANGED pending_error
       \/ /\ ~(io /\ MayRetry)
          /\ outbound_io_error_retries' = 0
          /\ pending_error' = add_error(r)
          /\ UNCHANGED <<keep_alive, dial_queue>>
    /\ UNCHANGED <<dial_negotiated, asked, opened, outVars, inVars, eventVars,
                   pollVars, reports>>

-----------------------------------------------------------------------------
(* Callbacks about inbound requests.                                       *)

\* A peer's Status or BlockSyncRequest has been read from a new substream.
InjectInboundRequest ==
    LET id == current_inbound_substream_id IN
    /\ pc = "rest"
    /\ id \in InIds
    /\ inbound_substreams_delay' = inbound_substreams_delay \cup {id}
    /\ inbound_substreams' = [inbound_substreams EXCEPT
           ![id] = [st |-> "Idle", closing |-> FALSE, key |-> TRUE]]
    /\ events_out' = Append(events_out, id)
    /\ current_inbound_substream_id' = id + 1
    /\ UNCHANGED <<dialVars, outVars, in_elapsed, queued_outbound_items, wire,
                   goodbyes, seen, given, pollVars, reports>>

\* A peer's Goodbye: reported with id 0, its substream is dropped.
InjectInboundGoodbye ==
    /\ pc = "rest"
    /\ goodbyes < MaxGoodbyes
    /\ goodbyes' = goodbyes + 1
    /\ events_out' = Append(events_out, 0)
    /\ UNCHANGED <<dialVars, outVars, inVars, current_inbound_substream_id,
                   seen, given, pollVars, reports>>

\* *substream_state = ResponseIdle(..) or Closing(..): the delay key stays.
SetState(id, st) ==
    inbound_substreams' = [inbound_substreams EXCEPT
        ![id] = [st |-> st, closing |-> FALSE, key |-> @.key]]

\* substream.send(item): the substream takes the item and goes to Send.  (The mutant
\* does not close it afterwards.)
StartSend_StaysOpen(id, item, closing) ==
    /\ inbound_substreams' = [inbound_substreams EXCEPT
           ![id] = [st |-> "Send", closing |-> FALSE, key |-> @.key]]
    /\ wire' = [wire EXCEPT ![id] = Append(@, item)]
StartSend(id, item, closing) ==
    /\ inbound_substreams' = [inbound_substreams EXCEPT
           ![id] = [st |-> "Send", closing |-> closing, key |-> @.key]]
    /\ wire' = [wire EXCEPT ![id] = Append(@, item)]

\* inject_event(RPCEvent::Response(id, kind)): the application answers an
\* inbound request it has been given.
InjectResponse(id, kind) ==
    LET item == [kind |-> kind, n |-> Len(given[id]) + 1]
        s == inbound_substreams[id]
    IN
    /\ pc = "rest"
    /\ id \in seen
    /\ Len(given[id]) < MaxResponses
    /\ given' = [given EXCEPT ![id] = Append(@, kind)]
    /\ \/ /\ s.st = "Idle" /\ kind = "Termination"
          /\ SetState(id, "Closing")
          /\ UNCHANGED <<queued_outbound_items, wire>>
       \/ /\ s.st = "Idle" /\ kind # "Termination"
          /\ StartSend(id, item,
                 ~response_multiple_responses(kind) \/ is_error(kind))
          /\ UNCHANGED queued_outbound_items
       \/ /\ s.st = "Send" /\ response_multiple_responses(kind)
          /\ queued_outbound_items' =
                 [queued_outbound_items EXCEPT ![id] = Append(@, item)]
          /\ UNCHANGED <<inbound_substreams, wire>>
       \/ /\ s.st = "Send" /\ ~response_multiple_responses(kind)
          /\ inbound_substreams' = [inbound_substreams EXCEPT ![id].closing = TRUE]
          /\ UNCHANGED <<queued_outbound_items, wire>>
       \/ /\ s.st \in {"Closing", "Absent"}
          /\ UNCHANGED <<inbound_substreams, queued_outbound_items, wire>>
    /\ UNCHANGED <<dialVars, outVars, inbound_substreams_delay, in_elapsed,
                   events_out, current_inbound_substream_id, goodbyes, seen,
                   pollVars, reports>>

-----------------------------------------------------------------------------
(* Time.  A deadline that passes while poll() runs is seen by the next     *)
(* poll(), as one that passes after it returns.                            *)

InboundDeadline(id) ==
    /\ pc = "rest"
    /\ id \in inbound_substreams_delay \ in_elapsed
    /\ in_elapsed' = in_elapsed \cup {id}
    /\ UNCHANGED <<dialVars, outVars, inbound_substreams,
                   inbound_substreams_delay, queued_outbound_items, wire,
                   eventVars, pollVars, reports>>

OutboundDeadline(r) ==
    /\ pc = "rest"
    /\ r \in outbound_substreams_delay \ out_elapsed
    /\ out_elapsed' = out_elapsed \cup {r}
    /\ UNCHANGED <<dialVars, outbound_substreams, outbound_substreams_delay,
                   inVars, eventVars, pollVars, reports>>

-----------------------------------------------------------------------------
(* poll(), up to the timers.                                               *)

\* pending_error.take(): reported whatever the error was.  (The mutant tells nobody.)
PollPendingError_Silent ==
    /\ pc = "rest" /\ pending_error # NoRequest
    /\ pending_error' = NoRequest
    /\ UNCHANGED <<dial_queue, dial_negotiated, keep_alive,
                   outbound_io_error_retries, negotiating, asked, opened,
                   outVars, inVars, eventVars, pollVars, reports>>
PollPendingError ==
    /\ pc = "rest"
    /\ pending_error # NoRequest
    /\ pending_error' = NoRequest
    /\ Tell(pending_error, "DialFailed")
    /\ UNCHANGED <<dial_queue, dial_negotiated, keep_alive,
                   outbound_io_error_retries, negotiating, asked, opened,
                   outVars, inVars, eventVars, pollVars>>

PollEventsOut_Peek ==
    /\ pc = "rest" /\ pending_error = NoRequest /\ events_out # <<>>
    /\ seen' = seen \cup ({Head(events_out)} \ {0})
    /\ UNCHANGED <<events_out, dialVars, outVars, inVars, goodbyes, given,
                   current_inbound_substream_id, pollVars, reports>>
PollEventsOut ==
    /\ pc = "rest"
    /\ pending_error = NoRequest
    /\ events_out # <<>>
    /\ events_out' = Tail(events_out)
    /\ seen' = seen \cup ({Head(events_out)} \ {0})
    /\ UNCHANGED <<dialVars, outVars, inVars, current_inbound_substream_id,
                   goodbyes, given, pollVars, reports>>

PollBegin_BeforeEvents ==
    /\ pc = "rest" /\ pending_error = NoRequest
    /\ pc' = "timers"
    /\ UNCHANGED <<todo, busy, dialVars, outVars, inVars, eventVars, reports>>
PollBegin ==
    /\ pc = "rest"
    /\ pending_error = NoRequest
    /\ events_out = <<>>
    /\ pc' = "timers"
    /\ UNCHANGED <<todo, busy, dialVars, outVars, inVars, eventVars, reports>>

\* InboundSubstreamState::close, by state; an absent substream has no case.
close(id) ==
    \/ /\ inbound_substreams[id].st = "Send"
       /\ queued_outbound_items' =
              IF inbound_substreams[id].closing THEN queued_outbound_items
              ELSE [queued_outbound_items EXCEPT ![id] =
                        @ \o <<TimeoutError, TimeoutTermination>>]
       /\ inbound_substreams' = [inbound_substreams EXCEPT
              ![id] = [st |-> "Send", closing |-> @.closing, key |-> FALSE]]
       /\ UNCHANGED wire
    \/ /\ inbound_substreams[id].st = "Idle"
       \* the peer has already closed its half
       /\ inbound_substreams' = [inbound_substreams EXCEPT
              ![id] = [st |-> "Closing", closing |-> FALSE, key |-> FALSE]]
       /\ UNCHANGED <<queued_outbound_items, wire>>
    \/ /\ inbound_substreams[id].st = "Idle"
       /\ inbound_substreams' = [inbound_substreams EXCEPT
              ![id] = [st |-> "Send", closing |-> TRUE, key |-> FALSE]]
       /\ wire' = [wire EXCEPT ![id] = Append(@, TimeoutError)]
       /\ UNCHANGED queued_outbound_items
    \/ /\ inbound_substreams[id].st = "Closing"
       /\ inbound_substreams' = [inbound_substreams EXCEPT
              ![id] = [st |-> "Closing", closing |-> FALSE, key |-> FALSE]]
       /\ UNCHANGED <<queued_outbound_items, wire>>

\* One turn of the loop that purges every expired inbound substream.
PurgeInbound(id) ==
    /\ pc = "timers"
    /\ id \in in_elapsed
    /\ in_elapsed' = in_elapsed \ {id}
    /\ inbound_substreams_delay' = inbound_substreams_delay \ {id}
    /\ IF id \in InPresent
       THEN close(id)
       ELSE UNCHANGED <<inbound_substreams, queued_outbound_items, wire>>
    /\ UNCHANGED <<dialVars, outVars, eventVars, pollVars, reports>>

\* One expired outbound timer per poll(): it removes the substream stored
\* under its id, whichever request that substream carries.
PurgeOutbound_Rearms(r) ==
    /\ pc = "timers" /\ in_elapsed = {}
    /\ r \in out_elapsed
    /\ out_elapsed' = out_elapsed \ {r}
    /\ outbound_substreams' = [outbound_substreams EXCEPT ![IdOf[r]] = OutAbsent]
    /\ Return
    /\ UNCHANGED <<outbound_substreams_delay, dialVars, inVars, eventVars, reports>>
PurgeOutbound(r) ==
    /\ pc = "timers"
    /\ in_elapsed = {}
    /\ r \in out_elapsed
    /\ out_elapsed' = out_elapsed \ {r}
    /\ outbound_substreams_delay' = outbound_substreams_delay \ {r}
    /\ outbound_substreams' = [outbound_substreams EXCEPT ![IdOf[r]] = OutAbsent]
    /\ Tell(r, "TimedOut")
    /\ Return
    /\ UNCHANGED <<dialVars, inVars, eventVars>>

BeginInbound ==
    /\ pc = "timers"
    /\ in_elapsed = {} /\ out_elapsed = {}
    /\ pc' = "inbound"
    /\ todo' = InPresent
    /\ UNCHANGED <<busy, dialVars, outVars, inVars, eventVars, reports>>

-----------------------------------------------------------------------------
(* poll(), driving the inbound substreams.  The substream's readiness is   *)
(* the peer's and the transport's choice.                                  *)

Driving(id) ==
    /\ pc = "inbound"
    /\ id \in todo
    /\ busy \in {0, id}

\* The loop on id ends (again = FALSE) or takes another turn.  (The mutant
\* forgets to reset new_items_to_send.)
Turn_NoReset(id, again) ==
    /\ busy' = IF again \/ busy = id THEN id ELSE 0
    /\ todo' = IF again \/ busy = id THEN todo ELSE todo \ {id}
    /\ UNCHANGED pc
Turn(id, again) ==
    /\ busy' = IF again THEN id ELSE 0
    /\ todo' = IF again THEN todo ELSE todo \ {id}
    /\ UNCHANGED pc

apply_queued_responses_Peek(id) ==
    LET queue == queued_outbound_items[id] IN
    /\ Turn(id, queue # <<>>)
    /\ IF queue = <<>> \/ Len(wire[id]) > MaxResponses
       THEN SetState(id, "Idle") /\ UNCHANGED wire
       ELSE StartSend(id, Head(queue), FALSE)
    /\ UNCHANGED queued_outbound_items
apply_queued_responses(id) ==
    LET queue == queued_outbound_items[id] IN
    /\ Turn(id, queue # <<>>)
    /\ \/ /\ queue = <<>>
          /\ SetState(id, "Idle")
          /\ UNCHANGED <<queued_outbound_items, wire>>
       \/ /\ queue # <<>>
          /\ queued_outbound_items' =
                 [queued_outbound_items EXCEPT ![id] = Tail(@)]
          /\ IF Head(queue).kind = "Termination"
             THEN SetState(id, "Closing") /\ UNCHANGED wire
             ELSE StartSend(id, Head(queue), FALSE)

\* The send in progress completes.
InboundSent(id) ==
    /\ Driving(id)
    /\ inbound_substreams[id].st = "Send"
    /\ IF inbound_substreams[id].closing
       THEN /\ SetState(id, "Closing")
            /\ Turn(id, FALSE)
            /\ UNCHANGED <<queued_outbound_items, wire>>
       ELSE apply_queued_responses(id)
    /\ UNCHANGED <<dialVars, outVars, inbound_substreams_delay, in_elapsed,
                   eventVars, reports>>

\* The entry goes, and its timer if the delay key is Some.
DropInbound_KeepsTimer(id) ==
    /\ inbound_substreams' = [inbound_substreams EXCEPT ![id] = InAbsent]
    /\ UNCHANGED inbound_substreams_delay
DropInbound(id) ==
    /\ inbound_substreams_delay' = IF inbound_substreams[id].key
                                   THEN inbound_substreams_delay \ {id}
                                   ELSE inbound_substreams_delay
    /\ inbound_substreams' = [inbound_substreams EXCEPT ![id] = InAbsent]

\* The send fails: the entry and its timer go, its queue stays.
InboundSendError(id) ==
    /\ Driving(id)
    /\ inbound_substreams[id].st = "Send"
    /\ DropInbound(id)
    /\ Return
    /\ UNCHANGED <<dialVars, outVars, in_elapsed, queued_outbound_items, wire,
                   eventVars, reports>>

InboundIdle(id) ==
    /\ Driving(id)
    /\ inbound_substreams[id].st = "Idle"
    /\ apply_queued_responses(id)
    /\ UNCHANGED <<dialVars, outVars, inbound_substreams_delay, in_elapsed,
                   eventVars, reports>>

\* substream.close() completes or fails: everything about the stream goes.
InboundClosed(id) ==
    /\ Driving(id)
    /\ inbound_substreams[id].st = "Closing"
    /\ queued_outbound_items' = [queued_outbound_items EXCEPT ![id] = <<>>]
    /\ DropInbound(id)
    /\ Turn(id, FALSE)
    /\ UNCHANGED <<dialVars, outVars, in_elapsed, wire, eventVars, reports>>

InboundNotReady(id) ==
    /\ Driving(id)
    /\ inbound_substreams[id].st \in {"Send", "Closing"}
    /\ Turn(id, FALSE)
    /\ UNCHANGED <<dialVars, outVars, inVars, eventVars, reports>>

BeginOutbound ==
    /\ pc = "inbound"
    /\ todo = {}
    /\ pc' = "outbound"
    /\ todo' = OutPresent
    /\ UNCHANGED <<busy, dialVars, outVars, inVars, eventVars, reports>>

-----------------------------------------------------------------------------
(* poll(), driving the outbound substreams and dialling.                   *)

\* outbound_substreams_delay.remove(delay_key) and entry.remove_entry().
RemoveOutbound(id) ==
    LET r == outbound_substreams[id].req IN
    /\ outbound_substreams_delay' = outbound_substreams_delay \ {r}
    /\ outbound_substreams' = [outbound_substreams EXCEPT ![id] = OutAbsent]
    /\ out_elapsed' = out_elapsed \ {r}

DrivingOut(id, st) ==
    /\ pc = "outbound"
    /\ id \in todo
    /\ outbound_substreams[id].st = st

\* After its last response the substream is closed; its timer stays armed.
CloseOutbound_DropsTimer(id) ==
    /\ outbound_substreams' = [outbound_substreams EXCEPT ![id].st = "Closing"]
    /\ outbound_substreams_delay' =
           outbound_substreams_delay \ {outbound_substreams[id].req}
    /\ UNCHANGED out_elapsed
CloseOutbound_StaysPending(id) == id \in Ids /\ UNCHANGED outVars
CloseOutbound(id) ==
    /\ outbound_substreams' = [outbound_substreams EXCEPT ![id].st = "Closing"]
    /\ UNCHANGED <<outbound_substreams_delay, out_elapsed>>

\* A response chunk arrives; an error, or any chunk for a request with a single
\* response, sends the substream to Closing.
OutboundResponse(id, error) ==
    LET r == outbound_substreams[id].req IN
    /\ DrivingOut(id, "Pending")
    /\ \/ /\ multiple_responses(r) /\ ~error
          /\ Len(reports[r]) < MaxChunks
          /\ out_elapsed' = out_elapsed \ {r}
          /\ Tell(r, "Chunk")
          /\ UNCHANGED <<outbound_substreams, outbound_substreams_delay>>
       \/ /\ ~multiple_responses(r) \/ error
          /\ CloseOutbound(id)
          /\ Tell(r, "Final")
    /\ Return
    /\ UNCHANGED <<dialVars, inVars, eventVars>>

\* The peer closed the stream.  (The mutant drops it without a word.)
OutboundEnd_Silent(id) ==
    /\ DrivingOut(id, "Pending")
    /\ RemoveOutbound(id)
    /\ Return
    /\ UNCHANGED <<dialVars, inVars, eventVars, reports>>
OutboundEnd(id) ==
    LET r == outbound_substreams[id].req IN
    /\ DrivingOut(id, "Pending")
    /\ RemoveOutbound(id)
    /\ Tell(r, IF multiple_responses(r) THEN "StreamTermination" ELSE "Failed")
    /\ Return
    /\ UNCHANGED <<dialVars, inVars, eventVars>>

OutboundError(id) ==
    /\ DrivingOut(id, "Pending")
    /\ RemoveOutbound(id)
    /\ Tell(outbound_substreams[id].req, "Failed")
    /\ Return
    /\ UNCHANGED <<dialVars, inVars, eventVars>>

OutboundClosed(id) ==
    /\ DrivingOut(id, "Closing")
    /\ RemoveOutbound(id)
    /\ todo' = todo \ {id}
    /\ UNCHANGED <<pc, busy, dialVars, inVars, eventVars, reports>>

OutboundNotReady(id) ==
    /\ pc = "outbound"
    /\ id \in todo
    /\ todo' = todo \ {id}
    /\ UNCHANGED <<pc, busy, dialVars, outVars, inVars, eventVars, reports>>

CanDial_OffByOne == dial_queue # <<>> /\ dial_negotiated <= max_dial_negotiated
CanDial_OneAtATime == dial_queue # <<>> /\ dial_negotiated = 0
CanDial == dial_queue # <<>> /\ dial_negotiated < max_dial_negotiated

\* The last part of poll(): dial the oldest queued request, or NotReady.
PollDial ==
    /\ pc = "outbound"
    /\ todo = {}
    /\ \/ /\ CanDial
          /\ dial_negotiated' = dial_negotiated + 1
          /\ dial_queue' = Tail(dial_queue)
          /\ negotiating' = negotiating \cup {Head(dial_queue)}
       \/ /\ ~CanDial
          /\ UNCHANGED <<dial_negotiated, dial_queue, negotiating>>
    /\ Return
    /\ UNCHANGED <<pending_error, keep_alive, outbound_io_error_retries, asked,
                   opened, outVars, inVars, eventVars, reports>>

-----------------------------------------------------------------------------
PollStep ==
    \/ PollPendingError \/ PollEventsOut \/ PollBegin
    \/ \E id \in InIds : PurgeInbound(id)
    \/ \E r \in Requests : PurgeOutbound(r)
    \/ BeginInbound
    \/ \E id \in InIds : \/ InboundSent(id) \/ InboundSendError(id)
                         \/ InboundIdle(id) \/ InboundClosed(id)
                         \/ InboundNotReady(id)
    \/ BeginOutbound
    \/ \E id \in Ids : \/ \E error \in BOOLEAN : OutboundResponse(id, error)
                       \/ OutboundEnd(id) \/ OutboundError(id)
                       \/ OutboundClosed(id) \/ OutboundNotReady(id)
    \/ PollDial

Callback ==
    \/ \E r \in Requests : \/ InjectRequest(r)
                           \/ InjectFullyNegotiatedOutbound(r)
                           \/ \E io \in BOOLEAN : InjectDialUpgradeError(r, io)
    \/ InjectInboundRequest \/ InjectInboundGoodbye
    \/ \E id \in InIds, kind \in Responses : InjectResponse(id, kind)

Deadline ==
    \/ \E id \in InIds : InboundDeadline(id)
    \/ \E r \in Requests : OutboundDeadline(r)

Next == PollStep \/ Callback \/ Deadline

Spec == Init /\ [][Next]_vars

\* The connection task polls the handler again and again, and time passes.
Fairness ==
    /\ WF_vars(PollStep)
    /\ \A id \in InIds : SF_vars(InboundDeadline(id))
    /\ \A r \in Requests : SF_vars(OutboundDeadline(r))

FairSpec == Spec /\ Fairness

-----------------------------------------------------------------------------
(* Safety.                                                                 *)

TypeDial ==
    /\ pending_error \in Requests \cup {NoRequest}
    /\ dial_queue \in Seq(Requests)
    /\ dial_negotiated \in Nat
    /\ keep_alive \in {"Yes", "Until"}
    /\ outbound_io_error_retries \in 0..(IO_ERROR_RETRIES - 1)
    /\ negotiating \subseteq Requests
    /\ asked \subseteq Requests
    /\ opened \subseteq Requests

TypeOut ==
    /\ outbound_substreams \in [Ids -> OutState]
    /\ outbound_substreams_delay \subseteq Requests
    /\ out_elapsed \subseteq Requests

TypeIn ==
    /\ inbound_substreams \in [InIds -> InState]
    /\ inbound_substreams_delay \subseteq InIds
    /\ in_elapsed \subseteq InIds
    /\ queued_outbound_items \in [InIds -> Seq(Item)]
    /\ wire \in [InIds -> Seq(Item)]

TypeEvents ==
    /\ events_out \in Seq(0..MaxInbound)
    /\ current_inbound_substream_id \in 1..(MaxInbound + 1)
    /\ goodbyes \in 0..MaxGoodbyes
    /\ seen \subseteq InIds
    /\ given \in [InIds -> Seq(ResponseKinds)]

TypePoll ==
    /\ pc \in {"rest", "timers", "inbound", "outbound"}
    /\ todo \subseteq (InIds \cup Ids)
    /\ busy \in 0..MaxInbound

TypeReports == reports \in [Requests -> Seq(Report)]

\* The fields of RPCHandler hold values of their types; in particular
\* outbound_io_error_retries (a u8) never reaches IO_ERROR_RETRIES and
\* dial_negotiated (a u32) never wraps below zero.
TypeOK ==
    TypeDial /\ TypeOut /\ TypeIn /\ TypeEvents /\ TypePoll /\ TypeReports

\* The delay key stored with an inbound substream is Some exactly while its
\* timer is in the DelayQueue, so remove(delay_key) never names a key that has
\* fired (which panics) and a dropped substream leaves no timer behind.
InboundTimersMatch ==
    /\ \A id \in InIds :
           inbound_substreams[id].key <=> id \in inbound_substreams_delay
    /\ \A id \in InIds :
           inbound_substreams[id].key => inbound_substreams[id].st # "Absent"
    /\ in_elapsed \subseteq inbound_substreams_delay

\* Every stored outbound substream sits under its own request's id and its
\* delay key is in the DelayQueue, so neither remove(delay_key) nor
\* reset(delay_key) panics, also when two requests share an id.
OutboundKeysArmed ==
    \A id \in OutPresent :
        /\ outbound_substreams[id].req \in outbound_substreams_delay
        /\ IdOf[outbound_substreams[id].req] = id

\* The Entry::Vacant arms of poll() are unreachable, as the code claims: the
\* loops, and the inner loop that drains one inbound substream again and again,
\* only visit keys that are still in the map.
NoVacantEntry ==
    /\ pc = "inbound" => todo \subseteq InPresent
    /\ pc = "outbound" => todo \subseteq OutPresent
    /\ busy # 0 => pc = "inbound" /\ busy \in todo

\* poll() never panics: whatever fires, fails or is replaced between two of its steps,
\* the counters stay in their types, DelayQueue::remove and reset find their key armed,
\* and no loop meets a vacant entry.
NoPanic == TypeOK /\ InboundTimersMatch /\ OutboundKeysArmed /\ NoVacantEntry

\* dial_negotiated counts at least the negotiations in flight, so its decrement
\* never wraps, and at most max_dial_negotiated are in flight.
DialAccounting ==
    /\ Cardinality(negotiating) <= dial_negotiated
    /\ dial_negotiated <= max_dial_negotiated

\* While an inbound request waits in events_out its substream is untouched and
\* its timer is armed: poll() hands requests over before it looks at timers, so
\* no request reaches the application after its own timeout was answered.
HandedOverWhileAnswerable ==
    \A k \in DOMAIN events_out :
        LET id == events_out[k] IN
        id # 0 => /\ inbound_substreams[id].st = "Idle"
                  /\ inbound_substreams[id].key
                  /\ wire[id] = <<>>
                  /\ \A j \in DOMAIN events_out : events_out[j] = id => j = k

\* Responses of the application reach a substream in the order they were given
\* and none twice, whether sent at once or through queued_outbound_items.
WireInOrder ==
    \A id \in InIds :
        \A j, k \in DOMAIN wire[id] :
            j < k /\ wire[id][j].n # 0 /\ wire[id][k].n # 0
                => wire[id][j].n < wire[id][k].n

\* Once a request was answered for good (a single response, an error, the end
\* of the stream) no further response is reported for it: only its leftover
\* timer may still report a timeout, once.
NothingAfterFinal ==
    \A r \in Requests : \A j, k \in DOMAIN reports[r] :
        j < k => /\ reports[r][j] \in {"Chunk", "Final"}
                 /\ reports[r][j] = "Final" => reports[r][k] = "TimedOut"

\* A negotiated substream stays in outbound_substreams until it was answered or
\* failed for good, as long as no other negotiated request used the same id.
Driven(r) ==
    \/ outbound_substreams[IdOf[r]].req = r
    \/ \E k \in DOMAIN reports[r] : reports[r][k] # "Chunk"
DrivenToCompletion ==
    \A r \in opened :
        (\A q \in opened : IdOf[q] = IdOf[r] => q = r) => Driven(r)

\* A request that expects a response is given up without a report only in the step in
\* which its negotiation fails while the failure of another request waits in
\* pending_error, and that failure is still there for poll() to report.
Waiting(r) == \/ \E k \in DOMAIN dial_queue : dial_queue[k] = r
              \/ r \in negotiating \cup opened \cup {pending_error}
Lost(r) == r \in asked /\ expect_response(r) /\ ~Waiting(r) /\ reports[r] = <<>>
FailureShadowed ==
    [][\A r \in Requests : Lost(r)' /\ ~Lost(r) =>
          pending_error \in asked \ {r} /\ UNCHANGED pending_error]_vars

\* The connection may be let go (keep_alive is Until) only while no request waits to be
\* dialled or is negotiated, although dial_negotiated also counts failed negotiations;
\* at most the request opened last is still to be answered.
LetGoWhenQuiet ==
    keep_alive = "Until" => /\ dial_queue = <<>> /\ negotiating = {}
                            /\ \A i, j \in OutPresent : i = j

\* An error that is the first answer of a request is also the last item written to its
\* substream, whatever the application gives after it and whether or not the timer
\* fires before it is sent.
FirstErrorIsLast ==
    \A id \in InIds : wire[id] # <<>> /\ wire[id][1].kind = "Error" => Len(wire[id]) = 1

\* A peer that asks for a stream of chunks gets every chunk the application gave
\* before its stream termination, unless the timer fired first: nothing queued
\* behind a slow send is dropped when the substream is closed.
GivenChunks(id) ==
    \E k \in 1..Len(given[id]) :
        /\ given[id][k] = "Termination"
        /\ \A j \in 1..(k - 1) : given[id][j] = "Chunk"
        /\ wire[id] = [j \in 1..(k - 1) |-> [kind |-> "Chunk", n |-> j]]
ChunksBeforeTermination ==
    [][\A id \in InIds :
          (/\ inbound_substreams[id].st = "Closing"
           /\ inbound_substreams[id].key
           /\ inbound_substreams'[id].st = "Absent"
           /\ \A j \in DOMAIN given[id] : given[id][j] \in {"Chunk", "Termination"})
          => GivenChunks(id)]_vars

\* A peer gets its answers in the order they were given, each once, and all of them
\* before its substream is closed, however slow its sends are.
AnswersInOrder == []WireInOrder /\ ChunksBeforeTermination

-----------------------------------------------------------------------------
(* Liveness.                                                               *)

\* Every inbound substream is released, or left with nothing but a send or a close that
\* the peer holds up: its timer, which bounds the wait for the application, has fired and
\* no timeout bounds a write (protocol.rs sets only one for reading).  A peer that lets
\* each write complete or fail is released for good.
HeldByPeer(id) == /\ inbound_substreams[id].st \in {"Send", "Closing"}
                  /\ ~inbound_substreams[id].key
PeerReads(id) == SF_vars(InboundSent(id) \/ InboundSendError(id) \/ InboundClosed(id))
InboundReleased ==
    \A id \in InIds :
        /\ id \in InPresent ~> id \notin InPresent \/ HeldByPeer(id)
        /\ PeerReads(id) => (id \in InPresent ~> id \notin InPresent)

\* Every armed outbound timer goes away, with or without help of the peer: no
\* request waits for ever on a silent peer.
OutboundReleased ==
    \A r \in Requests :
        r \in outbound_substreams_delay ~> r \notin outbound_substreams_delay

\* Every inbound request is handed to the application.
InboundHandedOver ==
    \A id \in InIds : id \in InPresent ~> id \in seen

\* A queued request is dialled, unless every negotiation slot is taken.
QueuedIsDialled ==
    \A r \in Requests :
        (\E k \in DOMAIN dial_queue : dial_queue[k] = r)
            ~> \/ r \in negotiating
               \/ dial_negotiated = max_dial_negotiated

\* Nothing is kept for ever, neither a substream nor a timer, in either direction, but
\* by a peer that stops reading.
Released == InboundReleased /\ OutboundReleased

\* Nothing waits for ever: a request from the peer is handed over, one from the
\* application is dialled while there is a slot.
Served == InboundHandedOver /\ QueuedIsDialled

-----------------------------------------------------------------------------
(* What the comments of the code say and the code does not do.             *)

\* handler.rs, outbound_substreams: "Map of outbound substreams that need to be
\* driven to completion."
AllDrivenToCompletion == \A r \in opened : Driven(r)

\* handler.rs, dial_negotiated: "Current number of concurrent outbound
\* substreams being opened."
DialNegotiatedIsCurrent == dial_negotiated = Cardinality(negotiating)

\* handler.rs, RESPONSE_TIMEOUT: "The time (in seconds) before a substream that
\* is awaiting a response from the user times out": a request whose only
\* response arrived is not awaiting one, and does not time out.
TimeoutOnlyWhileAwaiting ==
    \A r \in Requests : \A j, k \in DOMAIN reports[r] :
        j < k /\ reports[r][j] = "Final" => reports[r][k] # "TimedOut"

\* handler.rs, outbound_io_error_retries: "Try to negotiate the outbound upgrade
\* a few times if there is an IO error before reporting the request as failed":
\* a request that expects a response and is given up is reported.
FailureReported ==
    \A r \in asked :
        \/ \E k \in DOMAIN dial_queue : dial_queue[k] = r
        \/ r \in negotiating \cup opened
        \/ pending_error = r
        \/ reports[r] # <<>>
        \/ ~expect_response(r)

\* methods.rs, is_error: "Used to terminate the stream after an error is sent":
\* no item follows an error the application gave.
ErrorTerminates ==
    \A id \in InIds : \A k \in DOMAIN wire[id] :
        wire[id][k].kind = "Error" => k = Len(wire[id])

\* handler.rs, inactive_timeout: "After the given duration has elapsed, an
\* inactive connection will shutdown": once all its requests are over the
\* connection's keep-alive becomes Until.
Inactive ==
    /\ asked # {} /\ dial_queue = <<>> /\ negotiating = {} /\ OutPresent = {}
    /\ InPresent = {}
InactiveShutdown == Inactive ~> (~Inactive \/ keep_alive = "Until")

=============================================================================
