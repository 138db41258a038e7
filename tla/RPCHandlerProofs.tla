-------------------------- MODULE RPCHandlerProofs --------------------------
(***************************************************************************)
(* Theorems about RPCHandler, for any set of requests, any ids and any     *)
(* bounds: first how its steps preserve what is invariant about dialling,  *)
(* the outbound substreams, the inbound substreams and the loops of        *)
(* poll(), then what follows from it.                                      *)
(***************************************************************************)
EXTENDS RPCHandler, FiniteSetTheorems, TLAPS

-----------------------------------------------------------------------------
(* The invariant.                                                          *)

\* Only these five actions touch the dialling state.
LEMMA DialFrame ==
    ASSUME [Next]_vars
    PROVE  \/ \E r \in Requests : \/ InjectRequest(r)
                                  \/ InjectFullyNegotiatedOutbound(r)
                                  \/ \E io \in BOOLEAN : InjectDialUpgradeError(r, io)
           \/ PollPendingError
           \/ PollDial
           \/ UNCHANGED dialVars
  BY ZenonT(40) DEF Next, vars, PollStep, Callback, Deadline, PollEventsOut, PollBegin,
         PurgeInbound, PurgeOutbound, BeginInbound, InboundSent,
         InboundSendError, InboundIdle, InboundClosed, InboundNotReady,
         BeginOutbound, OutboundResponse, OutboundEnd, OutboundError,
         OutboundClosed, OutboundNotReady, InjectInboundRequest,
         InjectInboundGoodbye, InjectResponse, InboundDeadline, OutboundDeadline

\* dial_negotiated never wraps and never exceeds max_dial_negotiated.
LEMMA DialStep ==
    TypeDial /\ DialAccounting /\ [Next]_vars => TypeDial' /\ DialAccounting'
  <1> SUFFICES ASSUME TypeDial, DialAccounting, [Next]_vars
               PROVE  TypeDial' /\ DialAccounting'
    BY Zenon
  <1> USE HandlerAssumption DEF TypeDial, DialAccounting
  <1>f. /\ IsFiniteSet(negotiating)
        /\ Cardinality(negotiating) \in Nat
    BY Zenon, FS_Subset, FS_CardinalityType
  <1>1. ASSUME NEW r \in Requests, InjectRequest(r)
        PROVE  TypeDial' /\ DialAccounting'
    BY <1>1 DEF InjectRequest, send_request
  <1>r. ASSUME NEW r \in negotiating
        PROVE  Cardinality(negotiating \ {r}) = Cardinality(negotiating) - 1
    BY ZenonT(40), <1>f, <1>r, FS_RemoveElement
  <1>2. ASSUME NEW r \in Requests, InjectFullyNegotiatedOutbound(r)
        PROVE  TypeDial' /\ DialAccounting'
    <2>1. r \in negotiating /\ negotiating' = negotiating \ {r}
      BY Zenon, <1>2 DEF InjectFullyNegotiatedOutbound
    <2>2. /\ Cardinality(negotiating') = Cardinality(negotiating) - 1
          /\ Cardinality(negotiating') \in Nat
      BY Zenon, <1>r, <2>1, <1>f, FS_RemoveElement, FS_CardinalityType
    <2>3. QED
      BY <1>2, <1>f, <2>1, <2>2 DEF InjectFullyNegotiatedOutbound
  <1>3. ASSUME NEW r \in Requests, NEW io \in BOOLEAN, InjectDialUpgradeError(r, io)
        PROVE  TypeDial' /\ DialAccounting'
    <2>1. r \in negotiating /\ negotiating' = negotiating \ {r}
      BY Zenon, <1>3 DEF InjectDialUpgradeError
    <2>2. Cardinality(negotiating') <= dial_negotiated
      BY <1>r, <1>f, <2>1
    <2>3. CASE io /\ MayRetry
      <3>1. /\ dial_queue' = Append(dial_queue, r)
            /\ keep_alive' = "Yes"
            /\ outbound_io_error_retries' = outbound_io_error_retries + 1
            /\ UNCHANGED <<pending_error, dial_negotiated, asked, opened>>
        BY Zenon, <1>3, <2>3 DEF InjectDialUpgradeError, send_request
      <3>2. dial_queue' \in Seq(Requests)
        BY <3>1
      <3>3. outbound_io_error_retries' \in 0..(IO_ERROR_RETRIES - 1)
        BY <2>3, <3>1 DEF MayRetry
      <3>4. TypeDial'
        BY Zenon, <2>1, <3>1, <3>2, <3>3
      <3>5. QED
        BY Zenon, <2>2, <3>1, <3>4
    <2>4. CASE ~(io /\ MayRetry)
      BY <1>3, <2>1, <2>2, <2>4 DEF InjectDialUpgradeError, add_error
    <2>5. QED
      BY Zenon, <2>3, <2>4
  <1>4. CASE PollPendingError
    BY Zenon, <1>4 DEF PollPendingError
  <1>5. CASE PollDial
    <2>1. CASE CanDial
      <3> DEFINE h == Head(dial_queue)
      <3>a. h \in Requests /\ Tail(dial_queue) \in Seq(Requests)
        BY <2>1 DEF CanDial
      <3> HIDE DEF h
      <3>1. /\ negotiating' = negotiating \cup {h}
            /\ dial_queue' \in Seq(Requests)
        BY ZenonT(40), <1>5, <2>1, <3>a DEF PollDial, h
      <3>2. \/ Cardinality(negotiating') = Cardinality(negotiating)
            \/ Cardinality(negotiating') = Cardinality(negotiating) + 1
        BY ZenonT(40), <3>1, <3>a, <1>f, FS_AddElement
      <3>3. DialAccounting'
        BY <1>5, <2>1, <1>f, <3>2 DEF PollDial, CanDial
      <3>4. QED
        BY <1>5, <2>1, <3>a, <3>1, <3>3 DEF PollDial
    <2>2. CASE ~CanDial
      BY Zenon, <1>5, <2>2 DEF PollDial
    <2>3. QED
      BY Zenon, <2>1, <2>2
  <1>6. CASE UNCHANGED dialVars
    BY Zenon, <1>6 DEF dialVars
  <1>7. QED
    BY Zenon, <1>1, <1>2, <1>3, <1>4, <1>5, <1>6, DialFrame

-----------------------------------------------------------------------------
\* Only these actions touch the outbound substreams and their timers.
LEMMA OutFrame ==
    ASSUME [Next]_vars
    PROVE  \/ \E r \in Requests : \/ InjectFullyNegotiatedOutbound(r)
                                  \/ OutboundDeadline(r)
                                  \/ PurgeOutbound(r)
           \/ \E id \in Ids : \/ \E error \in BOOLEAN : OutboundResponse(id, error)
                              \/ OutboundEnd(id) \/ OutboundError(id)
                              \/ OutboundClosed(id)
           \/ UNCHANGED outVars
  BY ZenonT(40) DEF Next, vars, PollStep, Callback, Deadline, PollPendingError,
         PollEventsOut, PollBegin, PurgeInbound, BeginInbound, InboundSent,
         InboundSendError, InboundIdle, InboundClosed, InboundNotReady,
         BeginOutbound, OutboundNotReady, PollDial, InjectRequest,
         InjectDialUpgradeError, InjectInboundRequest, InjectInboundGoodbye,
         InjectResponse, InboundDeadline

\* Removing the substream under one id, with its timer, leaves the timers of
\* the other ids armed: a request has one id.
LEMMA RemoveOutboundStep ==
    ASSUME TypeOut, OutboundKeysArmed, NEW id \in OutPresent, RemoveOutbound(id)
    PROVE  TypeOut' /\ OutboundKeysArmed'
  <1> USE HandlerAssumption DEF TypeOut, OutState, OutAbsent, RemoveOutbound
  <1>1. TypeOut'
    BY Zenon DEF OutPresent
  <1>2. ASSUME NEW i \in OutPresent'
        PROVE  i # id /\ i \in OutPresent /\ outbound_substreams'[i] = outbound_substreams[i]
    BY Zenon, <1>2 DEF OutPresent
  <1>3. QED
    BY <1>1, <1>2 DEF OutboundKeysArmed

\* Every stored outbound substream keeps its own armed timer.
LEMMA OutStep ==
    TypeOut /\ OutboundKeysArmed /\ [Next]_vars => TypeOut' /\ OutboundKeysArmed'
  <1> SUFFICES ASSUME TypeOut, OutboundKeysArmed, [Next]_vars
               PROVE  TypeOut' /\ OutboundKeysArmed'
    BY Zenon
  <1> USE HandlerAssumption
  <1>1. ASSUME NEW r \in Requests, InjectFullyNegotiatedOutbound(r)
        PROVE  TypeOut' /\ OutboundKeysArmed'
    <2>1. CASE expect_response(r)
      BY <1>1, <2>1 DEF InjectFullyNegotiatedOutbound, TypeOut, OutState,
                        OutboundKeysArmed, OutPresent
    <2>2. CASE ~expect_response(r)
      BY Zenon, <1>1, <2>2 DEF InjectFullyNegotiatedOutbound, TypeOut,
                        OutboundKeysArmed, OutPresent
    <2>3. QED
      BY Zenon, <2>1, <2>2
  <1>2. ASSUME NEW r \in Requests, OutboundDeadline(r)
        PROVE  TypeOut' /\ OutboundKeysArmed'
    BY Zenon, <1>2 DEF OutboundDeadline, TypeOut, OutboundKeysArmed, OutPresent
  <1>3. ASSUME NEW r \in Requests, PurgeOutbound(r)
        PROVE  TypeOut' /\ OutboundKeysArmed'
    BY Zenon, <1>3 DEF PurgeOutbound, TypeOut, OutState, OutAbsent, OutboundKeysArmed,
                OutPresent
  <1>4. ASSUME NEW id \in Ids, NEW error \in BOOLEAN, OutboundResponse(id, error)
        PROVE  TypeOut' /\ OutboundKeysArmed'
    <2> DEFINE r == outbound_substreams[id].req
    <2>1. CASE multiple_responses(r) /\ ~error
      BY Zenon, <1>4, <2>1 DEF OutboundResponse, TypeOut, OutboundKeysArmed, OutPresent
    <2>2. CASE ~(multiple_responses(r) /\ ~error)
      BY <1>4, <2>2 DEF OutboundResponse, CloseOutbound, DrivingOut, TypeOut,
                        OutState, OutAbsent, OutboundKeysArmed, OutPresent
    <2>3. QED
      BY Zenon, <2>1, <2>2
  <1>5. ASSUME NEW id \in Ids,
               OutboundEnd(id) \/ OutboundError(id) \/ OutboundClosed(id)
        PROVE  TypeOut' /\ OutboundKeysArmed'
    <2>1. id \in OutPresent /\ RemoveOutbound(id)
      BY Zenon, <1>5 DEF OutboundEnd, OutboundError, OutboundClosed, DrivingOut, OutPresent
    <2>2. QED
      BY Zenon, <2>1, RemoveOutboundStep
  <1>6. CASE UNCHANGED outVars
    BY Zenon, <1>6 DEF outVars, TypeOut, OutboundKeysArmed, OutPresent
  <1>7. QED
    BY Zenon, <1>1, <1>2, <1>3, <1>4, <1>5, <1>6, OutFrame

-----------------------------------------------------------------------------
\* The loops of poll() that drive substreams run when no expired inbound timer
\* is left to purge.
Quiet == pc \in {"inbound", "outbound"} => in_elapsed = {}

\* Only these actions touch the inbound substreams, their timers and queues.
LEMMA InFrame ==
    ASSUME [Next]_vars
    PROVE  \/ InjectInboundRequest
           \/ \E id \in InIds, kind \in Responses : InjectResponse(id, kind)
           \/ \E id \in InIds : \/ InboundDeadline(id) \/ PurgeInbound(id)
                                \/ InboundSent(id) \/ InboundSendError(id)
                                \/ InboundIdle(id) \/ InboundClosed(id)
           \/ UNCHANGED inVars
  BY ZenonT(40) DEF Next, vars, PollStep, Callback, Deadline, PollPendingError,
         PollEventsOut, PollBegin, PurgeOutbound, BeginInbound,
         InboundNotReady, BeginOutbound, OutboundResponse, OutboundEnd,
         OutboundError, OutboundClosed, OutboundNotReady, PollDial,
         InjectRequest, InjectFullyNegotiatedOutbound, InjectDialUpgradeError,
         InjectInboundGoodbye, OutboundDeadline

\* A change of state that keeps the delay key keeps the timers matched.
LEMMA SetStateStep ==
    ASSUME TypeIn, InboundTimersMatch, NEW id \in InPresent,
           NEW st \in {"Idle", "Closing"}, SetState(id, st),
           UNCHANGED <<inbound_substreams_delay, in_elapsed>>
    PROVE  /\ inbound_substreams' \in [InIds -> InState]
           /\ InboundTimersMatch'
  BY Zenon DEF TypeIn, InState, InboundTimersMatch, SetState, InPresent

\* start_send on an inbound substream keeps its types and its timer.
LEMMA StartSendStep ==
    ASSUME TypeIn, InboundTimersMatch, NEW id \in InPresent,
           NEW item \in Item, NEW closing \in BOOLEAN, StartSend(id, item, closing),
           UNCHANGED <<inbound_substreams_delay, in_elapsed>>
    PROVE  /\ inbound_substreams' \in [InIds -> InState]
           /\ wire' \in [InIds -> Seq(Item)]
           /\ InboundTimersMatch'
  <1>1. wire' \in [InIds -> Seq(Item)]
    BY DEF TypeIn, StartSend, InPresent
  <1>2. QED
    BY Zenon, <1>1 DEF TypeIn, InState, InboundTimersMatch, StartSend, InPresent

\* Draining a queue hands its oldest item to the substream.
LEMMA ApplyQueuedStep ==
    ASSUME TypeIn, InboundTimersMatch, NEW id \in InPresent,
           apply_queued_responses(id),
           UNCHANGED <<inbound_substreams_delay, in_elapsed>>
    PROVE  TypeIn' /\ InboundTimersMatch'
  <1> DEFINE queue == queued_outbound_items[id]
  <1>0. queue \in Seq(Item)
    BY Zenon DEF TypeIn, InPresent
  <1>1. CASE queue = <<>>
    <2>1. SetState(id, "Idle") /\ UNCHANGED <<queued_outbound_items, wire>>
      BY Zenon, <1>1 DEF apply_queued_responses
    <2>2. QED
      BY Zenon, <2>1, SetStateStep DEF TypeIn
  <1>2. CASE queue # <<>>
    <2>1. Head(queue) \in Item /\ Tail(queue) \in Seq(Item)
      BY <1>0, <1>2
    <2>2. /\ queued_outbound_items' = [queued_outbound_items EXCEPT ![id] = Tail(@)]
          /\ \/ SetState(id, "Closing") /\ UNCHANGED wire
             \/ StartSend(id, Head(queue), FALSE)
      BY ZenonT(40), <1>2 DEF apply_queued_responses
    <2>3. queued_outbound_items' \in [InIds -> Seq(Item)]
      BY ZenonT(40), <2>1, <2>2 DEF TypeIn
    <2>4. CASE SetState(id, "Closing") /\ UNCHANGED wire
      BY Zenon, <2>3, <2>4, SetStateStep DEF TypeIn
    <2>5. CASE StartSend(id, Head(queue), FALSE)
      BY ZenonT(40), <2>1, <2>3, <2>5, StartSendStep DEF TypeIn
    <2>6. QED
      BY ZenonT(40), <2>2, <2>4, <2>5
  <1>3. QED
    BY Zenon, <1>1, <1>2

\* An inbound substream is dropped together with its timer.
LEMMA DropInboundStep ==
    ASSUME TypeIn, InboundTimersMatch, NEW id \in InPresent, DropInbound(id),
           in_elapsed = {}, UNCHANGED in_elapsed
    PROVE  /\ inbound_substreams' \in [InIds -> InState]
           /\ inbound_substreams_delay' \subseteq InIds
           /\ InboundTimersMatch'
  BY Zenon DEF TypeIn, InState, InAbsent, InboundTimersMatch, DropInbound, InPresent

\* Inbound timers and delay keys match through every step.
LEMMA InStep ==
    /\ TypeIn /\ TypeEvents /\ InboundTimersMatch /\ NoVacantEntry /\ Quiet
    /\ [Next]_vars
    => TypeIn' /\ InboundTimersMatch'
  <1> SUFFICES ASSUME TypeIn, TypeEvents, InboundTimersMatch, NoVacantEntry,
                      Quiet, [Next]_vars
               PROVE  TypeIn' /\ InboundTimersMatch'
    BY Zenon
  <1> USE HandlerAssumption
  <1>1. CASE InjectInboundRequest
    BY Zenon, <1>1 DEF InjectInboundRequest, TypeIn, InState, InboundTimersMatch
  <1>2. ASSUME NEW id \in InIds, NEW kind \in Responses, InjectResponse(id, kind)
        PROVE  TypeIn' /\ InboundTimersMatch'
    <2> DEFINE item == [kind |-> kind, n |-> Len(given[id]) + 1]
               s == inbound_substreams[id]
    <2>1. item \in Item
      BY <1>2 DEF InjectResponse, Item, TypeEvents, ResponseKinds
    <2>2. UNCHANGED <<inbound_substreams_delay, in_elapsed>>
      BY Zenon, <1>2 DEF InjectResponse
    <2> HIDE DEF item
    <2>3. CASE s.st = "Idle" /\ kind = "Termination"
      <3>1. SetState(id, "Closing") /\ UNCHANGED <<queued_outbound_items, wire>>
        BY Zenon, <1>2, <2>3 DEF InjectResponse
      <3>2. QED
        BY Zenon, <3>1, <2>2, <2>3, SetStateStep DEF InPresent, TypeIn
    <2>4. CASE s.st = "Idle" /\ kind # "Termination"
      <3>1. /\ StartSend(id, item, ~response_multiple_responses(kind) \/ is_error(kind))
            /\ UNCHANGED queued_outbound_items
        BY Zenon, <1>2, <2>4 DEF InjectResponse, item
      <3>2. (~response_multiple_responses(kind) \/ is_error(kind)) \in BOOLEAN
        BY Zenon DEF response_multiple_responses, is_error
      <3>3. QED
        BY ZenonT(40), <3>1, <3>2, <2>1, <2>2, <2>4, StartSendStep DEF InPresent, TypeIn
    <2>5. CASE s.st = "Send" /\ response_multiple_responses(kind)
      <3>1. /\ queued_outbound_items' =
                   [queued_outbound_items EXCEPT ![id] = Append(@, item)]
            /\ UNCHANGED <<inbound_substreams, wire>>
        BY Zenon, <1>2, <2>5 DEF InjectResponse, item
      <3>2. QED
        BY <3>1, <2>1, <2>2 DEF TypeIn, InboundTimersMatch
    <2>6. CASE s.st = "Send" /\ ~response_multiple_responses(kind)
      <3>1. /\ inbound_substreams' = [inbound_substreams EXCEPT ![id].closing = TRUE]
            /\ UNCHANGED <<queued_outbound_items, wire>>
        BY Zenon, <1>2, <2>6 DEF InjectResponse
      <3>2. QED
        BY ZenonT(40), <3>1, <2>2 DEF TypeIn, InState, InboundTimersMatch
    <2>7. CASE s.st \in {"Closing", "Absent"}
      <3>1. UNCHANGED <<inbound_substreams, queued_outbound_items, wire>>
        BY Zenon, <1>2, <2>7 DEF InjectResponse
      <3>2. QED
        BY Zenon, <3>1, <2>2 DEF TypeIn, InboundTimersMatch
    <2>8. QED
      BY Zenon, <2>3, <2>4, <2>5, <2>6, <2>7 DEF TypeIn, InState
  <1>3. ASSUME NEW id \in InIds, InboundDeadline(id)
        PROVE  TypeIn' /\ InboundTimersMatch'
    BY Zenon, <1>3 DEF InboundDeadline, TypeIn, InboundTimersMatch
  <1>4. ASSUME NEW id \in InIds, PurgeInbound(id)
        PROVE  TypeIn' /\ InboundTimersMatch'
    <2>1. /\ in_elapsed' = in_elapsed \ {id}
          /\ inbound_substreams_delay' = inbound_substreams_delay \ {id}
          /\ id \in in_elapsed
      BY Zenon, <1>4 DEF PurgeInbound
    <2>2. id \in InPresent /\ close(id)
      BY Zenon, <1>4, <2>1 DEF PurgeInbound, InPresent, InboundTimersMatch
    <2>3. TimeoutError \in Item /\ TimeoutTermination \in Item
      BY DEF TimeoutError, TimeoutTermination, Item, ResponseKinds
    <2>4. \E s \in InState : /\ ~s.key
                             /\ inbound_substreams' = [inbound_substreams EXCEPT ![id] = s]
      <3>1. inbound_substreams[id].closing \in BOOLEAN
        BY Zenon DEF TypeIn, InState
      <3>2. QED
        BY ZenonT(40), <2>2, <3>1 DEF close, InState
    <2>5. queued_outbound_items' \in [InIds -> Seq(Item)]
      <3>1. queued_outbound_items[id] \o <<TimeoutError, TimeoutTermination>> \in Seq(Item)
        BY <2>3 DEF TypeIn
      <3>2. QED
        BY ZenonT(40), <2>2, <3>1 DEF close, TypeIn
    <2>6. wire' \in [InIds -> Seq(Item)]
      <3>1. Append(wire[id], TimeoutError) \in Seq(Item)
        BY <2>3 DEF TypeIn
      <3>2. QED
        BY ZenonT(40), <2>2, <3>1 DEF close, TypeIn
    <2>7. PICK s \in InState :
              /\ ~s.key
              /\ inbound_substreams' = [inbound_substreams EXCEPT ![id] = s]
      BY ZenonT(40), <2>4
    <2>8. /\ inbound_substreams'[id] = s
          /\ \A i \in InIds \ {id} : inbound_substreams'[i] = inbound_substreams[i]
          /\ inbound_substreams' \in [InIds -> InState]
      BY Zenon, <2>7 DEF TypeIn
    <2>9. TypeIn'
      BY Zenon, <2>1, <2>5, <2>6, <2>8 DEF TypeIn
    <2>10. InboundTimersMatch'
      BY Zenon, <2>1, <2>7, <2>8 DEF TypeIn, InboundTimersMatch
    <2>11. QED
      BY Zenon, <2>9, <2>10
  <1>5. ASSUME NEW id \in InIds, InboundSent(id) \/ InboundIdle(id)
        PROVE  TypeIn' /\ InboundTimersMatch'
    <2>1. id \in InPresent /\ UNCHANGED <<inbound_substreams_delay, in_elapsed>>
      BY ZenonT(40), <1>5 DEF InboundSent, InboundIdle, InPresent
    <2>2. CASE apply_queued_responses(id)
      BY Zenon, <2>1, <2>2, ApplyQueuedStep
    <2>3. CASE SetState(id, "Closing") /\ UNCHANGED <<queued_outbound_items, wire>>
      BY Zenon, <2>1, <2>3, SetStateStep DEF TypeIn
    <2>4. QED
      BY ZenonT(40), <1>5, <2>2, <2>3 DEF InboundSent, InboundIdle
  <1>6. ASSUME NEW id \in InIds, InboundSendError(id) \/ InboundClosed(id)
        PROVE  TypeIn' /\ InboundTimersMatch'
    <2>1. /\ id \in InPresent /\ DropInbound(id)
          /\ in_elapsed = {} /\ UNCHANGED <<in_elapsed, wire>>
      BY ZenonT(40), <1>6 DEF InboundSendError, InboundClosed, InPresent, Driving, Quiet
    <2>2. queued_outbound_items' \in [InIds -> Seq(Item)]
      <3>1. <<>> \in Seq(Item)
        OBVIOUS
      <3>2. QED
        BY ZenonT(40), <1>6, <3>1 DEF InboundSendError, InboundClosed, TypeIn
    <2>3. QED
      BY Zenon, <2>1, <2>2, DropInboundStep DEF TypeIn
  <1>7. CASE UNCHANGED inVars
    BY Zenon, <1>7 DEF inVars, TypeIn, InboundTimersMatch
  <1>8. QED
    BY Zenon, <1>1, <1>2, <1>3, <1>4, <1>5, <1>6, <1>7, InFrame

-----------------------------------------------------------------------------
\* What is known of poll()'s progress: the keys to visit are in the maps.
PollInv == TypePoll /\ NoVacantEntry /\ Quiet

\* Outside poll() and wherever poll() returns, nothing is left to visit.
LEMMA AtRest ==
    ASSUME PollInv, \/ Return
                    \/ pc = "rest" /\ UNCHANGED pollVars
    PROVE  PollInv'
  BY HandlerAssumption
     DEF PollInv, TypePoll, NoVacantEntry, Quiet, Return, pollVars

\* One turn of the inbound loop on a substream that stays in the map.
LEMMA TurnStep ==
    ASSUME PollInv, NEW id \in InIds, Driving(id), NEW again \in BOOLEAN,
           Turn(id, again), UNCHANGED in_elapsed,
           IF again THEN InPresent \subseteq InPresent'
                    ELSE InPresent \ {id} \subseteq InPresent'
    PROVE  PollInv'
  BY HandlerAssumption
     DEF PollInv, TypePoll, NoVacantEntry, Quiet, Driving, Turn, InIds

\* A change of state or a send removes no inbound substream.
LEMMA SetStatePresent ==
    ASSUME TypeIn, NEW id \in InPresent,
           \/ \E st \in {"Idle", "Closing"} : SetState(id, st)
           \/ \E item \in Item, closing \in BOOLEAN : StartSend(id, item, closing)
    PROVE  InPresent \subseteq InPresent'
  <1>1. ASSUME NEW st \in {"Idle", "Closing"}, SetState(id, st)
        PROVE  InPresent \subseteq InPresent'
    BY Zenon, <1>1 DEF TypeIn, SetState, InPresent
  <1>2. ASSUME NEW item \in Item, NEW closing \in BOOLEAN,
               StartSend(id, item, closing)
        PROVE  InPresent \subseteq InPresent'
    BY Zenon, <1>2 DEF TypeIn, StartSend, InPresent
  <1>3. QED
    BY Zenon, <1>1, <1>2

\* apply_queued_responses keeps the substream, whatever is queued for it.
LEMMA ApplyQueuedPresent ==
    ASSUME TypeIn, NEW id \in InPresent, apply_queued_responses(id)
    PROVE  /\ InPresent \subseteq InPresent'
           /\ \E again \in BOOLEAN : Turn(id, again)
  <1> DEFINE queue == queued_outbound_items[id]
  <1>1. queue # <<>> => Head(queue) \in Item
    BY DEF TypeIn, InPresent
  <1>2. QED
    BY ZenonT(40), <1>1, SetStatePresent DEF apply_queued_responses

\* The Entry::Vacant arms of poll() stay unreachable.
LEMMA PollStepInv ==
    TypeIn /\ TypeOut /\ PollInv /\ [Next]_vars => PollInv'
  <1> SUFFICES ASSUME TypeIn, TypeOut, PollInv, [Next]_vars
               PROVE  PollInv'
    BY Zenon
  <1> USE HandlerAssumption
  <1>1. CASE Callback
    BY ZenonT(40), <1>1, AtRest DEF Callback, InjectRequest, InjectFullyNegotiatedOutbound,
         InjectDialUpgradeError, InjectInboundRequest, InjectInboundGoodbye,
         InjectResponse
  <1>2. CASE Deadline
    BY Zenon, <1>2, AtRest DEF Deadline, InboundDeadline, OutboundDeadline
  <1>3. CASE PollPendingError \/ PollEventsOut
    BY Zenon, <1>3, AtRest DEF PollPendingError, PollEventsOut
  <1>4. CASE PollBegin
    BY Zenon, <1>4 DEF PollBegin, PollInv, TypePoll, NoVacantEntry, Quiet
  <1>5. ASSUME NEW id \in InIds, PurgeInbound(id)
        PROVE  PollInv'
    BY Zenon, <1>5 DEF PurgeInbound, pollVars, PollInv, TypePoll, NoVacantEntry, Quiet
  <1>6. CASE BeginInbound
    BY Zenon, <1>6 DEF BeginInbound, inVars, PollInv, TypePoll, NoVacantEntry, Quiet,
                InPresent
  <1>7. ASSUME NEW id \in InIds, InboundSent(id) \/ InboundIdle(id)
        PROVE  PollInv'
    <2>1. id \in InPresent /\ Driving(id) /\ UNCHANGED in_elapsed
      BY ZenonT(40), <1>7 DEF InboundSent, InboundIdle, InPresent
    <2>2. CASE apply_queued_responses(id)
      BY Zenon, <2>1, <2>2, ApplyQueuedPresent, TurnStep
    <2>3. CASE SetState(id, "Closing") /\ Turn(id, FALSE)
      BY ZenonT(40), <2>1, <2>3, SetStatePresent, TurnStep
    <2>4. QED
      BY ZenonT(40), <1>7, <2>2, <2>3 DEF InboundSent, InboundIdle
  <1>8. ASSUME NEW id \in InIds, InboundClosed(id)
        PROVE  PollInv'
    <2>1. InPresent \ {id} \subseteq InPresent'
      BY Zenon, <1>8 DEF InboundClosed, DropInbound, InPresent, TypeIn
    <2>2. QED
      BY ZenonT(40), <1>8, <2>1, TurnStep DEF InboundClosed
  <1>9. ASSUME NEW id \in InIds, InboundNotReady(id)
        PROVE  PollInv'
    <2>1. InPresent \subseteq InPresent' /\ UNCHANGED in_elapsed
      BY Zenon, <1>9 DEF InboundNotReady, inVars, InPresent
    <2>2. QED
      BY ZenonT(40), <1>9, <2>1, TurnStep DEF InboundNotReady
  <1>10. CASE BeginOutbound
    BY Zenon, <1>10 DEF BeginOutbound, inVars, outVars, PollInv, TypePoll,
                 NoVacantEntry, Quiet, OutPresent
  <1>11. ASSUME NEW id \in Ids, OutboundClosed(id)
         PROVE  PollInv'
    <2>1. OutPresent \ {id} \subseteq OutPresent'
      BY Zenon, <1>11 DEF OutboundClosed, RemoveOutbound, OutPresent, TypeOut
    <2>2. QED
      BY Zenon, <1>11, <2>1 DEF OutboundClosed, DrivingOut, inVars, PollInv, TypePoll,
                         NoVacantEntry, Quiet
  <1>12. ASSUME NEW id \in Ids, OutboundNotReady(id)
         PROVE  PollInv'
    BY Zenon, <1>12 DEF OutboundNotReady, inVars, outVars, OutPresent, PollInv,
                 TypePoll, NoVacantEntry, Quiet
  <1>13. ASSUME \/ \E r \in Requests : PurgeOutbound(r)
                \/ \E id \in InIds : InboundSendError(id)
                \/ \E id \in Ids : \/ \E error \in BOOLEAN : OutboundResponse(id, error)
                                   \/ OutboundEnd(id) \/ OutboundError(id)
                \/ PollDial
         PROVE  PollInv'
    BY ZenonT(40), <1>13, AtRest DEF PurgeOutbound, InboundSendError, OutboundResponse,
                         OutboundEnd, OutboundError, PollDial
  <1>14. CASE UNCHANGED vars
    BY ZenonT(40), <1>14 DEF vars, pollVars, inVars, outVars, InPresent, OutPresent,
                 PollInv, TypePoll, NoVacantEntry, Quiet
  <1>15. QED
    BY Zenon, <1>1, <1>2, <1>3, <1>4, <1>5, <1>6, <1>7, <1>8, <1>9, <1>10, <1>11,
       <1>12, <1>13, <1>14 DEF Next, PollStep

-----------------------------------------------------------------------------

\* Ids not given out yet have no substream and nothing on the wire.
Fresh ==
    \A id \in InIds : id >= current_inbound_substream_id =>
        /\ inbound_substreams[id].st = "Absent"
        /\ wire[id] = <<>>
        /\ id \notin seen

\* Events wait only outside poll()'s loops, for requests that were given an id
\* and not handed over yet.
Undelivered ==
    /\ pc # "rest" => events_out = <<>>
    /\ \A k \in DOMAIN events_out :
           events_out[k] # 0 => /\ events_out[k] < current_inbound_substream_id
                                /\ events_out[k] \notin seen

EventsInv == TypeEvents /\ Fresh /\ Undelivered /\ HandedOverWhileAnswerable

\* A step on one inbound substream leaves the other ones and their wires alone.
OnlyAt(id) ==
    \A i \in InIds \ {id} : /\ inbound_substreams'[i] = inbound_substreams[i]
                            /\ wire'[i] = wire[i]

\* The helpers poll() calls for an inbound substream write that substream only.
LEMMA OnlyAtStep ==
    ASSUME TypeIn, NEW id \in InIds,
           \/ close(id)
           \/ apply_queued_responses(id)
           \/ \E st \in {"Idle", "Closing"} : SetState(id, st) /\ UNCHANGED wire
           \/ DropInbound(id) /\ UNCHANGED wire
    PROVE  OnlyAt(id)
  <1>1. CASE close(id)
    BY Zenon, <1>1 DEF close, TypeIn, OnlyAt
  <1>2. CASE apply_queued_responses(id)
    BY Zenon, <1>2 DEF apply_queued_responses, SetState, StartSend, TypeIn, OnlyAt
  <1>3. CASE \E st \in {"Idle", "Closing"} : SetState(id, st) /\ UNCHANGED wire
    BY Zenon, <1>3 DEF SetState, TypeIn, OnlyAt
  <1>4. CASE DropInbound(id) /\ UNCHANGED wire
    BY Zenon, <1>4 DEF DropInbound, TypeIn, OnlyAt
  <1>5. QED
    BY Zenon, <1>1, <1>2, <1>3, <1>4

\* Inside poll()'s loops no event waits, so only fresh ids matter.
LEMMA EventsInLoops ==
    ASSUME TypeIn, EventsInv, pc # "rest", UNCHANGED eventVars,
           \/ UNCHANGED <<inbound_substreams, wire>>
           \/ \E id \in InPresent : OnlyAt(id)
    PROVE  EventsInv'
  <1>1. events_out = <<>> /\ events_out' = <<>>
    BY Zenon DEF EventsInv, Undelivered, eventVars
  <1>2. TypeEvents'
    BY Zenon DEF EventsInv, TypeEvents, eventVars
  <1>3. Undelivered' /\ HandedOverWhileAnswerable'
    BY SMTT(40), <1>1 DEF Undelivered, HandedOverWhileAnswerable
  <1>4. Fresh'
    BY Zenon DEF EventsInv, Fresh, OnlyAt, InPresent, eventVars
  <1>5. QED
    BY Zenon, <1>2, <1>3, <1>4 DEF EventsInv

\* Outside the loops, a step that leaves the waiting ids' substreams and wires
\* alone keeps the waiting events answerable.
LEMMA EventsAtRest ==
    ASSUME TypeIn, EventsInv, pc = "rest", pc' \in {"rest", "timers"},
           pc' = "timers" => events_out = <<>>,
           UNCHANGED <<eventVars, inbound_substreams, wire>>
    PROVE  EventsInv'
  BY Zenon DEF EventsInv, TypeEvents, Fresh, Undelivered, HandedOverWhileAnswerable,
         eventVars

\* A request stays answerable until it is handed over.
LEMMA EventsStep ==
    TypeIn /\ EventsInv /\ InboundTimersMatch /\ [Next]_vars => EventsInv'
  <1> SUFFICES ASSUME TypeIn, EventsInv, InboundTimersMatch, [Next]_vars
               PROVE  EventsInv'
    BY Zenon
  <1> USE HandlerAssumption
  <1>1. CASE InjectInboundRequest
    <2> DEFINE id == current_inbound_substream_id
    <2>1. /\ id \in InIds /\ pc = "rest" /\ pc' = "rest"
          /\ events_out' = Append(events_out, id)
          /\ current_inbound_substream_id' = id + 1
          /\ inbound_substreams' = [inbound_substreams EXCEPT
                 ![id] = [st |-> "Idle", closing |-> FALSE, key |-> TRUE]]
          /\ UNCHANGED <<wire, goodbyes, seen, given>>
      BY Zenon, <1>1 DEF InjectInboundRequest, pollVars
    <2>2. TypeEvents'
      BY SMTT(40), <2>1 DEF EventsInv, TypeEvents, InIds
    <2>0. id \in Nat /\ id # 0 /\ InIds \subseteq Int
      BY SMTT(40), <2>1 DEF InIds
    <2>a. \A i \in InIds : i >= id + 1 => i >= id /\ i # id
      BY <2>0
    <2>3. Fresh'
      BY Zenon, <2>1, <2>a DEF EventsInv, Fresh, TypeIn
    <2>4. \A k \in DOMAIN events_out' :
              \/ k \in DOMAIN events_out /\ events_out'[k] = events_out[k]
              \/ k = Len(events_out) + 1 /\ events_out'[k] = id
      BY SMTT(40), <2>1 DEF EventsInv, TypeEvents
    <2>5. Undelivered'
      BY SMTT(40), <2>1, <2>4 DEF EventsInv, Undelivered, Fresh, TypeEvents, InIds
    <2>6. \A k \in DOMAIN events_out : events_out[k] # id
      <3>1. \A k \in DOMAIN events_out : events_out[k] # 0 => events_out[k] < id
        BY Zenon DEF EventsInv, Undelivered
      <3>2. QED
        BY <3>1, <2>0
    <2>b. /\ inbound_substreams'[id].st = "Idle" /\ inbound_substreams'[id].key
          /\ wire'[id] = <<>>
          /\ \A i \in InIds \ {id} : inbound_substreams'[i] = inbound_substreams[i]
      BY SMTT(40), <2>0, <2>1 DEF EventsInv, Fresh, TypeIn
    <2>c. \A k \in DOMAIN events_out : events_out[k] # 0 => events_out[k] \in InIds
      BY SMTT(40) DEF EventsInv, TypeEvents, InIds
    <2>7. HandedOverWhileAnswerable'
      BY SMTT(40), <2>1, <2>4, <2>6, <2>b, <2>c DEF EventsInv, HandedOverWhileAnswerable
    <2>8. QED
      BY Zenon, <2>2, <2>3, <2>5, <2>7 DEF EventsInv
  <1>2. CASE InjectInboundGoodbye
    <2>1. /\ pc = "rest" /\ pc' = "rest"
          /\ events_out' = Append(events_out, 0)
          /\ goodbyes' = goodbyes + 1 /\ goodbyes < MaxGoodbyes
          /\ UNCHANGED <<inbound_substreams, wire, current_inbound_substream_id,
                         seen, given>>
      BY Zenon, <1>2 DEF InjectInboundGoodbye, pollVars, inVars
    <2>2. TypeEvents'
      BY <2>1 DEF EventsInv, TypeEvents
    <2>3. \A k \in DOMAIN events_out' :
              \/ k \in DOMAIN events_out /\ events_out'[k] = events_out[k]
              \/ events_out'[k] = 0
      BY SMTT(40), <2>1 DEF EventsInv, TypeEvents
    <2>4. Fresh' /\ Undelivered'
      BY Zenon, <2>1, <2>3 DEF EventsInv, Fresh, Undelivered
    <2>5. HandedOverWhileAnswerable'
      BY SMTT(40), <2>1, <2>3 DEF EventsInv, HandedOverWhileAnswerable
    <2>6. QED
      BY Zenon, <2>2, <2>4, <2>5 DEF EventsInv
  <1>3. ASSUME NEW id \in InIds, NEW kind \in Responses, InjectResponse(id, kind)
        PROVE  EventsInv'
    <2>1. /\ id \in seen /\ pc = "rest" /\ pc' = "rest"
          /\ given' = [given EXCEPT ![id] = Append(@, kind)]
          /\ UNCHANGED <<events_out, current_inbound_substream_id, goodbyes, seen>>
      BY Zenon, <1>3 DEF InjectResponse, pollVars
    <2>2. OnlyAt(id)
      BY Zenon, <1>3 DEF InjectResponse, SetState, StartSend, TypeIn, OnlyAt
    <2>3. TypeEvents'
      BY <2>1 DEF EventsInv, TypeEvents
    <2>4. Fresh' /\ Undelivered'
      BY Zenon, <2>1, <2>2 DEF EventsInv, Fresh, Undelivered, OnlyAt
    <2>5. \A k \in DOMAIN events_out :
              events_out[k] # 0 => events_out[k] \in InIds \ {id}
      BY SMTT(40), <2>1 DEF EventsInv, Undelivered, TypeEvents, InIds
    <2>6. HandedOverWhileAnswerable'
      BY SMTT(40), <2>1, <2>2, <2>5 DEF EventsInv, HandedOverWhileAnswerable, OnlyAt
    <2>7. QED
      BY Zenon, <2>3, <2>4, <2>6 DEF EventsInv
  <1>4. CASE PollEventsOut
    <2> DEFINE h == Head(events_out)
    <2>1. /\ pc = "rest" /\ pc' = "rest" /\ events_out # <<>>
          /\ events_out' = Tail(events_out)
          /\ seen' = seen \cup ({h} \ {0})
          /\ UNCHANGED <<inbound_substreams, wire, current_inbound_substream_id,
                         goodbyes, given>>
      BY Zenon, <1>4 DEF PollEventsOut, pollVars, inVars
    <2>2. /\ 1 \in DOMAIN events_out /\ h = events_out[1] /\ h \in 0..MaxInbound
          /\ events_out' \in Seq(0..MaxInbound)
          /\ \A k \in DOMAIN events_out' : /\ k + 1 \in DOMAIN events_out
                                           /\ k + 1 # 1
                                           /\ events_out'[k] = events_out[k + 1]
      BY SMTT(20), <2>1 DEF EventsInv, TypeEvents
    <2> HIDE DEF h
    <2>a. {h} \ {0} \subseteq InIds
      BY <2>2 DEF InIds
    <2>3. TypeEvents'
      BY Zenon, <2>1, <2>2, <2>a DEF EventsInv, TypeEvents
    <2>4. Fresh'
      BY SMTT(40), <2>1, <2>2 DEF EventsInv, Fresh, Undelivered, TypeEvents, InIds
    <2>5. \A k \in DOMAIN events_out' : events_out'[k] # 0 => events_out'[k] # h
      BY Zenon, <2>2 DEF EventsInv, HandedOverWhileAnswerable
    <2>6. Undelivered'
      BY Zenon, <2>1, <2>2, <2>5 DEF EventsInv, Undelivered
    <2>7. HandedOverWhileAnswerable'
      <3> SUFFICES ASSUME NEW k \in DOMAIN events_out', events_out'[k] # 0
                   PROVE  /\ inbound_substreams'[events_out'[k]].st = "Idle"
                          /\ inbound_substreams'[events_out'[k]].key
                          /\ wire'[events_out'[k]] = <<>>
                          /\ \A j \in DOMAIN events_out' :
                                 events_out'[j] = events_out'[k] => j = k
        BY Zenon DEF HandedOverWhileAnswerable
      <3>1. k \in Int /\ \A j \in DOMAIN events_out' : j \in Int
        BY <2>2
      <3>2. \A j \in DOMAIN events_out' :
                events_out'[j] = events_out'[k] => j + 1 = k + 1
        BY SMTT(40), <2>2 DEF EventsInv, HandedOverWhileAnswerable
      <3>3. QED
        BY SMTT(40), <2>1, <2>2, <3>1, <3>2 DEF EventsInv, HandedOverWhileAnswerable
    <2>8. QED
      BY Zenon, <2>3, <2>4, <2>6, <2>7 DEF EventsInv
  <1>5. ASSUME NEW id \in InIds, \/ PurgeInbound(id)
                                \/ InboundSent(id) \/ InboundSendError(id)
                                \/ InboundIdle(id) \/ InboundClosed(id)
        PROVE  EventsInv'
    <2>1. pc # "rest" /\ UNCHANGED eventVars
      BY ZenonT(40), <1>5 DEF PurgeInbound, InboundSent, InboundSendError, InboundIdle,
                  InboundClosed, Driving
    <2>2. id \in InPresent
      BY ZenonT(40), <1>5 DEF PurgeInbound, InboundSent, InboundSendError, InboundIdle,
                  InboundClosed, InPresent, InboundTimersMatch
    <2>3. OnlyAt(id)
      BY ZenonT(40), <1>5, <2>2, OnlyAtStep DEF PurgeInbound, InboundSent,
                  InboundSendError, InboundIdle, InboundClosed
    <2>4. QED
      BY Zenon, <2>1, <2>2, <2>3, EventsInLoops
  <1>6. ASSUME \/ BeginInbound \/ BeginOutbound \/ PollDial
               \/ \E id \in InIds : InboundNotReady(id)
               \/ \E r \in Requests : PurgeOutbound(r)
               \/ \E id \in Ids : \/ \E error \in BOOLEAN : OutboundResponse(id, error)
                                  \/ OutboundEnd(id) \/ OutboundError(id)
                                  \/ OutboundClosed(id) \/ OutboundNotReady(id)
        PROVE  EventsInv'
    <2>1. pc # "rest" /\ UNCHANGED <<eventVars, inbound_substreams, wire>>
      BY ZenonT(40), <1>6 DEF BeginInbound, BeginOutbound, PollDial, InboundNotReady,
                  PurgeOutbound, OutboundResponse, OutboundEnd, OutboundError,
                  OutboundClosed, OutboundNotReady, Driving, DrivingOut, inVars
    <2>2. QED
      BY Zenon, <2>1, EventsInLoops
  <1>7. ASSUME \/ PollPendingError \/ PollBegin \/ Deadline
               \/ \E r \in Requests : \/ InjectRequest(r)
                                      \/ InjectFullyNegotiatedOutbound(r)
                                      \/ \E io \in BOOLEAN : InjectDialUpgradeError(r, io)
        PROVE  EventsInv'
    <2>1. /\ pc = "rest" /\ pc' \in {"rest", "timers"}
          /\ pc' = "timers" => events_out = <<>>
          /\ UNCHANGED <<eventVars, inbound_substreams, wire>>
      BY ZenonT(40), <1>7 DEF PollPendingError, PollBegin, Deadline, InboundDeadline,
                  OutboundDeadline, InjectRequest, InjectDialUpgradeError,
                  InjectFullyNegotiatedOutbound, inVars, pollVars
    <2>2. QED
      BY Zenon, <2>1, EventsAtRest
  <1>8. CASE UNCHANGED vars
    BY ZenonT(40), <1>8 DEF vars, eventVars, inVars, pollVars, EventsInv, TypeEvents, Fresh,
                Undelivered, HandedOverWhileAnswerable
  <1>9. QED
    BY Zenon, <1>1, <1>2, <1>3, <1>4, <1>5, <1>6, <1>7, <1>8 DEF Next, PollStep, Callback

-----------------------------------------------------------------------------
\* Only these actions report on a request.
LEMMA ReportsFrame ==
    ASSUME [Next]_vars
    PROVE  \/ PollPendingError
           \/ \E r \in Requests : PurgeOutbound(r)
           \/ \E id \in Ids : \/ \E error \in BOOLEAN : OutboundResponse(id, error)
                              \/ OutboundEnd(id) \/ OutboundError(id)
           \/ UNCHANGED reports
  BY ZenonT(40) DEF Next, vars, PollStep, Callback, Deadline, PollEventsOut, PollBegin,
         PurgeInbound, BeginInbound, InboundSent, InboundSendError,
         InboundIdle, InboundClosed, InboundNotReady, BeginOutbound,
         OutboundClosed, OutboundNotReady, PollDial, InjectRequest,
         InjectFullyNegotiatedOutbound, InjectDialUpgradeError,
         InjectInboundRequest, InjectInboundGoodbye, InjectResponse,
         InboundDeadline, OutboundDeadline

\* What is reported to the behaviour of a request is a report of its type.
LEMMA ReportsStep ==
    TypeDial /\ TypeOut /\ TypeReports /\ [Next]_vars => TypeReports'
  <1> SUFFICES ASSUME TypeDial, TypeOut, TypeReports, [Next]_vars
               PROVE  TypeReports'
    BY Zenon
  <1>1. ASSUME NEW r \in Requests, NEW what \in Report, Tell(r, what)
        PROVE  TypeReports'
    BY <1>1 DEF TypeReports, Tell
  <1>2. CASE PollPendingError
    BY Zenon, <1>1, <1>2 DEF PollPendingError, TypeDial, Report
  <1>3. ASSUME NEW r \in Requests, PurgeOutbound(r)
        PROVE  TypeReports'
    BY Zenon, <1>1, <1>3 DEF PurgeOutbound, Report
  <1>4. ASSUME NEW id \in Ids,
               \/ \E error \in BOOLEAN : OutboundResponse(id, error)
               \/ OutboundEnd(id) \/ OutboundError(id)
        PROVE  TypeReports'
    <2>1. outbound_substreams[id] \in OutState
      BY Zenon DEF TypeOut
    <2>2. DrivingOut(id, "Pending")
      BY Zenon, <1>4 DEF OutboundResponse, OutboundEnd, OutboundError
    <2>3. outbound_substreams[id].req \in Requests
      BY SMTT(40), <2>1, <2>2 DEF DrivingOut, OutState, OutAbsent
    <2>4. QED
      BY Zenon, <1>1, <1>4, <2>3 DEF OutboundResponse, OutboundEnd, OutboundError, Report
  <1>5. CASE UNCHANGED reports
    BY Zenon, <1>5 DEF TypeReports
  <1>6. QED
    BY Zenon, <1>2, <1>3, <1>4, <1>5, ReportsFrame

-----------------------------------------------------------------------------
\* The inductive invariant: the types and the safety properties, with what the
\* proofs of the inbound half need to know of poll() (Quiet) and of ids that are
\* fresh or undelivered.
IInv ==
    /\ TypeOK
    /\ DialAccounting
    /\ OutboundKeysArmed
    /\ InboundTimersMatch
    /\ PollInv
    /\ EventsInv

\* A handler that has just been made satisfies the invariant.
LEMMA InitIInv == Init => IInv
  <1> SUFFICES ASSUME Init
               PROVE  IInv
    BY Zenon
  <1> USE HandlerAssumption DEF Init
  <1>1. TypeDial /\ DialAccounting
    BY SMTT(40), FS_EmptySet DEF TypeDial, DialAccounting
  <1>2. TypeOut /\ OutboundKeysArmed
    BY Zenon DEF TypeOut, OutState, OutAbsent, OutboundKeysArmed, OutPresent
  <1>3. TypeIn /\ InboundTimersMatch
    BY SMTT(40) DEF TypeIn, InState, InAbsent, InboundTimersMatch
  <1>4. PollInv
    BY SMTT(40) DEF PollInv, TypePoll, NoVacantEntry, Quiet
  <1>5. EventsInv
    BY SMTT(40) DEF EventsInv, TypeEvents, Fresh, Undelivered, HandedOverWhileAnswerable,
           InAbsent
  <1>6. TypeReports
    BY SMTT(40) DEF TypeReports
  <1>7. QED
    BY Zenon, <1>1, <1>2, <1>3, <1>4, <1>5, <1>6 DEF IInv, TypeOK, PollInv, EventsInv

\* Every inject_* callback and every part of poll() preserves the invariant.
LEMMA NextIInv == IInv /\ [Next]_vars => IInv'
  BY Zenon, DialStep, OutStep, InStep, PollStepInv, EventsStep, ReportsStep
     DEF IInv, TypeOK, PollInv, EventsInv

\* The invariant holds of every reachable state of the handler.
LEMMA Invariance == Spec => []IInv
  BY InitIInv, NextIInv, PTL DEF Spec

-----------------------------------------------------------------------------
(* The theorems.                                                           *)

\* Type correctness: in particular dial_negotiated never wraps below zero and
\* outbound_io_error_retries stays under IO_ERROR_RETRIES.
THEOREM TypeCorrect == Spec => []TypeOK
  <1>1. IInv => TypeOK
    BY Zenon DEF IInv
  <1>2. QED
    BY <1>1, Invariance, PTL

\* At most max_dial_negotiated negotiations are in flight, and each of them is
\* counted.
THEOREM DialCorrect == Spec => []DialAccounting
  <1>1. IInv => DialAccounting
    BY Zenon DEF IInv
  <1>2. QED
    BY <1>1, Invariance, PTL

\* No inbound delay key outlives its timer and no timer its substream, so
\* DelayQueue::remove never panics for an inbound substream.
THEOREM InboundTimersCorrect == Spec => []InboundTimersMatch
  <1>1. IInv => InboundTimersMatch
    BY Zenon DEF IInv
  <1>2. QED
    BY <1>1, Invariance, PTL

\* The delay key of every stored outbound substream is armed, for any choice of
\* ids, so DelayQueue::remove and reset never panic for an outbound substream.
THEOREM OutboundKeysCorrect == Spec => []OutboundKeysArmed
  <1>1. IInv => OutboundKeysArmed
    BY Zenon DEF IInv
  <1>2. QED
    BY <1>1, Invariance, PTL

\* The Entry::Vacant arms of poll() are unreachable.
THEOREM NoVacantCorrect == Spec => []NoVacantEntry
  <1>1. IInv => NoVacantEntry
    BY Zenon DEF IInv, PollInv
  <1>2. QED
    BY <1>1, Invariance, PTL

\* Every inbound request reaches the application while it can be answered.
THEOREM HandOverCorrect == Spec => []HandedOverWhileAnswerable
  <1>1. IInv => HandedOverWhileAnswerable
    BY Zenon DEF IInv, EventsInv
  <1>2. QED
    BY <1>1, Invariance, PTL

\* poll() never panics: its counters keep their types, the keys it gives to a DelayQueue
\* are armed, and it meets no vacant entry.
THEOREM NoPanicCorrect == Spec => []NoPanic
BY TypeCorrect, InboundTimersCorrect, OutboundKeysCorrect, NoVacantCorrect, PTL DEF NoPanic

-----------------------------------------------------------------------------
\* Only a negotiated request adds an outbound substream.
LEMMA OutPresentShrinks ==
    ASSUME TypeOut, [Next]_vars,
           ~\E r \in Requests : InjectFullyNegotiatedOutbound(r)
    PROVE  OutPresent' \subseteq OutPresent
  <1> USE HandlerAssumption DEF TypeOut, OutState, OutAbsent, OutPresent
  <1>1. ASSUME NEW r \in Requests, OutboundDeadline(r) \/ PurgeOutbound(r)
        PROVE  OutPresent' \subseteq OutPresent
    BY Zenon, <1>1 DEF OutboundDeadline, PurgeOutbound
  <1>2. ASSUME NEW id \in Ids, NEW error \in BOOLEAN, OutboundResponse(id, error)
        PROVE  OutPresent' \subseteq OutPresent
    BY Zenon, <1>2 DEF OutboundResponse, CloseOutbound, DrivingOut
  <1>3. ASSUME NEW id \in Ids, OutboundEnd(id) \/ OutboundError(id) \/ OutboundClosed(id)
        PROVE  OutPresent' \subseteq OutPresent
    <2>1. RemoveOutbound(id)
      BY Zenon, <1>3 DEF OutboundEnd, OutboundError, OutboundClosed
    <2>2. QED
      BY Zenon, <2>1 DEF RemoveOutbound
  <1>4. CASE UNCHANGED outVars
    BY Zenon, <1>4 DEF outVars
  <1>5. QED
    BY Zenon, <1>1, <1>2, <1>3, <1>4, OutFrame

\* When the only negotiation that is counted completes, no other is in flight: failed
\* ones stay counted, none goes uncounted.
LEMMA LetGoNegotiated ==
    ASSUME IInv, LetGoWhenQuiet, NEW r \in Requests, InjectFullyNegotiatedOutbound(r)
    PROVE  LetGoWhenQuiet'
  <1> USE HandlerAssumption
  <1>1. /\ r \in negotiating /\ negotiating' = negotiating \ {r}
        /\ dial_queue' = dial_queue
        /\ keep_alive' = IF dial_negotiated = 1 /\ dial_queue = <<>> /\ OutPresent = {}
                         THEN "Until" ELSE "Yes"
    BY Zenon DEF InjectFullyNegotiatedOutbound
  <1>2. SUFFICES ASSUME keep_alive' = "Until"
                 PROVE  negotiating' = {} /\ \A i, j \in OutPresent' : i = j
    BY Zenon, <1>1 DEF LetGoWhenQuiet
  <1>3. dial_negotiated = 1 /\ OutPresent = {}
    BY Zenon, <1>1, <1>2
  <1>4. negotiating' = {}
    <2>1. IsFiniteSet(negotiating) /\ negotiating \subseteq Requests
      BY Zenon, FS_Subset DEF IInv, TypeOK, TypeDial
    <2>2. /\ IsFiniteSet(negotiating \ {r})
          /\ Cardinality(negotiating \ {r}) = Cardinality(negotiating) - 1
      BY ZenonT(40), <1>1, <2>1, FS_RemoveElement
    <2>3. Cardinality(negotiating) <= 1 /\ Cardinality(negotiating) \in Nat
      BY Zenon, <1>3, <2>1, FS_CardinalityType DEF IInv, DialAccounting
    <2>4. Cardinality(negotiating \ {r}) = 0
      BY <2>2, <2>3, FS_CardinalityType
    <2>5. QED
      BY Zenon, <1>1, <2>2, <2>4, FS_EmptySet
  <1>5. OutPresent' \subseteq {IdOf[r]}
    BY Zenon, <1>3 DEF IInv, TypeOK, TypeOut, OutState, OutPresent, InjectFullyNegotiatedOutbound
  <1>6. QED
    BY Zenon, <1>4, <1>5

\* keep_alive becomes Until only when the last request has been negotiated, and no step
\* queues or negotiates another one without making it Yes.
LEMMA LetGoStep == IInv /\ LetGoWhenQuiet /\ [Next]_vars => LetGoWhenQuiet'
  <1> SUFFICES ASSUME IInv, LetGoWhenQuiet, [Next]_vars
               PROVE  LetGoWhenQuiet'
    BY Zenon
  <1>1. CASE \E r \in Requests : InjectFullyNegotiatedOutbound(r)
    BY Zenon, <1>1, LetGoNegotiated
  <1>2. CASE ~\E r \in Requests : InjectFullyNegotiatedOutbound(r)
    <2>1. OutPresent' \subseteq OutPresent
      BY Zenon, <1>2, OutPresentShrinks DEF IInv, TypeOK
    <2>2. keep_alive' = "Until" =>
              keep_alive = "Until" /\ dial_queue' = <<>> /\ negotiating' = {}
      <3>1. ASSUME NEW r \in Requests,
                   InjectRequest(r) \/ \E io \in BOOLEAN : InjectDialUpgradeError(r, io),
                   keep_alive' = "Until"
            PROVE  keep_alive = "Until" /\ dial_queue' = <<>> /\ negotiating' = {}
        BY Zenon, <3>1 DEF InjectRequest, InjectDialUpgradeError, send_request, LetGoWhenQuiet
      <3>2. CASE PollPendingError
        BY Zenon, <3>2 DEF PollPendingError, LetGoWhenQuiet
      <3>3. CASE PollDial
        BY Zenon, <3>3 DEF PollDial, CanDial, LetGoWhenQuiet
      <3>4. CASE UNCHANGED dialVars
        BY Zenon, <3>4 DEF dialVars, LetGoWhenQuiet
      <3>5. QED
        BY Zenon, <1>2, <3>1, <3>2, <3>3, <3>4, DialFrame
    <2>3. QED
      BY Zenon, <2>1, <2>2 DEF LetGoWhenQuiet
  <1>3. QED
    BY Zenon, <1>1, <1>2

\* keep_alive becomes Until only when no request waits to be dialled or is negotiated:
\* the connection is never let go from under a request that is on its way.
THEOREM LetGoCorrect == Spec => []LetGoWhenQuiet
  <1>1. Init => LetGoWhenQuiet
    BY Zenon DEF Init, LetGoWhenQuiet
  <1>2. QED
    BY <1>1, LetGoStep, Invariance, PTL DEF Spec

-----------------------------------------------------------------------------
(* Outbound requests: where each one waits, and what is reported of it.    *)

\* A request that was asked and not opened waits in one place at most: queued for
\* dialling, negotiated, or failed and about to be reported.
Queued(r) == \E k \in DOMAIN dial_queue : dial_queue[k] = r
Early(r) == Queued(r) \/ r \in negotiating \/ pending_error = r
OnePlace ==
    /\ \A j, k \in DOMAIN dial_queue : dial_queue[j] = dial_queue[k] => j = k
    /\ \A r \in negotiating : ~Queued(r)
    /\ pending_error # NoRequest =>
           ~Queued(pending_error) /\ pending_error \notin negotiating
    /\ \A r \in Requests : Early(r) => r \in asked

\* Until then nothing is reported of it, and it has neither substream nor timer.
Untold ==
    \A r \in Requests :
        Early(r) \/ r \notin asked => reports[r] = <<>> /\ r \notin opened

\* Timers belong to opened requests, and elapse while they are armed.
TimersOpened ==
    /\ out_elapsed \subseteq outbound_substreams_delay
    /\ outbound_substreams_delay \subseteq opened

\* While its timer is armed a request has had chunks, then at most one final
\* response; the substream is Closing once that response came, and only then.
OnlyChunks(r) == \A k \in DOMAIN reports[r] : reports[r][k] = "Chunk"
HasFinal(r) == \E k \in DOMAIN reports[r] : reports[r][k] = "Final"
Told ==
    /\ \A r \in outbound_substreams_delay : \A k \in DOMAIN reports[r] :
           \/ reports[r][k] = "Chunk"
           \/ reports[r][k] = "Final" /\ k = Len(reports[r])
    /\ \A id \in OutPresent :
           /\ outbound_substreams[id].st = "Pending"
                  => OnlyChunks(outbound_substreams[id].req)
           /\ outbound_substreams[id].st = "Closing"
                  => HasFinal(outbound_substreams[id].req)

RequestInv == OnePlace /\ Untold /\ TimersOpened /\ Told

\* What send_request does to the set of queued requests.
LEMMA QueueAppend ==
    ASSUME dial_queue \in Seq(Requests), NEW r \in Requests,
           dial_queue' = Append(dial_queue, r)
    PROVE  /\ \A q : Queued(q)' <=> Queued(q) \/ q = r
           /\ \A k \in DOMAIN dial_queue' :
                  \/ k \in DOMAIN dial_queue /\ dial_queue'[k] = dial_queue[k]
                  \/ k = Len(dial_queue) + 1 /\ dial_queue'[k] = r
  <1>1. /\ \A k \in DOMAIN dial_queue : k \in DOMAIN dial_queue' /\ dial_queue'[k] = dial_queue[k]
        /\ Len(dial_queue) + 1 \in DOMAIN dial_queue'
        /\ dial_queue'[Len(dial_queue) + 1] = r
    OBVIOUS
  <1>2. \A k \in DOMAIN dial_queue' :
            \/ k \in DOMAIN dial_queue /\ dial_queue'[k] = dial_queue[k]
            \/ k = Len(dial_queue) + 1 /\ dial_queue'[k] = r
    OBVIOUS
  <1>3. QED
    BY Zenon, <1>1, <1>2 DEF Queued

\* What dialling its head does to the set of queued requests.
LEMMA QueueTail ==
    ASSUME dial_queue \in Seq(Requests), dial_queue # <<>>,
           \A j, k \in DOMAIN dial_queue : dial_queue[j] = dial_queue[k] => j = k,
           dial_queue' = Tail(dial_queue)
    PROVE  /\ Queued(Head(dial_queue))
           /\ \A q : Queued(q)' <=> Queued(q) /\ q # Head(dial_queue)
           /\ \A j, k \in DOMAIN dial_queue' : dial_queue'[j] = dial_queue'[k] => j = k
  <1>1. 1 \in DOMAIN dial_queue /\ Head(dial_queue) = dial_queue[1]
    OBVIOUS
  <1>2. \A k \in DOMAIN dial_queue' :
            k + 1 \in DOMAIN dial_queue /\ k + 1 # 1 /\ dial_queue'[k] = dial_queue[k + 1]
    OBVIOUS
  <1>3. \A k \in DOMAIN dial_queue : k # 1 =>
            k - 1 \in DOMAIN dial_queue' /\ dial_queue'[k - 1] = dial_queue[k]
    OBVIOUS
  <1>4. \A j, k \in DOMAIN dial_queue' : dial_queue'[j] = dial_queue'[k] => j = k
    <2>1. \A j, k \in DOMAIN dial_queue' : dial_queue'[j] = dial_queue'[k] => j + 1 = k + 1
      BY <1>2
    <2>2. \A j \in DOMAIN dial_queue' : j \in Int
      OBVIOUS
    <2>3. QED
      BY <2>1, <2>2
  <1>5. \A q : Queued(q)' => Queued(q) /\ q # Head(dial_queue)
    BY <1>1, <1>2 DEF Queued
  <1>6. \A q : Queued(q) /\ q # Head(dial_queue) => Queued(q)'
    BY Zenon, <1>1, <1>3 DEF Queued
  <1>7. QED
    BY Zenon, <1>1, <1>4, <1>5, <1>6 DEF Queued

\* A request goes from one waiting place to the next: it is never in two.
LEMMA OnePlaceStep ==
    TypeDial /\ OnePlace /\ [Next]_vars => OnePlace'
  <1> SUFFICES ASSUME TypeDial, OnePlace, [Next]_vars
               PROVE  OnePlace'
    BY Zenon
  <1>t. /\ dial_queue \in Seq(Requests) /\ negotiating \subseteq Requests
        /\ pending_error \in Requests \cup {NoRequest}
        /\ NoRequest \notin Requests
    BY Zenon, HandlerAssumption DEF TypeDial
  <1>d. \A k \in DOMAIN dial_queue : dial_queue[k] \in Requests /\ k # Len(dial_queue) + 1
    BY <1>t
  <1>1. ASSUME NEW r \in Requests, dial_queue' = Append(dial_queue, r), ~Queued(r)
        PROVE  /\ \A q : Queued(q)' <=> Queued(q) \/ q = r
               /\ \A j, k \in DOMAIN dial_queue' : dial_queue'[j] = dial_queue'[k] => j = k
    <2>1. /\ \A q : Queued(q)' <=> Queued(q) \/ q = r
          /\ \A k \in DOMAIN dial_queue' :
                  \/ k \in DOMAIN dial_queue /\ dial_queue'[k] = dial_queue[k]
                  \/ k = Len(dial_queue) + 1 /\ dial_queue'[k] = r
      BY Zenon, <1>t, <1>1, QueueAppend
    <2>2. QED
      BY <1>1, <2>1 DEF OnePlace, Queued
  <1>2. ASSUME NEW r \in Requests, InjectRequest(r)
        PROVE  OnePlace'
    <2>1. /\ dial_queue' = Append(dial_queue, r) /\ r \notin asked
          /\ asked' = asked \cup {r}
          /\ UNCHANGED <<negotiating, pending_error>>
      BY Zenon, <1>2 DEF InjectRequest, send_request
    <2>2. ~Early(r)
      BY Zenon, <2>1 DEF OnePlace
    <2>3. QED
      BY Zenon, <1>1, <2>1, <2>2, <1>t DEF OnePlace, Early
  <1>3. ASSUME NEW r \in Requests, InjectFullyNegotiatedOutbound(r)
        PROVE  OnePlace'
    <2>1. UNCHANGED <<dial_queue, pending_error, asked>> /\ negotiating' = negotiating \ {r}
      BY Zenon, <1>3 DEF InjectFullyNegotiatedOutbound
    <2>2. QED
      BY Zenon, <2>1 DEF OnePlace, Early, Queued
  <1>4. ASSUME NEW r \in Requests, NEW io \in BOOLEAN, InjectDialUpgradeError(r, io)
        PROVE  OnePlace'
    <2>1. /\ r \in negotiating /\ negotiating' = negotiating \ {r} /\ asked' = asked
          /\ \/ dial_queue' = Append(dial_queue, r) /\ pending_error' = pending_error
             \/ /\ dial_queue' = dial_queue
                /\ pending_error' = IF pending_error = NoRequest THEN r ELSE pending_error
      BY Zenon, <1>4 DEF InjectDialUpgradeError, send_request, add_error
    <2>2. ~Queued(r) /\ r \in asked /\ r # pending_error
      BY Zenon, <1>t, <2>1 DEF OnePlace, Early
    <2>3. CASE dial_queue' = Append(dial_queue, r) /\ pending_error' = pending_error
      BY Zenon, <1>1, <2>1, <2>2, <2>3, <1>t DEF OnePlace, Early
    <2>4. CASE /\ dial_queue' = dial_queue
               /\ pending_error' = IF pending_error = NoRequest THEN r ELSE pending_error
      BY Zenon, <2>1, <2>2, <2>4, <1>t DEF OnePlace, Early, Queued
    <2>5. QED
      BY Zenon, <2>1, <2>3, <2>4
  <1>5. CASE PollPendingError
    <2>1. UNCHANGED <<dial_queue, negotiating, asked>> /\ pending_error' = NoRequest
      BY Zenon, <1>5 DEF PollPendingError
    <2>2. QED
      BY Zenon, <2>1, <1>t DEF OnePlace, Early, Queued
  <1>6. CASE PollDial
    <2>1. CASE CanDial
      <3> DEFINE h == Head(dial_queue)
      <3>1. /\ dial_queue' = Tail(dial_queue) /\ negotiating' = negotiating \cup {h}
            /\ UNCHANGED <<pending_error, asked>> /\ dial_queue # <<>>
        BY Zenon, <1>6, <2>1 DEF PollDial, CanDial
      <3>2. /\ Queued(h)
            /\ \A q : Queued(q)' <=> Queued(q) /\ q # h
            /\ \A j, k \in DOMAIN dial_queue' : dial_queue'[j] = dial_queue'[k] => j = k
        BY Zenon, <1>t, <3>1, QueueTail DEF OnePlace
      <3> HIDE DEF h
      <3>a. h \in Requests
        BY Zenon, <1>d, <3>2 DEF Queued
      <3>b. pending_error # h
        BY Zenon, <3>a, <1>t, <3>2 DEF OnePlace
      <3>3. h \in Requests /\ h \in asked /\ h # pending_error
        BY Zenon, <3>a, <3>b, <3>2 DEF OnePlace, Early
      <3>4. QED
        BY Zenon, <3>1, <3>2, <3>3 DEF OnePlace, Early
    <2>2. CASE ~CanDial
      <3>1. UNCHANGED <<dial_queue, negotiating, pending_error, asked>>
        BY Zenon, <1>6, <2>2 DEF PollDial
      <3>2. QED
        BY Zenon, <3>1 DEF OnePlace, Early, Queued
    <2>3. QED
      BY Zenon, <2>1, <2>2
  <1>7. CASE UNCHANGED dialVars
    BY Zenon, <1>7 DEF dialVars, OnePlace, Early, Queued
  <1>8. QED
    BY Zenon, <1>2, <1>3, <1>4, <1>5, <1>6, <1>7, DialFrame

-----------------------------------------------------------------------------
\* Only these actions touch the requests and what is reported of them.
LEMMA RequestFrame ==
    ASSUME [Next]_vars
    PROVE  \/ \E r \in Requests : \/ InjectRequest(r)
                                  \/ InjectFullyNegotiatedOutbound(r)
                                  \/ \E io \in BOOLEAN : InjectDialUpgradeError(r, io)
                                  \/ OutboundDeadline(r)
                                  \/ PurgeOutbound(r)
           \/ PollPendingError
           \/ PollDial
           \/ \E id \in Ids : \/ \E error \in BOOLEAN : OutboundResponse(id, error)
                              \/ OutboundEnd(id) \/ OutboundError(id)
                              \/ OutboundClosed(id)
           \/ UNCHANGED <<dialVars, outVars, reports>>
  BY ZenonT(40) DEF Next, vars, PollStep, Callback, Deadline, PollEventsOut, PollBegin,
         PurgeInbound, BeginInbound, InboundSent, InboundSendError, InboundIdle,
         InboundClosed, InboundNotReady, BeginOutbound, OutboundNotReady,
         InjectInboundRequest, InjectInboundGoodbye, InjectResponse, InboundDeadline

\* A report is added behind the earlier ones, and to one request.
LEMMA TellStep ==
    ASSUME TypeReports, NEW r \in Requests, NEW what \in Report, Tell(r, what)
    PROVE  /\ \A q \in Requests : q # r => reports'[q] = reports[q]
           /\ \A k \in DOMAIN reports[r] :
                k \in DOMAIN reports'[r] /\ reports'[r][k] = reports[r][k]
           /\ reports'[r] # <<>>
           /\ \E n \in DOMAIN reports'[r] :
                /\ n = Len(reports'[r]) /\ n \notin DOMAIN reports[r]
                /\ reports'[r][n] = what
                /\ \A k \in DOMAIN reports'[r] : k = n \/ k \in DOMAIN reports[r]
                /\ \A k \in DOMAIN reports'[r] : ~(n < k)
  <1> DEFINE n == Len(reports[r]) + 1
  <1>1. reports[r] \in Seq(Report) /\ reports \in [Requests -> Seq(Report)]
    BY Zenon DEF TypeReports
  <1>2. /\ reports'[r] = Append(reports[r], what)
        /\ \A q \in Requests : q # r => reports'[q] = reports[q]
    BY Zenon, <1>1 DEF Tell
  <1>3. /\ \A k \in DOMAIN reports[r] :
               k \in DOMAIN reports'[r] /\ reports'[r][k] = reports[r][k]
        /\ reports'[r] # <<>>
    <2>1. Append(reports[r], what) \in Seq(Report)
      BY <1>1
    <2>2. Len(reports'[r]) # 0 /\ Len(<<>>) = 0
      BY <1>1, <1>2
    <2>3. \A k \in DOMAIN reports[r] :
              k \in DOMAIN reports'[r] /\ reports'[r][k] = reports[r][k]
      BY <1>1, <1>2, <2>1
    <2>4. QED
      BY Zenon, <2>2, <2>3
  <1>4. /\ n = Len(reports'[r]) /\ n \notin DOMAIN reports[r]
        /\ n \in DOMAIN reports'[r] /\ reports'[r][n] = what
    BY <1>1, <1>2
  <1>5. /\ \A k \in DOMAIN reports'[r] : k = n \/ k \in DOMAIN reports[r]
        /\ \A k \in DOMAIN reports'[r] : ~(n < k)
    BY <1>1, <1>2
  <1> HIDE DEF n
  <1>6. QED
    BY Zenon, <1>2, <1>3, <1>4, <1>5

\* A last report after chunks only, or a timeout after the final response too, is in
\* order.
LEMMA TellAfter ==
    ASSUME TypeReports, NothingAfterFinal, NEW r \in Requests, NEW what \in Report,
           Tell(r, what),
           \A k \in DOMAIN reports[r] :
               \/ reports[r][k] = "Chunk"
               \/ reports[r][k] = "Final" /\ what = "TimedOut"
    PROVE  NothingAfterFinal'
  <1>1. /\ \A q \in Requests : q # r => reports'[q] = reports[q]
        /\ \A k \in DOMAIN reports[r] :
               k \in DOMAIN reports'[r] /\ reports'[r][k] = reports[r][k]
    BY Zenon, TellStep
  <1>2. PICK n \in DOMAIN reports'[r] :
            /\ reports'[r][n] = what
            /\ \A k \in DOMAIN reports'[r] : k = n \/ k \in DOMAIN reports[r]
            /\ \A k \in DOMAIN reports'[r] : ~(n < k)
    BY Zenon, TellStep
  <1>3. ASSUME NEW j \in DOMAIN reports'[r], NEW k \in DOMAIN reports'[r], j < k
        PROVE  /\ reports'[r][j] \in {"Chunk", "Final"}
               /\ reports'[r][j] = "Final" => reports'[r][k] = "TimedOut"
    <2>1. j \in DOMAIN reports[r]
      BY Zenon, <1>2, <1>3
    <2>2. CASE k = n
      BY Zenon, <1>1, <1>2, <2>1, <2>2
    <2>3. CASE k \in DOMAIN reports[r]
      BY Zenon, <1>1, <1>3, <2>1, <2>3 DEF NothingAfterFinal
    <2>4. QED
      BY Zenon, <1>2, <2>2, <2>3
  <1>4. ASSUME NEW q \in Requests, q # r,
               NEW j \in DOMAIN reports'[q], NEW k \in DOMAIN reports'[q], j < k
        PROVE  /\ reports'[q][j] \in {"Chunk", "Final"}
               /\ reports'[q][j] = "Final" => reports'[q][k] = "TimedOut"
    <2>1. reports'[q] = reports[q]
      BY Zenon, <1>1, <1>4
    <2>2. QED
      BY <1>4, <2>1 DEF NothingAfterFinal
  <1>5. QED
    BY <1>3, <1>4 DEF NothingAfterFinal

\* What the proofs below know of a request with a substream.
LEMMA StoredRequest ==
    ASSUME TypeOut, OutboundKeysArmed, TimersOpened, Told, NEW id \in OutPresent
    PROVE  /\ id \in Ids
           /\ outbound_substreams[id].req \in Requests
           /\ outbound_substreams[id].req \in outbound_substreams_delay
           /\ outbound_substreams[id].req \in opened
           /\ IdOf[outbound_substreams[id].req] = id
           /\ outbound_substreams[id].st = "Pending"
                  => OnlyChunks(outbound_substreams[id].req)
           /\ outbound_substreams[id].st = "Closing"
                  => HasFinal(outbound_substreams[id].req)
  BY Zenon DEF OutPresent, OutboundKeysArmed, TimersOpened, Told, TypeOut

\* The reports of a request with a substream, and of one whose timer is armed.
ReportInv == TimersOpened /\ Told /\ NothingAfterFinal /\ DrivenToCompletion

\* Nothing changes of them unless the substreams, the timers or the reports do.
LEMMA ReportUnchanged ==
    ASSUME ReportInv, UNCHANGED <<opened, outVars, reports>>
    PROVE  ReportInv'
  <1>1. /\ opened' = opened /\ reports' = reports /\ out_elapsed' = out_elapsed
        /\ outbound_substreams' = outbound_substreams
        /\ outbound_substreams_delay' = outbound_substreams_delay
    BY Zenon DEF outVars
  <1>2. TimersOpened' /\ NothingAfterFinal'
    BY <1>1 DEF ReportInv, TimersOpened, NothingAfterFinal
  <1>3. Told'
    BY <1>1 DEF ReportInv, Told, OutPresent, OnlyChunks, HasFinal
  <1>4. DrivenToCompletion'
    BY Zenon, <1>1 DEF ReportInv, DrivenToCompletion, Driven
  <1>5. QED
    BY Zenon, <1>2, <1>3, <1>4 DEF ReportInv

\* A request that is opened has had no report, and has its own substream.
LEMMA ReportNegotiated ==
    ASSUME IInv, RequestInv, ReportInv, NEW r \in Requests,
           InjectFullyNegotiatedOutbound(r)
    PROVE  ReportInv'
  <1>1. /\ r \in negotiating /\ UNCHANGED <<out_elapsed, reports>>
        /\ IF expect_response(r)
           THEN /\ opened' = opened \cup {r}
                /\ outbound_substreams_delay' = outbound_substreams_delay \cup {r}
                /\ outbound_substreams' = [outbound_substreams EXCEPT
                       ![IdOf[r]] = [st |-> "Pending", req |-> r]]
           ELSE UNCHANGED <<opened, outbound_substreams_delay, outbound_substreams>>
    BY Zenon DEF InjectFullyNegotiatedOutbound
  <1>2. reports[r] = <<>> /\ DOMAIN reports[r] = {} /\ r \notin opened
    <2>1. reports[r] = <<>> /\ r \notin opened
      BY Zenon, <1>1 DEF RequestInv, Untold, Early
    <2>2. DOMAIN <<>> = {}
      OBVIOUS
    <2>3. QED
      BY Zenon, <2>1, <2>2
  <1>3. CASE expect_response(r)
    <2>1. /\ opened' = opened \cup {r}
          /\ outbound_substreams_delay' = outbound_substreams_delay \cup {r}
          /\ outbound_substreams' = [outbound_substreams EXCEPT
                 ![IdOf[r]] = [st |-> "Pending", req |-> r]]
      BY Zenon, <1>1, <1>3
    <2>2. /\ outbound_substreams'[IdOf[r]] = [st |-> "Pending", req |-> r]
          /\ \A id \in Ids : id # IdOf[r] => outbound_substreams'[id] = outbound_substreams[id]
      BY Zenon, <2>1, HandlerAssumption DEF IInv, TypeOK, TypeOut
    <2>3. TimersOpened' /\ NothingAfterFinal'
      BY Zenon, <1>1, <2>1 DEF ReportInv, TimersOpened, NothingAfterFinal
    <2>4. Told'
      BY <1>1, <1>2, <2>1, <2>2 DEF ReportInv, Told, OutPresent, OnlyChunks, HasFinal
    <2>5. DrivenToCompletion'
      <3>1. ASSUME NEW q \in opened', \A p \in opened' : IdOf[p] = IdOf[q] => p = q, q # r
            PROVE  Driven(q)'
        <4>1. q \in opened /\ IdOf[q] # IdOf[r] /\ Driven(q)
          BY Zenon, <2>1, <3>1 DEF ReportInv, DrivenToCompletion
        <4>2. IdOf[q] \in Ids
          BY Zenon, <4>1, HandlerAssumption DEF IInv, TypeOK, TypeDial
        <4>3. QED
          BY Zenon, <1>1, <2>2, <4>1, <4>2 DEF Driven
      <3>2. Driven(r)'
        BY <2>2 DEF Driven
      <3>3. QED
        BY Zenon, <3>1, <3>2 DEF DrivenToCompletion
    <2>6. QED
      BY Zenon, <2>3, <2>4, <2>5 DEF ReportInv
  <1>4. CASE ~expect_response(r)
    <2>1. UNCHANGED <<opened, outVars, reports>>
      BY Zenon, <1>1, <1>4 DEF outVars
    <2>2. QED
      BY Zenon, <2>1, ReportUnchanged
  <1>5. QED
    BY Zenon, <1>3, <1>4

\* A report leaves what was reported before: a request that is driven stays so as long
\* as its substream does or the report settles it.
LEMMA TellDriven ==
    ASSUME TypeReports, NEW r \in Requests, NEW what \in Report, Tell(r, what),
           NEW q \in Requests
    PROVE  /\ (\E k \in DOMAIN reports[q] : reports[q][k] # "Chunk")
                  => \E k \in DOMAIN reports'[q] : reports'[q][k] # "Chunk"
           /\ HasFinal(q) => HasFinal(q)'
           /\ what # "Chunk" => \E k \in DOMAIN reports'[r] : reports'[r][k] # "Chunk"
           /\ what = "Final" => HasFinal(r)'
  <1>1. /\ q # r => reports'[q] = reports[q]
        /\ \A k \in DOMAIN reports[r] :
               k \in DOMAIN reports'[r] /\ reports'[r][k] = reports[r][k]
        /\ \E n \in DOMAIN reports'[r] : reports'[r][n] = what
    BY ZenonT(40), TellStep
  <1>2. QED
    BY Zenon, <1>1 DEF HasFinal

\* The timer of a request reports it timed out and drops the substream under its id.
LEMMA ReportPurged ==
    ASSUME IInv, ReportInv, NEW r \in Requests, PurgeOutbound(r)
    PROVE  ReportInv'
  <1>1. /\ r \in out_elapsed /\ opened' = opened
        /\ out_elapsed' = out_elapsed \ {r}
        /\ outbound_substreams_delay' = outbound_substreams_delay \ {r}
        /\ outbound_substreams' = [outbound_substreams EXCEPT ![IdOf[r]] = OutAbsent]
        /\ Tell(r, "TimedOut")
    BY Zenon DEF PurgeOutbound, dialVars
  <1>2. /\ TypeReports /\ TypeOut /\ OutboundKeysArmed /\ TimersOpened /\ Told
        /\ IdOf[r] \in Ids /\ "TimedOut" \in Report
    BY Zenon, HandlerAssumption DEF IInv, TypeOK, ReportInv, Report
  <1>3. r \in outbound_substreams_delay /\ r \in opened
    BY Zenon, <1>1, <1>2 DEF TimersOpened
  <1>4. /\ outbound_substreams'[IdOf[r]] = OutAbsent
        /\ \A id \in Ids : id # IdOf[r] => outbound_substreams'[id] = outbound_substreams[id]
    BY Zenon, <1>1, <1>2 DEF TypeOut
  <1>5. \A id \in OutPresent' : /\ id \in OutPresent /\ id # IdOf[r]
                                /\ outbound_substreams'[id] = outbound_substreams[id]
                                /\ outbound_substreams[id].req # r
                                /\ outbound_substreams[id].req \in Requests
    <2>1. \A id \in OutPresent' : id \in Ids /\ id # IdOf[r] /\ id \in OutPresent
      BY <1>4 DEF OutPresent, OutAbsent
    <2>2. QED
      BY Zenon, <1>2, <1>4, <2>1, StoredRequest
  <1>6. \A q \in Requests : q # r => reports'[q] = reports[q]
    BY Zenon, <1>1, <1>2, TellStep
  <1>7. TimersOpened'
    BY Zenon, <1>1, <1>2 DEF TimersOpened
  <1>8. NothingAfterFinal'
    BY Zenon, <1>1, <1>2, <1>3, TellAfter DEF ReportInv, Told
  <1>9. Told'
    <2>1. \A q \in outbound_substreams_delay' : q \in outbound_substreams_delay /\ reports'[q] = reports[q]
      BY Zenon, <1>1, <1>2, <1>6 DEF TypeOut
    <2>2. \A id \in OutPresent' : reports'[outbound_substreams'[id].req] = reports[outbound_substreams[id].req]
      BY Zenon, <1>5, <1>6
    <2>3. QED
      BY <1>2, <1>5, <2>1, <2>2 DEF Told, OnlyChunks, HasFinal
  <1>10. DrivenToCompletion'
    <2>1. ASSUME NEW q \in opened', \A p \in opened' : IdOf[p] = IdOf[q] => p = q
          PROVE  Driven(q)'
      <3>1. Driven(q) /\ q \in Requests /\ IdOf[q] \in Ids
        BY Zenon, <1>1, <2>1, HandlerAssumption DEF ReportInv, DrivenToCompletion, IInv, TypeOK, TypeDial
      <3>2. CASE q = r
        BY Zenon, <1>1, <1>2, <3>2, TellDriven DEF Driven
      <3>3. CASE q # r
        <4>1. IdOf[q] # IdOf[r]
          BY Zenon, <1>1, <1>3, <2>1, <3>3
        <4>2. outbound_substreams'[IdOf[q]] = outbound_substreams[IdOf[q]] /\ reports'[q] = reports[q]
          BY Zenon, <1>4, <1>6, <3>1, <3>3, <4>1
        <4>3. QED
          BY Zenon, <3>1, <4>2 DEF Driven
      <3>4. QED
        BY Zenon, <3>2, <3>3
    <2>2. QED
      BY Zenon, <2>1 DEF DrivenToCompletion
  <1>11. QED
    BY Zenon, <1>7, <1>8, <1>9, <1>10 DEF ReportInv

\* The peer ends or breaks off a stream that had only chunks, or the stream is closed
\* after its final response.
LEMMA ReportRemoved ==
    ASSUME IInv, ReportInv, NEW id \in OutPresent, RemoveOutbound(id), opened' = opened,
           \/ UNCHANGED reports /\ outbound_substreams[id].st = "Closing"
           \/ /\ outbound_substreams[id].st = "Pending"
              /\ \E what \in Report \ {"Chunk"} : Tell(outbound_substreams[id].req, what)
    PROVE  ReportInv'
  <1> DEFINE r == outbound_substreams[id].req
  <1>1. /\ TypeReports /\ TypeOut /\ OutboundKeysArmed /\ TimersOpened /\ Told
        /\ NothingAfterFinal /\ DrivenToCompletion
    BY Zenon DEF IInv, TypeOK, ReportInv
  <1>2. /\ id \in Ids /\ r \in Requests /\ r \in opened /\ IdOf[r] = id
        /\ outbound_substreams[id].st = "Pending" => OnlyChunks(r)
        /\ outbound_substreams[id].st = "Closing" => HasFinal(r)
    BY Zenon, <1>1, StoredRequest
  <1>3. /\ outbound_substreams_delay' = outbound_substreams_delay \ {r}
        /\ outbound_substreams' = [outbound_substreams EXCEPT ![id] = OutAbsent]
        /\ out_elapsed' = out_elapsed \ {r}
    BY Zenon DEF RemoveOutbound
  <1> HIDE DEF r
  <1>4. /\ outbound_substreams'[id] = OutAbsent
        /\ \A i \in Ids : i # id => outbound_substreams'[i] = outbound_substreams[i]
    BY Zenon, <1>1, <1>2, <1>3 DEF TypeOut
  <1>5. \A i \in OutPresent' : /\ i \in OutPresent /\ i # id
                               /\ outbound_substreams'[i] = outbound_substreams[i]
                               /\ outbound_substreams[i].req # r
                               /\ outbound_substreams[i].req \in Requests
    <2>1. \A i \in OutPresent' : i \in Ids /\ i # id /\ i \in OutPresent
      BY <1>4 DEF OutPresent, OutAbsent
    <2>2. \A i \in OutPresent : /\ outbound_substreams[i].req \in Requests
                                /\ IdOf[outbound_substreams[i].req] = i
      BY Zenon, <1>1, StoredRequest
    <2>3. QED
      BY <1>2, <1>4, <2>1, <2>2
  <1>6. \A q \in Requests : q # r => reports'[q] = reports[q]
    BY Zenon, <1>1, <1>2, TellStep DEF r
  <1>7. TimersOpened'
    BY Zenon, <1>1, <1>3 DEF TimersOpened
  <1>8. NothingAfterFinal'
    <2>1. CASE UNCHANGED reports
      BY Zenon, <1>1, <2>1 DEF NothingAfterFinal
    <2>2. CASE /\ outbound_substreams[id].st = "Pending"
               /\ \E what \in Report \ {"Chunk"} : Tell(outbound_substreams[id].req, what)
      <3>1. PICK what \in Report \ {"Chunk"} : Tell(r, what)
        BY Zenon, <2>2 DEF r
      <3>2. \A k \in DOMAIN reports[r] : reports[r][k] = "Chunk"
        BY Zenon, <1>2, <2>2 DEF OnlyChunks
      <3>3. what \in Report
        BY Zenon, <3>1
      <3>4. QED
        BY Zenon, <1>1, <1>2, <3>1, <3>2, <3>3, TellAfter
    <2>3. QED
      BY Zenon, <2>1, <2>2
  <1>9. Told'
    <2>1. \A q \in outbound_substreams_delay' : q \in outbound_substreams_delay /\ reports'[q] = reports[q]
      BY Zenon, <1>1, <1>3, <1>6 DEF TypeOut
    <2>2. \A i \in OutPresent' : reports'[outbound_substreams'[i].req] = reports[outbound_substreams[i].req]
      BY Zenon, <1>5, <1>6
    <2>3. QED
      BY SMTT(20), <1>1, <1>5, <2>1, <2>2 DEF Told, OnlyChunks, HasFinal
  <1>10. DrivenToCompletion'
    <2>1. \E k \in DOMAIN reports'[r] : reports'[r][k] # "Chunk"
      <3>1. CASE UNCHANGED reports /\ outbound_substreams[id].st = "Closing"
        BY Zenon, <1>2, <3>1 DEF HasFinal
      <3>2. CASE \E what \in Report \ {"Chunk"} : Tell(outbound_substreams[id].req, what)
        BY Zenon, <1>1, <1>2, <3>2, TellDriven DEF r
      <3>3. QED
        BY Zenon, <3>1, <3>2
    <2>2. ASSUME NEW q \in opened', \A p \in opened' : IdOf[p] = IdOf[q] => p = q
          PROVE  Driven(q)'
      <3>1. Driven(q) /\ q \in Requests /\ IdOf[q] \in Ids
        BY Zenon, <1>1, <2>2, HandlerAssumption DEF DrivenToCompletion, IInv, TypeOK, TypeDial
      <3>2. CASE q = r
        BY Zenon, <2>1, <3>2 DEF Driven
      <3>3. CASE q # r
        <4>1. IdOf[q] # id
          BY Zenon, <1>2, <2>2, <3>3
        <4>2. outbound_substreams'[IdOf[q]] = outbound_substreams[IdOf[q]] /\ reports'[q] = reports[q]
          BY Zenon, <1>4, <1>6, <3>1, <3>3, <4>1
        <4>3. QED
          BY Zenon, <3>1, <4>2 DEF Driven
      <3>4. QED
        BY Zenon, <3>2, <3>3
    <2>3. QED
      BY Zenon, <2>2 DEF DrivenToCompletion
  <1>11. QED
    BY Zenon, <1>7, <1>8, <1>9, <1>10 DEF ReportInv

\* A chunk leaves the substream as it is; a final response leaves it to be closed.
LEMMA ReportResponse ==
    ASSUME IInv, ReportInv, NEW id \in Ids, NEW error \in BOOLEAN,
           OutboundResponse(id, error)
    PROVE  ReportInv'
  <1>0. PICK r : r = outbound_substreams[id].req
    BY Zenon
  <1>1. /\ TypeReports /\ TypeOut /\ OutboundKeysArmed /\ TimersOpened /\ Told
        /\ NothingAfterFinal /\ DrivenToCompletion
    BY Zenon DEF IInv, TypeOK, ReportInv
  <1>2. /\ outbound_substreams[id].st = "Pending" /\ opened' = opened
        /\ outbound_substreams_delay' = outbound_substreams_delay
        /\ \/ /\ out_elapsed' = out_elapsed \ {r}
              /\ Tell(r, "Chunk")
              /\ outbound_substreams' = outbound_substreams
           \/ /\ out_elapsed' = out_elapsed
              /\ Tell(r, "Final")
              /\ outbound_substreams' = [outbound_substreams EXCEPT ![id].st = "Closing"]
    BY Zenon, <1>0 DEF OutboundResponse, DrivingOut, CloseOutbound, dialVars
  <1>3. id \in OutPresent
    BY Zenon, <1>2 DEF OutPresent
  <1>4. r \in Requests /\ r \in opened /\ IdOf[r] = id /\ OnlyChunks(r)
    BY Zenon, <1>0, <1>1, <1>2, <1>3, StoredRequest
  <1>5. PICK what \in {"Chunk", "Final"} :
            /\ Tell(r, what)
            /\ what = "Chunk" => outbound_substreams' = outbound_substreams
            /\ what = "Final" => outbound_substreams' = [outbound_substreams EXCEPT ![id].st = "Closing"]
    BY Zenon, <1>2
  <1>6. what \in Report
    BY Zenon DEF Report
  <1>7. \A q \in Requests : q # r => reports'[q] = reports[q]
    BY Zenon, <1>4, <1>1, <1>5, <1>6, TellStep
  <1>8. /\ outbound_substreams'[id].req = r
        /\ outbound_substreams'[id].st = IF what = "Chunk" THEN "Pending" ELSE "Closing"
        /\ \A i \in Ids : i # id => outbound_substreams'[i] = outbound_substreams[i]
    <2>1. outbound_substreams[id] = [st |-> "Pending", req |-> r]
      BY <1>0, <1>1, <1>2 DEF TypeOut, OutState, OutAbsent
    <2>2. CASE what = "Chunk"
      BY <1>5, <2>1, <2>2
    <2>3. CASE what = "Final"
      BY <1>1, <1>5, <2>1, <2>3 DEF TypeOut
    <2>4. QED
      BY Zenon, <2>2, <2>3
  <1>9. TimersOpened'
    BY Zenon, <1>1, <1>2 DEF TimersOpened
  <1>10. NothingAfterFinal'
    BY ZenonT(40), <1>1, <1>4, <1>5, <1>6, TellAfter DEF OnlyChunks
  <1>11. Told'
    <2>1. ASSUME NEW q \in outbound_substreams_delay', NEW k \in DOMAIN reports'[q]
          PROVE  \/ reports'[q][k] = "Chunk"
                 \/ reports'[q][k] = "Final" /\ k = Len(reports'[q])
      <3>1. q \in outbound_substreams_delay /\ q \in Requests
        BY Zenon, <1>1, <1>2 DEF TypeOut
      <3>2. CASE q = r
        BY Zenon, <1>1, <1>4, <1>5, <1>6, <3>2, TellStep DEF OnlyChunks
      <3>3. CASE q # r
        <4>1. reports'[q] = reports[q]
          BY Zenon, <1>7, <3>1, <3>3
        <4>2. QED
          BY Zenon, <1>1, <3>1, <4>1 DEF Told
      <3>4. QED
        BY Zenon, <3>2, <3>3
    <2>2. ASSUME NEW i \in OutPresent', NEW q, q = outbound_substreams'[i].req, i # id
          PROVE  /\ outbound_substreams'[i].st = "Pending" => OnlyChunks(q)'
                 /\ outbound_substreams'[i].st = "Closing" => HasFinal(q)'
      <3>1. i \in OutPresent /\ outbound_substreams'[i] = outbound_substreams[i]
        BY Zenon, <1>8, <2>2 DEF OutPresent
      <3>2. q \in Requests /\ q # r
        BY Zenon, <1>1, <1>4, <2>2, <3>1, StoredRequest
      <3>3. reports'[q] = reports[q]
        BY Zenon, <1>7, <3>2
      <3>4. QED
        BY <1>1, <2>2, <3>1, <3>3 DEF Told, OnlyChunks, HasFinal
    <2>3. /\ outbound_substreams'[id].st = "Pending" => OnlyChunks(r)'
          /\ outbound_substreams'[id].st = "Closing" => HasFinal(r)'
      <3>1. CASE what = "Chunk"
        <4>1. OnlyChunks(r)'
          BY Zenon, <1>1, <1>4, <1>5, <1>6, <3>1, TellStep DEF OnlyChunks
        <4>2. QED
          BY Zenon, <1>8, <3>1, <4>1
      <3>2. CASE what = "Final"
        <4>1. HasFinal(r)'
          BY Zenon, <1>1, <1>4, <1>5, <1>6, <3>2, TellDriven
        <4>2. QED
          BY Zenon, <1>8, <3>2, <4>1
      <3>3. QED
        BY Zenon, <3>1, <3>2
    <2>4. QED
      BY <1>8, <2>1, <2>2, <2>3 DEF Told, OnlyChunks, HasFinal
  <1>12. DrivenToCompletion'
    <2>1. ASSUME NEW q \in opened', \A p \in opened' : IdOf[p] = IdOf[q] => p = q
          PROVE  Driven(q)'
      <3>1. Driven(q) /\ q \in Requests /\ IdOf[q] \in Ids
        BY Zenon, <1>1, <1>2, <2>1, HandlerAssumption DEF DrivenToCompletion, IInv, TypeOK, TypeDial
      <3>2. outbound_substreams'[IdOf[q]].req = outbound_substreams[IdOf[q]].req
        BY Zenon, <1>0, <1>8, <3>1
      <3>3. QED
        BY Zenon, <1>1, <1>4, <1>5, <1>6, <3>1, <3>2, TellDriven DEF Driven
    <2>2. QED
      BY Zenon, <2>1 DEF DrivenToCompletion
  <1>13. QED
    BY Zenon, <1>9, <1>10, <1>11, <1>12 DEF ReportInv

\* A failed negotiation is reported of a request that was never opened.
LEMMA ReportPendingError ==
    ASSUME IInv, RequestInv, ReportInv, PollPendingError
    PROVE  ReportInv'
  <1> DEFINE r == pending_error
  <1>1. /\ TypeReports /\ TypeOut /\ OutboundKeysArmed /\ TimersOpened /\ Told
        /\ NothingAfterFinal /\ DrivenToCompletion /\ "DialFailed" \in Report
    BY Zenon DEF IInv, TypeOK, ReportInv, Report
  <1>2. /\ Tell(r, "DialFailed") /\ r \in Requests /\ opened' = opened
        /\ outbound_substreams' = outbound_substreams
        /\ outbound_substreams_delay' = outbound_substreams_delay
        /\ out_elapsed' = out_elapsed
    BY Zenon DEF PollPendingError, outVars, IInv, TypeOK, TypeDial
  <1>3. reports[r] = <<>> /\ r \notin opened
    BY Zenon, <1>2 DEF RequestInv, Untold, Early
  <1> HIDE DEF r
  <1>4. \A q \in Requests : q # r => reports'[q] = reports[q]
    BY Zenon, <1>1, <1>2, TellStep
  <1>5. TimersOpened'
    BY Zenon, <1>1, <1>2 DEF TimersOpened
  <1>6. NothingAfterFinal'
    <2>1. \A k \in DOMAIN reports[r] : FALSE
      BY SMTT(20), <1>3
    <2>2. QED
      BY Zenon, <1>1, <1>2, <2>1, TellAfter
  <1>7. Told'
    <2>1. \A q \in outbound_substreams_delay : reports'[q] = reports[q]
      BY Zenon, <1>1, <1>3, <1>4 DEF TypeOut, TimersOpened
    <2>2. OutPresent' = OutPresent
      BY Zenon, <1>2 DEF OutPresent
    <2>3. \A i \in OutPresent : reports'[outbound_substreams[i].req] = reports[outbound_substreams[i].req]
      BY ZenonT(40), <1>1, <2>1, StoredRequest
    <2>4. QED
      BY <1>1, <1>2, <2>1, <2>2, <2>3 DEF Told, OnlyChunks, HasFinal
  <1>8. DrivenToCompletion'
    <2>1. \A q \in opened : reports'[q] = reports[q]
      BY Zenon, <1>3, <1>4 DEF IInv, TypeOK, TypeDial
    <2>2. QED
      BY <1>1, <1>2, <2>1 DEF DrivenToCompletion, Driven
  <1>9. QED
    BY Zenon, <1>5, <1>6, <1>7, <1>8 DEF ReportInv

\* The out actions that report tell about the request of a stored substream or of an
\* armed timer, and the others report nothing.
LEMMA ReportStep ==
    ASSUME IInv, RequestInv, ReportInv, [Next]_vars
    PROVE  ReportInv'
  <1>1. CASE \E r \in Requests : InjectFullyNegotiatedOutbound(r) \/ PurgeOutbound(r)
    BY Zenon, <1>1, ReportNegotiated, ReportPurged
  <1>2. ASSUME NEW r \in Requests, OutboundDeadline(r)
        PROVE  ReportInv'
    <2>1. /\ r \in outbound_substreams_delay /\ out_elapsed' = out_elapsed \cup {r}
          /\ opened' = opened /\ reports' = reports
          /\ outbound_substreams' = outbound_substreams
          /\ outbound_substreams_delay' = outbound_substreams_delay
      BY Zenon, <1>2 DEF OutboundDeadline, dialVars
    <2>2. TimersOpened'
      BY Zenon, <2>1 DEF ReportInv, TimersOpened
    <2>3. NothingAfterFinal' /\ DrivenToCompletion'
      BY <2>1 DEF ReportInv, NothingAfterFinal, DrivenToCompletion, Driven
    <2>4. Told'
      BY Zenon, <2>1 DEF ReportInv, Told, OutPresent, OnlyChunks, HasFinal
    <2>5. QED
      BY Zenon, <2>2, <2>3, <2>4 DEF ReportInv
  <1>3. CASE PollPendingError
    BY Zenon, <1>3, ReportPendingError
  <1>4. CASE \E id \in Ids, error \in BOOLEAN : OutboundResponse(id, error)
    BY Zenon, <1>4, ReportResponse
  <1>5. ASSUME NEW id \in Ids, OutboundEnd(id) \/ OutboundError(id) \/ OutboundClosed(id)
        PROVE  ReportInv'
    <2>1. RemoveOutbound(id) /\ opened' = opened
      BY Zenon, <1>5 DEF OutboundEnd, OutboundError, OutboundClosed, dialVars
    <2>2. id \in OutPresent
      BY Zenon, <1>5 DEF OutboundEnd, OutboundError, OutboundClosed, DrivingOut, OutPresent
    <2>3. \/ UNCHANGED reports /\ outbound_substreams[id].st = "Closing"
          \/ /\ outbound_substreams[id].st = "Pending"
             /\ \E what \in {"StreamTermination", "Failed"} : Tell(outbound_substreams[id].req, what)
      BY Zenon, <1>5 DEF OutboundEnd, OutboundError, OutboundClosed, DrivingOut
    <2>4. {"StreamTermination", "Failed"} \subseteq Report \ {"Chunk"}
      BY Zenon DEF Report
    <2>5. QED
      BY Zenon, <2>1, <2>2, <2>3, <2>4, ReportRemoved
  <1>6. ASSUME \/ \E r \in Requests : \/ InjectRequest(r)
                                      \/ \E io \in BOOLEAN : InjectDialUpgradeError(r, io)
               \/ PollDial
               \/ UNCHANGED <<dialVars, outVars, reports>>
        PROVE  ReportInv'
    <2>1. UNCHANGED <<opened, outVars, reports>>
      BY Zenon, <1>6 DEF InjectRequest, InjectDialUpgradeError, PollDial, dialVars
    <2>2. QED
      BY Zenon, <2>1, ReportUnchanged
  <1>7. QED
    BY Zenon, <1>1, <1>2, <1>3, <1>4, <1>5, <1>6, RequestFrame

\* A request that waits in one of its places waited before the step, or was asked in it,
\* and was neither opened nor reported in it.
LEMMA EarlyStep ==
    ASSUME TypeDial, OnePlace, [Next]_vars, NEW r \in Requests, Early(r)' \/ r \notin asked'
    PROVE  /\ Early(r) \/ r \notin asked
           /\ ~InjectFullyNegotiatedOutbound(r)
           /\ PollPendingError => r # pending_error
  <1>t. /\ dial_queue \in Seq(Requests) /\ negotiating \subseteq Requests
        /\ pending_error \in Requests \cup {NoRequest}
        /\ NoRequest \notin Requests
    BY Zenon, HandlerAssumption DEF TypeDial
  <1>1. ASSUME NEW q \in Requests, InjectRequest(q)
        PROVE  Early(r) \/ r \notin asked
    <2>1. /\ dial_queue' = Append(dial_queue, q) /\ q \notin asked /\ asked' = asked \cup {q}
          /\ negotiating' = negotiating /\ pending_error' = pending_error
      BY Zenon, <1>1 DEF InjectRequest, send_request
    <2>2. Queued(r)' <=> Queued(r) \/ r = q
      BY Zenon, <1>t, <2>1, QueueAppend
    <2>3. QED
      BY Zenon, <2>1, <2>2 DEF Early
  <1>2. ASSUME NEW q \in Requests, InjectFullyNegotiatedOutbound(q)
        PROVE  (Early(r) \/ r \notin asked) /\ r # q
    <2>1. /\ dial_queue' = dial_queue /\ pending_error' = pending_error /\ asked' = asked
          /\ q \in negotiating /\ negotiating' = negotiating \ {q}
      BY Zenon, <1>2 DEF InjectFullyNegotiatedOutbound
    <2>2. /\ Early(r)' => Early(r)
          /\ Early(q) /\ q \in asked
          /\ ~Queued(q) /\ q # pending_error
      BY Zenon, <1>t, <2>1 DEF Early, OnePlace, Queued
    <2>3. ~Early(q)' /\ q \in asked'
      BY Zenon, <2>1, <2>2 DEF Early, Queued
    <2>4. QED
      BY Zenon, <2>1, <2>2, <2>3
  <1>3. ASSUME NEW q \in Requests, NEW io \in BOOLEAN, InjectDialUpgradeError(q, io)
        PROVE  Early(r) \/ r \notin asked
    <2>1. /\ q \in negotiating /\ negotiating' = negotiating \ {q} /\ asked' = asked
          /\ \/ dial_queue' = Append(dial_queue, q) /\ pending_error' = pending_error
             \/ /\ dial_queue' = dial_queue
                /\ pending_error' = IF pending_error = NoRequest THEN q ELSE pending_error
      BY Zenon, <1>3 DEF InjectDialUpgradeError, send_request, add_error
    <2>2. Queued(r)' => Queued(r) \/ r = q
      BY Zenon, <1>t, <2>1, QueueAppend DEF Queued
    <2>3. QED
      BY Zenon, <2>1, <2>2 DEF Early
  <1>4. ASSUME PollPendingError
        PROVE  (Early(r) \/ r \notin asked) /\ r # pending_error
    <2>1. /\ dial_queue' = dial_queue /\ pending_error' = NoRequest /\ asked' = asked
          /\ negotiating' = negotiating /\ pending_error # NoRequest
      BY Zenon, <1>4 DEF PollPendingError
    <2>2. Early(r)' => Early(r) /\ r # pending_error
      BY Zenon, <1>t, <2>1 DEF Early, Queued, OnePlace
    <2>3. r = pending_error => r \in asked'
      BY Zenon, <2>1 DEF OnePlace, Early
    <2>4. QED
      BY Zenon, <2>1, <2>2, <2>3
  <1>5. ASSUME PollDial
        PROVE  Early(r) \/ r \notin asked
    <2>1. CASE CanDial
      <3>1. /\ dial_queue # <<>> /\ dial_queue' = Tail(dial_queue)
            /\ negotiating' = negotiating \cup {Head(dial_queue)}
            /\ pending_error' = pending_error /\ asked' = asked
        BY Zenon, <1>5, <2>1 DEF PollDial, CanDial
      <3>2. Queued(Head(dial_queue)) /\ (Queued(r)' => Queued(r))
        BY Zenon, <1>t, <3>1, QueueTail DEF OnePlace
      <3>3. QED
        BY Zenon, <3>1, <3>2 DEF Early
    <2>2. CASE ~CanDial
      <3>1. UNCHANGED <<dial_queue, negotiating, pending_error, asked>>
        BY Zenon, <1>5, <2>2 DEF PollDial
      <3>2. QED
        BY Zenon, <3>1 DEF Early, Queued
    <2>3. QED
      BY Zenon, <2>1, <2>2
  <1>6. ASSUME UNCHANGED dialVars
        PROVE  Early(r) \/ r \notin asked
    BY Zenon, <1>6 DEF dialVars, Early, Queued
  <1>7. QED
    BY Zenon, <1>1, <1>2, <1>3, <1>4, <1>5, <1>6, DialFrame

\* Nothing is reported of a request before it is opened or its negotiation fails.
LEMMA UntoldStep ==
    ASSUME IInv, RequestInv, [Next]_vars
    PROVE  Untold'
  <1> SUFFICES ASSUME NEW r \in Requests, Early(r)' \/ r \notin asked'
               PROVE  reports'[r] = <<>> /\ r \notin opened'
    BY Zenon DEF Untold
  <1>1. /\ TypeDial /\ OnePlace /\ TypeReports /\ TypeOut /\ OutboundKeysArmed
        /\ TimersOpened /\ Told
    BY Zenon DEF IInv, TypeOK, RequestInv
  <1>2. /\ Early(r) \/ r \notin asked
        /\ ~InjectFullyNegotiatedOutbound(r)
        /\ PollPendingError => r # pending_error
    BY Zenon, <1>1, EarlyStep
  <1>3. reports[r] = <<>> /\ r \notin opened
    BY Zenon, <1>2 DEF RequestInv, Untold
  <1>4. r \notin opened'
    <2>1. ASSUME NEW q \in Requests, InjectFullyNegotiatedOutbound(q)
          PROVE  r \notin opened'
      BY Zenon, <1>2, <1>3, <2>1 DEF InjectFullyNegotiatedOutbound
    <2>2. ASSUME \/ \E q \in Requests : \/ InjectRequest(q)
                                        \/ \E io \in BOOLEAN : InjectDialUpgradeError(q, io)
                 \/ PollPendingError \/ PollDial \/ UNCHANGED dialVars
          PROVE  opened' = opened
      BY Zenon, <2>2 DEF InjectRequest, InjectDialUpgradeError, PollPendingError, PollDial, dialVars
    <2>3. QED
      BY Zenon, <1>3, <2>1, <2>2, DialFrame
  <1>5. reports'[r] = <<>>
    <2>1. ASSUME NEW q \in Requests, NEW what \in Report, Tell(q, what), q # r
          PROVE  reports'[r] = reports[r]
      BY Zenon, <1>1, <2>1, TellStep
    <2>2. CASE PollPendingError
      BY Zenon, <1>1, <1>2, <1>3, <2>1, <2>2 DEF PollPendingError, TypeDial, Report
    <2>3. ASSUME NEW q \in Requests, PurgeOutbound(q)
          PROVE  reports'[r] = <<>>
      BY Zenon, <1>1, <1>3, <2>1, <2>3 DEF PurgeOutbound, TimersOpened, Report
    <2>4. ASSUME NEW id \in Ids, \/ \E error \in BOOLEAN : OutboundResponse(id, error)
                                 \/ OutboundEnd(id) \/ OutboundError(id)
          PROVE  reports'[r] = <<>>
      <3>1. id \in OutPresent
        BY Zenon, <2>4 DEF OutboundResponse, OutboundEnd, OutboundError, DrivingOut, OutPresent
      <3>2. outbound_substreams[id].req \in Requests /\ outbound_substreams[id].req # r
        BY Zenon, <1>1, <1>3, <3>1, StoredRequest
      <3>3. \E what \in Report : Tell(outbound_substreams[id].req, what)
        BY Zenon, <2>4 DEF OutboundResponse, OutboundEnd, OutboundError, Report
      <3>4. QED
        BY Zenon, <1>3, <2>1, <3>2, <3>3
    <2>5. QED
      BY Zenon, <1>3, <2>2, <2>3, <2>4, ReportsFrame
  <1>6. QED
    BY Zenon, <1>4, <1>5

\* What was reported stays reported.
LEMMA TellKeeps ==
    ASSUME TypeReports, NEW r \in Requests, NEW what \in Report, Tell(r, what)
    PROVE  /\ \A q \in Requests : reports[q] # <<>> => reports'[q] # <<>>
           /\ reports'[r] # <<>>
  <1>1. /\ \A q \in Requests : q # r => reports'[q] = reports[q]
        /\ reports'[r] # <<>>
    BY Zenon, TellStep
  <1>2. QED
    BY Zenon, <1>1

\* Where a request that was asked is, unless it is lost.
Accounted(r) ==
    \/ Queued(r) \/ r \in negotiating \/ r \in opened \/ pending_error = r
    \/ reports[r] # <<>>

\* The failure of another request waits in pending_error and stays there.
ShadowedBy(r) == pending_error \in asked \ {r} /\ pending_error' = pending_error

\* A request loses its place only to a report, to its substream, or to the failure of
\* another request that waits for poll().
LEMMA ShadowedStep ==
    ASSUME IInv, RequestInv, [Next]_vars, NEW r \in Requests, Lost(r)', ~Lost(r)
    PROVE  ShadowedBy(r)
  <1>1. /\ TypeDial /\ OnePlace /\ TypeReports /\ TypeOut /\ OutboundKeysArmed
        /\ TimersOpened /\ Told
        /\ dial_queue \in Seq(Requests) /\ negotiating \subseteq Requests
        /\ asked \subseteq Requests
        /\ pending_error \in Requests \cup {NoRequest} /\ NoRequest \notin Requests
    BY Zenon, HandlerAssumption DEF IInv, TypeOK, TypeDial, RequestInv
  <1>2. r \in asked' /\ expect_response(r) /\ ~Accounted(r)'
    BY Zenon DEF Lost, Waiting, Accounted, Queued
  <1>3. r \in asked => Accounted(r)
    BY Zenon, <1>2 DEF Lost, Waiting, Accounted, Queued
  <1>4. ASSUME NEW q \in Requests, InjectRequest(q)
        PROVE  FALSE
    <2>1. /\ dial_queue' = Append(dial_queue, q) /\ asked' = asked \cup {q}
          /\ negotiating' = negotiating /\ pending_error' = pending_error
          /\ opened' = opened /\ reports' = reports
      BY Zenon, <1>4 DEF InjectRequest, send_request
    <2>2. Queued(r)' <=> Queued(r) \/ r = q
      BY Zenon, <1>1, <2>1, QueueAppend
    <2>3. QED
      BY Zenon, <1>2, <1>3, <2>1, <2>2 DEF Accounted
  <1>5. ASSUME NEW q \in Requests, InjectFullyNegotiatedOutbound(q)
        PROVE  FALSE
    <2>1. /\ dial_queue' = dial_queue /\ asked' = asked
          /\ negotiating' = negotiating \ {q} /\ pending_error' = pending_error
          /\ reports' = reports /\ opened \subseteq opened'
          /\ expect_response(q) => q \in opened'
      BY Zenon, <1>5 DEF InjectFullyNegotiatedOutbound
    <2>2. Queued(r) => Queued(r)'
      BY Zenon, <2>1 DEF Queued
    <2>3. QED
      BY Zenon, <1>2, <1>3, <2>1, <2>2 DEF Accounted
  <1>6. ASSUME NEW q \in Requests, NEW io \in BOOLEAN, InjectDialUpgradeError(q, io)
        PROVE  ShadowedBy(r)
    <2>1. /\ q \in negotiating /\ negotiating' = negotiating \ {q} /\ asked' = asked
          /\ reports' = reports /\ opened' = opened
          /\ \/ dial_queue' = Append(dial_queue, q) /\ pending_error' = pending_error
             \/ /\ dial_queue' = dial_queue
                /\ pending_error' = IF pending_error = NoRequest THEN q ELSE pending_error
      BY Zenon, <1>6 DEF InjectDialUpgradeError, send_request, add_error
    <2>2. /\ Queued(r) => Queued(r)'
          /\ dial_queue' = Append(dial_queue, q) => Queued(q)'
      BY Zenon, <1>1, <2>1, QueueAppend DEF Queued
    <2>3. r = q
      BY Zenon, <1>1, <1>2, <1>3, <2>1, <2>2 DEF Accounted
    <2>4. /\ pending_error \in Requests => pending_error \in asked
          /\ pending_error # q
      BY Zenon, <1>1, <2>1 DEF OnePlace, Early
    <2>5. ~Queued(q)' /\ pending_error' # q
      BY Zenon, <1>2, <2>3 DEF Accounted
    <2>6. pending_error' = pending_error /\ pending_error # NoRequest
      BY Zenon, <2>1, <2>2, <2>5
    <2>7. QED
      BY Zenon, <1>1, <2>3, <2>4, <2>6 DEF ShadowedBy
  <1>7. ASSUME PollPendingError
        PROVE  FALSE
    <2>1. /\ dial_queue' = dial_queue /\ negotiating' = negotiating /\ asked' = asked
          /\ opened' = opened /\ pending_error \in Requests
          /\ Tell(pending_error, "DialFailed") /\ "DialFailed" \in Report
      BY Zenon, <1>1, <1>7 DEF PollPendingError, Report
    <2>2. /\ \A q \in Requests : reports[q] # <<>> => reports'[q] # <<>>
          /\ reports'[pending_error] # <<>>
      BY Zenon, <1>1, <2>1, TellKeeps
    <2>3. Queued(r) => Queued(r)'
      BY Zenon, <2>1 DEF Queued
    <2>4. QED
      BY Zenon, <1>2, <1>3, <2>1, <2>2, <2>3 DEF Accounted
  <1>8. ASSUME PollDial
        PROVE  FALSE
    <2>1. /\ asked' = asked /\ reports' = reports
          /\ opened' = opened /\ pending_error' = pending_error
          /\ \/ /\ dial_queue # <<>> /\ dial_queue' = Tail(dial_queue)
                /\ negotiating' = negotiating \cup {Head(dial_queue)}
             \/ dial_queue' = dial_queue /\ negotiating' = negotiating
      BY Zenon, <1>8 DEF PollDial, CanDial
    <2>2. Queued(r) => Queued(r)' \/ r \in negotiating'
      BY Zenon, <1>1, <2>1, QueueTail DEF OnePlace, Queued
    <2>3. QED
      BY Zenon, <1>2, <1>3, <2>1, <2>2 DEF Accounted
  <1>9. ASSUME dialVars' = dialVars,
               \/ \E q \in Requests, what \in Report : Tell(q, what)
               \/ UNCHANGED reports
        PROVE  FALSE
    <2>1. /\ dial_queue' = dial_queue /\ negotiating' = negotiating /\ asked' = asked
          /\ opened' = opened /\ pending_error' = pending_error
      BY Zenon, <1>9 DEF dialVars
    <2>2. reports[r] # <<>> => reports'[r] # <<>>
      BY Zenon, <1>1, <1>9, TellKeeps
    <2>3. Queued(r) => Queued(r)'
      BY Zenon, <2>1 DEF Queued
    <2>4. QED
      BY Zenon, <1>2, <1>3, <2>1, <2>2, <2>3 DEF Accounted
  <1>10. ASSUME NEW q \in Requests, PurgeOutbound(q) \/ OutboundDeadline(q)
         PROVE  dialVars' = dialVars /\ (UNCHANGED reports \/ \E p \in Requests, what \in Report : Tell(p, what))
    BY Zenon, <1>10 DEF PurgeOutbound, OutboundDeadline, Report
  <1>11. ASSUME NEW id \in Ids, \/ \E error \in BOOLEAN : OutboundResponse(id, error)
                                \/ OutboundEnd(id) \/ OutboundError(id) \/ OutboundClosed(id)
         PROVE  dialVars' = dialVars /\ (UNCHANGED reports \/ \E p \in Requests, what \in Report : Tell(p, what))
    <2>1. id \in OutPresent
      BY Zenon, <1>11 DEF OutboundResponse, OutboundEnd, OutboundError, OutboundClosed, DrivingOut, OutPresent
    <2>2. outbound_substreams[id].req \in Requests
      BY Zenon, <1>1, <2>1, StoredRequest
    <2>3. QED
      BY Zenon, <1>11, <2>2 DEF OutboundResponse, OutboundEnd, OutboundError, OutboundClosed, Report
  <1>12. QED
    BY Zenon, <1>4, <1>5, <1>6, <1>7, <1>8, <1>9, <1>10, <1>11, RequestFrame

-----------------------------------------------------------------------------
\* Nothing was asked yet.
LEMMA RequestsInit ==
    ASSUME Init
    PROVE  RequestInv /\ ReportInv
  <1>1. /\ DOMAIN dial_queue = {} /\ \A r \in Requests : DOMAIN reports[r] = {}
        /\ \A r \in Requests : reports[r] = <<>>
    BY DEF Init
  <1>2. OutPresent = {}
    BY Zenon DEF Init, OutPresent, OutAbsent
  <1>3. \A r \in Requests : ~Early(r)
    BY Zenon, <1>1, HandlerAssumption DEF Early, Queued, Init
  <1>4. OnePlace
    BY Zenon, <1>1, <1>3 DEF OnePlace, Init
  <1>5. Untold
    BY Zenon, <1>1 DEF Untold, Init
  <1>6. TimersOpened /\ Told
    BY Zenon, <1>1, <1>2 DEF TimersOpened, Told, Init
  <1>7. NothingAfterFinal /\ DrivenToCompletion
    BY Zenon, <1>1 DEF NothingAfterFinal, DrivenToCompletion, Init
  <1>8. QED
    BY Zenon, <1>4, <1>5, <1>6, <1>7 DEF RequestInv, ReportInv

\* Every step keeps what is known of the outbound requests.
LEMMA RequestsStep ==
    ASSUME IInv, RequestInv, ReportInv, [Next]_vars
    PROVE  RequestInv' /\ ReportInv'
  <1>1. OnePlace'
    BY Zenon, OnePlaceStep DEF IInv, TypeOK, RequestInv
  <1>2. Untold' /\ ReportInv'
    BY Zenon, UntoldStep, ReportStep
  <1>3. QED
    BY Zenon, <1>1, <1>2 DEF RequestInv, ReportInv

\* What is known of the outbound requests, in every reachable state.
LEMMA RequestsInvariance == Spec => [](RequestInv /\ ReportInv)
  <1>1. Init => RequestInv /\ ReportInv
    BY Zenon, RequestsInit
  <1>2. IInv /\ RequestInv /\ ReportInv /\ [Next]_vars
        => (RequestInv /\ ReportInv)'
    BY Zenon, RequestsStep
  <1>3. QED
    BY <1>1, <1>2, Invariance, PTL DEF Spec

\* Whatever the order in which responses, timers, errors and upgrades of other requests
\* come: after the final response of a request inject_event reports nothing more of it
\* but the timeout of a timer that was left behind.
THEOREM FinalIsFinal == Spec => []NothingAfterFinal
  BY RequestsInvariance, PTL DEF ReportInv

\* poll() keeps a negotiated substream until it was answered or failed for good, unless
\* another negotiated request used its id.
THEOREM SubstreamsAreDriven == Spec => []DrivenToCompletion
  BY RequestsInvariance, PTL DEF ReportInv

\* A request that expects a response is given up without a report only by
\* inject_dial_upgrade_error, while the failure of another request waits in pending_error
\* and stays there for poll() to report.
THEOREM FailuresAccounted == Spec => FailureShadowed
  <1>1. ASSUME IInv, RequestInv, [Next]_vars
        PROVE  [\A r \in Requests : Lost(r)' /\ ~Lost(r) =>
                   pending_error \in asked \ {r} /\ UNCHANGED pending_error]_vars
    BY Zenon, <1>1, ShadowedStep DEF ShadowedBy
  <1>2. QED
    BY <1>1, Invariance, RequestsInvariance, PTL DEF Spec, FailureShadowed
=============================================================================
