------------------------------- MODULE RPCCodec -------------------------------
(***************************************************************************)
(* One direction of an RPC substream (libp2p/src/rpc): a Framed writer and *)
(* a Framed reader with the codecs of codec.rs.  Requests travel one way,  *)
(* one to a substream, read by the inbound upgrade; responses travel the   *)
(* other way, as many as there are.                                        *)
(*                                                                         *)
(* A frame is encoded as Pieces pieces.  The transport keeps their order   *)
(* and cuts and joins them as it likes.                                    *)
(***************************************************************************)
EXTENDS Integers, Sequences, FiniteSets

CONSTANTS
    Frames,       \* what may be sent
    MaxSent,      \* bounds how many frames one side sends
    MaxGot,       \* bounds how often the reader is asked
    Pieces

VARIABLES
    kind,         \* what the substream carries: "request" or "responses"
    sent,         \* the frames given to the writer
    dst,          \* the writer's buffer
    pipe,         \* pieces written and not read
    closed,       \* the writer has closed its side
    src,          \* the reader's buffer
    readable,     \* FramedRead: the buffer may hold a frame
    eof,          \* FramedRead: the end of the stream has been seen
    got,          \* what the reader has given, in order
    ended         \* the reader is done: it failed, or has given all it is asked for

vars == <<kind, sent, dst, pipe, closed, src, readable, eof, got, ended>>

to_vec(frame) == [i \in 1 .. Pieces |-> <<frame, i>>]

Init == /\ kind \in {"request", "responses"}
        /\ sent = <<>> /\ dst = <<>> /\ pipe = <<>> /\ closed = FALSE
        /\ src = <<>> /\ readable = FALSE /\ eof = FALSE /\ got = <<>> /\ ended = FALSE

-----------------------------------------------------------------------------
(* The writer.                                                             *)

\* encode_to: whatever the buffer still held is dropped.
encode_to(frame) == to_vec(frame)

\* The outbound upgrade sends the one request; the handler sends a response once the
\* one before it is flushed.  (The mutant does not wait for that.)
MaySend_Unflushed == TRUE
MaySend == dst = <<>>
start_send(frame) ==
    /\ ~closed /\ MaySend
    /\ Len(sent) < IF kind = "request" THEN 1 ELSE MaxSent
    /\ sent' = Append(sent, frame)
    /\ dst' = encode_to(frame)
    /\ UNCHANGED <<kind, pipe, closed, src, readable, eof, got, ended>>

\* The transport takes the first n pieces of the buffer.
poll_complete(n) ==
    /\ n \in 1 .. Len(dst)
    /\ pipe' = pipe \o SubSeq(dst, 1, n)
    /\ dst' = SubSeq(dst, n + 1, Len(dst))
    /\ UNCHANGED <<kind, sent, closed, src, readable, eof, got, ended>>

close ==
    /\ ~closed /\ dst = <<>>
    /\ closed' = TRUE
    /\ UNCHANGED <<kind, sent, dst, pipe, src, readable, eof, got, ended>>

-----------------------------------------------------------------------------
(* The reader.                                                             *)

\* from_slice on the whole buffer, which is left as it is: exactly one frame is that
\* frame, anything else (nothing, part of a frame, a frame and more) an error.  (The
\* mutants take the frame the buffer starts, or ends, with.)
decode_Start(buffer) == IF buffer # <<>> THEN buffer[1][1] ELSE "CborDecodeError"
decode_Last(buffer) == IF Len(buffer) >= Pieces THEN buffer[Len(buffer)][1] ELSE "CborDecodeError"
decode(buffer) == IF \E f \in Frames : buffer = to_vec(f)
                  THEN CHOOSE f \in Frames : buffer = to_vec(f)
                  ELSE "CborDecodeError"

\* FramedRead reads when the buffer has not been found to hold a frame.
read(n) ==
    /\ ~ended /\ ~readable
    /\ IF n = 0 THEN closed /\ pipe = <<>> ELSE n <= Len(pipe)
    /\ src' = src \o SubSeq(pipe, 1, n)
    /\ pipe' = SubSeq(pipe, n + 1, Len(pipe))
    /\ readable' = TRUE
    /\ eof' = (eof \/ n = 0)
    /\ UNCHANGED <<kind, sent, dst, closed, got, ended>>

\* What the inbound upgrade makes of an error: only its own timer's is told apart.
from_timeout(err) == IF err = "elapsed" THEN "StreamTimeout" ELSE "Stream timer failed"

\* A frame is given; the upgrade asks for one request only, the handler asks again.
poll ==
    /\ ~ended /\ readable
    /\ Len(got) < MaxGot
    /\ LET item == decode(src)
           failed == item = "CborDecodeError"
       IN  /\ got' = Append(got, IF failed /\ kind = "request" THEN from_timeout(item) ELSE item)
           /\ ended' = (failed \/ kind = "request")
    /\ UNCHANGED <<kind, sent, dst, pipe, closed, src, readable, eof>>

\* A request that has not come ends the upgrade: REQUEST_TIMEOUT elapses, or, while it
\* reads, TTFB_TIMEOUT, an error of the socket.
timeout(err) ==
    /\ kind = "request" /\ ~ended
    /\ err = "IoError" => ~readable
    /\ got' = Append(got, from_timeout(err))
    /\ ended' = TRUE
    /\ UNCHANGED <<kind, sent, dst, pipe, closed, src, readable, eof>>

Next == \/ \E f \in Frames : start_send(f)
        \/ \E n \in 1 .. Pieces : poll_complete(n)
        \/ close
        \/ \E n \in 0 .. Pieces * MaxSent : read(n)
        \/ poll
        \/ \E err \in {"elapsed", "IoError"} : timeout(err)

Spec == Init /\ [][Next]_vars

-----------------------------------------------------------------------------
(* What the two sides must agree on: protocols, answers and codes.         *)

RPCRequest == {"Status", "Goodbye", "BlockSyncRequest"}
\* (The mutant asks for block sync under the name of status.)
supported_protocols_Reused(request) == IF request = "Goodbye" THEN "goodbye" ELSE "status"
supported_protocols(request) ==
    [Status |-> "status", Goodbye |-> "goodbye", BlockSyncRequest |-> "plum_block_sync_request"][request]
protocol_info == {"status", "goodbye", "plum_block_sync_request"}

expect_response(request) == request # "Goodbye"
multiple_responses(request) == request = "BlockSyncRequest"
stream_termination(request) ==
    IF request = "BlockSyncRequest" THEN "BlockSyncRequest" ELSE "unreachable"

RPCErrorResponse == {"Success", "InvalidRequest", "ServerError", "Unknown", "StreamTermination"}
as_u8(response) == [Success |-> 0, InvalidRequest |-> 1, ServerError |-> 2, Unknown |-> 255,
                    StreamTermination |-> -1][response]     \* -1: no code
is_response(code) == code = 0
from_error(code) == CASE code = 1 -> "InvalidRequest" [] code = 2 -> "ServerError" [] OTHER -> "Unknown"
is_error(response) == response # "Success"

GoodbyeReason == [ClientShutdown |-> 1, IrrelevantNetwork |-> 2, Fault |-> 3, Unknown |-> 0]
from_u64(id) == CASE id = 1 -> "ClientShutdown" [] id = 2 -> "IrrelevantNetwork"
                  [] id = 3 -> "Fault" [] OTHER -> "Unknown"

-----------------------------------------------------------------------------
(* Properties.                                                             *)

Failures == {"CborDecodeError", "StreamTimeout", "Stream timer failed"}

\* What the reader gives was sent: pieces cut or joined on their way are an error, never
\* a frame nobody sent; and the frame sent first comes first, not passed over for one that
\* was joined to it.
OnlyWhatWasSent ==
    /\ \A i \in DOMAIN got : got[i] \in Failures \/ \E j \in DOMAIN sent : got[i] = sent[j]
    /\ got # <<>> => got[1] \in Failures \/ (sent # <<>> /\ got[1] = sent[1])

\* An inbound upgrade ends exactly once, with a request or a failure, and a request
\* that is still in part in the writer's buffer or on its way has not been accepted.
RequestIsWhole == kind = "request" =>
    /\ Len(got) <= 1 /\ (ended <=> got # <<>>)
    /\ got # <<>> /\ got[1] \notin Failures => dst = <<>> /\ pipe = <<>>

\* Whatever a node may ask for, and get, the other understands: every request has a
\* protocol of its own that every node offers, only a request that may have many
\* answers, and so has one at least, is ended by a stream termination, and a response
\* or a reason for leaving comes back from its code.
SidesAgree(request, other, response, reason) ==
    /\ supported_protocols(request) \in protocol_info
    /\ supported_protocols(request) = supported_protocols(other) => request = other
    /\ multiple_responses(request) =>
           expect_response(request) /\ stream_termination(request) # "unreachable"
    /\ is_response(as_u8(response)) <=> ~is_error(response)
    /\ is_error(response) /\ as_u8(response) >= 0 => from_error(as_u8(response)) = response
    /\ from_u64(GoodbyeReason[reason]) = reason
=============================================================================
