------------------------------- MODULE WsLoop -------------------------------
(***************************************************************************)
(* One upgraded connection of src/src/server.rs: `websocket_loop` between  *)
(* a client that sends frames and a route handler that receives and sends  *)
(* messages through two bounded channels.                                  *)
(*                                                                         *)
(* A frame is two units of the byte stream, its head and the rest, so that *)
(* a read can be caught in the middle of a frame: the loop selects between *)
(* the outgoing channel and a future that reads one frame with several     *)
(* read_exact calls, and drops that future when the channel is ready.      *)
(* Payloads are abstract: a piece of a message is known by the number of   *)
(* the frame it came in.                                                   *)
(***************************************************************************)
EXTENDS Naturals, Sequences, SequencesExt

CONSTANTS
    Plans,              \* what the two ends may do
    InCap, OutCap,      \* capacity of the two channels (32 in the code)
    MaxMessage,         \* max_frame_bytes
    Compression         \* permessage-deflate was negotiated

Opcodes == {"continuation", "text", "binary", "close", "ping", "pong", "reserved"}
MaxControl == 125

\* wellFormed: RSV2 and RSV3 clear, masked, a legal length field.
\* valid: the payload is UTF-8.
Frame == [op : Opcodes, fin : BOOLEAN, rsv1 : BOOLEAN, wellFormed : BOOLEAN,
          size : Nat, valid : BOOLEAN]

\* A plan has frames: the frames that the client may send; maxFrames, maxOut: bounds on
\* what the client and the handler send; split: the two units of a frame may
\* arrive apart.

ASSUME PlansAssumption ==
    \A p \in Plans :
        /\ p.frames \subseteq Frame
        /\ p.maxFrames \in Nat /\ p.maxOut \in Nat /\ p.split \in BOOLEAN
ASSUME BoundsAssumption ==
    /\ MaxMessage \in Nat
    /\ InCap \in Nat \ {0} /\ OutCap \in Nat \ {0}
    /\ Compression \in BOOLEAN

VARIABLES
    plan,               \* one of Plans
    script,             \* the frames the client has sent
    arrived,            \* units that reached the socket
    pos,                \* units taken off the socket
    held,               \* of these, units inside the pending read future
    cut,                \* history: a read future was dropped with a unit in it
    phase,              \* where the loop stands
    ending,             \* how it ended
    fragments,          \* the pieces of the message being assembled
    fragmentOp,         \* fragmented_opcode
    handing,            \* the message in incoming.send
    delivered,          \* messages put in the incoming channel
    taken,              \* of these, messages received by the handler
    handler,            \* where the handler's task stands
    accepted,           \* messages put in the outgoing channel
    drained,            \* of these, messages taken out by the loop
    wrote               \* frames written to the client

clientVars  == <<plan, script, arrived>>
readVars    == <<pos, held, cut>>
partVars    == <<fragments, fragmentOp>>
loopVars    == <<phase, ending>>
handlerVars == <<handler, accepted, taken>>
vars == <<clientVars, readVars, partVars, loopVars, handing, delivered,
          handlerVars, drained, wrote>>

Frames    == plan.frames
MaxFrames == plan.maxFrames
MaxOut    == plan.maxOut

Piece == [id : 0..MaxFrames, size : Nat, valid : BOOLEAN]
Endings == {"normal",       \* 1000: every sender of the outgoing channel is gone
            "echo",         \* the client closed
            "protocol",     \* 1002
            "too_large",    \* 1009
            "refused",      \* an error of read_ws_frame or inflate, no close frame
            "timeout", "io",
            "abandoned"}    \* nobody receives any more

TypeOK ==
    /\ plan \in Plans
    /\ script \in Seq(Frames) /\ Len(script) <= MaxFrames
    /\ arrived \in 0..2 * Len(script)
    /\ pos \in 0..arrived
    /\ held \in 0..1 /\ cut \in BOOLEAN
    /\ phase \in {"select", "deliver", "ended"}
    /\ ending \in Endings \cup {"none"}
    /\ fragments \in Seq(Piece)
    /\ fragmentOp \in {"none", "text", "binary"}
    /\ handing \in Seq(Piece)
    /\ delivered \in Seq(Seq(Piece))
    /\ taken \in 0..Len(delivered) /\ Len(delivered) <= taken + InCap
    /\ handler \in {"running", "sending", "returned", "unregistered", "panicked"}
    /\ accepted \in 0..MaxOut
    /\ drained \in 0..accepted /\ accepted <= drained + OutCap
    /\ wrote \in Seq([op : {"text", "pong", "close"}, id : Nat])

Init ==
    /\ plan \in Plans
    /\ script = <<>> /\ arrived = 0
    /\ pos = 0 /\ held = 0 /\ cut = FALSE
    /\ phase = "select" /\ ending = "none"
    /\ fragments = <<>> /\ fragmentOp = "none"
    /\ handing = <<>> /\ delivered = <<>>
    /\ handler = "running" /\ accepted = 0 /\ taken = 0
    /\ drained = 0 /\ wrote = <<>>

-----------------------------------------------------------------------------
(* The client. *)

SendFrame ==
    /\ Len(script) < MaxFrames
    /\ arrived = 2 * Len(script)
    /\ \E f \in Frames : script' = Append(script, f)
    /\ arrived' \in {arrived + 2} \cup (IF plan.split THEN {arrived + 1} ELSE {})
    /\ UNCHANGED <<plan, readVars, partVars, loopVars, handing, delivered,
                   handlerVars, drained, wrote>>

RestArrives ==
    /\ arrived < 2 * Len(script)
    /\ arrived' = arrived + 1
    /\ UNCHANGED <<plan, script, readVars, partVars, loopVars, handing, delivered,
                   handlerVars, drained, wrote>>

-----------------------------------------------------------------------------
(* What the loop does with a frame. *)

\* opcode >= 0x8; the reserved opcode stands for 0x3 to 0x7.
Control(f) == f.op \in {"close", "ping", "pong"}
Payload(id, f) == [id |-> id, size |-> f.size, valid |-> f.valid]
SizeOf(pieces) ==
    LET total[n \in 0..Len(pieces)] == IF n = 0 THEN 0 ELSE total[n - 1] + pieces[n].size
    IN  total[Len(pieces)]

EndWith(how) ==
    /\ phase' = "ended"
    /\ ending' = how
    /\ UNCHANGED <<partVars, handing>>

Write(op, id) == wrote' = Append(wrote, [op |-> op, id |-> id])
CloseWith(how) == EndWith(how) /\ Write("close", 0)

\* incoming.send(Ok(message)).await begins.
HandOver(message) ==
    /\ phase' = "deliver"
    /\ handing' = message
    /\ UNCHANGED <<ending, wrote>>

\* read_ws_frame returns an error: no close frame is written.
Refused(f) ==
    \/ ~f.wellFormed
    \/ Control(f) /\ (~f.fin \/ f.size > MaxControl)
    \/ f.size > MaxMessage

BadCompression(f) == f.rsv1 /\ (~Compression \/ ~f.fin \/ f.op = "continuation" \/ Control(f))

Refuse(f) ==
    /\ Refused(f) \/ (f.rsv1 /\ ~BadCompression(f))     \* inflate may fail
    /\ EndWith("refused")
    /\ UNCHANGED wrote

\* Mutant: each frame is measured on its own.
Overflows_PerFrame(f) == f.size > MaxMessage

Overflows(f) == SizeOf(fragments) + f.size > MaxMessage

ProtocolError(f) ==
    /\ \/ BadCompression(f)
       \/ f.op = "continuation" /\ fragmentOp = "none"
       \/ f.op \in {"text", "binary"} /\ fragmentOp # "none"
       \/ f.op = "text" /\ f.fin /\ ~f.valid
       \/ f.op = "reserved"
    /\ CloseWith("protocol")

Continue(id, f) ==
    /\ f.op = "continuation" /\ fragmentOp # "none"
    /\ IF Overflows(f)
       THEN CloseWith("too_large")
       ELSE LET message == Append(fragments, Payload(id, f))
            IN  IF f.fin
                THEN /\ HandOver(message)
                     /\ fragments' = <<>>
                     /\ fragmentOp' = "none"
                ELSE /\ fragments' = message
                     /\ UNCHANGED <<fragmentOp, loopVars, handing, wrote>>

StartMessage(id, f) ==
    /\ f.op \in {"text", "binary"} /\ fragmentOp = "none"
    /\ IF f.fin
       THEN /\ f.op = "text" => f.valid
            /\ HandOver(<<Payload(id, f)>>)
            /\ UNCHANGED partVars
       ELSE /\ fragments' = <<Payload(id, f)>>
            /\ fragmentOp' = f.op
            /\ UNCHANGED <<loopVars, handing, wrote>>

ControlFrame(id, f) ==
    \/ f.op = "close" /\ CloseWith("echo")
    \/ /\ f.op = "ping"
       /\ Write("pong", id)
       /\ UNCHANGED <<partVars, loopVars, handing>>
    \/ /\ f.op = "pong"
       /\ UNCHANGED <<partVars, loopVars, handing, wrote>>

Handle(id, f) ==
    \/ Refuse(f)
    \/ /\ ~Refused(f)
       /\ \/ ProtocolError(f)
          \/ /\ ~BadCompression(f)
             /\ Continue(id, f) \/ StartMessage(id, f) \/ ControlFrame(id, f)

-----------------------------------------------------------------------------
(* The loop. *)

\* The reader stands at the head of a frame, or inside one whose head the
\* pending future holds.
Aligned == (pos - held) % 2 = 0

\* Mutant: the head is lost whenever a read is pending.
ReadHead_NotKept ==
    /\ phase = "select"
    /\ Aligned /\ held = 0
    /\ arrived = pos + 1
    /\ pos' = pos + 1
    /\ UNCHANGED <<clientVars, held, cut, partVars, loopVars, handing, delivered,
                   handlerVars, drained, wrote>>

\* read_exact got the head and waits for the rest.
ReadHead ==
    /\ phase = "select"
    /\ Aligned /\ held = 0
    /\ arrived = pos + 1
    /\ pos' = pos + 1
    /\ held' = 1
    /\ UNCHANGED <<cut, clientVars, partVars, loopVars, handing, delivered,
                   handlerVars, drained, wrote>>

ReadFrame ==
    /\ phase = "select"
    /\ Aligned
    /\ arrived >= pos - held + 2
    /\ pos' = pos - held + 2
    /\ held' = 0
    /\ LET id == (pos - held) \div 2 + 1 IN Handle(id, script[id])
    /\ UNCHANGED <<cut, clientVars, delivered, handlerVars, drained>>

\* The head of this frame was dropped with an earlier future: whatever
\* follows is taken for a frame (number 0), which may be any frame at all.
ReadGarbage ==
    /\ phase = "select"
    /\ ~Aligned
    /\ pos' \in pos + 1..arrived
    /\ held' = 0
    /\ \E f \in Frames : Handle(0, f)
    /\ UNCHANGED <<cut, clientVars, delivered, handlerVars, drained>>

\* The future of the read is dropped with the bytes it has taken.
DropRead == held' = 0 /\ cut' = (cut \/ held > 0)

\* outgoing.recv() yields a message; it is written as a text frame.
WriteMessage ==
    /\ phase = "select"
    /\ drained < accepted
    /\ drained' = drained + 1
    /\ Write("text", drained + 1)
    /\ DropRead
    /\ UNCHANGED <<clientVars, pos, partVars, loopVars, handing, delivered,
                   handlerVars>>

\* Mutant: the end of the handler overtakes the queue.
OutgoingClosed_Overtakes == handler = "unregistered"

\* outgoing.recv() yields None: the queue is empty and all senders are gone.
OutgoingClosed == drained = accepted /\ handler = "unregistered"

CloseNormally ==
    /\ phase = "select"
    /\ OutgoingClosed
    /\ CloseWith("normal")
    /\ DropRead
    /\ UNCHANGED <<clientVars, pos, delivered, handlerVars, drained>>

Receiving == handler \in {"running", "sending"}

\* Mutant: the channel has no bound.
HasRoom_Unbounded == TRUE

HasRoom == Len(delivered) < taken + InCap

Deliver ==
    /\ phase = "deliver"
    /\ Receiving
    /\ HasRoom
    /\ delivered' = Append(delivered, handing)
    /\ handing' = <<>>
    /\ phase' = "select"
    /\ UNCHANGED <<clientVars, readVars, partVars, ending, handlerVars,
                   drained, wrote>>

\* The receiver is gone: the loop returns Ok, with no close frame.
DeliverFails ==
    /\ phase = "deliver"
    /\ ~Receiving
    /\ EndWith("abandoned")
    /\ UNCHANGED <<clientVars, readVars, delivered, handlerVars, drained, wrote>>

\* The read timeout, or the stream fails or ends.
ReadFails ==
    /\ phase = "select"
    /\ \E how \in {"timeout", "io"} : EndWith(how)
    /\ UNCHANGED <<clientVars, readVars, delivered, handlerVars, drained, wrote>>

-----------------------------------------------------------------------------
(* The handler, with the WsContext it owns. *)

Receive ==
    /\ handler = "running"
    /\ taken < Len(delivered)
    /\ taken' = taken + 1
    /\ UNCHANGED <<clientVars, readVars, partVars, loopVars, handing, delivered,
                   handler, accepted, drained, wrote>>

Become(from, to) ==
    /\ handler \in from
    /\ handler' = to
    /\ UNCHANGED <<clientVars, readVars, partVars, loopVars, handing, delivered,
                   taken, drained, wrote>>

\* ctx.send(...).await
Send == accepted < MaxOut /\ Become({"running"}, "sending") /\ UNCHANGED accepted

Sent ==
    /\ phase # "ended"
    /\ accepted < drained + OutCap
    /\ Become({"sending"}, "running")
    /\ accepted' = accepted + 1

\* Mutant: the receiver outlives the loop.
SendFails_Never == FALSE

\* The loop has ended and dropped the receiver.
SendFails ==
    /\ phase = "ended"
    /\ Become({"sending"}, "running")
    /\ UNCHANGED accepted

\* The context is dropped, then its clone of the sender leaves the registry.
Return == Become({"running"}, "returned") /\ UNCHANGED accepted
Unregister == Become({"returned"}, "unregistered") /\ UNCHANGED accepted

\* A panic drops the context; the clone in the registry stays.
Panic == Become({"running"}, "panicked") /\ UNCHANGED accepted

-----------------------------------------------------------------------------

ClientStep == SendFrame \/ RestArrives
LoopStep ==
    \/ ReadHead \/ ReadFrame \/ ReadGarbage
    \/ WriteMessage \/ CloseNormally
    \/ Deliver \/ DeliverFails
HandlerStep == Receive \/ Send \/ Sent \/ SendFails \/ Return \/ Unregister \/ Panic

Next == ClientStep \/ LoopStep \/ ReadFails \/ HandlerStep

Spec == Init /\ [][Next]_vars

\* The runtime polls the loop and a handler that waits for room in the
\* channel.  The loop's writes complete: its client reads what it is sent
\* (websocket_loop has no write timeout).
Fairness ==
    /\ WF_vars(LoopStep)
    /\ WF_vars(Sent \/ SendFails)
    /\ WF_vars(Unregister)

-----------------------------------------------------------------------------
(* What the loop promises. *)

\* RFC 6455 reassembly as a reference: the messages, as the numbers of their
\* frames, that the first n of a sequence of frames make, and the one they leave open.
Reassembled(frames) ==
    LET after[n \in 0..Len(frames)] ==
            IF n = 0 THEN [open |-> <<>>, done |-> <<>>]
            ELSE LET f       == frames[n]
                     before  == after[n - 1]
                     message == IF f.op = "continuation" THEN Append(before.open, n) ELSE <<n>>
                 IN  IF f.op \notin {"text", "binary", "continuation"} THEN before
                     ELSE IF f.fin
                     THEN [open |-> <<>>, done |-> Append(before.done, message)]
                     ELSE [open |-> message, done |-> before.done]
    IN  after

Messages(frames) == Reassembled(frames)[Len(frames)].done

Ids(pieces) == [i \in 1..Len(pieces) |-> pieces[i].id]
DeliveredIds == [i \in 1..Len(delivered) |-> Ids(delivered[i])]

\* Reads that stop in the middle of a frame do no harm as long as the handler
\* sends nothing meanwhile.
DeliveredUnlessCut == ~cut => IsPrefix(DeliveredIds, Messages(script))

\* The handler receives the messages of the client, whole, in order and
\* none invented, however frames, control frames and writes interleave.
DeliveredInOrder == IsPrefix(DeliveredIds, Messages(script))

\* No message is larger than max_frame_bytes, in however many frames.
MessageBounded ==
    \A i \in 1..Len(delivered) : SizeOf(delivered[i]) <= MaxMessage

\* The places of the frames written with an opcode, their numbers, and whether these
\* grow from frame to frame.
Places(op)   == {i \in 1..Len(wrote) : wrote[i].op = op}
Numbers(op)  == {wrote[i].id : i \in Places(op)}
InOrder(op)  == \A i, j \in Places(op) : i < j => wrote[i].id < wrote[j].id

\* While the loop goes on, and no read was cut in the middle of a frame, the
\* pongs are the pings read so far, in order.
PongsMatchPings ==
    (ending = "none" /\ ~cut) =>
        /\ Numbers("pong") = {i \in 1..(pos - held) \div 2 : script[i].op = "ping"}
        /\ InOrder("pong")

\* A handler that ends a connection with a normal close has had all its
\* messages written before the close frame, in order.
NormalCloseFlushes ==
    /\ Numbers("text") = 1..drained /\ InOrder("text")
    /\ ending = "normal" => drained = accepted /\ wrote[Len(wrote)].op = "close"

\* Nothing follows a close frame.
CloseIsLast ==
    \A i \in 1..Len(wrote) : wrote[i].op = "close" => i = Len(wrote) /\ phase = "ended"

\* What the loop writes: a pong for every ping it reads, what the handler has sent up to
\* a normal close, and nothing behind a close frame.
WritesWhatItOwes == PongsMatchPings /\ NormalCloseFlushes /\ CloseIsLast

\* A send waits for ever only behind a loop that itself waits for the handler
\* to receive: incoming.send is awaited outside the select.
SendHeldByDeliveryOnly ==
    Fairness => (handler = "sending" ~>
                    handler # "sending" \/ (phase = "deliver" /\ ~HasRoom))
=============================================================================
