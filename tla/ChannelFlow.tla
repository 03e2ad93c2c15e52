----------------------------- MODULE ChannelFlow -----------------------------
(***************************************************************************)
(* One direction of one established channel of nexigon-multiplex           *)
(* (crates/libs/nexigon-multiplex/src/lib.rs): the Sender half on endpoint *)
(* A, the Receiver half on endpoint B, the credit-based flow control       *)
(* between them, closing and dropping of the halves, late frames for a     *)
(* channel that is already closed, and the loss of the connection.         *)
(*                                                                         *)
(* Bytes are abstracted to their position in the stream: a data frame      *)
(* carries the interval (from, to].  An endpoint's outgoing queue and the  *)
(* transport behind it are one FIFO, "wire" from A to B and "back" from B  *)
(* to A.  Queue limits are the subject of ConnectionLoop; here a control    *)
(* frame may find the queue full (which overloads the connection) at any   *)
(* time, because other channels share it.                                  *)
(***************************************************************************)
EXTENDS Integers, Sequences

CONSTANTS
    InitFrames,  \* CHANNEL_INITIAL_FRAME_CREDIT
    InitBytes,   \* CHANNEL_INITIAL_BYTE_CREDIT
    LimitFrames, \* limits.max_receive_frame_credit
    LimitBytes,  \* limits.max_receive_byte_credit
    MaxCredit,   \* u32::MAX
    MaxChunk,    \* limits.max_channel_payload_size()
    StreamLen    \* bound: number of bytes the writer offers

(* ConnectionLimits::validate demands windows of at least the initial size; *)
(* the credit counters are u32.                                            *)
ASSUME FlowAssumption ==
    /\ InitFrames \in Nat /\ InitFrames >= 2
    /\ InitBytes \in Nat /\ InitBytes >= 2
    /\ LimitFrames \in Nat /\ LimitFrames >= InitFrames
    /\ LimitBytes \in Nat /\ LimitBytes >= InitBytes
    /\ MaxCredit \in Nat /\ MaxCredit >= LimitFrames /\ MaxCredit >= LimitBytes
    /\ MaxChunk \in Nat /\ MaxChunk >= 1
    /\ StreamLen \in Nat

VARIABLES
    (* endpoint A: Sender and its SenderShared *)
    wpc,        \* "flushed" between the poll_flush and the rest of a write or close
    written,    \* bytes accepted by poll_write; (sent, written] is Sender.pending
    sent,       \* statistics.bytes_sent
    sFrame,     \* SenderShared.remaining_frame_credit
    sByte,      \* SenderShared.remaining_byte_credit
    sClosed,    \* SenderShared.closed
    sDropped,   \* SenderShared.dropped
    closedSent, \* Sender.closed_sent
    aOther,     \* the Receiver half of A's channel has been dropped
    aHandle,    \* A's entry: "active" in channels, "tombstone" in closed_channels, "none"
    aConn,      \* A's connection: "up", "closing" (is_closing), "closed" (close_state)
    (* the two FIFOs *)
    wire,       \* frames from A to B
    back,       \* frames from B to A
    (* endpoint B: Receiver and its ReceiverShared *)
    received,   \* history: bytes of data frames that B took from the transport
    buffer,     \* ReceiverShared.buffer
    read,       \* bytes handed to the reader
    eof,        \* the reader got None
    maxFrame,   \* ReceiverShared.max_frame_credit
    maxByte,    \* ReceiverShared.max_byte_credit
    rFrame,     \* remaining_frame_credit of the handle or of its tombstone
    rByte,      \* remaining_byte_credit of the handle or of its tombstone
    pFrame,     \* ReceiverShared.pending_frame_credit
    pByte,      \* ReceiverShared.pending_byte_credit
    rClosed,    \* ReceiverShared.closed
    rDropped,   \* ReceiverShared.dropped
    bOther,     \* the Sender half of B's channel has been dropped
    bHandle,    \* B's entry, as aHandle
    bConn,      \* B's connection, as aConn
    (* both *)
    violations, \* ProtocolViolation errors raised by either endpoint
    gFrame, gByte, \* history: credit granted by B in adjust frames
    tFrame, tByte  \* history: credit taken over by A from adjust frames

senderVars == <<wpc, written, sent, sFrame, sByte, sClosed, sDropped, closedSent>>
aVars == <<aOther, aHandle, aConn>>
windowVars == <<maxFrame, maxByte, pFrame, pByte>>
receiverVars == <<received, buffer, read, eof, rFrame, rByte, rClosed, rDropped>>
bVars == <<bOther, bHandle, bConn>>
creditHist == <<gFrame, gByte, tFrame, tByte>>
vars == <<senderVars, aVars, wire, back, windowVars, receiverVars, bVars,
          violations, creditHist>>

-----------------------------------------------------------------------------
Data(from, to) == [kind |-> "data", from |-> from, to |-> to]
Closed == [kind |-> "closed"]
Close == [kind |-> "close"]
(* upF and upB are history: the totals granted up to and with this frame. *)
Adjust(f, b, upF, upB) ==
    [kind |-> "adjust", frames |-> f, bytes |-> b, upF |-> upF, upB |-> upB]

Payload(d) == d.to - d.from
Smaller(m, n) == IF m <= n THEN m ELSE n

Init ==
    /\ wpc = "idle" /\ written = 0 /\ sent = 0
    /\ sFrame = InitFrames /\ sByte = InitBytes
    /\ sClosed = FALSE /\ sDropped = FALSE /\ closedSent = FALSE
    /\ aOther = FALSE /\ aHandle = "active" /\ aConn = "up"
    /\ wire = <<>> /\ back = <<>>
    /\ received = 0 /\ buffer = <<>> /\ read = 0 /\ eof = FALSE
    /\ maxFrame = InitFrames /\ maxByte = InitBytes
    /\ rFrame = InitFrames /\ rByte = InitBytes
    /\ pFrame = 0 /\ pByte = 0
    /\ rClosed = FALSE /\ rDropped = FALSE
    /\ bOther = FALSE /\ bHandle = "active" /\ bConn = "up"
    /\ violations = {}
    /\ gFrame = 0 /\ gByte = 0 /\ tFrame = 0 /\ tByte = 0

-----------------------------------------------------------------------------
(* ConnectionRef::send_frame: dropped when the connection is closing; a     *)
(* full queue overloads the connection instead.                            *)
SendFrameA(f) ==
    \/ /\ aConn = "up"
       /\ wire' = Append(wire, f)
       /\ UNCHANGED aConn
    \/ /\ aConn' = IF aConn = "up" THEN "closing" ELSE aConn
       /\ UNCHANGED wire

SendFrameB(f) ==
    \/ /\ bConn = "up"
       /\ back' = Append(back, f)
       /\ UNCHANGED bConn
    \/ /\ bConn' = IF bConn = "up" THEN "closing" ELSE bConn
       /\ UNCHANGED back

(* poll_send_chunk on a closed channel or closing connection. *)
PollFlushClosed ==
    /\ ~sDropped /\ wpc = "idle"
    /\ sClosed \/ aConn # "up"
    /\ sClosed' = TRUE
    /\ UNCHANGED <<wpc, written, sent, sFrame, sByte, sDropped, closedSent, aVars,
                   wire, back, windowVars, receiverVars, bVars, violations, creditHist>>

(* Mutation: the pending chunk is not cleared when it has been sent. *)
PollSendChunkAgain ==
    /\ ~sDropped /\ wpc = "idle" /\ ~sClosed /\ aConn = "up"
    /\ sent < written /\ sFrame > 0
    /\ wire' = Append(wire, Data(sent, written))
    /\ sFrame' = sFrame - 1
    /\ UNCHANGED <<wpc, written, sent, sByte, sClosed, sDropped, closedSent, aVars, back,
                   windowVars, receiverVars, bVars, violations, creditHist>>

(* poll_send_chunk with a pending chunk and frame credit: the chunk becomes *)
(* a data frame and its credit is spent.                                   *)
PollSendChunk ==
    /\ ~sDropped /\ wpc = "idle"
    /\ ~sClosed /\ aConn = "up"
    /\ sent < written
    /\ sFrame > 0
    /\ wire' = Append(wire, Data(sent, written))
    /\ sFrame' = sFrame - 1
    /\ sByte' = sByte - (written - sent)
    /\ sent' = written
    /\ UNCHANGED <<wpc, written, sClosed, sDropped, closedSent, aVars, back,
                   windowVars, receiverVars, bVars, violations, creditHist>>

(* poll_flush is Ready(Ok): nothing is pending.  The sender lock has been   *)
(* released when poll_write or poll_close continues.                       *)
PollFlushReady ==
    /\ ~sDropped /\ wpc = "idle"
    /\ ~sClosed /\ aConn = "up"
    /\ sent = written
    /\ wpc' = "flushed"
    /\ UNCHANGED <<written, sent, sFrame, sByte, sClosed, sDropped, closedSent, aVars,
                   wire, back, windowVars, receiverVars, bVars, violations, creditHist>>

(* The rest of poll_write for a buffer of n bytes: the chunk is bounded by  *)
(* the byte credit and the payload limit.  An empty buffer or no byte       *)
(* credit leaves everything as it is.                                      *)
PollWrite(n) ==
    /\ wpc = "flushed"
    /\ wpc' = "idle"
    /\ written' = written + Smaller(Smaller(sByte, n), MaxChunk)
    /\ UNCHANGED <<sent, sFrame, sByte, sClosed, sDropped, closedSent, aVars,
                   wire, back, windowVars, receiverVars, bVars, violations, creditHist>>

(* The rest of poll_close. *)
PollClose ==
    /\ wpc = "flushed"
    /\ wpc' = "idle"
    /\ ~closedSent
    /\ closedSent' = TRUE
    /\ sClosed' = TRUE
    /\ SendFrameA(Closed)
    /\ UNCHANGED <<written, sent, sFrame, sByte, sDropped, aOther, aHandle, back,
                   windowVars, receiverVars, bVars, violations, creditHist>>

(* Drop for Sender: a chunk that was not flushed is lost. *)
DropSender ==
    /\ ~sDropped /\ wpc = "idle"
    /\ sDropped' = TRUE
    /\ sClosed' = TRUE
    /\ IF closedSent THEN UNCHANGED <<wire, aConn>> ELSE SendFrameA(Closed)
    /\ UNCHANGED <<wpc, written, sent, sFrame, sByte, closedSent, aOther, aHandle, back,
                   windowVars, receiverVars, bVars, violations, creditHist>>

(* Drop of A's Receiver half, which belongs to the other direction. *)
DropOtherHalfA ==
    /\ ~aOther
    /\ aOther' = TRUE
    /\ UNCHANGED <<senderVars, aHandle, aConn, wire, back, windowVars, receiverVars,
                   bVars, violations, creditHist>>

(* cleanup_channels on A: both halves are gone. *)
CleanupChannelA ==
    /\ aConn # "closed" /\ aHandle = "active"
    /\ sDropped /\ aOther
    /\ aHandle' = "tombstone"
    /\ UNCHANGED <<senderVars, aOther, aConn, wire, back, windowVars, receiverVars,
                   bVars, violations, creditHist>>

(* Mutation: only the frame credit of an adjustment is added. *)
HandleAdjustFramesOnly ==
    /\ aConn # "closed"
    /\ back # <<>> /\ Head(back).kind = "adjust"
    /\ back' = Tail(back)
    /\ IF aHandle = "active"
       THEN sFrame' = sFrame + Head(back).frames /\ tFrame' = tFrame + Head(back).frames
       ELSE UNCHANGED <<sFrame, tFrame>>
    /\ UNCHANGED <<wpc, written, sent, sByte, sClosed, sDropped, closedSent, aVars, wire,
                   windowVars, receiverVars, bVars, violations, gFrame, gByte, tByte>>

(* Frame::ChannelAdjust on A.  For a recently closed channel it is ignored. *)
HandleAdjust ==
    /\ aConn # "closed"
    /\ back # <<>> /\ Head(back).kind = "adjust"
    /\ back' = Tail(back)
    /\ violations' = violations \cup
         (IF Head(back).frames = 0 /\ Head(back).bytes = 0
          THEN {"empty channel credit adjustment"} ELSE {}) \cup
         (IF aHandle = "active" /\ (\/ sFrame + Head(back).frames > MaxCredit
                                    \/ sByte + Head(back).bytes > MaxCredit)
          THEN {"credit overflow"} ELSE {})
    /\ IF aHandle = "active"
       THEN /\ sFrame' = sFrame + Head(back).frames
            /\ sByte' = sByte + Head(back).bytes
            /\ tFrame' = tFrame + Head(back).frames
            /\ tByte' = tByte + Head(back).bytes
       ELSE UNCHANGED <<sFrame, sByte, tFrame, tByte>>
    /\ UNCHANGED <<wpc, written, sent, sClosed, sDropped, closedSent, aVars, wire,
                   windowVars, receiverVars, bVars, gFrame, gByte>>

(* Frame::ChannelClose on A: the peer no longer reads. *)
HandleClose ==
    /\ aConn # "closed"
    /\ back # <<>> /\ Head(back).kind = "close"
    /\ back' = Tail(back)
    /\ sClosed' = (sClosed \/ aHandle = "active")
    /\ UNCHANGED <<wpc, written, sent, sFrame, sByte, sDropped, closedSent, aVars, wire,
                   windowVars, receiverVars, bVars, violations, creditHist>>

-----------------------------------------------------------------------------
(* Mutation: data that is discarded is not charged against the credit. *)
HandleDataUncharged ==
    /\ bConn # "closed"
    /\ wire # <<>> /\ Head(wire).kind = "data"
    /\ wire' = Tail(wire)
    /\ received' = Head(wire).to
    /\ IF bHandle = "active" /\ ~rClosed
       THEN /\ rFrame' = rFrame - 1
            /\ rByte' = rByte - Payload(Head(wire))
            /\ buffer' = Append(buffer, Head(wire))
       ELSE UNCHANGED <<rFrame, rByte, buffer>>
    /\ UNCHANGED <<senderVars, aVars, back, windowVars, read, eof, rClosed, rDropped,
                   bVars, violations, creditHist>>

(* Frame::ChannelData on B: charged against the credit of the channel, or,  *)
(* when the channel is gone, against what its tombstone kept                *)
(* (discard_late_channel_data).  A closed receiver discards the payload.   *)
HandleData ==
    /\ bConn # "closed"
    /\ wire # <<>> /\ Head(wire).kind = "data"
    /\ wire' = Tail(wire)
    /\ violations' = violations \cup
         (IF rFrame = 0 THEN {"no frame credit remaining"} ELSE {}) \cup
         (IF rByte < Payload(Head(wire)) THEN {"not enough byte credit"} ELSE {})
    /\ rFrame' = rFrame - 1
    /\ rByte' = rByte - Payload(Head(wire))
    /\ received' = Head(wire).to
    /\ buffer' = IF bHandle = "active" /\ ~rClosed THEN Append(buffer, Head(wire)) ELSE buffer
    /\ UNCHANGED <<senderVars, aVars, back, windowVars, read, eof, rClosed, rDropped,
                   bVars, creditHist>>

(* Frame::ChannelClosed on B: the peer sends no more. *)
HandleClosed ==
    /\ bConn # "closed"
    /\ wire # <<>> /\ Head(wire).kind = "closed"
    /\ wire' = Tail(wire)
    /\ rClosed' = (rClosed \/ bHandle = "active")
    /\ UNCHANGED <<senderVars, aVars, back, windowVars, received, buffer, read, eof,
                   rFrame, rByte, rDropped, bVars, violations, creditHist>>

(* max_*_credit after poll_next_chunk: doubled, up to the limit, when the   *)
(* credit is low and the last update was less than two round trips ago.    *)
Grown(low, recent, max, limit) ==
    IF low /\ recent THEN Smaller(2 * max, limit) ELSE max

(* poll_next_chunk takes a chunk from the buffer.  recentF and recentB are  *)
(* the two comparisons of the clock with the round-trip time, made one     *)
(* after the other.  The consumed credit is returned, together with the    *)
(* growth of the window, once enough of it has accumulated.                *)
PollNextChunk(recentF, recentB) ==
    LET frameLow == rFrame < maxFrame \div 2
        byteLow == rByte < maxByte \div 2
        newMaxF == Grown(frameLow, recentF, maxFrame, LimitFrames)
        newMaxB == Grown(byteLow, recentB, maxByte, LimitBytes)
        consumedF == pFrame + 1
        consumedB == pByte + Payload(Head(buffer))
        update == \/ newMaxF # maxFrame \/ newMaxB # maxByte
                  \/ frameLow /\ consumedF >= newMaxF \div 2
                  \/ byteLow /\ consumedB >= newMaxB \div 2
        addF == consumedF + (newMaxF - maxFrame)
        addB == consumedB + (newMaxB - maxByte)
    IN
    /\ ~rDropped
    /\ buffer # <<>>
    /\ buffer' = Tail(buffer)
    /\ read' = read + Payload(Head(buffer))
    /\ maxFrame' = newMaxF /\ maxByte' = newMaxB
    /\ \/ /\ update /\ bConn = "up"
          /\ back' = Append(back, Adjust(addF, addB, gFrame + addF, gByte + addB))
          /\ gFrame' = gFrame + addF /\ gByte' = gByte + addB
          /\ rFrame' = rFrame + addF /\ rByte' = rByte + addB
          /\ pFrame' = 0 /\ pByte' = 0
          /\ UNCHANGED bConn
       \/ /\ bConn' = IF update /\ bConn = "up" THEN "closing" ELSE bConn
          /\ pFrame' = consumedF /\ pByte' = consumedB
          /\ UNCHANGED <<back, gFrame, gByte, rFrame, rByte>>
    /\ UNCHANGED <<senderVars, aVars, wire, received, eof, rClosed, rDropped,
                   bOther, bHandle, violations, tFrame, tByte>>

(* Mutation: end of stream as soon as the channel is closed. *)
PollNextEofEarly ==
    /\ ~rDropped
    /\ rClosed
    /\ eof' = TRUE
    /\ UNCHANGED <<senderVars, aVars, wire, back, windowVars, received, buffer, read,
                   rFrame, rByte, rClosed, rDropped, bVars, violations, creditHist>>

(* poll_next_chunk with nothing buffered on a closed channel returns None. *)
PollNextEof ==
    /\ ~rDropped
    /\ buffer = <<>> /\ rClosed
    /\ eof' = TRUE
    /\ UNCHANGED <<senderVars, aVars, wire, back, windowVars, received, buffer, read,
                   rFrame, rByte, rClosed, rDropped, bVars, violations, creditHist>>

(* Drop for Receiver: what was buffered is discarded without returning its *)
(* credit.                                                                 *)
DropReceiver ==
    /\ ~rDropped
    /\ rDropped' = TRUE
    /\ rClosed' = TRUE
    /\ buffer' = <<>>
    /\ SendFrameB(Close)
    /\ UNCHANGED <<senderVars, aVars, wire, windowVars, received, read, eof, rFrame, rByte,
                   bOther, bHandle, violations, creditHist>>

DropOtherHalfB ==
    /\ ~bOther
    /\ bOther' = TRUE
    /\ UNCHANGED <<senderVars, aVars, wire, back, windowVars, receiverVars,
                   bHandle, bConn, violations, creditHist>>

(* Mutation: the tombstone keeps no credit. *)
CleanupChannelBNoCredit ==
    /\ bConn # "closed" /\ bHandle = "active"
    /\ rDropped /\ bOther
    /\ bHandle' = "tombstone"
    /\ rFrame' = 0 /\ rByte' = 0
    /\ UNCHANGED <<senderVars, aVars, wire, back, windowVars, received, buffer, read, eof,
                   rClosed, rDropped, bOther, bConn, violations, creditHist>>

(* cleanup_channels on B: the tombstone keeps the unused receive credit. *)
CleanupChannelB ==
    /\ bConn # "closed" /\ bHandle = "active"
    /\ rDropped /\ bOther
    /\ bHandle' = "tombstone"
    /\ UNCHANGED <<senderVars, aVars, wire, back, windowVars, receiverVars,
                   bOther, bConn, violations, creditHist>>

-----------------------------------------------------------------------------
(* terminate() clears the outgoing queue, so the transport delivers only a  *)
(* prefix of "wire"; an overload caused elsewhere leaves the queue alone.  *)
GoDownA ==
    /\ aConn = "up"
    /\ aConn' = "closing"
    /\ \E k \in 0..Len(wire) : wire' = SubSeq(wire, 1, k)
    /\ UNCHANGED <<senderVars, aOther, aHandle, back, windowVars, receiverVars,
                   bVars, violations, creditHist>>

GoDownB ==
    /\ bConn = "up"
    /\ bConn' = "closing"
    /\ \E k \in 0..Len(back) : back' = SubSeq(back, 1, k)
    /\ UNCHANGED <<senderVars, aVars, wire, windowVars, receiverVars,
                   bOther, bHandle, violations, creditHist>>

(* close_state on A: because the connection is closing, or because the     *)
(* transport is exhausted after the peer closed.  Of the frames in "wire"  *)
(* the ones still queued are dropped; the transport delivers a prefix.     *)
CloseStateA ==
    /\ \/ aConn = "closing"
       \/ aConn = "up" /\ bConn = "closed" /\ back = <<>>
    /\ aConn' = "closed"
    /\ aHandle' = "none"
    /\ sClosed' = (sClosed \/ aHandle = "active")
    /\ \E k \in 0..Len(wire) : wire' = SubSeq(wire, 1, k)
    /\ UNCHANGED <<wpc, written, sent, sFrame, sByte, sDropped, closedSent, aOther, back,
                   windowVars, receiverVars, bVars, violations, creditHist>>

CloseStateB ==
    /\ \/ bConn = "closing"
       \/ bConn = "up" /\ aConn = "closed" /\ wire = <<>>
    /\ bConn' = "closed"
    /\ bHandle' = "none"
    /\ rClosed' = (rClosed \/ bHandle = "active")
    /\ \E k \in 0..Len(back) : back' = SubSeq(back, 1, k)
    /\ UNCHANGED <<senderVars, aVars, wire, windowVars, received, buffer, read, eof,
                   rFrame, rByte, rDropped, bOther, violations, creditHist>>

Writer ==
    \/ PollFlushClosed \/ PollSendChunk \/ PollFlushReady \/ PollClose \/ DropSender
    \/ \E n \in 0 .. StreamLen - written : PollWrite(n)

(* The clock is read for the frame window before the byte window. *)
ReadChunk ==
    \E recentF, recentB \in BOOLEAN :
        (recentB => recentF) /\ PollNextChunk(recentF, recentB)

Reader == ReadChunk \/ PollNextEof \/ DropReceiver

ConnectionA == DropOtherHalfA \/ CleanupChannelA \/ HandleAdjust \/ HandleClose \/ GoDownA \/ CloseStateA
ConnectionB == DropOtherHalfB \/ CleanupChannelB \/ HandleData \/ HandleClosed \/ GoDownB \/ CloseStateB

Next == Writer \/ Reader \/ ConnectionA \/ ConnectionB

Spec == Init /\ [][Next]_vars

(* The connection tasks keep polling the transport, the reader keeps        *)
(* reading, and the writer keeps offering the rest of its bytes.            *)
FairSpec ==
    /\ Spec
    /\ WF_vars(HandleData) /\ WF_vars(HandleAdjust)
    /\ WF_vars(ReadChunk)
    /\ WF_vars(PollSendChunk) /\ WF_vars(PollFlushReady)
    /\ SF_vars(\E n \in 1 .. StreamLen - written : PollWrite(n))

-----------------------------------------------------------------------------
(* Properties *)

Handles == {"active", "tombstone", "none"}
Conns == {"up", "closing", "closed"}
Violations == {"empty channel credit adjustment", "credit overflow",
               "no frame credit remaining", "not enough byte credit"}
Intervals == {d \in [kind : {"data"}, from : Nat, to : Nat] : d.from < d.to}
Adjusts == [kind : {"adjust"}, frames : Nat, bytes : Nat, upF : Nat, upB : Nat]

(* Every variable stays within the type of the field it models; credits     *)
(* are never negative.                                                      *)
TypeOK ==
    /\ wpc \in {"idle", "flushed"}
    /\ written \in Nat /\ sent \in Nat /\ sFrame \in Nat /\ sByte \in Nat
    /\ sClosed \in BOOLEAN /\ sDropped \in BOOLEAN /\ closedSent \in BOOLEAN
    /\ aOther \in BOOLEAN /\ aHandle \in Handles /\ aConn \in Conns
    /\ wire \in Seq(Intervals \cup {Closed})
    /\ back \in Seq(Adjusts \cup {Close})
    /\ received \in Nat /\ buffer \in Seq(Intervals) /\ read \in Nat /\ eof \in BOOLEAN
    /\ maxFrame \in Nat /\ maxByte \in Nat /\ rFrame \in Nat /\ rByte \in Nat
    /\ pFrame \in Nat /\ pByte \in Nat
    /\ rClosed \in BOOLEAN /\ rDropped \in BOOLEAN
    /\ bOther \in BOOLEAN /\ bHandle \in Handles /\ bConn \in Conns
    /\ violations \subseteq Violations
    /\ gFrame \in Nat /\ gByte \in Nat /\ tFrame \in Nat /\ tByte \in Nat

(* Two endpoints that run this code never accuse each other of a protocol   *)
(* violation, whatever is in flight when halves are dropped, channels are   *)
(* cleaned up or the connection goes away: no data without credit, no late  *)
(* data beyond a tombstone's credit, no empty or overflowing adjustment.    *)
NoProtocolViolation == violations = {}

(* Data frames and bytes on their way to B, and credit on its way to A. *)
DataFrames(w) == Len(w) - (IF w # <<>> /\ w[Len(w)] = Closed THEN 1 ELSE 0)
FramesInFlight == DataFrames(wire)
BytesInFlight == sent - received

(* While A's connection is up, the credit A holds, what it has spent on     *)
(* frames B has not seen yet and what B has granted but A has not seen yet  *)
(* add up to what B (or its tombstone) is still prepared to accept.         *)
CreditConservation ==
    aConn = "up" =>
        /\ sFrame + FramesInFlight + (gFrame - tFrame) = rFrame
        /\ sByte + BytesInFlight + (gByte - tByte) = rByte

BufferedBytes == IF buffer = <<>> THEN 0 ELSE buffer[Len(buffer)].to - buffer[1].from

(* What B still accepts, buffers and has not returned yet never exceeds the *)
(* window, and the window never exceeds the configured limit, so a channel  *)
(* never buffers more than max_receive_*_credit.                            *)
ReceiveWindow ==
    /\ rFrame + Len(buffer) + pFrame <= maxFrame /\ maxFrame <= LimitFrames
    /\ rByte + BufferedBytes + pByte <= maxByte /\ maxByte <= LimitBytes

(* No credit leaks: as long as the receiver is in use on a connection that  *)
(* is up, every credit of the window is either available, buffered or       *)
(* waiting to be returned.                                                  *)
NoCreditLeak ==
    bConn = "up" /\ ~rDropped =>
        /\ rFrame + Len(buffer) + pFrame = maxFrame
        /\ rByte + BufferedBytes + pByte = maxByte

(* The chunks waiting for the reader are exactly the next bytes of the      *)
(* stream: nothing is lost, repeated or reordered between the bytes read    *)
(* and the bytes received.                                                  *)
InOrder ==
    ~rDropped =>
        /\ \A i \in 1 .. Len(buffer) - 1 : buffer[i].to = buffer[i+1].from
        /\ buffer # <<>> => buffer[1].from = read /\ buffer[Len(buffer)].to = received
        /\ buffer = <<>> => read = received

(* The assertion of poll_send_chunk: the credit that bounded a pending      *)
(* chunk is still there when the chunk is sent.                             *)
PendingCovered == written - sent <= sByte

(* Credits are never negative, what one end holds, what is under way and   *)
(* what the other end accepts add up, the window accounts for all of it    *)
(* within its limit, and a pending chunk is always covered.                 *)
CreditAccounting ==
    TypeOK /\ CreditConservation /\ ReceiveWindow /\ NoCreditLeak /\ PendingCovered

(* A reader told "end of stream" while both connections are up has read     *)
(* everything that was sent, and after a poll_close everything that was     *)
(* written.                                                                 *)
EofComplete ==
    eof /\ aConn = "up" /\ bConn = "up" =>
        read = sent /\ (closedSent => read = written)

(* One direction of a channel is a reliable byte stream. *)
Stream == INSTANCE ByteStream
            WITH accepted <- written, delivered <- read,
                 broken <- aConn # "up" \/ bConn # "up"
StreamSpec == Stream!Spec

(* Flow control never stalls: if writer and reader keep going, all bytes    *)
(* get through unless somebody closes the channel or the connection.        *)
NoStall ==
    <>(\/ read = StreamLen
       \/ sClosed \/ rClosed \/ aConn # "up" \/ bConn # "up")
=============================================================================
