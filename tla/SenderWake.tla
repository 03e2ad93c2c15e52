----------------------------- MODULE SenderWake -----------------------------
(***************************************************************************)
(* How a channel writer of nexigon-multiplex waits and is woken: one task  *)
(* that writes to a Sender, and the connection's event loop, which takes   *)
(* frames from the shared queue, handles ChannelAdjust and ChannelClose    *)
(* and tears the connection down.  Both lock SenderShared; a step of this  *)
(* module is one critical section.  poll_write takes the lock twice, once  *)
(* in poll_flush and once to reserve credit, and other steps come between. *)
(*                                                                         *)
(* Other channels put frames into the queue as well.                       *)
(***************************************************************************)
EXTENDS Naturals

CONSTANTS
    MaxFrames, \* bound: frame credit
    MaxBytes,  \* bound: byte credit
    QueueLimit \* data frames the queue takes: max_queued_frames less the reserve

ASSUME WakeAssumption ==
    MaxFrames \in Nat \ {0} /\ MaxBytes \in Nat \ {0} /\ QueueLimit \in Nat \ {0}

VARIABLES
    pc,          \* the writer: "idle", "flush", "reserve" (between the two locks),
                 \* "parked" (poll returned Pending), "error"
    pending,     \* Sender.pending: the size of the chunk, 0 if none
    frameCredit, \* SenderShared.remaining_frame_credit
    byteCredit,  \* SenderShared.remaining_byte_credit
    closed,      \* SenderShared.closed
    waker,       \* SenderShared.waker is set
    conn,        \* "up", "closing" (is_closing), "closed" (close_state was run)
    queued,      \* ConnectionQueues.frames: their number
    waiting,     \* the writer's waker is in ConnectionQueues.frame_waiters
    woken        \* the writer's task has been woken and not been polled since

wakeVars == <<pc, pending, frameCredit, byteCredit, closed, waker, conn, queued, waiting, woken>>
credit == <<frameCredit, byteCredit>>

WakeInit ==
    /\ pc = "idle" /\ pending = 0
    /\ frameCredit = MaxFrames /\ byteCredit = MaxBytes
    /\ closed = FALSE /\ waker = FALSE
    /\ conn = "up" /\ queued = 0 /\ waiting = FALSE /\ woken = FALSE

-----------------------------------------------------------------------------
(* The writer. *)

(* The task calls poll_write. *)
StartWrite ==
    /\ pc = "idle"
    /\ pc' = "flush"
    /\ UNCHANGED <<pending, credit, closed, waker, conn, queued, waiting, woken>>

(* The executor polls the task again. *)
Repoll ==
    /\ pc = "parked" /\ woken
    /\ woken' = FALSE
    /\ pc' = "flush"
    /\ UNCHANGED <<pending, credit, closed, waker, conn, queued, waiting>>

(* poll_send_chunk on a closed channel or connection. *)
FlushClosed ==
    /\ pc = "flush"
    /\ closed \/ conn # "up"
    /\ closed' = TRUE
    /\ pc' = "error"
    /\ UNCHANGED <<pending, credit, waker, conn, queued, waiting, woken>>

FlushNothing ==
    /\ pc = "flush" /\ ~closed /\ conn = "up" /\ pending = 0
    /\ pc' = "reserve"
    /\ UNCHANGED <<pending, credit, closed, waker, conn, queued, waiting, woken>>

CanSend == pc = "flush" /\ ~closed /\ conn = "up" /\ pending > 0

FlushSend ==
    /\ CanSend /\ frameCredit > 0 /\ queued < QueueLimit
    /\ queued' = queued + 1
    /\ frameCredit' = frameCredit - 1
    /\ byteCredit' = byteCredit - pending
    /\ pending' = 0
    /\ pc' = "reserve"
    /\ UNCHANGED <<closed, waker, conn, waiting, woken>>

FlushFull ==
    /\ CanSend /\ frameCredit > 0 /\ queued >= QueueLimit
    /\ waiting' = TRUE
    /\ pc' = "parked"
    /\ UNCHANGED <<pending, credit, closed, waker, conn, queued, woken>>

FlushNoCredit ==
    /\ CanSend /\ frameCredit = 0
    /\ waker' = TRUE
    /\ pc' = "parked"
    /\ UNCHANGED <<pending, credit, closed, conn, queued, waiting, woken>>

(* The rest of poll_write: it looks at the credit only. *)
ReserveNoCredit ==
    /\ pc = "reserve" /\ byteCredit = 0
    /\ waker' = TRUE
    /\ pc' = "parked"
    /\ UNCHANGED <<pending, credit, closed, conn, queued, waiting, woken>>

Reserve(n) ==
    /\ pc = "reserve" /\ n <= byteCredit
    /\ pending' = n
    /\ pc' = "idle"
    /\ UNCHANGED <<credit, closed, waker, conn, queued, waiting, woken>>

-----------------------------------------------------------------------------
(* The connection's event loop, and the writers of other channels. *)

WakeSender == waker' = FALSE /\ woken' = (woken \/ waker)
WakeWaiters == waiting' = FALSE /\ woken' = (woken \/ waiting)

(* Mutation: the writer is woken only if it got frame credit. *)
AdjustWakesForFrames(f, b) ==
    /\ conn # "closed"
    /\ f + b > 0 /\ frameCredit + f <= MaxFrames /\ byteCredit + b <= MaxBytes
    /\ frameCredit' = frameCredit + f
    /\ byteCredit' = byteCredit + b
    /\ IF f > 0 THEN WakeSender ELSE UNCHANGED <<waker, woken>>
    /\ UNCHANGED <<pc, pending, closed, conn, queued, waiting>>

(* Frames handled after a local terminate belong to the current poll. *)
AdjustWakes(f, b) ==
    /\ conn # "closed"
    /\ f + b > 0 /\ frameCredit + f <= MaxFrames /\ byteCredit + b <= MaxBytes
    /\ frameCredit' = frameCredit + f
    /\ byteCredit' = byteCredit + b
    /\ WakeSender
    /\ UNCHANGED <<pc, pending, closed, conn, queued, waiting>>

CloseWakes ==
    /\ conn # "closed"
    /\ closed' = TRUE
    /\ WakeSender
    /\ UNCHANGED <<pc, pending, credit, conn, queued, waiting>>

PopFrame ==
    /\ queued > 0
    /\ queued' = queued - 1
    /\ WakeWaiters
    /\ UNCHANGED <<pc, pending, credit, closed, waker, conn>>

OtherFrame ==
    /\ conn = "up" /\ queued < QueueLimit
    /\ queued' = queued + 1
    /\ UNCHANGED <<pc, pending, credit, closed, waker, conn, waiting, woken>>

(* terminate clears the queues; mark_overloaded keeps them; both wake the  *)
(* frame waiters.                                                          *)
GoDown ==
    /\ conn = "up"
    /\ conn' = "closing"
    /\ queued' \in {queued, 0}
    /\ WakeWaiters
    /\ UNCHANGED <<pc, pending, credit, closed, waker>>

(* Mutation: the wakers are dropped without being woken. *)
CloseStateSilent ==
    /\ conn # "closed"
    /\ conn' = "closed"
    /\ closed' = TRUE
    /\ queued' = 0
    /\ waker' = FALSE /\ waiting' = FALSE
    /\ UNCHANGED <<pc, pending, credit, woken>>

(* The channel's handle is dropped with its wakers taken: nobody will wake *)
(* the sender after this step.                                             *)
CloseState ==
    /\ conn # "closed"
    /\ conn' = "closed"
    /\ closed' = TRUE
    /\ queued' = 0
    /\ waker' = FALSE /\ waiting' = FALSE
    /\ woken' = (woken \/ waker \/ waiting)
    /\ UNCHANGED <<pc, pending, credit>>

-----------------------------------------------------------------------------
WritingTask ==
    \/ StartWrite \/ Repoll
    \/ FlushClosed \/ FlushNothing \/ FlushSend \/ FlushFull \/ FlushNoCredit
    \/ ReserveNoCredit \/ \E n \in 1..MaxBytes : Reserve(n)

EventLoop ==
    \/ \E f \in 0..MaxFrames, b \in 0..MaxBytes : AdjustWakes(f, b)
    \/ CloseWakes \/ PopFrame \/ GoDown \/ CloseState

WakeNext == WritingTask \/ EventLoop \/ OtherFrame

WakeSpec == WakeInit /\ [][WakeNext]_wakeVars

(* The executor polls woken tasks, the writer keeps polling, and the event *)
(* loop tears down a connection that is closing.                           *)
FairWakeSpec == WakeSpec /\ WF_wakeVars(WritingTask) /\ WF_wakeVars(conn = "closing" /\ CloseState)

-----------------------------------------------------------------------------
WakeTypeOK ==
    /\ pc \in {"idle", "flush", "reserve", "parked", "error"}
    /\ pending \in 0..MaxBytes
    /\ frameCredit \in 0..MaxFrames /\ byteCredit \in 0..MaxBytes
    /\ closed \in BOOLEAN /\ waker \in BOOLEAN /\ waiting \in BOOLEAN /\ woken \in BOOLEAN
    /\ conn \in {"up", "closing", "closed"} /\ queued \in 0..QueueLimit

(* A parked writer that nobody has woken still lacks what it waits for,    *)
(* and its waker is where the next change of just that is announced:       *)
(* credit in SenderShared, room in the queue's frame_waiters.              *)
NoLostWake ==
    WakeTypeOK /\ (pc = "parked" /\ ~woken /\ conn # "closed" =>
        \/ waiting /\ pending > 0 /\ queued = QueueLimit
        \/ waker /\ pending > 0 /\ frameCredit = 0
        \/ waker /\ pending = 0 /\ byteCredit = 0)

(* A writer that waits in poll_flush, for frame credit or for room in the  *)
(* queue, gets its error when the channel's connection goes down.          *)
FlushEnds == (pc = "parked" /\ pending > 0 /\ conn # "up") ~> pc = "error"

=============================================================================
