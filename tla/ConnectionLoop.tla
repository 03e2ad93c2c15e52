---------------------------- MODULE ConnectionLoop ----------------------------
(***************************************************************************)
(* The event loop of one connection of nexigon-multiplex (poll_event): its *)
(* phases, the outgoing queue with its reserve for control frames, the     *)
(* Hello handshake, pings, and the three deadlines; which wakers a poll    *)
(* leaves behind, and so whether it is ever polled again.                  *)
(*                                                                         *)
(* Around it: tasks that queue frames, a transport of bounded capacity in  *)
(* both directions, timers, and the peer, which follows the same protocol, *)
(* breaks off, or stops without a sign.  Commands and channels are the     *)
(* subject of ChannelLifecycle, their frames are "data" and "control" here.*)
(* A timer may fire any time after it was started.                         *)
(***************************************************************************)
EXTENDS Naturals, Sequences, FiniteSets

CONSTANTS
    MaxQueued,    \* limits.max_queued_frames
    Reserved,     \* limits.reserved_control_queue_frames
    MaxProcessed, \* limits.max_frames_processed_per_poll
    SinkCap,      \* frames the transport's sink takes unflushed
    InCap,        \* frames on the way from the peer
    MaxSent,      \* bound: frames queued and terminations by tasks
    MaxPeerSent   \* bound: frames of the peer that are not part of the liveness protocol

ASSUME LoopAssumption ==
    /\ {MaxQueued, Reserved, MaxProcessed, SinkCap, InCap} \subseteq Nat \ {0}
    /\ Reserved < MaxQueued
    /\ MaxSent \in Nat /\ MaxPeerSent \in Nat

VARIABLES
    pc,          \* the phase of poll_event: "idle" between polls
    handled,     \* frames sent or processed in this phase
    expired,     \* the deadlines poll_deadlines found expired
    cause,       \* why the connection was closed, "none" while it is up
    shared,      \* ConnectionShared: "up", "closed" (terminate), "overloaded"
    hello,       \* hello_received
    outstanding, \* ping_outstanding
    flushing,    \* ping_awaiting_flush
    writeActive, \* ping_write_deadline_active
    pongActive,  \* pong_deadline_active
    ponged,      \* pong_received
    pinged,      \* last_ping is set
    timer,       \* each timer: "idle" (runs, no waker), "armed" (runs, with waker), "fired"
    woken,       \* the connection's task will be polled
    sinkWaker, streamWaker, \* the transport holds the task's waker
    queue,       \* ConnectionQueues.frames
    sink,        \* frames handed to the transport and not flushed
    in,          \* frames on the way from the peer
    link,        \* "up", "cut" (the transport ends), "silent" (the peer stopped)
    peer,        \* the peer: Hello sent and received, pongs owed, ping outstanding
    peerViolation, \* the peer saw a violation of the protocol
    late,        \* history: deadlines the handshake or the current ping has missed
    answeredLate, \* history: the last pong was handled in the poll that had found a
                 \* deadline of its ping expired; the interval was not polled since
    sent, peerSent

deadlineVars == <<writeActive, pongActive, timer, late>>
pingVars == <<outstanding, flushing, ponged, pinged, answeredLate>>
wakerVars == <<woken, sinkWaker, streamWaker>>
pollVars == <<pc, handled, expired, cause>>
transportVars == <<sink, in, link>>
peerVars == <<peer, peerViolation, peerSent>>
vars == <<pollVars, shared, hello, pingVars, deadlineVars, wakerVars, queue,
          transportVars, peerVars, sent>>

Deadlines == {"hello", "write", "pong"}
Timers == Deadlines \union {"tick"}
Kinds == {"hello", "control", "data", "ping", "pong"}

(* Connection::with_limits: the Hello is queued, the timers run unpolled.  *)
Init ==
    /\ pc = "idle" /\ handled = 0 /\ expired = {} /\ cause = "none"
    /\ shared = "up" /\ hello = FALSE
    /\ outstanding = FALSE /\ flushing = FALSE /\ writeActive = FALSE /\ pongActive = FALSE
    /\ ponged = TRUE /\ pinged = FALSE
    /\ timer = [t \in Timers |-> "idle"]
    /\ woken = TRUE /\ sinkWaker = FALSE /\ streamWaker = FALSE
    /\ queue = <<"hello">> /\ sink = <<>> /\ in = <<>> /\ link = "up"
    /\ peer = [sentHello |-> FALSE, gotHello |-> FALSE, owed |-> 0, pinging |-> FALSE]
    /\ peerViolation = FALSE /\ late = {} /\ answeredLate = FALSE /\ sent = 0 /\ peerSent = 0

-----------------------------------------------------------------------------
(* The shared outgoing queue. *)

(* try_queue_priority_frame: ahead of everything but an unsent Hello. *)
Priority(f) ==
    IF queue # <<>> /\ Head(queue) = "hello"
    THEN <<"hello", f>> \o Tail(queue)
    ELSE <<f>> \o queue

DataLimit == MaxQueued - Reserved

(* A channel's poll_send_chunk; a full queue makes the channel wait. *)
QueueData ==
    /\ shared = "up" /\ hello /\ sent < MaxSent
    /\ Len(queue) < DataLimit
    /\ queue' = Append(queue, "data")
    /\ woken' = TRUE /\ sent' = sent + 1
    /\ UNCHANGED <<pollVars, shared, hello, pingVars, deadlineVars, sinkWaker, streamWaker,
                   transportVars, peerVars>>

(* ConnectionRef::send_frame: a full queue overloads the connection. *)
QueueControl ==
    /\ shared = "up" /\ sent < MaxSent
    /\ IF Len(queue) < MaxQueued
       THEN queue' = Append(queue, "control") /\ UNCHANGED shared
       ELSE shared' = "overloaded" /\ UNCHANGED queue
    /\ woken' = TRUE /\ sent' = sent + 1
    /\ UNCHANGED <<pollVars, hello, pingVars, deadlineVars, sinkWaker, streamWaker,
                   transportVars, peerVars>>

(* ConnectionRef::terminate *)
Terminate ==
    /\ shared # "closed" /\ sent < MaxSent
    /\ shared' = "closed"
    /\ queue' = <<>>
    /\ woken' = TRUE /\ sent' = sent + 1
    /\ UNCHANGED <<pollVars, hello, pingVars, deadlineVars, sinkWaker, streamWaker,
                   transportVars, peerVars>>

-----------------------------------------------------------------------------
(* poll_event *)

(* poll_event returns: its local variables are gone. *)
Return == pc' = "idle" /\ handled' = 0 /\ expired' = {}

(* The poll ends with an error or the end of the stream: close_state. *)
End(c) ==
    /\ Return
    /\ cause' = c
    /\ shared' = "closed" /\ queue' = <<>>
    /\ UNCHANGED <<hello, pingVars, deadlineVars, sinkWaker, streamWaker,
                   link, peerVars, sent>>

(* What poll_deadlines looks at. *)
Watched ==
    (IF hello THEN {} ELSE {"hello"})
      \union (IF writeActive THEN {"write"} ELSE {})
      \union (IF pongActive /\ ~ponged THEN {"pong"} ELSE {})

Fired(t) == timer[t] = "fired"

(* Timers that are polled: those that have not fired keep the waker. *)
Polled(ts) == [t \in Timers |-> IF t \in ts /\ ~Fired(t) THEN "armed" ELSE timer[t]]

EnterClosed ==
    /\ pc = "idle" /\ cause = "none" /\ woken
    /\ shared # "up"
    /\ End(IF shared = "closed" THEN "local" ELSE "overload")
    /\ woken' = FALSE
    /\ UNCHANGED <<sink, in>>

Polling == pc = "idle" /\ cause = "none" /\ woken /\ shared = "up"

Enter ==
    /\ pc' = "commands" /\ handled' = 0
    /\ expired' = {t \in Watched : Fired(t)}
    /\ answeredLate' = FALSE
    /\ UNCHANGED <<cause, shared, hello, flushing, ponged, pinged, pongActive,
                   sinkWaker, streamWaker, transportVars, peerVars, sent>>

(* Mutation: the interval is not polled until it has elapsed. *)
EnterNoTick ==
    /\ Polling /\ Enter
    /\ timer' = Polled(Watched)
    /\ hello /\ ~outstanding => ~Fired("tick")
    /\ woken' = FALSE
    /\ UNCHANGED <<outstanding, writeActive, late, queue>>

(* ping: not yet, or not again. *)
EnterNoPing ==
    /\ Polling /\ Enter
    /\ timer' = Polled(Watched \union (IF hello /\ ~outstanding THEN {"tick"} ELSE {}))
    /\ hello /\ ~outstanding => ~Fired("tick")
    /\ woken' = FALSE
    /\ UNCHANGED <<outstanding, writeActive, late, queue>>

(* Mutation: the deadline for writing the ping is not started. *)
EnterPingNoDeadline ==
    /\ Polling /\ hello /\ ~outstanding /\ Fired("tick")
    /\ Len(queue) < MaxQueued
    /\ Enter
    /\ queue' = Priority("ping")
    /\ outstanding' = TRUE
    /\ timer' = [Polled(Watched) EXCEPT !["tick"] = "idle"]
    /\ woken' = TRUE
    /\ UNCHANGED <<writeActive, late>>

(* ping: the interval has elapsed. *)
EnterPing ==
    /\ Polling /\ hello /\ ~outstanding /\ Fired("tick")
    /\ Len(queue) < MaxQueued
    /\ Enter
    /\ queue' = Priority("ping")
    /\ outstanding' = TRUE /\ writeActive' = TRUE
    /\ timer' = [Polled(Watched) EXCEPT !["tick"] = "idle", !["write"] = "armed"]
    /\ woken' = TRUE
    /\ UNCHANGED late

(* Mutation: a ping may use no more than the share of the data.  *)
EnterPingFullEarly ==
    /\ Polling /\ hello /\ ~outstanding /\ Fired("tick")
    /\ Len(queue) >= DataLimit
    /\ End("overload")
    /\ woken' = FALSE
    /\ UNCHANGED <<sink, in>>

EnterPingFull ==
    /\ Polling /\ hello /\ ~outstanding /\ Fired("tick")
    /\ Len(queue) >= MaxQueued
    /\ End("overload")
    /\ woken' = FALSE
    /\ UNCHANGED <<sink, in>>

(* Phase 1: ChannelLifecycle.  A task may have overloaded the queue. *)
Commands ==
    /\ pc = "commands"
    /\ \/ shared = "overloaded" /\ End("overload")
       \/ /\ shared # "overloaded" /\ pc' = "send"
          /\ UNCHANGED <<handled, expired, cause, shared, hello, pingVars, deadlineVars,
                         sinkWaker, streamWaker, queue, link, peerVars, sent>>
    /\ UNCHANGED <<woken, sink, in>>

(* Phase 2: a frame goes to the transport. *)
SendFrame ==
    /\ pc = "send" /\ link # "cut"
    /\ handled < MaxQueued /\ Len(sink) < SinkCap /\ queue # <<>>
    /\ queue' = Tail(queue)
    /\ sink' = Append(sink, Head(queue))
    /\ handled' = handled + 1
    /\ IF outstanding /\ ~pinged /\ Head(queue) = "ping"
       THEN pinged' = TRUE /\ ponged' = FALSE /\ flushing' = TRUE
       ELSE UNCHANGED <<pinged, ponged, flushing>>
    /\ UNCHANGED <<pc, expired, cause, shared, hello, outstanding, answeredLate, deadlineVars,
                   wakerVars, in, link, peerVars, sent>>

(* Enough frames were sent, the transport is not ready for one more, or    *)
(* there is none.                                                          *)
SendDone ==
    /\ pc = "send" /\ link # "cut"
    /\ \/ handled = MaxQueued /\ woken' = TRUE /\ UNCHANGED sinkWaker
       \/ handled < MaxQueued /\ sinkWaker' = TRUE /\ UNCHANGED woken
       \/ /\ handled < MaxQueued /\ Len(sink) < SinkCap /\ queue = <<>>
          /\ UNCHANGED <<woken, sinkWaker>>
    /\ pc' = "flush" /\ handled' = 0
    /\ UNCHANGED <<expired, cause, shared, hello, pingVars, deadlineVars, streamWaker, queue,
                   transportVars, peerVars, sent>>

SendFails ==
    /\ pc \in {"send", "flush"} /\ link = "cut"
    /\ End("transport")
    /\ UNCHANGED <<woken, sink, in>>

(* Mutation: the deadline for the pong runs since the connection was made. *)
FlushedNoReset ==
    /\ pc = "flush" /\ sink = <<>> /\ link # "cut"
    /\ pc' = "receive"
    /\ IF flushing
       THEN /\ flushing' = FALSE /\ writeActive' = FALSE /\ pongActive' = TRUE
            /\ timer' = Polled({"pong"})
       ELSE UNCHANGED <<flushing, writeActive, pongActive, timer>>
    /\ UNCHANGED <<handled, expired, cause, shared, hello, outstanding, ponged, pinged,
                   answeredLate, late, wakerVars, queue, transportVars, peerVars, sent>>

(* Phase 3.  pong_received is never set while ping_awaiting_flush is. *)
Flushed ==
    /\ pc = "flush" /\ sink = <<>> /\ link # "cut"
    /\ pc' = "receive"
    /\ IF flushing
       THEN /\ flushing' = FALSE /\ writeActive' = FALSE
            /\ IF ponged
               THEN outstanding' = FALSE /\ UNCHANGED <<pongActive, timer>>
               ELSE /\ pongActive' = TRUE
                    /\ timer' = [timer EXCEPT !["pong"] = "armed"]
                    /\ UNCHANGED outstanding
       ELSE UNCHANGED <<flushing, writeActive, pongActive, timer, outstanding>>
    /\ UNCHANGED <<handled, expired, cause, shared, hello, ponged, pinged, answeredLate, late,
                   wakerVars, queue, transportVars, peerVars, sent>>

FlushPending ==
    /\ pc = "flush" /\ sink # <<>> /\ link # "cut"
    /\ pc' = "receive"
    /\ sinkWaker' = TRUE
    /\ UNCHANGED <<handled, expired, cause, shared, hello, pingVars, deadlineVars, woken,
                   streamWaker, queue, transportVars, peerVars, sent>>

-----------------------------------------------------------------------------
(* Phase 4: frames of the peer. *)

Receiving == pc = "receive" /\ handled < MaxProcessed

(* The deadline that a frame of this kind does not meet any more. *)
Missed(kind) ==
    (IF hello \/ kind = "hello" THEN {} ELSE expired \intersect {"hello"})
      \union (IF ponged \/ kind = "pong" THEN {} ELSE expired \intersect {"pong"})
      \union (IF ~writeActive \/ kind = "pong" THEN {} ELSE expired \intersect {"write"})

Take(kind) == Receiving /\ in # <<>> /\ Head(in) = kind /\ in' = Tail(in)

(* The frame was handled and poll_event goes on to the next. *)
Handled ==
    /\ pc' = "receive" /\ handled' = handled + 1
    /\ UNCHANGED <<expired, cause, sinkWaker, streamWaker, sink, link, peerVars, sent>>

(* The frame makes an event: poll_event returns and will be called again.  *)
Event ==
    /\ Return /\ woken' = TRUE
    /\ UNCHANGED <<cause, sinkWaker, streamWaker, sink, link, peerVars,
                   sent>>

ReceiveLate ==
    /\ Receiving /\ in # <<>>
    /\ \E d \in Missed(Head(in)) : End(d)
    /\ in' = Tail(in)
    /\ UNCHANGED <<woken, sink>>

(* The first frame must be a Hello, and no other may be one; an answer to  *)
(* a ping needs a ping.                                                    *)
ReceiveViolation ==
    /\ Receiving /\ in # <<>>
    /\ Missed(Head(in)) = {}
    /\ \/ hello = (Head(in) = "hello")
       \/ Head(in) = "pong" /\ ~pinged
    /\ in' = Tail(in)
    /\ End("violation")
    /\ UNCHANGED <<woken, sink>>

ReceiveHello ==
    /\ Take("hello") /\ Missed("hello") = {} /\ ~hello
    /\ hello' = TRUE /\ late' = {}
    /\ Event
    /\ UNCHANGED <<shared, pingVars, writeActive, pongActive, timer, queue>>

(* Channel frames: data and answers, which make no event, and requests,    *)
(* which do.                                                               *)
ReceiveChannelFrame ==
    /\ hello
    /\ \/ Take("data") /\ Missed("data") = {} /\ Handled /\ UNCHANGED woken
       \/ Take("control") /\ Missed("control") = {} /\ Event
    /\ UNCHANGED <<shared, hello, pingVars, deadlineVars, queue>>

ReceivePing ==
    /\ hello
    /\ Take("ping") /\ Missed("ping") = {}
    /\ IF shared = "up" /\ Len(queue) < MaxQueued
       THEN /\ queue' = Priority("pong") /\ woken' = TRUE
            /\ Handled
            /\ UNCHANGED <<shared, hello, pingVars, deadlineVars>>
       ELSE End("overload") /\ UNCHANGED <<woken, sink>>

(* handle_pong: it makes no event, so this poll ends without another look  *)
(* at the interval, and expired deadlines of the ping hold no waker.       *)
ReceivePong ==
    /\ hello /\ pinged
    /\ Take("pong") /\ Missed("pong") = {}
    /\ pinged' = FALSE /\ ponged' = TRUE
    /\ outstanding' = FALSE /\ flushing' = FALSE /\ writeActive' = FALSE /\ pongActive' = FALSE
    /\ answeredLate' = (expired \intersect {"write", "pong"} # {})
    /\ late' = {}
    /\ Handled
    /\ UNCHANGED <<shared, hello, timer, woken, queue>>

(* The transport has nothing, or enough frames were processed. *)
ReceiveDone ==
    /\ pc = "receive"
    /\ \/ handled = MaxProcessed /\ woken' = TRUE /\ UNCHANGED streamWaker
       \/ /\ handled < MaxProcessed /\ in = <<>> /\ link # "cut"
          /\ streamWaker' = TRUE /\ UNCHANGED woken
    /\ pc' = "deadlines"
    /\ UNCHANGED <<handled, expired, cause, shared, hello, pingVars, deadlineVars, sinkWaker,
                   queue, transportVars, peerVars, sent>>

ReceiveEnd ==
    /\ Receiving /\ in = <<>> /\ link = "cut"
    /\ End("transport")
    /\ UNCHANGED <<woken, sink, in>>

(* The deadlines that are still missed after all that. *)
CheckDeadlines ==
    /\ pc = "deadlines"
    /\ \/ \E d \in Missed("none") : End(d)
       \/ /\ Missed("none") = {}
          /\ Return
          /\ UNCHANGED <<cause, shared, hello, pingVars, deadlineVars,
                         sinkWaker, streamWaker, queue, link, peerVars, sent>>
    /\ UNCHANGED <<woken, sink, in>>

-----------------------------------------------------------------------------
(* Timers and transport. *)

Fire(t) ==
    /\ ~Fired(t)
    /\ timer' = [timer EXCEPT ![t] = "fired"]
    /\ woken' = (woken \/ timer[t] = "armed")
    /\ late' = late \union
         (IF \/ t = "hello" /\ ~hello
             \/ t = "write" /\ outstanding /\ writeActive
             \/ t = "pong" /\ outstanding /\ pongActive
          THEN {t} ELSE {})
    /\ UNCHANGED <<pollVars, shared, hello, pingVars, writeActive, pongActive, sinkWaker,
                   streamWaker, queue, transportVars, peerVars, sent>>

(* A frame reaches the peer.  What a silent peer gets stays unread, which  *)
(* nobody can tell from a pong that never comes.                           *)
Transmit ==
    /\ sink # <<>> /\ link # "cut"
    /\ sink' = Tail(sink)
    /\ LET f == Head(sink) IN
       /\ peerViolation' = \/ peerViolation
                           \/ peer.gotHello = (f = "hello")
                           \/ f = "pong" /\ ~peer.pinging
       /\ peer' = [peer EXCEPT !.gotHello = @ \/ f = "hello",
                               !.owed = @ + (IF f = "ping" THEN 1 ELSE 0),
                               !.pinging = @ /\ f # "pong"]
    /\ woken' = (woken \/ sinkWaker) /\ sinkWaker' = FALSE
    /\ UNCHANGED <<pollVars, shared, hello, pingVars, deadlineVars, streamWaker, queue, in,
                   link, peerSent, sent>>

(* The transport is ready again. *)
SinkReady ==
    /\ sinkWaker
    /\ woken' = TRUE /\ sinkWaker' = FALSE
    /\ UNCHANGED <<pollVars, shared, hello, pingVars, deadlineVars, streamWaker, queue,
                   transportVars, peerVars, sent>>

(* The peer sends f: it has sent its Hello before, answers what it was     *)
(* asked, and has at most one ping outstanding.                            *)
PeerSend(f) ==
    /\ link = "up" /\ Len(in) < InCap
    /\ peer.sentHello # (f = "hello")
    /\ CASE f = "hello" -> peer' = [peer EXCEPT !.sentHello = TRUE] /\ UNCHANGED peerSent
         [] f = "pong" -> peer.owed > 0 /\ peer' = [peer EXCEPT !.owed = @ - 1]
                            /\ UNCHANGED peerSent
         [] f = "ping" -> peer.gotHello /\ ~peer.pinging /\ peerSent < MaxPeerSent
                            /\ peer' = [peer EXCEPT !.pinging = TRUE]
                            /\ peerSent' = peerSent + 1
         [] OTHER -> peerSent < MaxPeerSent /\ peerSent' = peerSent + 1 /\ UNCHANGED peer
    /\ in' = Append(in, f)
    /\ woken' = (woken \/ streamWaker) /\ streamWaker' = FALSE
    /\ UNCHANGED <<pollVars, shared, hello, pingVars, deadlineVars, sinkWaker, queue, sink,
                   link, peerViolation, sent>>

(* The connection breaks, or the peer stops without a sign. *)
LinkFails ==
    /\ link = "up"
    /\ \/ link' = "cut" /\ woken' = (woken \/ streamWaker \/ sinkWaker)
       \/ link' = "silent" /\ UNCHANGED woken
    /\ UNCHANGED <<pollVars, shared, hello, pingVars, deadlineVars, sinkWaker, streamWaker, queue,
                   sink, in, peerVars, sent>>

-----------------------------------------------------------------------------
Poll ==
    \/ EnterClosed \/ EnterNoPing \/ EnterPing \/ EnterPingFull
    \/ Commands \/ SendFrame \/ SendDone \/ SendFails
    \/ Flushed \/ FlushPending
    \/ ReceiveLate \/ ReceiveViolation \/ ReceiveHello \/ ReceiveChannelFrame
    \/ ReceivePing \/ ReceivePong \/ ReceiveDone \/ ReceiveEnd
    \/ CheckDeadlines

Tasks == QueueData \/ QueueControl \/ Terminate

Environment ==
    \/ \E t \in Timers : Fire(t)
    \/ Transmit \/ SinkReady
    \/ \E f \in Kinds : PeerSend(f)
    \/ LinkFails

Next == cause = "none" /\ (Poll \/ Tasks \/ Environment)

Spec == Init /\ [][Next]_vars

(* A woken task is polled and a poll comes to its end; while a timer runs, *)
(* some timer fires.                                                       *)
FairSpec ==
    /\ Spec
    /\ WF_vars(cause = "none" /\ Poll)
    /\ WF_vars(cause = "none" /\ \E t \in Timers : Fire(t))

-----------------------------------------------------------------------------
TypeOK ==
    /\ pc \in {"idle", "commands", "send", "flush", "receive", "deadlines"}
    /\ handled \in 0..MaxQueued \union 0..MaxProcessed
    /\ expired \subseteq Deadlines /\ late \subseteq Deadlines
    /\ cause \in {"none", "local", "overload", "transport", "violation"} \union Deadlines
    /\ shared \in {"up", "closed", "overloaded"}
    /\ {hello, outstanding, flushing, writeActive, pongActive, ponged, pinged, answeredLate}
          \subseteq BOOLEAN
    /\ timer \in [Timers -> {"idle", "armed", "fired"}]
    /\ {woken, sinkWaker, streamWaker, peerViolation} \subseteq BOOLEAN
    /\ queue \in Seq(Kinds) /\ Len(queue) <= MaxQueued
    /\ sink \in Seq(Kinds) /\ Len(sink) <= SinkCap
    /\ in \in Seq(Kinds) /\ Len(in) <= InCap
    /\ link \in {"up", "cut", "silent"}
    /\ peer \in [sentHello : BOOLEAN, gotHello : BOOLEAN, owed : Nat, pinging : BOOLEAN]

Count(s, f) == Cardinality({i \in DOMAIN s : s[i] = f})

(* Neither side sees a violation of the protocol: the Hello comes first    *)
(* and once, also with priority frames and a transport that is not ready,  *)
(* and no pong comes unasked.                                              *)
NoViolation == cause # "violation" /\ ~peerViolation

(* At most one ping is under way, as a ping or as its pong, exactly while  *)
(* ping_outstanding; last_ping is set once the ping has left the queue.    *)
PingAccounted ==
    cause = "none" /\ shared # "closed" =>
        LET pings == Count(queue, "ping") + Count(sink, "ping")
                       + peer.owed + Count(in, "pong")
        IN  /\ pings = (IF outstanding THEN 1 ELSE 0)
            /\ pinged = (outstanding /\ Count(queue, "ping") = 0)

(* A connection is given up for a missed deadline only if that deadline    *)
(* ran out for the handshake or for the ping that is outstanding now.      *)
DeadlineHonest == cause \in Deadlines => cause \in late

(* A healthy connection is never given up: the Hello comes first, every    *)
(* ping and pong is accounted for, and so is every deadline.               *)
ProtocolHonoured == TypeOK /\ NoViolation /\ PingAccounted /\ DeadlineHonest

(* Data cannot overload the connection: when a control frame, a ping or a  *)
(* pong finds no room, the reserve is full of frames that are not data.    *)
OverloadByControl ==
    [][shared = "up" /\ (shared' = "overloaded" \/ cause' = "overload") =>
          Len(queue) - Count(queue, "data") >= Reserved]_vars

(* A peer that stops without a sign is noticed, whatever it owed, whether  *)
(* or not the transport still takes frames, and also on an idle connection:*)
(* there is an "interval between connection liveness probes after the      *)
(* handshake" (the comment of ping_interval).  The code breaks this after  *)
(* a pong that was handled in the poll that had found a deadline of its    *)
(* ping expired, and after no other: then nothing calls for the next ping. *)
SilentPeerNoticed ==
    link = "silent" ~> (cause # "none" \/ answeredLate)

(* A poll that ends without waking its task leaves a waker behind for all  *)
(* that the task must still do: unread frames and the end of the stream,   *)
(* frames that did not go out, every deadline that counts, and the next    *)
(* ping.  A poll that handled a pong does not poll the interval; then a    *)
(* deadline of the answered ping still runs with the waker.  The exception *)
(* is a pong handled in the very poll that had found such a deadline       *)
(* expired: nothing calls for the next ping then.                          *)
SleepsSafely ==
    cause = "none" /\ pc = "idle" /\ ~woken =>
        /\ shared = "up" /\ streamWaker /\ in = <<>> /\ link # "cut"
        /\ queue \o sink # <<>> => sinkWaker
        /\ \A d \in Watched : timer[d] = "armed"
        /\ hello /\ ~outstanding /\ ~answeredLate =>
              \E t \in {"tick", "write", "pong"} : timer[t] = "armed"
=============================================================================
