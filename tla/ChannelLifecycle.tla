-------------------------- MODULE ChannelLifecycle --------------------------
(***************************************************************************)
(* Opening, accepting, rejecting, cancelling and forgetting channels over  *)
(* one connection of nexigon-multiplex.  Both endpoints run the same code  *)
(* and both may open channels.                                             *)
(*                                                                         *)
(* An endpoint is its event loop (handle_cmd, handle_frame, the cleanups,  *)
(* close_state) and the tasks around it: callers of ConnectionRef::open,   *)
(* holders of a ChannelRequest, owners of a Channel.  The outgoing queue   *)
(* of an endpoint and the transport behind it are one FIFO.  What happens  *)
(* inside a channel is the subject of ChannelFlow: here a channel is       *)
(* dropped as a whole, and the two frames this sends are one ("gone").     *)
(***************************************************************************)
EXTENDS Integers, Sequences, FiniteSets

CONSTANTS
    Endpoints,   \* the two ends of the connection
    Calls,       \* calls of ConnectionRef::open
    Caller,      \* [Calls -> Endpoints]: where each call is made
    MaxChannels, \* limits.max_channels
    MaxPending,  \* limits.max_pending_channel_requests
    MaxTombs,    \* limits.max_closed_channel_tombstones
    MaxCommands, \* limits.max_queued_commands
    Impatient,   \* bound: the calls that may be cancelled
    Failing      \* bound: the endpoints that may be terminated, or whose
                 \* outgoing queue may be full

ASSUME LifecycleAssumption ==
    /\ \E x, y \in Endpoints : x # y /\ Endpoints = {x, y}
    /\ Caller \in [Calls -> Endpoints]
    /\ Impatient \subseteq Calls /\ Failing \subseteq Endpoints
    /\ {MaxChannels, MaxPending, MaxTombs, MaxCommands} \subseteq Nat \ {0}

VARIABLES
    conn,      \* "up", "closing" (is_closing), "failed" (poll_event returned an
               \* error), "closed" (close_state was run)
    result,    \* what the caller of each open got: "idle" before the call,
               \* "waiting", "cancelled" when it dropped the future
    cmds,      \* ConnectionQueues.commands
    wire,      \* frames sent to the peer
    nextId,    \* next_channel_id
    requests,  \* pending_requests: the call behind each id
    cancelled, \* cancelled_open_tombstones
    incoming,  \* ChannelRequests the tasks hold, by the peer's id
    slots,     \* pending_incoming_requests
    channels,  \* the ids of both sides of each active channel
    dropped,   \* active channels whose halves have both been dropped
    tombs,     \* closed_channels
    evicted,   \* history: tombstones given up for newer ones
    unknown,   \* history: ids of frames for unknown channels
    idOf,      \* history: the id each call was given, 0 if none
    callbacks, \* history: remote ids of the channels given to accept callbacks
    violations \* ProtocolViolation errors

callVars == <<result, requests, cancelled, idOf>>
acceptVars == <<incoming, slots, callbacks>>
tombVars == <<tombs, evicted, unknown>>
vars == <<conn, callVars, cmds, wire, nextId, acceptVars, channels, dropped,
          tombVars, violations>>

Peer(e) == CHOOSE p \in Endpoints : p # e

OpenChannel(c) == [kind |-> "open", call |-> c]
AcceptChannel(r) == [kind |-> "accept", remote |-> r]

Request(id) == [kind |-> "request", sender |-> id]
Accept(to, id) == [kind |-> "accept", receiver |-> to, sender |-> id]
Reject(to) == [kind |-> "reject", receiver |-> to]
Gone(to) == [kind |-> "gone", receiver |-> to]

Init ==
    /\ conn = [e \in Endpoints |-> "up"]
    /\ result = [c \in Calls |-> "idle"] /\ idOf = [c \in Calls |-> 0]
    /\ cmds = [e \in Endpoints |-> <<>>] /\ wire = [e \in Endpoints |-> <<>>]
    /\ nextId = [e \in Endpoints |-> 1]
    /\ requests = [e \in Endpoints |-> {}] /\ cancelled = [e \in Endpoints |-> {}]
    /\ incoming = [e \in Endpoints |-> {}] /\ slots = [e \in Endpoints |-> 0]
    /\ channels = [e \in Endpoints |-> {}] /\ dropped = [e \in Endpoints |-> {}]
    /\ tombs = [e \in Endpoints |-> <<>>] /\ evicted = [e \in Endpoints |-> {}]
    /\ unknown = [e \in Endpoints |-> {}] /\ callbacks = [e \in Endpoints |-> <<>>]
    /\ violations = {}

-----------------------------------------------------------------------------
(* ConnectionRef::send_frame: TRUE if the frame was queued.  The queue may *)
(* be full at any time, which overloads the connection.                    *)
Sent(e, fs) ==
    /\ conn[e] = "up"
    /\ wire' = [wire EXCEPT ![e] = @ \o fs]
    /\ UNCHANGED conn

NotSent(e) ==
    /\ conn[e] # "up" \/ e \in Failing
    /\ conn' = [conn EXCEPT ![e] = IF @ = "up" THEN "closing" ELSE @]
    /\ UNCHANGED wire

SendFrame(e, f) == Sent(e, <<f>>) \/ NotSent(e)

(* ConnectionRef::send_cmd: a full command queue overloads the connection. *)
SendCmd(e, c) ==
    /\ conn[e] = "up" /\ Len(cmds[e]) < MaxCommands
    /\ cmds' = [cmds EXCEPT ![e] = Append(@, c)]
    /\ UNCHANGED conn

CmdNotSent(e) ==
    /\ conn[e] # "up" \/ Len(cmds[e]) >= MaxCommands
    /\ conn' = [conn EXCEPT ![e] = IF @ = "up" THEN "closing" ELSE @]
    /\ UNCHANGED cmds

(* occupied_channel_slots *)
Occupied(e) == Cardinality(channels[e]) + Cardinality(requests[e]) + slots[e]

(* closed_channels gets a tombstone and gives up the oldest ones. *)
Bury(e, ids) ==
    LET all == tombs[e] \o ids
        over == IF Len(all) > MaxTombs THEN Len(all) - MaxTombs ELSE 0
    IN  /\ tombs' = [tombs EXCEPT ![e] = SubSeq(all, over + 1, Len(all))]
        /\ evicted' = [evicted EXCEPT ![e] = @ \union {all[i] : i \in 1..over}]

(* Mutation: only the calls whose request was sent. *)
CallsRequested(e) == {q.call : q \in requests[e]}

(* The calls whose result_tx is still with the endpoint. *)
CallsAt(e) == {q.call : q \in requests[e]}
                \union {cmds[e][i].call : i \in {j \in DOMAIN cmds[e] : cmds[e][j].kind = "open"}}

Accepting(e) == {i \in DOMAIN cmds[e] : cmds[e][i].kind = "accept"}

(* close_state: every queue and table is emptied.  The callers of pending  *)
(* opens get Closed; what was not written to the transport is lost.        *)
CloseTables(e) ==
    /\ conn' = [conn EXCEPT ![e] = "closed"]
    /\ result' = [c \in Calls |->
                    IF c \in CallsAt(e) /\ result[c] = "waiting" THEN "closed" ELSE result[c]]
    /\ \E n \in 0..Len(wire[e]) : wire' = [wire EXCEPT ![e] = SubSeq(@, 1, n)]
    /\ cmds' = [cmds EXCEPT ![e] = <<>>]
    /\ slots' = [slots EXCEPT ![e] = @ - Cardinality(Accepting(e))]
    /\ requests' = [requests EXCEPT ![e] = {}]
    /\ cancelled' = [cancelled EXCEPT ![e] = {}]
    /\ channels' = [channels EXCEPT ![e] = {}]
    /\ dropped' = [dropped EXCEPT ![e] = {}]
    /\ tombs' = [tombs EXCEPT ![e] = <<>>]
    /\ UNCHANGED <<nextId, idOf, incoming, evicted, unknown, callbacks>>

-----------------------------------------------------------------------------
(* Tasks around the connection. *)

(* ConnectionRef::open *)
Open(c) ==
    LET e == Caller[c] IN
    /\ result[c] = "idle"
    /\ \/ SendCmd(e, OpenChannel(c)) /\ result' = [result EXCEPT ![c] = "waiting"]
       \/ CmdNotSent(e) /\ result' = [result EXCEPT ![c] = "closed"]
    /\ UNCHANGED <<requests, cancelled, idOf, wire, nextId, acceptVars, channels, dropped,
                   tombVars, violations>>

(* The caller drops the future of open. *)
Cancel(c) ==
    /\ result[c] = "waiting" /\ c \in Impatient
    /\ result' = [result EXCEPT ![c] = "cancelled"]
    /\ UNCHANGED <<conn, requests, cancelled, idOf, cmds, wire, nextId, acceptVars, channels,
                   dropped, tombVars, violations>>

(* ChannelRequest::accept; if the command cannot be queued, the slot goes  *)
(* with it and the peer gets no answer.                                    *)
AcceptRequest(e, r) ==
    /\ r \in incoming[e]
    /\ incoming' = [incoming EXCEPT ![e] = @ \ {r}]
    /\ \/ SendCmd(e, AcceptChannel(r)) /\ UNCHANGED slots
       \/ CmdNotSent(e) /\ slots' = [slots EXCEPT ![e] = @ - 1]
    /\ UNCHANGED <<callVars, wire, nextId, callbacks, channels, dropped, tombVars, violations>>

(* Mutation: a request that is dropped unhandled is not rejected. *)
RejectRequestSilent(e, r) ==
    /\ r \in incoming[e]
    /\ incoming' = [incoming EXCEPT ![e] = @ \ {r}]
    /\ slots' = [slots EXCEPT ![e] = @ - 1]
    /\ UNCHANGED <<conn, wire, callVars, cmds, nextId, callbacks, channels, dropped,
                   tombVars, violations>>

(* ChannelRequest::reject, or the request is dropped unhandled. *)
RejectRequest(e, r) ==
    /\ r \in incoming[e]
    /\ incoming' = [incoming EXCEPT ![e] = @ \ {r}]
    /\ slots' = [slots EXCEPT ![e] = @ - 1]
    /\ SendFrame(e, Reject(r))
    /\ UNCHANGED <<callVars, cmds, nextId, callbacks, channels, dropped, tombVars, violations>>

(* Both halves of a channel are dropped. *)
DropChannel(e, ch) ==
    /\ ch \in channels[e] \ dropped[e]
    /\ dropped' = [dropped EXCEPT ![e] = @ \union {ch}]
    /\ SendFrame(e, Gone(ch.remote))
    /\ UNCHANGED <<callVars, cmds, nextId, acceptVars, channels, tombVars, violations>>

-----------------------------------------------------------------------------
(* The event loop: cleanups and commands. *)

Up(e) == conn[e] = "up"

(* cleanup_channels *)
CleanupChannels(e) ==
    /\ Up(e) /\ dropped[e] # {}
    /\ \E ids \in [1..Cardinality(dropped[e]) -> {ch.id : ch \in dropped[e]}] :
           /\ \A i, j \in DOMAIN ids : ids[i] = ids[j] => i = j
           /\ Bury(e, ids)
    /\ channels' = [channels EXCEPT ![e] = @ \ dropped[e]]
    /\ dropped' = [dropped EXCEPT ![e] = {}]
    /\ UNCHANGED <<conn, callVars, cmds, wire, nextId, acceptVars, unknown, violations>>

Cancellations(e) == {q \in requests[e] : result[q.call] = "cancelled"}

(* cleanup_cancelled_opens; with too many tombstones the connection fails. *)
CleanupCancelledOpens(e) ==
    /\ Up(e) /\ Cancellations(e) # {}
    /\ requests' = [requests EXCEPT ![e] = @ \ Cancellations(e)]
    /\ LET ids == cancelled[e] \union {q.id : q \in Cancellations(e)}
       IN  IF Cardinality(ids) <= MaxTombs
           THEN cancelled' = [cancelled EXCEPT ![e] = ids] /\ UNCHANGED conn
           ELSE conn' = [conn EXCEPT ![e] = "failed"] /\ UNCHANGED cancelled
    /\ UNCHANGED <<result, idOf, cmds, wire, nextId, acceptVars, channels, dropped,
                   tombVars, violations>>

(* handle_cmd of OpenChannel.  A cancellation may come between the cleanup *)
(* and the command.                                                        *)
HandleOpen(e) ==
    /\ Up(e) /\ cmds[e] # <<>> /\ Head(cmds[e]).kind = "open"
    /\ cmds' = [cmds EXCEPT ![e] = Tail(@)]
    /\ LET c == Head(cmds[e]).call
           id == nextId[e]
           full == Cardinality(requests[e]) >= MaxPending \/ Occupied(e) >= MaxChannels
           Answer(r) == result' = [result EXCEPT ![c] = IF @ = "waiting" THEN r ELSE @]
       IN  \/ /\ result[c] = "cancelled"
              /\ UNCHANGED <<result, requests, idOf, nextId, conn, wire>>
           \/ /\ result[c] # "cancelled" /\ full
              /\ Answer("limit")
              /\ UNCHANGED <<requests, idOf, nextId, conn, wire>>
           \/ /\ result[c] # "cancelled" /\ ~full
              /\ nextId' = [nextId EXCEPT ![e] = @ + 1]
              /\ idOf' = [idOf EXCEPT ![c] = id]
              /\ \/ /\ Sent(e, <<Request(id)>>)
                    /\ requests' = [requests EXCEPT ![e] = @ \union {[id |-> id, call |-> c]}]
                    /\ UNCHANGED result
                 \/ /\ NotSent(e)
                    /\ Answer("closed")
                    /\ UNCHANGED requests
    /\ UNCHANGED <<cancelled, acceptVars, channels, dropped, tombVars, violations>>

(* Mutation: the slot is not released when the channel is made. *)
HandleAcceptKeepsSlot(e) ==
    /\ Up(e) /\ cmds[e] # <<>> /\ Head(cmds[e]).kind = "accept"
    /\ cmds' = [cmds EXCEPT ![e] = Tail(@)]
    /\ LET r == Head(cmds[e]).remote
           id == nextId[e]
       IN  /\ nextId' = [nextId EXCEPT ![e] = @ + 1]
           /\ Sent(e, <<Accept(r, id)>>)
           /\ channels' = [channels EXCEPT ![e] = @ \union {[id |-> id, remote |-> r]}]
           /\ callbacks' = [callbacks EXCEPT ![e] = Append(@, r)]
    /\ UNCHANGED <<callVars, incoming, slots, dropped, tombVars, violations>>

(* handle_cmd of AcceptChannel *)
HandleAccept(e) ==
    /\ Up(e) /\ cmds[e] # <<>> /\ Head(cmds[e]).kind = "accept"
    /\ cmds' = [cmds EXCEPT ![e] = Tail(@)]
    /\ slots' = [slots EXCEPT ![e] = @ - 1]
    /\ LET r == Head(cmds[e]).remote
           id == nextId[e]
       IN  IF Cardinality(channels[e]) >= MaxChannels
           THEN /\ SendFrame(e, Reject(r))
                /\ UNCHANGED <<nextId, channels, callbacks>>
           ELSE /\ nextId' = [nextId EXCEPT ![e] = @ + 1]
                /\ \/ /\ Sent(e, <<Accept(r, id)>>)
                      /\ channels' = [channels EXCEPT ![e] = @ \union {[id |-> id, remote |-> r]}]
                      /\ callbacks' = [callbacks EXCEPT ![e] = Append(@, r)]
                   \/ NotSent(e) /\ UNCHANGED <<channels, callbacks>>
    /\ UNCHANGED <<callVars, incoming, dropped, tombVars, violations>>

-----------------------------------------------------------------------------
(* The event loop: frames.  Frames after a local terminate belong to the   *)
(* poll that is running.                                                   *)

Received(e, kind) ==
    /\ conn[e] \in {"up", "closing"}
    /\ wire[Peer(e)] # <<>> /\ Head(wire[Peer(e)]).kind = kind

Frame(e) == Head(wire[Peer(e)])

(* Takes a frame and sends fs, if that is possible. *)
TakeSend(e, fs, failure) ==
    \/ /\ conn[e] = "up"
       /\ wire' = [wire EXCEPT ![Peer(e)] = Tail(@), ![e] = @ \o fs]
       /\ UNCHANGED conn
    \/ /\ conn[e] # "up" \/ e \in Failing
       /\ wire' = [wire EXCEPT ![Peer(e)] = Tail(@)]
       /\ conn' = [conn EXCEPT ![e] = failure]

Take(e) == wire' = [wire EXCEPT ![Peer(e)] = Tail(@)]

HandleRequest(e) ==
    /\ Received(e, "request")
    /\ IF slots[e] >= MaxPending \/ Occupied(e) >= MaxChannels
       THEN TakeSend(e, <<Reject(Frame(e).sender)>>, "failed") /\ UNCHANGED <<incoming, slots>>
       ELSE /\ Take(e) /\ UNCHANGED conn
            /\ incoming' = [incoming EXCEPT ![e] = @ \union {Frame(e).sender}]
            /\ slots' = [slots EXCEPT ![e] = @ + 1]
    /\ UNCHANGED <<callVars, cmds, nextId, callbacks, channels, dropped, tombVars, violations>>

(* Mutation: the channel gets the receiver's id for the peer's. *)
HandleAcceptFrameOwnId(e, q) ==
    /\ Received(e, "accept") /\ q \in requests[e] /\ q.id = Frame(e).receiver
    /\ requests' = [requests EXCEPT ![e] = @ \ {q}]
    /\ channels' = [channels EXCEPT ![e] = @ \union {[id |-> q.id, remote |-> q.id]}]
    /\ result' = [result EXCEPT ![q.call] = IF @ = "waiting" THEN "ok" ELSE @]
    /\ Take(e)
    /\ UNCHANGED <<conn, cancelled, idOf, cmds, nextId, acceptVars, dropped, tombVars,
                   violations>>

(* ChannelAccept for a pending request: a caller that cancelled meanwhile  *)
(* drops the new channel at once.                                          *)
HandleAcceptFrame(e, q) ==
    /\ Received(e, "accept") /\ q \in requests[e] /\ q.id = Frame(e).receiver
    /\ requests' = [requests EXCEPT ![e] = @ \ {q}]
    /\ LET ch == [id |-> q.id, remote |-> Frame(e).sender] IN
       /\ channels' = [channels EXCEPT ![e] = @ \union {ch}]
       /\ IF result[q.call] = "cancelled"
          THEN /\ TakeSend(e, <<Gone(ch.remote)>>, "closing")
               /\ dropped' = [dropped EXCEPT ![e] = @ \union {ch}]
               /\ UNCHANGED result
          ELSE /\ Take(e) /\ UNCHANGED <<conn, dropped>>
               /\ result' = [result EXCEPT ![q.call] = "ok"]
    /\ UNCHANGED <<cancelled, idOf, cmds, nextId, acceptVars, tombVars, violations>>

(* An answer to no request. *)
Violation(e) ==
    /\ violations' = violations \union {e}
    /\ Take(e)
    /\ conn' = [conn EXCEPT ![e] = "failed"]

Unrequested(e) == Frame(e).receiver \notin {q.id : q \in requests[e]}

(* Mutation: no tombstone for a channel accepted after the cancellation. *)
HandleAcceptCancelledNoTomb(e) ==
    /\ Received(e, "accept") /\ Unrequested(e)
    /\ cancelled' = [cancelled EXCEPT ![e] = @ \ {Frame(e).receiver}]
    /\ IF Frame(e).receiver \in cancelled[e]
       THEN TakeSend(e, <<Gone(Frame(e).sender)>>, "failed") /\ UNCHANGED violations
       ELSE Violation(e)
    /\ UNCHANGED <<result, requests, idOf, cmds, nextId, acceptVars, channels, dropped,
                   tombVars>>

(* ChannelAccept for a cancelled request, or for none.  If the answer      *)
(* cannot be queued, the connection fails before the tombstone is made.    *)
HandleAcceptCancelled(e) ==
    /\ Received(e, "accept") /\ Unrequested(e)
    /\ cancelled' = [cancelled EXCEPT ![e] = @ \ {Frame(e).receiver}]
    /\ IF Frame(e).receiver \in cancelled[e]
       THEN /\ TakeSend(e, <<Gone(Frame(e).sender)>>, "failed")
            /\ IF conn'[e] = "up"
               THEN Bury(e, <<Frame(e).receiver>>)
               ELSE UNCHANGED <<tombs, evicted>>
            /\ UNCHANGED violations
       ELSE Violation(e) /\ UNCHANGED <<tombs, evicted>>
    /\ UNCHANGED <<result, requests, idOf, cmds, nextId, acceptVars, channels, dropped, unknown>>

HandleReject(e, q) ==
    /\ Received(e, "reject") /\ q \in requests[e] /\ q.id = Frame(e).receiver
    /\ requests' = [requests EXCEPT ![e] = @ \ {q}]
    /\ result' = [result EXCEPT ![q.call] = IF @ = "waiting" THEN "rejected" ELSE @]
    /\ Take(e)
    /\ UNCHANGED <<conn, cancelled, idOf, cmds, nextId, acceptVars, channels, dropped,
                   tombVars, violations>>

HandleRejectCancelled(e) ==
    /\ Received(e, "reject") /\ Unrequested(e)
    /\ cancelled' = [cancelled EXCEPT ![e] = @ \ {Frame(e).receiver}]
    /\ IF Frame(e).receiver \in cancelled[e]
       THEN Take(e) /\ UNCHANGED <<conn, violations>>
       ELSE Violation(e)
    /\ UNCHANGED <<result, requests, idOf, cmds, nextId, acceptVars, channels, dropped,
                   tombVars>>

(* ChannelClose and ChannelClosed: for an active channel the owner learns  *)
(* of it; a recently closed one is ignored; others count as unknown.       *)
HandleGone(e) ==
    /\ Received(e, "gone")
    /\ LET id == Frame(e).receiver
           known == id \in {ch.id : ch \in channels[e]} \union {tombs[e][i] : i \in DOMAIN tombs[e]}
       IN  unknown' = [unknown EXCEPT ![e] = IF known THEN @ ELSE @ \union {id}]
    /\ Take(e)
    /\ UNCHANGED <<conn, callVars, cmds, nextId, acceptVars, channels, dropped,
                   tombs, evicted, violations>>

-----------------------------------------------------------------------------
(* The end of the connection. *)

(* ConnectionRef::terminate, or an overload caused by other traffic. *)
GoDown(e) ==
    /\ Up(e) /\ e \in Failing
    /\ conn' = [conn EXCEPT ![e] = "closing"]
    /\ UNCHANGED <<callVars, cmds, wire, nextId, acceptVars, channels, dropped,
                   tombVars, violations>>

(* The event loop ends: it was told to, or the peer's transport ended. *)
CloseState(e) ==
    /\ \/ conn[e] \in {"closing", "failed"}
       \/ conn[e] = "up" /\ conn[Peer(e)] = "closed" /\ wire[Peer(e)] = <<>>
    /\ CloseTables(e)
    /\ UNCHANGED violations

-----------------------------------------------------------------------------
Loop(e) ==
    \/ CleanupChannels(e) \/ CleanupCancelledOpens(e)
    \/ HandleOpen(e) \/ HandleAccept(e)
    \/ HandleRequest(e)
    \/ \E q \in requests[e] : HandleAcceptFrame(e, q) \/ HandleReject(e, q)
    \/ HandleAcceptCancelled(e) \/ HandleRejectCancelled(e)
    \/ HandleGone(e)
    \/ CloseState(e)

Holder(e) == \E r \in incoming[e] : AcceptRequest(e, r) \/ RejectRequest(e, r)

Next ==
    \/ \E c \in Calls : Open(c) \/ Cancel(c)
    \/ \E e \in Endpoints :
          \/ Loop(e) \/ Holder(e) \/ GoDown(e)
          \/ \E ch \in channels[e] : DropChannel(e, ch)

Spec == Init /\ [][Next]_vars

(* Event loops run; whoever holds a ChannelRequest accepts, rejects or     *)
(* drops it.  The calls are finitely many, so it is enough that something  *)
(* of this goes on.                                                        *)
FairSpec == Spec /\ WF_vars(\E e \in Endpoints : Loop(e) \/ Holder(e))

-----------------------------------------------------------------------------
Ids == Nat \ {0}
Pairs == [id : Ids, remote : Ids]

TypeOK ==
    /\ conn \in [Endpoints -> {"up", "closing", "failed", "closed"}]
    /\ result \in [Calls -> {"idle", "waiting", "ok", "rejected", "limit", "closed", "cancelled"}]
    /\ nextId \in [Endpoints -> Ids]
    /\ requests \in [Endpoints -> SUBSET [id : Ids, call : Calls]]
    /\ cancelled \in [Endpoints -> SUBSET Ids] /\ incoming \in [Endpoints -> SUBSET Ids]
    /\ slots \in [Endpoints -> 0..MaxPending]
    /\ channels \in [Endpoints -> SUBSET Pairs] /\ dropped \in [Endpoints -> SUBSET Pairs]
    /\ \A e \in Endpoints : Len(tombs[e]) <= MaxTombs /\ Len(cmds[e]) <= MaxCommands

(* Active channels and reserved slots never exceed the limit; this is what *)
(* the assertion in make_channel and the second check of AcceptChannel     *)
(* rely on, although slots are given back by other tasks at any time.      *)
SlotBound ==
    \A e \in Endpoints :
        Cardinality(channels[e]) + Cardinality(requests[e]) + slots[e] <= MaxChannels

(* pending_incoming_requests counts exactly the requests that are held by  *)
(* a task or wait in the command queue: no slot leaks, none is freed twice,*)
(* and none is ever missing.                                               *)
SlotsExact ==
    /\ TypeOK /\ SlotBound
    /\ \A e \in Endpoints : slots[e] = Cardinality(incoming[e]) + Cardinality(Accepting(e))

(* Where the answer to request id of endpoint e is on its way. *)
OnWire(p, kinds, field, id) ==
    {i \in DOMAIN wire[p] : wire[p][i].kind \in kinds /\ wire[p][i][field] = id}

Under(e, id) ==
    LET p == Peer(e) IN
    Cardinality(OnWire(e, {"request"}, "sender", id))
      + Cardinality(incoming[p] \intersect {id})
      + Cardinality({i \in Accepting(p) : cmds[p][i].remote = id})
      + Cardinality(OnWire(p, {"accept", "reject"}, "receiver", id))

(* While both ends are up, a request is answered exactly once: it is under *)
(* way in exactly one place as long as its opener, or the tombstone of a   *)
(* cancelled open, waits for the answer, and in none afterwards.           *)
AnsweredOnce ==
    (\A e \in Endpoints : conn[e] = "up") =>
        \A e \in Endpoints : \A id \in 1..(nextId[e] - 1) :
            Under(e, id) = IF id \in cancelled[e] \union {q.id : q \in requests[e]} THEN 1 ELSE 0

(* An endpoint never takes a correct peer for a faulty one, not even when  *)
(* opens are cancelled at any moment or limits are reached.                *)
NoViolation == violations = {}

(* The two ends of a channel match: while the peer is up, it has the same  *)
(* channel under swapped ids, or had it, or is about to learn of it.  A    *)
(* caller gets a channel only of a request the peer accepted, and a        *)
(* rejection only of one it did not; an accept callback gets one channel.  *)
Buried(e) == evicted[e] \union {tombs[e][i] : i \in DOMAIN tombs[e]}

Paired ==
    /\ \A e \in Endpoints : LET p == Peer(e) IN \A ch \in channels[e] : conn[p] = "up" =>
          \/ [id |-> ch.remote, remote |-> ch.id] \in channels[p]
          \/ ch.remote \in Buried(p)
          \/ OnWire(e, {"accept"}, "sender", ch.id) # {}
    /\ \A c \in Calls : LET p == Peer(Caller[c])
                            n == Cardinality({i \in DOMAIN callbacks[p] : callbacks[p][i] = idOf[c]})
                        IN  /\ result[c] = "ok" => n = 1
                            /\ result[c] = "rejected" => n = 0

(* A frame counts as unknown only if its tombstone had to make room: late  *)
(* frames of a channel that just closed, or was cancelled, are recognised. *)
LateFramesKnown == \A e \in Endpoints : unknown[e] \subseteq evicted[e]

(* Two correct ends never find fault with each other's frames, late ones   *)
(* included.                                                               *)
PeerUnderstood == NoViolation /\ LateFramesKnown

(* Every open comes to an end: a channel, a rejection, a limit or Closed.  *)
(* A call waits once, so it is enough that again and again none waits.     *)
OpenResolves == []<>(\A c \in Calls : result[c] # "waiting")

=============================================================================
