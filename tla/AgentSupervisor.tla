---------------------------- MODULE AgentSupervisor ----------------------------
(***************************************************************************)
(* One run of run_with_connection: the tasks of the agent while it is      *)
(* connected.  The run itself starts up, then supervises: it spawns what   *)
(* arrives on a bounded queue and watches the connection, and at the end   *)
(* stops everything.  The connection task dispatches channel requests: it  *)
(* takes a permit and a slot of the queue, which travel in the callback of *)
(* the accept until the channel exists, then with the task that serves it. *)
(* The operation loop competes with the interactive commands for permits.  *)
(*                                                                         *)
(* A task that was polling when the agent was cancelled may finish what it *)
(* does in that poll: it is "midway".                                      *)
(***************************************************************************)
EXTENDS Naturals, FiniteSets, Sequences, Functions

CONSTANTS
    Requests,        \* channel requests under way at the same time
    Terminals,       \* MAX_CONCURRENT_TERMINALS
    Commands,        \* MAX_CONCURRENT_COMMANDS
    QueueCapacity    \* SUPERVISOR_QUEUE_CAPACITY

ASSUME SupervisorAssumption ==
    /\ IsFiniteSet(Requests)
    /\ Terminals \in Nat /\ Commands \in Nat \ {0} /\ QueueCapacity \in Nat \ {0}

VARIABLES
    phase,       \* what run_with_connection does
    cancelled,   \* the CancellationToken
    midway,      \* actors that have not looked at the token since it was set
    running,     \* spawned tasks that serve no request
    connection,  \* its task: "polled" or "ended"
    operations,  \* the operation loop: "waiting" for a permit, "working", "sleeping", "off"
    req,         \* each request: the endpoint it asks for and where it is
    queue,       \* the supervisor's queue of tasks, as the requests they serve
    open,        \* the queue's receiver exists
    free         \* free permits and slots

vars == <<phase, cancelled, midway, running, connection, operations, req, queue, open, free>>
runVars == <<phase, cancelled, running, connection>>

(* The steps of agent_run, in their order.                                 *)
Startup == <<"actor", "system_info", "manifest", "operations", "local_api">>
Background == {"system_info", "local_api"}
Endpoints == {"terminal", "handler", "forward"}
Idle == [kind |-> "none", at |-> "idle"]

Init ==
    /\ phase = "actor" /\ cancelled = FALSE /\ midway = {}
    /\ running = {"shutdown"} /\ connection = "polled" /\ operations = "off"
    /\ req = [r \in Requests |-> Idle] /\ queue = <<>> /\ open = TRUE
    /\ free = [terminal |-> Terminals, handler |-> Commands, slots |-> QueueCapacity]

At(place) == {r \in Requests : req[r].at = place}

(* An actor runs until it sees the token; a select that is biased towards  *)
(* the token sees it at its next poll.                                     *)
MayStep(actor) == ~cancelled \/ actor \in midway
Stepped(actor) == midway' = midway \ {actor}

-----------------------------------------------------------------------------
(* Permits and slots travel with the request.                              *)

HoldsPermit(r, kind) ==
    req[r].kind = kind /\ req[r].at \in {"accepting", "ready", "serving", "answering"}

Limit(kind) == IF kind = "terminal" THEN Terminals ELSE Commands

(* Mutation: the operation loop tries for a permit and stands in no line.  *)
DropToAnybody(rs, q) ==
    LET of(kind) == Cardinality({r \in rs : HoldsPermit(r, kind)})
    IN  /\ req' = [r \in Requests |-> IF r \in rs THEN Idle ELSE req[r]]
        /\ queue' = q
        /\ free' = [free EXCEPT !.terminal = @ + of("terminal"), !.handler = @ + of("handler"),
                                !.slots = @ + Cardinality(rs \intersect At("accepting"))
                                            + Len(queue) - Len(q)]
        /\ UNCHANGED operations

(* The requests rs are through: their tasks, callbacks and channels are    *)
(* dropped with the permits and slots they own.  A returned command permit *)
(* goes to the operation loop first if that waits for one.                 *)
Drop(rs, q) ==
    LET of(kind) == Cardinality({r \in rs : HoldsPermit(r, kind)})
        handed == IF operations = "waiting" /\ of("handler") > 0 THEN 1 ELSE 0
    IN  /\ req' = [r \in Requests |-> IF r \in rs THEN Idle ELSE req[r]]
        /\ queue' = q
        /\ free' = [free EXCEPT !.terminal = @ + of("terminal"),
                                !.handler = @ + of("handler") - handed,
                                !.slots = @ + Cardinality(rs \intersect At("accepting"))
                                            + Len(queue) - Len(q)]
        /\ operations' = IF handed = 1 THEN "working" ELSE operations

(* The queue goes, with what is on it, when nobody reads it any more and   *)
(* its last sender is dropped.  Senders are with the connection (which the *)
(* callers look at), with tasks that connect, and with the slots that      *)
(* accept callbacks own; gone are the requests that are dropped now.       *)
Abandoned(gone) == ~open /\ At("connecting") \union At("accepting") \subseteq gone

-----------------------------------------------------------------------------
(* The connection task: run_connection_event_loop.                         *)

Polling == connection = "polled" /\ MayStep("connection")

(* handle_channel_request.  A forwarding request needs a slot, for the task*)
(* that connects; the others a permit and a slot, and are accepted.  What  *)
(* does not get them is rejected, like anything else.                      *)
RequestChannel(r, kind) ==
    /\ Polling /\ req[r] = Idle
    /\ open /\ free.slots > 0
    /\ IF kind = "forward"
         THEN /\ req' = [req EXCEPT ![r] = [kind |-> kind, at |-> "queued"]]
              /\ queue' = Append(queue, r)
              /\ free' = [free EXCEPT !.slots = @ - 1]
         ELSE /\ free[kind] > 0
              /\ req' = [req EXCEPT ![r] = [kind |-> kind, at |-> "accepting"]]
              /\ free' = [free EXCEPT ![kind] = @ - 1, !.slots = @ - 1]
              /\ UNCHANGED queue
    /\ Stepped("connection")
    /\ UNCHANGED <<runVars, operations, open>>

(* The connection processes the accept: the callback hands the task to the *)
(* slot it owns, even if nobody reads the queue any more.                  *)
Accept(r) ==
    /\ Polling /\ req[r].at = "accepting"
    /\ req' = [req EXCEPT ![r].at = "ready"]
    /\ queue' = Append(queue, r)
    /\ UNCHANGED <<runVars, midway, operations, open, free>>

(* The task ends: the token is set, or the connection has closed or failed.*)
(* The connection is dropped, and its commands with the callbacks.         *)
ConnectionEnds ==
    /\ connection = "polled"
    /\ connection' = "ended"
    /\ Stepped("connection")
    /\ IF Abandoned(At("accepting"))
         THEN Drop(At("accepting") \union Range(queue), <<>>)
         ELSE Drop(At("accepting"), queue)
    /\ UNCHANGED <<phase, cancelled, running, open>>

-----------------------------------------------------------------------------
(* Tasks that serve requests.                                              *)

(* connect_tcp_forwarding: the local port answers and there is a slot for  *)
(* the relay; the channel is accepted unless the connection is gone.       *)
TcpConnected(r) ==
    /\ req[r].at = "connecting" /\ connection = "polled"
    /\ open /\ free.slots > 0
    /\ req' = [req EXCEPT ![r].at = "accepting"]
    /\ free' = [free EXCEPT !.slots = @ - 1]
    /\ UNCHANGED <<runVars, midway, operations, queue, open>>

(* The command of a handler is over.  Its answer and the end of the channel*)
(* are written next, with the permit still held, and nothing ends that but *)
(* the hub, which reads, or the connection.                                *)
CommandOver(r) ==
    /\ req[r].kind = "handler" /\ req[r].at = "serving"
    /\ req' = [req EXCEPT ![r].at = "answering"]
    /\ UNCHANGED <<runVars, midway, operations, queue, open, free>>

(* A task ends, by itself or because it saw the token, or it is dropped    *)
(* with the requests rs of other tasks.                                    *)
TaskEnds(r) ==
    /\ req[r].at \in {"connecting", "serving", "answering"}
    /\ IF connection # "polled" /\ Abandoned({r})
         THEN Drop({r} \union Range(queue), <<>>)
         ELSE Drop({r}, queue)
    /\ UNCHANGED <<runVars, midway, open>>

-----------------------------------------------------------------------------
(* The other tasks.                                                        *)

Cancel ==
    /\ cancelled' = TRUE
    /\ \E actors \in SUBSET {"run", "connection"} : midway' = actors

ShutdownSignalled ==
    /\ "shutdown" \in running /\ ~cancelled
    /\ Cancel
    /\ running' = running \ {"shutdown"}
    /\ UNCHANGED <<phase, connection, operations, req, queue, open, free>>

(* The publisher, the local API and the shutdown task return when they see *)
(* the token; the first two may also fail before.                          *)
BackgroundEnds(t) ==
    /\ t \in running
    /\ t = "shutdown" => cancelled
    /\ running' = running \ {t}
    /\ UNCHANGED <<phase, cancelled, midway, connection, operations, req, queue, open, free>>

(* The operation loop (OperationLedger has its inside): a permit, then a   *)
(* claim and its work, then the permit is back before the loop sleeps.     *)
OperationsAcquire ==
    /\ operations = "waiting" /\ free.handler > 0
    /\ operations' = "working"
    /\ free' = [free EXCEPT !.handler = @ - 1]
    /\ UNCHANGED <<runVars, midway, req, queue, open>>

OperationsWorked ==
    /\ operations = "working"
    /\ operations' \in {"waiting", "sleeping"}
    /\ free' = [free EXCEPT !.handler = @ + 1]
    /\ UNCHANGED <<runVars, midway, req, queue, open>>

OperationsWake ==
    /\ operations = "sleeping" /\ ~cancelled
    /\ operations' = "waiting"
    /\ UNCHANGED <<runVars, midway, req, queue, open, free>>

OperationsEnd ==
    /\ operations # "off" /\ cancelled
    /\ operations' = "off"
    /\ free' = [free EXCEPT !.handler = @ + IF operations = "working" THEN 1 ELSE 0]
    /\ UNCHANGED <<runVars, midway, req, queue, open>>

-----------------------------------------------------------------------------
(* run_with_connection itself.                                             *)

Starting == phase \in Range(Startup)
NextPhase(p) ==
    LET i == CHOOSE j \in DOMAIN Startup : Startup[j] = p
    IN  IF i = Len(Startup) THEN "supervise" ELSE Startup[i + 1]

(* A step of agent_run: what is configured is spawned, once its calls are  *)
(* answered, for which there must be a connection.  The local API needs no *)
(* answer, and a command manifest that cannot be published is only logged. *)
StartupStep ==
    /\ Starting /\ MayStep("run")
    /\ \/ /\ phase \in Background
          /\ phase = "system_info" => connection = "polled"
          /\ running' = running \union {phase} /\ UNCHANGED operations
       \/ /\ phase = "operations" /\ connection = "polled"
          /\ operations' = "waiting" /\ UNCHANGED running
       \/ /\ phase = "actor" => connection = "polled"
          /\ UNCHANGED <<running, operations>>
    /\ phase' = NextPhase(phase)
    /\ Stepped("run")
    /\ UNCHANGED <<cancelled, connection, req, queue, open, free>>

(* A call fails, or the ledger cannot be opened.                           *)
StartupFails ==
    /\ Starting /\ MayStep("run") /\ phase \notin {"manifest", "local_api"}
    /\ phase' = "stop"
    /\ Stepped("run")
    /\ UNCHANGED <<cancelled, running, connection, operations, req, queue, open, free>>

(* supervise_tasks takes a task off the queue and spawns it.               *)
Receive ==
    /\ phase = "supervise" /\ MayStep("run") /\ queue # <<>>
    /\ queue' = Tail(queue)
    /\ req' = [req EXCEPT ![Head(queue)].at = IF @ = "queued" THEN "connecting" ELSE "serving"]
    /\ free' = [free EXCEPT !.slots = @ + 1]
    /\ Stepped("run")
    /\ UNCHANGED <<runVars, operations, open>>

(* Mutation: the end of the connection is only logged.                     *)
LeaveCancelled ==
    /\ Starting \/ phase = "supervise"
    /\ cancelled
    /\ phase' = "stop"
    /\ UNCHANGED <<cancelled, midway, running, connection, operations, req, queue, open, free>>

(* The connection's task was joined, or the token is set.                  *)
Leave ==
    /\ \/ phase = "supervise" /\ connection = "ended"
       \/ (Starting \/ phase = "supervise") /\ cancelled
    /\ phase' = "stop"
    /\ UNCHANGED <<cancelled, midway, running, connection, operations, req, queue, open, free>>

(* The token is set and the queue closed and emptied.                      *)
Stop ==
    /\ phase = "stop"
    /\ phase' = "grace"
    /\ IF cancelled THEN UNCHANGED <<cancelled, midway>> ELSE Cancel
    /\ open' = FALSE
    /\ Drop(Range(queue), <<>>)
    /\ UNCHANGED <<running, connection>>

(* shutdown_tasks: the grace period is over, every task is aborted.        *)
Abort ==
    /\ phase = "grace"
    /\ phase' = "abort"
    /\ UNCHANGED <<cancelled, midway, running, connection, operations, req, queue, open, free>>

Joined == running = {} /\ connection # "polled" /\ operations = "off"
          /\ At("connecting") \union At("serving") \union At("answering") = {}

(* Mutation: the tasks are aborted and not joined.                         *)
ReturnUnjoined ==
    /\ phase = "abort" \/ (phase = "grace" /\ Joined)
    /\ phase' = "returned"
    /\ UNCHANGED <<cancelled, midway, running, connection, operations, req, queue, open, free>>

(* Every task is joined.                                                   *)
Return ==
    /\ phase \in {"grace", "abort"} /\ Joined
    /\ phase' = "returned"
    /\ UNCHANGED <<cancelled, midway, running, connection, operations, req, queue, open, free>>

-----------------------------------------------------------------------------
Serving == \E r \in Requests :
    \/ \E kind \in Endpoints : RequestChannel(r, kind)
    \/ Accept(r) \/ TcpConnected(r) \/ CommandOver(r) \/ TaskEnds(r)

Next ==
    \/ Serving \/ ConnectionEnds \/ ShutdownSignalled
    \/ \E t \in Background \union {"shutdown"} : BackgroundEnds(t)
    \/ OperationsAcquire \/ OperationsWorked \/ OperationsWake \/ OperationsEnd
    \/ StartupStep \/ StartupFails \/ Receive \/ Leave \/ Stop \/ Abort \/ Return

Spec == Init /\ [][Next]_vars

(* The run's own steps that wait for nobody; a call fails once there is no *)
(* connection, the grace period is a timer, an aborted task is dropped.    *)
(* The hub need not answer a call, and a task need not heed the token.     *)
Fairness ==
    /\ WF_vars(StartupStep /\ phase = "local_api")
    /\ WF_vars((StartupStep \/ StartupFails) /\ connection = "ended")
    /\ WF_vars(Receive) /\ WF_vars(Leave) /\ WF_vars(Stop) /\ WF_vars(Abort)
    /\ WF_vars(Return)
    /\ WF_vars(phase = "abort" /\ \E r \in Requests : TaskEnds(r))
    /\ WF_vars(phase = "abort" /\ ConnectionEnds)
    /\ WF_vars(phase = "abort" /\ \E t \in Background \union {"shutdown"} : BackgroundEnds(t))
    /\ WF_vars(OperationsEnd)
    (* Accepts are processed while there is a connection.  A command has a timeout, and *)
    (* so has the frame that asks for it; the answer has none: no fairness of its end.  *)
    /\ WF_vars(OperationsAcquire)
    /\ \A r \in Requests : WF_vars(Accept(r)) /\ WF_vars(CommandOver(r))

FairSpec == Spec /\ Fairness

-----------------------------------------------------------------------------
(* Values have their types; every permit and every slot is free or with    *)
(* the one request, task or loop that will give it back, and no more are   *)
(* out than there are.                                                     *)
TypeOK ==
    /\ phase \in Range(Startup) \union {"supervise", "stop", "grace", "abort", "returned"}
    /\ cancelled \in BOOLEAN /\ midway \subseteq {"run", "connection"}
    /\ running \subseteq Background \union {"shutdown"}
    /\ connection \in {"polled", "ended"} /\ open \in BOOLEAN
    /\ operations \in {"off", "waiting", "working", "sleeping"}
    /\ \A r \in Requests : req[r] = Idle \/
          /\ req[r].kind \in Endpoints
          /\ req[r].at \in {"queued", "connecting", "accepting", "ready", "serving", "answering"}
    /\ Range(queue) = At("queued") \union At("ready") /\ Len(queue) = Cardinality(Range(queue))
    /\ \A kind \in {"terminal", "handler"} :
          free[kind] = Limit(kind) - Cardinality({r \in Requests : HoldsPermit(r, kind)})
                       - IF kind = "handler" /\ operations = "working" THEN 1 ELSE 0
    /\ free.slots = QueueCapacity - Cardinality(At("accepting")) - Len(queue)
    /\ \A place \in DOMAIN free : free[place] \in Nat

(* No permit or slot is lost on the way, and when run_with_connection has  *)
(* returned nothing it started is left: no task, no accepted channel, no   *)
(* callback and no queued task, not even one that was queued after the     *)
(* queue was emptied.                                                      *)
NothingLeft ==
    TypeOK /\ (phase = "returned" =>
      /\ Joined /\ queue = <<>> /\ Requests = At("idle")
      /\ free = [terminal |-> Terminals, handler |-> Commands, slots |-> QueueCapacity])

(* A hub that, from some point on, never reads an answer to the end: every *)
(* command permit is with a handler that only has its answer to write.     *)
AllUnread ==
    /\ connection = "polled"
    /\ Cardinality({r \in At("answering") : req[r].kind = "handler"}) = Commands

(* Interactive commands, however many follow each other, cannot keep the   *)
(* operation loop from its permit: a permit that comes back is handed to   *)
(* it.  Only a hub that leaves the answers of as many commands as there    *)
(* are permits unread for good can, for as long as the connection lasts.   *)
OperationsTurn == []<>(operations # "waiting") \/ <>[]AllUnread

(* Whatever the tasks do, the run ends after a shutdown and after the loss *)
(* of the connection, during start-up too.                                 *)
RunEnds == (cancelled \/ connection = "ended") ~> phase = "returned"
=============================================================================
