--------------------------- MODULE CommandSession ---------------------------
(***************************************************************************)
(* One command invocation of the agent (handlers.rs): the request is read  *)
(* from a channel or comes from a durable operation, the command runs as a *)
(* child process in a group of its own, its three pipes are served at the  *)
(* same time, and its result is one Done frame behind the streamed Log     *)
(* frames.  The child, its descendants, the hub at the other end of the    *)
(* channel, the timer and the cancellation token are the environment.      *)
(*                                                                         *)
(* Lines are steps of the program that wrote them, a frame on the channel  *)
(* is its length followed by its body (write_command_frame), and a pipe    *)
(* holds at most PipeCapacity lines.                                       *)
(***************************************************************************)
EXTENDS Naturals, Sequences

CONSTANTS Programs,       \* what a child may do: [steps : Seq(StepKinds), code : 0..1]
          InputLength,    \* pipe units of a non-null input
          PipeCapacity,   \* units a pipe of the operating system holds
          WindowSize,     \* frame parts the hub's window admits
          MaxOutputLines, \* MAX_COMMAND_OUTPUT_LINES, of stdout and stderr together
          TailLength      \* lines the stderr ring buffer retains

\* "out" prints an output record, "chat" any other stdout line, "err" a line and
\* "long" an overlong line on stderr, "read" takes a unit of stdin; "fork" leaves a
\* descendant that keeps the pipes open, "daemon" one that does not; "hang" never ends.
StepKinds == {"out", "chat", "err", "long", "read", "fork", "daemon", "hang"}

ASSUME SessionAssumption ==
    /\ Programs \subseteq [steps : Seq(StepKinds), code : 0..1]
    /\ InputLength \in Nat \ {0} /\ PipeCapacity \in Nat \ {0}
    /\ WindowSize \in Nat \ {0} /\ MaxOutputLines \in Nat /\ TailLength \in Nat

Calls == [entry : {"channel", "operation"}, name : {"loaded", "missing"},
          input : {"null", "valid", "invalid"}, stream : BOOLEAN,
          checked : BOOLEAN, program : Programs]

VARIABLES
    call,      \* the request, and what the command will do
    phase,     \* where handle_handler_channel_inner stands
    child,     \* the leader: "none", "running", "exited", "reaped"
    pc,        \* the leader's next step
    kin,       \* its descendants: "none", "holding" the pipes, "detached"
    killed,    \* the leader ended by a signal of the agent
    io,        \* the pipes and what the three joined futures have done with them
    partial,   \* channel_write_in_progress
    reason,    \* why the child was terminated: "none", "cancelled", "failed", "timeout"
    cancelled, \* the cancellation token
    result,    \* ExternalHandlerResult, or Nothing
    writing,   \* parts of the current frame still to be written
    sent,      \* every frame part written to the channel, in order
    taken,     \* how many of them the hub has read
    hub        \* "open" or "gone"

session == <<phase, result, partial, reason>>
process == <<child, pc, kin, killed>>
wire == <<writing, sent, taken, hub>>
vars == <<call, session, process, io, cancelled, wire>>

Nothing == [status |-> "none", output |-> 0, tail |-> <<>>]
Failure(tail) == [status |-> "error", output |-> 0, tail |-> tail]
Frame(kind) == << <<kind, "length">>, <<kind, "body">> >>

Init ==
    /\ call \in Calls
    /\ phase = IF call.entry = "channel" THEN "reading" ELSE "lookup"
    /\ child = "none" /\ pc = 1 /\ kin = "none" /\ killed = FALSE
    /\ io = [todo |-> 0, stdin |-> 0, stdout |-> <<>>, stderr |-> <<>>, lines |-> 0,
             last |-> 0, tail |-> <<>>, outEnd |-> FALSE, errEnd |-> FALSE]
    /\ partial = FALSE /\ reason = "none" /\ cancelled = FALSE /\ result = Nothing
    /\ writing = <<>> /\ sent = <<>> /\ taken = 0 /\ hub = "open"

(***************************************************************************)
(* The request                                                             *)
(***************************************************************************)
\* A result goes into a Done frame on the channel; an operation gets it returned.
Answer(r) ==
    /\ result' = r
    /\ IF call.entry = "channel" THEN phase' = "answering" /\ writing' = Frame("Done")
                                 ELSE phase' = "over" /\ UNCHANGED writing

\* An error of execute_external_command closes the channel without a Done frame; an
\* operation reports it as a failed command.
Abandon ==
    IF call.entry = "channel" THEN phase' = "closing" /\ UNCHANGED <<result, writing>>
                              ELSE Answer(Failure(<<>>))

ReadInvoke ==
    /\ phase = "reading" /\ phase' = "lookup"
    /\ UNCHANGED <<call, result, partial, reason, process, io, cancelled, wire>>

\* A malformed, truncated or missing frame: read_initial_hub_frame fails or times out.
ReadInvokeFails ==
    /\ phase = "reading" /\ phase' = "closing"
    /\ UNCHANGED <<call, result, partial, reason, process, io, cancelled, wire>>

\* The caller drops both halves of the channel.
ReadInvokeCancelled ==
    /\ phase = "reading" /\ cancelled /\ phase' = "over"
    /\ UNCHANGED <<call, result, partial, reason, process, io, cancelled, wire>>

Reject ==
    /\ phase = "lookup" /\ (call.name = "missing" \/ call.input = "invalid")
    /\ Answer(Failure(<<>>))
    /\ UNCHANGED <<call, partial, reason, process, io, cancelled, sent, taken, hub>>

SpawnFails ==
    /\ phase = "lookup" /\ call.name = "loaded" /\ call.input # "invalid"
    /\ Abandon
    /\ UNCHANGED <<call, partial, reason, process, io, cancelled, sent, taken, hub>>

Spawn ==
    /\ phase = "lookup" /\ call.name = "loaded" /\ call.input # "invalid"
    /\ phase' = "running" /\ child' = "running"
    /\ io' = [io EXCEPT !.todo = IF call.input = "null" THEN 0 ELSE InputLength]
    /\ UNCHANGED <<call, result, partial, reason, pc, kin, killed, cancelled, wire>>

(***************************************************************************)
(* The child and its descendants                                           *)
(***************************************************************************)
Steps == call.program.steps
Running == child = "running" /\ pc <= Len(Steps)

\* Nobody holds the write ends of stdout and stderr any more.
PipesClosed == child \in {"exited", "reaped"} /\ kin # "holding"

ChildStep ==
    /\ Running /\ pc' = pc + 1
    /\ \/ /\ Steps[pc] \in {"out", "chat"} /\ Len(io.stdout) < PipeCapacity
          /\ io' = [io EXCEPT !.stdout = Append(@, pc)] /\ UNCHANGED kin
       \/ /\ Steps[pc] \in {"err", "long"} /\ Len(io.stderr) < PipeCapacity
          /\ io' = [io EXCEPT !.stderr = Append(@, pc)] /\ UNCHANGED kin
       \/ /\ Steps[pc] = "read" /\ io.stdin > 0
          /\ io' = [io EXCEPT !.stdin = @ - 1] /\ UNCHANGED kin
       \/ /\ Steps[pc] = "read" /\ io.stdin = 0 /\ io.todo = 0 \* end of input
          /\ UNCHANGED <<io, kin>>
       \/ /\ Steps[pc] = "fork" /\ kin' = "holding" /\ UNCHANGED io
       \/ /\ Steps[pc] = "daemon" /\ kin' = "detached" /\ UNCHANGED io
    /\ UNCHANGED <<call, session, child, killed, cancelled, wire>>

ChildExits ==
    /\ child = "running" /\ pc > Len(Steps) /\ child' = "exited"
    /\ UNCHANGED <<call, session, pc, kin, killed, io, cancelled, wire>>

DescendantExits ==
    /\ kin # "none" /\ kin' = "none"
    /\ UNCHANGED <<call, session, child, pc, killed, io, cancelled, wire>>

(***************************************************************************)
(* The joined futures                                                      *)
(***************************************************************************)
\* killpg reaches the leader, even as a zombie, and every descendant.
KillGroup ==
    /\ kin' = "none"
    /\ child' = IF child = "running" THEN "exited" ELSE child
    /\ killed' = (killed \/ child = "running")

\* terminate_command_child up to its wait; dropping the joined futures drops the pipes.
Terminate(why) ==
    /\ KillGroup /\ phase' = "reaping" /\ reason' = why /\ writing' = <<>>
    /\ UNCHANGED <<call, pc, result, partial, io, cancelled, sent, taken, hub>>

WriteStdin ==
    /\ phase = "running" /\ io.todo > 0
    /\ IF child = "exited" /\ kin # "holding"
       THEN io' = [io EXCEPT !.todo = 0] \* broken pipe, ignored
       ELSE /\ io.stdin < PipeCapacity
            /\ io' = [io EXCEPT !.todo = @ - 1, !.stdin = @ + 1]
    /\ UNCHANGED <<call, session, process, cancelled, wire>>

\* read_bounded_line: an overlong line or one past the shared budget is an error.
Affordable(line) == Steps[line] # "long" /\ io.lines < MaxOutputLines

(* Mutation: the pipes are served one after the other, stdin first. *)
ReadStdoutAfterInput ==
    /\ phase = "running" /\ io.stdout # <<>> /\ io.todo = 0
    /\ Affordable(Head(io.stdout))
    /\ io' = [io EXCEPT !.stdout = Tail(@), !.lines = @ + 1]
    /\ UNCHANGED <<call, session, process, cancelled, wire>>

ReadStdout ==
    /\ phase = "running" /\ io.stdout # <<>>
    /\ LET line == Head(io.stdout) IN
       /\ Affordable(line)
       /\ io' = [io EXCEPT !.stdout = Tail(@), !.lines = @ + 1,
                           !.last = IF Steps[line] = "out" THEN line ELSE @]
    /\ UNCHANGED <<call, session, process, cancelled, wire>>

\* The line enters the ring buffer before it is streamed.
ReadStderr ==
    /\ phase = "running" /\ io.stderr # <<>> /\ writing = <<>>
    /\ LET line == Head(io.stderr)
           kept == Append(io.tail, line) IN
       /\ Affordable(line)
       /\ io' = [io EXCEPT !.stderr = Tail(@), !.lines = @ + 1,
                           !.tail = SubSeq(kept, 1 + Len(kept) - (IF Len(kept) > TailLength
                                             THEN TailLength ELSE Len(kept)), Len(kept))]
    /\ IF call.stream /\ call.entry = "channel"
       THEN writing' = Frame("Log") /\ partial' = TRUE
       ELSE UNCHANGED <<writing, partial>>
    /\ UNCHANGED <<call, phase, result, reason, process, cancelled, sent, taken, hub>>

ReadEnds ==
    /\ phase = "running" /\ PipesClosed
    /\ \/ /\ io.stdout = <<>> /\ ~io.outEnd /\ io' = [io EXCEPT !.outEnd = TRUE]
       \/ /\ io.stderr = <<>> /\ ~io.errEnd /\ writing = <<>>
          /\ io' = [io EXCEPT !.errEnd = TRUE]
    /\ UNCHANGED <<call, session, process, cancelled, wire>>

Window == WindowSize - (Len(sent) - taken)

\* write_all of the next part, with the flush behind the last one.
WritePart ==
    /\ writing # <<>> /\ hub = "open" /\ Window > 0
    /\ sent' = Append(sent, Head(writing)) /\ writing' = Tail(writing)
    /\ UNCHANGED <<taken, hub>>

WriteLog ==
    /\ phase = "running" /\ WritePart
    /\ partial' = (Len(writing) > 1)
    /\ UNCHANGED <<call, phase, result, reason, process, io, cancelled>>

\* Any error of the three futures ends the join.
OutputFails ==
    /\ phase = "running"
    /\ \/ io.stdout # <<>> /\ ~Affordable(Head(io.stdout))
       \/ io.stderr # <<>> /\ writing = <<>> /\ ~Affordable(Head(io.stderr))
       \/ writing # <<>> /\ hub = "gone"
    /\ Terminate("failed")

CommandTimesOut == phase = "running" /\ Terminate("timeout")

CommandCancelled == phase = "running" /\ cancelled /\ Terminate("cancelled")

(* Mutation: the leader's exit ends the readers. *)
InputWritten == io.todo = 0

Joined == io.todo = 0 /\ io.outEnd /\ io.errEnd

(* Mutation: only the leader is cleaned up after a regular exit. *)
CompleteLeavingGroup ==
    /\ phase = "running" /\ Joined /\ child = "exited"
    /\ child' = "reaped" /\ phase' = "checking"
    /\ UNCHANGED <<call, result, partial, reason, pc, kin, killed, io, cancelled, wire>>

\* The wait after the join reaps the leader; what it left behind is killed.
Complete ==
    /\ phase = "running" /\ Joined /\ child = "exited"
    /\ child' = "reaped" /\ kin' = "none" /\ phase' = "checking"
    /\ UNCHANGED <<call, result, partial, reason, pc, killed, io, cancelled, wire>>

(* Mutation: the cut log frame is forgotten. *)
ReapForgettingLog ==
    /\ phase = "reaping" /\ child = "exited" /\ child' = "reaped"
    /\ IF reason = "cancelled" THEN Abandon ELSE Answer(Failure(io.tail))
    /\ UNCHANGED <<call, partial, reason, pc, kin, killed, io, cancelled, sent, taken, hub>>

\* The wait of terminate_command_child returns.
Reap ==
    /\ phase = "reaping" /\ child = "exited" /\ child' = "reaped"
    /\ IF reason = "cancelled" \/ partial THEN Abandon ELSE Answer(Failure(io.tail))
    /\ UNCHANGED <<call, partial, reason, pc, kin, killed, io, cancelled, sent, taken, hub>>

\* The exit status decides, then the output schema.
CheckOutput ==
    /\ phase = "checking"
    /\ \/ /\ call.program.code = 0
          /\ Answer([status |-> "success", output |-> io.last, tail |-> io.tail])
       \/ /\ call.program.code # 0 \/ call.checked
          /\ Answer(Failure(io.tail))
    /\ UNCHANGED <<call, partial, reason, process, io, cancelled, sent, taken, hub>>

(***************************************************************************)
(* The answer, and the environment                                         *)
(***************************************************************************)
WriteDone ==
    /\ phase = "answering"
    /\ \/ WritePart /\ phase' = IF Len(writing) = 1 THEN "closing" ELSE phase
       \/ hub = "gone" /\ phase' = "closing" /\ UNCHANGED wire \* the error is ignored
    /\ UNCHANGED <<call, result, partial, reason, process, io, cancelled>>

Shutdown ==
    /\ phase = "closing" /\ phase' = "over"
    /\ UNCHANGED <<call, result, partial, reason, process, io, cancelled, wire>>

Cancel ==
    /\ ~cancelled /\ cancelled' = TRUE
    /\ UNCHANGED <<call, session, process, io, wire>>

HubReads ==
    /\ hub = "open" /\ taken < Len(sent) /\ taken' = taken + 1
    /\ UNCHANGED <<call, session, process, io, cancelled, writing, sent, hub>>

HubLeaves ==
    /\ call.entry = "channel" /\ hub = "open" /\ hub' = "gone"
    /\ UNCHANGED <<call, session, process, io, cancelled, writing, sent, taken>>

Agent ==
    \/ ReadInvoke \/ ReadInvokeFails \/ ReadInvokeCancelled \/ Reject \/ SpawnFails \/ Spawn
    \/ WriteStdin \/ ReadStdout \/ ReadStderr \/ ReadEnds \/ WriteLog \/ OutputFails
    \/ CommandCancelled \/ Complete \/ Reap \/ CheckOutput \/ WriteDone \/ Shutdown

Environment == ChildStep \/ ChildExits \/ DescendantExits \/ Cancel \/ HubReads \/ HubLeaves

Next == Agent \/ CommandTimesOut \/ Environment

\* The runtime polls ready futures and fires timers; the kernel delivers SIGKILL.  The
\* child and the hub owe nothing.
Spec == Init /\ [][Next]_vars /\ WF_vars(Agent) /\ WF_vars(CommandTimesOut)

(***************************************************************************)
(* Properties                                                              *)
(***************************************************************************)
\* Every variable keeps its type, the two readers together stay within the shared
\* output budget, and the channel's window is respected.
TypeOK ==
    /\ call \in Calls /\ pc \in 1..Len(Steps) + 1
    /\ phase \in {"reading", "lookup", "running", "reaping", "checking", "answering",
                  "closing", "over"}
    /\ child \in {"none", "running", "exited", "reaped"}
    /\ kin \in {"none", "holding", "detached"}
    /\ killed \in BOOLEAN /\ partial \in BOOLEAN /\ cancelled \in BOOLEAN
    /\ io.stdin \in 0..PipeCapacity /\ io.todo \in 0..InputLength
    /\ Len(io.stdout) <= PipeCapacity /\ Len(io.stderr) <= PipeCapacity
    /\ io.lines \in 0..MaxOutputLines /\ Len(io.tail) <= TailLength
    /\ reason \in {"none", "cancelled", "failed", "timeout"}
    /\ taken \in 0..Len(sent) /\ Len(sent) - taken <= WindowSize
    /\ hub \in {"open", "gone"}

\* The hub can always parse the channel: frames follow one another whole, only the last
\* may be cut, and nothing follows Done.  A timeout, an output error or a cancellation in
\* the middle of a log frame therefore ends the channel without a Done frame
\* (channel_write_in_progress).
FrameAligned ==
    /\ \A i \in 1..Len(sent) : sent[i][2] = IF i % 2 = 1 THEN "length" ELSE "body"
    /\ \A i \in 2..Len(sent) : i % 2 = 0 => sent[i][1] = sent[i - 1][1]
    /\ \A i \in 1..Len(sent) : sent[i][1] = "Done" => i > Len(sent) - 2

\* Before an invocation answers or gives its channel up, the leader is reaped and no
\* process of its group is left, those included that outlived a leader that exited.
NoSurvivors ==
    phase \in {"checking", "answering", "closing", "over"} =>
        child \in {"none", "reaped"} /\ kin = "none"

\* The steps of these kinds that the leader has taken.
Written(kinds) == {i \in 1..pc - 1 : Steps[i] \in kinds}

\* i is the last of lines, 0 if there is none; s lists the last n of them in order.
IsLast(i, lines) == IF lines = {} THEN i = 0 ELSE i \in lines /\ \A l \in lines : l <= i

Lists(s, n, lines) ==
    /\ Len(s) <= n
    /\ \A i \in 1..Len(s) : s[i] \in lines
    /\ \A i, j \in 1..Len(s) : i < j => s[i] < s[j]
    /\ \A l \in lines : \/ \E i \in 1..Len(s) : s[i] = l
                        \/ Len(s) = n /\ \A i \in 1..Len(s) : l < s[i]

\* A success is one the command earned: it exited with 0 on its own, the output is the
\* last record it printed and the log tail the last lines it wrote, with none of it left
\* unread in a pipe when the result is put together.
Earned ==
    result.status = "success" =>
        /\ call.program.code = 0 /\ ~killed /\ pc = Len(Steps) + 1
        /\ IsLast(result.output, Written({"out"}))
        /\ Lists(result.tail, TailLength, Written({"err", "long"}))

\* The result is put together after the command: nothing of it is left that could still
\* write, and what is reported is what it did.
HonestResult == TypeOK /\ NoSurvivors /\ Earned

\* The agent and the command never wait for each other: when only the timer can end the
\* invocation, the command hangs by itself, a descendant holds its pipes, or the hub does
\* not read the log it asked for.
TimeoutJustified ==
    phase = "running" /\ ~ENABLED Agent /\ ~ENABLED (ChildStep \/ ChildExits) =>
        \/ Running /\ Steps[pc] = "hang"
        \/ child # "running" /\ kin = "holding"
        \/ writing # <<>> /\ hub = "open" /\ Window = 0

\* Streaming is no exemption from the ceiling: a command that was started ends and is
\* reaped, whatever the command and the hub do.
ChildReaped == child = "running" ~> child = "reaped" /\ kin = "none"

=============================================================================
