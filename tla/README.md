# Formal models of nexigon

TLA+ models of the device agent and the libraries in this repository, the TLC
configurations that check them, and theorems about them that TLAPS checks.
Paths without a prefix are below `src/crates/`; `lib.rs` alone is
`libs/nexigon-multiplex/src/lib.rs`.

## 1. Inventory

The Nexigon Hub is a server outside this repository. A device runs the *agent*,
which keeps one WebSocket connection to the hub and multiplexes channels over
it: RPC, terminals, TCP forwarding, command handlers, and polling for device
operations. The CLI uses the same client library.

| Component | State | Operations | Interacts with |
|---|---|---|---|
| Channel data path (`lib.rs`: `Sender`, `Receiver`) | credits, window, chunk buffer, pending chunk, `closed`/`dropped` flags, tombstones | `poll_write`, `poll_flush`, `poll_close`, `poll_next_chunk`, drops; Data, Adjust, Close, Closed handlers; `cleanup_channels` | event loop through two mutexes and wakers; peer through frames |
| Writer wake-ups (`SenderShared.waker`, `frame_waiters`) | two waker slots, queue length | register, take and wake | writer tasks, event loop |
| Channel lifecycle (`Connection::handle_cmd`, `handle_frame`) | `pending_requests`, `channels`, `closed_channels`, `cancelled_open_tombstones`, slot counter, command queue | open, accept, reject, cancel, drop, clean up | callers, holders of a `ChannelRequest`, peer |
| Event loop (`poll_event`) | frame queue with control reserve, Hello and ping flags, three deadlines, ping interval, wakers | one poll in five phases; `terminate`; queueing by tasks | transport, timers, all channels |
| Operation loop and ledger (`apps/nexigon-agent/src/run.rs`, `operation_ledger.rs`) | in-memory entries, one file per work item, claim, attempt | load, claim, execute, persist, report, prune | hub over RPC, file system, service manager |
| RPC (`libs/nexigon-rpc`, `ClientExecutor`) | per-actor and global byte pools for each direction, one request/response stream per channel | admit, read and write headers and bodies, discard, time out | channels, hub's handler loop |
| Agent supervisor (`run.rs`) | task set, bounded task queue, permits, cancellation token | start up, dispatch channel requests, supervise, shut down | everything in the agent |
| Command handler (`handlers.rs`) | command registry; child process, pipes, output budget, partial-write flag | load definitions; invoke, stream logs, time out, cancel | channel, child, file system |
| Terminal (`terminal.rs`, `terminal/child.rs`) | child and its credentials, PTY, relays, timers | fork and exec, relay, resize, four ends of a session | channel, child |
| Identity, provisioning, secure files (`lib.rs`, `provisioning.rs`, `secure_file.rs` of the agent and `nexigon-common`) | key, certificate and credential files | generate, redeem, store, present | file system, hub |
| Local API (`local_api.rs`, `nexigon-agent-api`) | Unix socket path, listener, clients | probe, bind, admit, relay, remove | local clients, one-shot commands |
| Repository upload (`libs/nexigon-common`) | hashed snapshot, upload URL | register, PUT, finalize | file, hub, object storage |
| WebSocket transport (`libs/nexigon-client`) | flush and close flags | `poll_next`, sink | tungstenite socket, event loop |
| Identifiers, certificates, generated API, CLI, start-up | none worth a model | parsing, formatting, sequences of calls | |

What makes the system hard: two tasks per channel and the event loop share
state under short locks; frames cross each other on the wire; halves, channels
and connections disappear at any moment; opens are cancelled while their answer
is under way; three timers race the frames that would stop them; the operation
loop has to survive crashes between any two file operations while its reports
are lost, late or repeated; calls hold memory while they wait for more; child
processes and their descendants outlive what started them; several agent
processes share files and a socket path without a lock. `PROJECT.json` lists these hazards with their lines.

What makes each component correct:
- data path: every byte once, in order; credit conserved; no stall; buffers
  bounded by the window; a correct peer is never accused;
- wake-ups: whoever is parked is registered where the change will be announced;
- lifecycle: exact slot accounting, every request answered once, both ends
  agree on a channel, late frames recognised, every open resolved;
- event loop: Hello first, no connection closed for a deadline that was met,
  none kept for one that was missed, data cannot starve control frames;
- operations: a command runs at most once, its saved result reaches the hub;
- RPC: body memory bounded, streams aligned, no call waits for another's memory
  for ever;
- supervisor: every permit and slot comes back, nothing survives the run, the
  run ends;
- commands and terminals: the hub can parse what it gets, a reported status was
  earned, no process is left, the shell has the user's credentials;
- registry: the first usable definition of each name, validation within budget;
- identity: one identity for ever, key and certificate belong together, a
  confirmed pairing is durable; local API: a server that runs can be reached;
- upload: what is stored is what was hashed, and a retry heals.

## 2. Modules

| Module | Role |
|---|---|
| `ByteStream` | abstract: one direction of a channel is a reliable byte stream |
| `ChannelFlow` | one direction of a channel in detail; implements `ByteStream` |
| `SenderWake` | one writer and the event loop, lock by lock |
| `ChannelFlowProofs` | credit, order, end of stream, refinement; no wake-up of the writer is lost |
| `ChannelLifecycle` | two endpoints that open, accept, reject, cancel and drop channels |
| `ChannelLifecycleProofs` | slots in use; where every request is; what the ends of a channel know of each other |
| `ConnectionLoop` | the phases of `poll_event`, queue, pings, deadlines, wakers |
| `ConnectionLoopProofs` | what each phase leaves behind; where every Hello, ping and pong is |
| `WorkOutcome` | abstract: each work item is executed once and decided once |
| `OperationLedger` | operation loop, ledger files, hub; implements `WorkOutcome` |
| `OperationLedgerProofs` | the ledger's inductive invariant and refinement; memory and framing of `RpcExchange` |
| `WeightedPool` | the two-level semaphores of RPC admission, as operators |
| `RpcExchange` | executors and handlers that exchange actions under admission |
| `CommandSession` | one command invocation with its child process and pipes |
| `CommandSchema` | compilation of one declared schema: expansion of references, work and size |
| `CommandRegistry` | loading of command definitions, and validation within budget |
| `CommandSessionProofs` | whole frames, reaped children, earned successes, no mutual wait; what `CommandSchema` accepts and `CommandRegistry` loads |
| `TerminalSession` | one terminal session from fork to exit frame, in ticks of its timers |
| `AgentSupervisor` | the tasks, permits and queue of one connected run |
| `AgentSupervisorProofs` | permits and slots accounted for, nothing left behind; credentials, output and processes of `TerminalSession` |
| `DeviceIdentity` | several processes, their key, certificate and credential files, the hub |
| `LocalApi` | those processes around the socket path; implements `DeviceIdentity` |
| `DeviceIdentityProofs` | inductive invariants of both, refinement |
| `RepositoryUpload` | uploads of a file that changes meanwhile |
| `RepositoryUploadProofs` | what is stored was the file; an undisturbed run succeeds |
| `MC...` | instances for TLC |

The four multiplex modules divide one crate by question. `ChannelFlow` looks
inside one channel and lets control frames overload the connection at any time;
`ConnectionLoop` says when that can happen. `ChannelLifecycle` sees a channel
only as open or dropped. `SenderWake` refines the moments at which
`ChannelFlow` lets a writer act into locks and wakers.

### ChannelFlow

Sender on endpoint A, receiver on endpoint B. A byte is its position in the
stream, a data frame the interval `(from, to]` it carries, so order, loss and
duplication are visible without payloads. The outgoing queue of an endpoint and
the transport behind it form one FIFO (`wire`, `back`).

- `PollFlushClosed`, `PollSendChunk`, `PollFlushReady`, `PollWrite`, `PollClose`
  and `DropSender` are the `Sender`. `poll_write` and `poll_close` first flush;
  `wpc = "flushed"` is the point between the two critical sections.
- `PollNextChunk` is `poll_next_chunk` with its window growth and credit update
  in the same step. Whether the last update is recent (`2 * smoothed RTT`) is a
  free choice. `PollNextEof` and `DropReceiver` complete the `Receiver`.
- `HandleData`, `HandleAdjust`, `HandleClose`, `HandleClosed` are the frame
  handlers, with `discard_late_channel_data` in `HandleData`.
- `CleanupChannelA/B` turn a channel whose halves are dropped into a tombstone.
- `GoDownA/B` (terminate, overload) and `CloseStateA/B` end a connection. A
  control frame that finds the queue full does so as well.
- `received`, `gFrame`, `gByte`, `tFrame` and `tByte` are history.

### SenderWake

Each step is one critical section. Credit and queue room are numbers, `waker`
and `waiting` the two places where the writer's waker may be, `woken` a wake-up
that the executor has not yet served.

### ChannelLifecycle

An endpoint is its event loop (`HandleOpen`, `HandleAccept`, `HandleRequest`,
`HandleAcceptFrame`, `HandleAcceptCancelled`, `HandleReject`,
`HandleRejectCancelled`, `HandleGone`, the two cleanups, `CloseState`) and the
tasks around it (`Open`, `Cancel`, `AcceptRequest`, `RejectRequest`,
`DropChannel`). A channel is dropped as a whole and its two closing frames are
one (`"gone"`). `evicted`, `unknown`, `idOf` and `callbacks` are history. Unknown
frames do not end the connection here, since the limit is a rate; instead
`LateFramesKnown` says which frames can be unknown.

### ConnectionLoop

`pc` is the phase of `poll_event`. A timer is `"idle"` (runs, nobody's waker),
`"armed"` (runs and will wake the task) or `"fired"`; it fires at any time after
its start. `woken`, `sinkWaker` and `streamWaker` record who will have the loop
polled again, which is what `SleepsSafely` and the liveness property are about.
The peer follows the protocol; the link may be cut, or the peer may stop without
a sign. `late` is history: the deadlines that ran out for the handshake or the
present ping. So is `answeredLate`: the last pong was handled in the poll that had
found a deadline of its ping expired.

### OperationLedger

`pc` is the position of the loop; `persist`, `sync`, `remove` and `removeSync`
are the steps of `replace` and `remove` on the file system. `disk` holds the
visible file of each work item, `possible` the versions that may be there after
a power loss: every version since the last directory sync. A crash keeps `disk`
and loses `mem`; a power loss chooses a version of each file. Reports in flight
are delivered late, to an expired claim, or never. The hub is external; it
accepts a report under the current lease only and acknowledges when it has a
verdict. Permits, the poll interval and claim identifiers inside entries only
delay or decorate and are left out. The process does not reconnect: a lost
connection ends it, and the service manager starts it again (`Load`).

### RpcExchange and WeightedPool

A pool is a record: what each task holds or waits for, the line at each
semaphore, and the tracked actors (`Acquire`, `Pass`, `ShrinkTo`, `Release` are
`WeightedPool` in `nexigon-rpc`). The actor's share is admitted before the global
one, actors beyond the limit share an overflow semaphore. A message on a stream
is a header that announces a number of units, and the units; each unit names the
call it belongs to, so a misread shows. `client` walks through
`execute_with_admission` (`StartCall` to `DecodeResult`), `server` through
`read_action`, the handler and `write_result` (`ReadHeader` to `FinishResult`).
`TransportFails`, `WriteTimeout` and `ReadTimeout` break a call off; the executor
uses its channel again afterwards, as the operation loop does (`tainted`).
`Buffered` is the memory a task retains: an executor keeps its input until the
call ends, while its permit goes with the flush; in between the buffer `Outlives`
the permit.

### CommandSession

`phase` is the position of the handler. `io` holds the three pipes and the three
joined futures; `ChildStep` runs the command's program, `DescendantExits` and
`ChildExits` its ends. A frame is written in two parts, so that a cut in the
middle (`channel_write_in_progress`, here `partial`) can happen. `Terminate`
kills the process group and enters the reaping; `Complete` is the regular end.

### CommandSchema and CommandRegistry

A schema is a finite tree of nodes, named by their JSON pointers, some of which refer
to others. `expand` is recursive in the code; here a compilation is a record with the
stack of its calls (`stack`: the node that each expands and the pointers that it has
yet to), the `active` set, the counters for work and size, and a verdict. `Call` and
`Return` are the beginning and the end of a call, `Expand` is the next of either.
`visited` is history: the walks from the root to every node that was expanded.
The properties compare the verdict with `Walks`, the walks through the schema graph
that a validator may take, which know neither a stack nor an `active` set.

`CommandRegistry` has the directory, its edits during loading and the resulting
`commands`. A definition is its parsed content with a size, a name, an executable and
two schemas. `OpenNext` opens the next listed one, `ExpandMore` and `CompileOutput`
compile its schemas, `Skip` and `Keep` end it, and `Validate` judges a value of an
invocation.

### TerminalSession

Time passes in ticks, so timers of the session and of the supervisor can be
compared. No tick passes while a timer of the session has expired, while the
relay has a cancellation to see, or between two awaits (`Due`); relays, shell,
descendants and hub may be slower than any timer. The child sets its
credentials call by call; any call may fail, and one that sets something may
succeed without effect. `Cancelled`, `ChannelEnds`, `PtyEnds` and `ShellEnds` are
the four ends of the relay.

### AgentSupervisor

`phase` is the position of `run_with_connection`: its start-up steps, the
supervision, and the shutdown with grace and abort. A request holds its permit
and slot in the accept callback (`"accepting"`) and as a queued task
(`"ready"`). `midway` marks a task that was polling when the token was
cancelled. A command handler is `"serving"` while its command runs and
`"answering"` while it writes and shuts down the channel (`CommandOver`). The
operation loop takes its permit here; what it does with it is
`OperationLedger`.

### DeviceIdentity and LocalApi

A file has a visible version and the `older` versions a power loss may bring
back until the directory is synced. Each process goes through loading or making
the identity, pairing over the endpoints, and presenting what it has; the hub
redeems a pairing key once. `raced` and `contended` record that two first starts,
or two set-ups of the socket, overlapped; `misjudged` that a connection to a
listener failed in `serve`, which takes every such error for a stale path
(`Probe`). `LocalApi` adds the socket path
(`socket`: the process it leads to, stale or missing), probe, bind and removal
as separate steps, clients with their hello, and one-shot commands that go
through the socket or become processes of their own.

### RepositoryUpload

The file is an inode, a content of chunks, and metadata; anybody may write,
replace or truncate it between any two reads. The hub knows registered and
available assets, the storage keeps the first complete body of an object.
`unnoticed` records a write that left the metadata as they were, `disturbed` a
run that a writer, a lost call or another uploader interfered with.

## 3. Runs

All runs set `CHECK_DEADLOCK FALSE`, because each system may really stop: the
stream is over, the connection is closed, the calls are used up.

| Run | Shows | Bounds |
|---|---|---|
| `MCChannelFlow` | `NoProtocolViolation`, `CreditAccounting`, `EofComplete`; refinement of `ByteStream`; `NoStall` | 5 bytes in chunks of 1 or 2, window 2 frames / 3 bytes growing to 3 / 6 |
| `MCSenderWake` | `NoLostWake`, `FlushEnds` | 2 frames, 3 bytes of credit, queue of 2 |
| `MCChannelLifecycle` | `SlotsExact`, `AnsweredOnce`, `PeerUnderstood`, `Paired`, `OpenResolves` | 3 opens from both ends, 2 channels, 1 pending request, 1 tombstone, 1 command; one open may be cancelled, one end may fail |
| `MCConnectionLoop` | `ProtocolHonoured`, `SleepsSafely`, `OverloadByControl`, `SilentPeerNoticed` | queue 2 with 1 reserved, 2 frames per poll, 1 local and 1 peer frame beside Hello and pings |
| `MCOperationLedger` | `LedgerFirst`; refinement of `WorkOutcome`; `EventuallyDecided` | a command and a task, 2 attempts, 4 faults, 7 leases |
| `MCRpcExchange` | `MemoryBounded`, `Aligned`, `ServedWithoutDeadline` | 2 connections, 2 actors, two calls in all, bodies of 1 unit with buffers of 2, 3 units in all and 2 per actor, 1 tracked actor |
| `MCCommandSession` | `FrameAligned`, `HonestResult`, `TimeoutJustified`, `ChildReaped` | 7 programs under every request; pipes of 1, window of 1, 5 lines of output, 2 lines of tail |
| `MCCommandRegistry` | `LoadsFirstValid`, `ValidationAffordable` | directories of up to 3 definitions of 8 kinds, 1 edit; all schemas over 4 nodes |
| `MCTerminalSession` | `HubStream`, `LeavesNothing`, `RunsAsUser` | graces 1 < 2 < 3 ticks, 2 pieces of output, 1 input, window of 2 parts |
| `MCAgentSupervisor` | `NothingLeft`, `OperationsTurn`, `RunEnds` | 3 requests, 1 permit of each kind, 1 slot |
| `MCLocalApi` | `PresentedTogether`, `IdentityStable`, `PairedForGood`, `ServerReachable` | 2 processes, 2 endpoints, 2 key pairs, 1 pairing key, 1 local client |
| `MCRepositoryUpload` | `StoredFaithfully`, `UndisturbedSucceeds` | 2 uploaders, 2 runs, 2 chunks, 2 values, 2 writes |

Two sentences in the documentation of the code are not kept by it: "Interval between
connection liveness probes after the handshake" (`lib.rs:94`, Observation 3) and "The
aggregate maximum retained RPC body memory is therefore twice `global_memory_bytes`"
(`libs/nexigon-rpc/src/lib.rs:69`, Observation 5). The properties say what holds
instead: `SleepsSafely` and `SilentPeerNoticed` except a pong handled late, and
without that exception TLC finds either violated; `MemoryBounded` bounds all buffers
but the flushed input of a call that waits, which is at most one body for each call.

Type invariants are part of the invariant that accounts for the same variables
(`CreditAccounting`, `NoLostWake`, `SlotsExact`, `ProtocolHonoured`,
`MemoryBounded`, `HonestResult`, `LeavesNothing`, `NothingLeft`). Why the
bounds are enough:
- *ChannelFlow*: the window grows once per dimension and reaches its limit, byte
  and frame credit are each exhausted alone, and the stream is longer than the
  first window, so the writer must wait for an adjustment. `MaxCredit` equals
  the byte limit, so one credit too many would overflow.
- *ChannelLifecycle*: every limit can be reached, requests cross, a second
  channel pushes the first out of the tombstones. With one command slot a
  callback waits while the loop frees and takes slots.
- *ConnectionLoop*: one data frame fills the data share, and with a ping or a
  pong the queue; a sink of one frame separates sending from flushing; the ping
  sequence has no bound, so deadlines are reset arbitrarily often.
- *OperationLedger*: four faults allow a failed sync, a crash during recovery, a
  lost report and a power loss in one behaviour; seven leases exceed the faults
  so that recovery is never cut off by the bound.

- *RpcExchange*: one actor's buffers fill its share, two actors exceed the global
  one, so both semaphores have lines; a rejected size is tried as well.
- *CommandSession*: every pipe and the window can be full while the command
  waits on another; the programs cover order of output and input, descendants
  that hold the pipes or leave them, hanging and overlong lines.
- *CommandRegistry*: every limit (entries, definitions, registry, manifest,
  expanded size, work, validation) is met and exceeded by some instance. Four nodes
  have cycles of every length, references that share a target, and references that
  lead nowhere.
- *TerminalSession*: the graces keep the relations of 2, 5 and 8 seconds on
  which the outcome depends.
- *AgentSupervisor*: permits and slots run out, separately and together.
- *LocalApi*: two processes suffice for every race on a path or a file between
  a step and the next; two key pairs let an identity be lost and made again.
- *RepositoryUpload*: a write may hit a chunk that was read or one that was not;
  two runs follow or meet each other.

`MaxFaults`, `MaxClaims`, `StreamLen`, `MaxSent`, `MaxPeerSent`, `Impatient`,
`Failing`, `Plans`, `MaxEdits`, `MaxPairs`, `MaxKeys`, `MaxWrites`, `MaxRuns` and
`MaxChunks` are the bounds that the code does not have. `MCLocalApi` uses the
symmetry of processes and `MCRepositoryUpload` that of uploaders and values;
both check invariants only.

### Fairness

Only what the executor and the surroundings justify: a woken task is polled and
a poll ends; timers fire; an open connection delivers (`HandleData`,
`HandleAdjust`); the reader reads and the writer offers its bytes (`NoStall` is
about a pair that keeps going; `PollWrite` is strong because a flush may
interrupt the reservation again and again). In `SenderWake` the event loop tears
down a closing connection, but nobody is forced to send credit. In `ConnectionLoop` it
is enough that some timer fires while one runs, and in `ChannelLifecycle` that
some event loop or some holder of a request, who accepts or drops it, makes a
step while one can. In `RpcExchange` tasks are polled when stream or semaphore is
ready, and no deadline is assumed to expire. In `CommandSession` the agent is
polled and its timeout fires; the command and the hub owe nothing. In
`AgentSupervisor` ready futures are polled, the grace period ends, the command of a
handler is over at some time (`CommandOver`: its request and its run have a
timeout), but writing the answer has none, so a handler need not end;
semaphores serve in turn; the hub need neither answer nor read, and no task need
heed the token. `OperationsTurn` therefore allows one case openly: from some point on
every command permit is with a handler whose answer the hub does not read
(`AllUnread`, Observation 10). In `OperationLedger`
the agent runs and is restarted, leases expire and are given again, accepted
reports are delivered; faults are bounded and so end.

### Observations

What the models show of the code beyond the properties that hold. Behaviour that
no document or comment excludes is a fact here, not a claim of a fault.

Multiplexing and operations:
1. `Sender::poll_write` can lose the wake-up of a close (`lib.rs:2455`).
   `poll_flush` checks `closed` under one lock; the rest of `poll_write` takes the
   lock again and looks at the byte credit only. A `ChannelClose`, or
   `close_state`, between the two wakes an empty slot; the writer then parks
   without credit and stays parked. `FlushEnds` and `NoLostWake` (which says
   nothing of a closed channel without credit) hold.
2. The ledger's memory may lag behind its file (`operation_ledger.rs:137`). A
   failed directory sync after a successful rename leaves the new file and the
   old entry, contrary to the comment above it (line 135). `LedgerFirst` and
   `OutcomeSpec` hold nevertheless: the loop never reports before a sync. The
   price is a result: a saved success can be replaced by "interrupted".
3. Pings may stop on an idle connection (`lib.rs:1533`, 1566). While a ping is
   outstanding `ping` does not poll the interval, and a poll that handles the
   pong returns without polling it. Usually a deadline timer of that ping is
   still running and wakes the task; if the pong is found in the very poll in
   which the deadlines are seen to have expired, none is left. A peer that stops
   afterwards goes unnoticed until other traffic wakes the loop. `SleepsSafely` and
   `SilentPeerNoticed` except this state (`answeredLate`) and no other. With the
   default limits it takes a flush that lasts longer than 15 s, so that the write
   deadline has passed before the pong deadline does. A timer that is pending
   promises a wake-up only to the last poll that registered; the case does
   not depend on it: an interval that kept its waker would fire while the ping is
   outstanding, and the poll it causes would not register it again.
4. The operation loop uses its executor again after a call that broke off
   (`run.rs:400`, 564): a late reply would be read as the next call's. `Aligned`
   holds for connections without such a call.
5. `execute_with_admission` gives its request permit back after the flush
   (`libs/nexigon-rpc/src/lib.rs:356`), while the input, which belongs to the
   function, lives until the response has been decoded (line 393). The permits that
   are free again admit the inputs of further calls: the documented maximum of twice
   the global limit is no bound on the memory of executors that wait
   (`Outlives`, excepted in `MemoryBounded`).

Commands and terminals:
6. A drain that fails or times out (`terminal.rs:214`) returns without the
   `killpg` of the other ends, so descendants survive; and a shell that closed its
   terminal is waited for 5 s and then terminated for 5 s, which together exceed
   the supervisor's 8 s. Both are exceptions of `LeavesNothing`.
7. A blocked write of unread input hides the end of the channel from a session.
8. Registry: duplicates count against the number of definitions; a limit that
   the whole registry exceeds leaves no command at all; the first `PATH` entry
   that exists is taken even if it is unusable; nothing is ever reloaded, and an
   executable checked at load time is used by path later.

Supervisor:
9. The start-up calls have no deadline of their own; a failed operation loop is
   logged and not restarted; the end of the connection's stream is a success of
   the run; a full supervisor queue rejects, a full command queue of the
   connection ends it.
10. A handler writes its Done frame and shuts its channel down without a timeout and
    without looking at the cancellation (`handlers.rs:1047`, 1066, 1081), with its
    command permit held (`run.rs:762`). Four channels that the hub leaves unread
    keep the operation loop waiting for as long as the connection lasts
    (`AllUnread` in `OperationsTurn`). The comment at `run.rs:376` is about leases
    that wait behind commands, not about this.

Identity and local API:
11. A crash or failed write between key and certificate makes every later start
    fail ("found SSL key but certificate is missing") until somebody removes the
    key; two first starts that overlap can leave a pair that does not match and
    is refused from then on (`raced`).
12. A lost answer of a redemption is taken for a refusal although the key is
    used up; a failed store drops the token without an answer to the client.
    `PairedForGood` holds because success is reported after the sync.
13. Two agents that find the same stale socket can each remove and bind it; one
    listener is orphaned, and its guard removes the other's path (`contended`).
    A probe that fails against a live listener, because its queue is full or
    the agent has no rights or no descriptors, removes the path of that listener
    (`local_api.rs:70`, `misjudged`), and the guard of the old one removes the new
    path later. Both are exceptions of `ServerReachable`. An agent that probes while
    the old one removes its path fails its local API for the whole run.
14. Local clients have no deadline for their hello, so 32 silent ones block the
    API. One-shot commands use the default socket path whatever is configured.
15. `prepare_parent` creates the data directory if it is missing
    (`secure_file.rs:167`) and nobody syncs the entry of the new directory in its
    own parent. `IdentityStable` and `PairedForGood` assume a directory that is there.

## 4. Proofs

TLAPS proves the theorems for all values of the constants that satisfy the
modules' assumptions: any stream length, windows, chunk sizes and credit width
(`FlowAssumption`), any credit and queue length (`WakeAssumption`), any sets of
work items, attempts, faults and leases (`LedgerAssumption`), any finite number of
connections, limits of memory, body sizes and stream windows (`PoolAssumption`,
`ExchangeAssumption`), any queue, reserve,
poll budget, transport capacity and number of frames (`LoopAssumption`), any calls and
limits of channels, requests, tombstones and commands (`LifecycleAssumption`), any number of
processes, endpoints, key pairs and clients (the assumptions of `DeviceIdentity`
and `LocalAssumption`), any programs, pipes, windows and output limits
(`SessionAssumption`), any schemas, directories, edits, values and limits
(`SchemaAssumption`, `RegistryAssumption`), any uploaders, runs, file sizes and number of changes
(`UploadAssumption`), any requests, permits and slots (`SupervisorAssumption`), any
amount of terminal output and input, any window, and graces in the order of the
code's (`GraceAssumption`).

**ChannelFlow.** The invariants are not inductive alone. `IInv` describes the
FIFOs: frames on the wire are consecutive intervals from `received` to `sent`
with `Closed` last at most, adjustments in `back` carry the running totals of
granted credit, so that their sum is the difference of the history variables,
and the state of each half fits the flags of its endpoint. From it follow
`TypeCorrect`, `ProtocolKept`, `CreditConserved`, `WindowBounded`, `NoLeak`,
`Ordered`, `AssertionHolds`, together `CreditsAccounted`, and `EofMeansAll`;
`Refinement` maps every step to a step of `ByteStream` or a stutter. Sequence
facts (appending to and taking from a FIFO preserves consecutiveness) are lemmas
of their own, and each action has one lemma that it preserves `IInv`.

**SenderWake** (in `ChannelFlowProofs`). `NoLostWake` becomes inductive with two
facts: the pending chunk is covered by byte credit, and there is none between the
two locks (`NothingLost`).

**ConnectionLoop.** The proof follows one poll. `WakersLeft` says what each phase
has left for the phases after it (a waker on every half that has something to
wait for, an armed timer on every deadline that counts, and one for the next ping
unless the pong came in the poll that had found a deadline of its ping expired),
which at `pc = "idle"` is `SleepsSafely` (`NeverStuck`); `PingStages` and `LateKnown` tie the flags of a ping
and the saved expiry results to the timers, so that a deadline ends the
connection only if it was missed (`OnlyMissed`). `ProtocolHonoured` needs to know
where each frame is. `PingSum` and `PongSum` count the pings and pongs in the queue,
the transport and the peer against what each side waits for; `HelloSent` and
`HelloReceived` say that the first frame in each direction is the Hello until the
other side has it. Lemmas about `Count` (appending, taking the head, putting a frame
at the front, counting within the length) carry them through each action
(`Honoured`). `DataWithin`, the share of data in the queue, gives
`OverloadByControl` (`ReserveKept`). The type invariant follows from `Types` and `IInv`.

**ChannelLifecycle.** `SlotsExact` counts what two kinds of tasks and the event
loop take from each other, so it needs every request to be a new one: `Numbering`
says that the requests on their way have ids below the sender's next one, each its
own and none that the receiver still holds. `Reservations` is the count itself with
the limits, and lemmas on `Reserved` say how each exchange moves a request from the
held ones to the command queue, to a channel, or away (`SlotsKept`). Three more
invariants build on this one. `Answers` counts the traces of every request: its
frame, its entry at the peer, an accept command, an answer on the wire. `Traced`
says that they sum to one as long as somebody waits or a tombstone remembers, that
they never exceed one, and that an accept callback was called at most once; each
action moves one trace or leaves the request alone (`OneAnswer`). `Meeting` relates
the ends of a channel: `Facing` (who has a channel faces the channel, a buried one,
or an accept that is on its way), `Announced` (an accept on the wire is that of a
channel its sender has or had) and `Expected` (every frame is about an id the
receiver knows, or comes behind the accept that tells it); with them no frame is
unexpected (`PeersUnderstand`). `CallsPlaced` and `Outcomes` follow each call
through its request to its result (`EndsPaired`).

**OperationLedger.** `IInv` ties the position of the loop to the file versions:
from the moment a command may start until a verdict exists, no version of its
file is absent; before a report is sent exactly one version is possible and it is
the report; a success was preceded by a successful command. `Invariance` is
proved action by action; `TypeCorrect`, `ExecutedOnce`, `LedgerLeads` and `Honest`
follow, and `Refinement` shows that `WorkOutcome` is implemented.

**RpcExchange** (in `OperationLedgerProofs`). Each operation of a pool has a lemma
that no semaphore gives out more than it has and that only the request of one task
changes. Permits are counted one by one, as a set of pairs of a task and a number, so
the lemmas need only the cardinalities of subsets and unions and no sum over tasks.
`Charged` ties every task's request to the position of its executor or handler; what
is buffered and does not outlive its permit is then a subset of the permits handed
out (`BodiesStayInBudget`). The inputs that outlive theirs are outside the theorem.
For `Aligned`, `InStep` counts the messages of a call: how many the executor has
written and read, and, with those under way, how many the handler has seen and
answered. The streams carry the rest of one message each (`Carries`), and `Stage`
lists where the handler may be at these counts. A call that ends well leaves both
streams empty, so the next one starts where this one did; one that breaks off in
the middle is remembered in `tainted` (`EndsAgree`). The proof needs every
serialized value to have at least one unit: with an empty result a call would return
without anything that shows whose answer it is. JSON has no empty value, and
`ExchangeAssumption` says so.

**DeviceIdentity and LocalApi.** `Presented` needs what each process has loaded
or made at each position to be a matching pair or to be checked before use
(`ShownInv`). `Stable` rests on an order (`StableInv`): a key is on disk before
its certificate and durable before anything is shown (`KeyFirst`), and unless
starts overlapped only one process makes a pair (`OneGenerates`); from the first
presentation on, every version of the files that may survive is the shown one.
`PairedDurably` follows the credentials through rename and sync. `Reachable` uses
`ReachInv`: unless `contended` or `misjudged`, a process that has probed or bound is
the only one in the set-up, nobody serves once a path was taken for stale, and only
a process whose listener is closed removes the path. `LocalImplements` shows that every step of `LocalApi` is a step of
`DeviceIdentity` or leaves its variables alone, so `LocalKeeps` carries the three
theorems over to the system that `MCLocalApi` checks.

**CommandSession.** `Stages` says what each phase knows of the leader and its group,
`Streams` that both pipes hold increasing lines behind those already read (so the
last line and the tail are those of the program), `Frames` how the frame being
written joins what was sent. A log write that an end of the session interrupts
leaves `partial`, and only a session that is over does not go on from there:
`ChannelReadable`. `Success`, a conjunct of its own, is what the answer needs to
carry from the moment it is formed until the session is over (`ResultHonest`).

**RepositoryUpload.** Each run knows something only as long as the metadata are
those of its snapshot (`Reads`): what was read is a prefix of the content, and once
the path was compared again the digest was a content of the file. `Told` ties what
the hub and the storage have to the run, `Quiet` says that a run nobody disturbs
finds everything as it left it, and `Alone` that it is the only one. `Faithful` and
`Succeeds` follow. The proof corrected the model: several writes that leave the
metadata unchanged can bring back the length of the snapshot with other content,
which two writes (as in the run) cannot, so `unnoticed` compares a write with all
earlier versions.

**AgentSupervisor.** `Accounts` counts the requests that hold a permit of each kind,
or a slot, against what is free; the operation loop counts as one (`Taken`).
Nothing is left because of `Ending`: once the queue is closed and emptied, only an
accept callback or a connecting task can still put something on it; the callbacks
go with the connection, the tasks are joined, and the last of them takes the queue
with it. `Lined` keeps a request from being queued twice (`NothingIsLeft`).

**TerminalSession** (in `AgentSupervisorProofs`). `SetupSucceeds` is the heart of
`ShellIsTheUser`: whatever calls fail or lie, the eight steps pass only with the
user's credentials, either because each was read back or because the agent, not
being root, had exactly these before it forked. For `HubReadsTrue`, `Ordered` says
that the parts sent and the rest of the frame being written are those of one stream,
two parts for each piece of output and then two for the status; `Progress` says how
far each stage may be, and that only a terminal that nobody holds open and that is
read empty is followed by the status. `SessionCleansUp` compares clocks: the supervisor's grace has
never lost more ticks than the timer of the stage that runs (`Clocks`), so one
termination is over before the task is dropped; `Family` says who may be alive in
each stage. The proof needs the timers to act when they
expire, which the guard of `Tick` says of the state (`Due`); a guard with `ENABLED`,
which the model had before, could not be reasoned about and allowed fewer delays.

**CommandSchema and CommandRegistry** (in `CommandSessionProofs`). The inductive
invariant `RegistryInv` says, for each stage of the loading, that the names still to
open come in order behind those already opened, and that the registry is the first
usable one of what was opened, with its bytes; while a definition is being compiled,
of what was opened before it (`Pending`). Opening a definition behind all others adds
at most one name (`FirstMore`) and the definition's size (`BytesMore`). This gives
`LoadsFirst`, once it is known that the compiler is right: `CompileInv`.

For a compilation that goes on, `Progress` says that the stack is a walk from the root
with the pointers that are left on each level (`OngoingCalls`), that what was visited
are walks with all their beginnings and none of those that are left (`Trail`), that
each step from a visited walk leads to another visited one or is still left on the
stack (`Covers`), that the active pointers are the targets of the references on the
stack, each once (`ActiveOf`), and that the counters are those of the walks visited
(`Counted`). A call, a turn to the next pointer and a return preserve it (`CallKeeps`,
`TurnKeeps`, `ReturnKeeps`). When the outermost call returns nothing is left, so every
walk was visited (`AllVisited`), and work and size are those of the whole schema. A
refusal has a reason (`CallRefuses`): the walks visited and the next one together
exceed the work, the node or its reference leads nowhere, or a reference leads back to
an active pointer, and then the walk can be continued round the loop to any length
(`NoLoop`). Conversely no visited walk is longer than the work counted, so an accepted
schema has no loop (`Settles`). `JudgesSchemas` states both directions; what a
validation may cost is the work of these walks (`ValidatesWithinBudget`).

Sums over walks and definitions are cardinalities (`Total`: each member counts as
that many pairs), so finite-set theorems suffice and no recursive sum is needed. The
only assumptions are `SchemaAssumption` (a schema has finitely many nodes, and a
pointer's children are distinct) and `RegistryAssumption` (sizes and limits are
natural numbers; an edit does not change the extension of a file). The proof needed
the compilation step by step: a recursive operator, which the model had before, can be
evaluated by TLC and not reasoned about.

**What stays with TLC.** Liveness (`NoStall`, `FlushEnds`, `OpenResolves`,
`SilentPeerNoticed`, `EventuallyDecided`, `ServedWithoutDeadline`, `OperationsTurn`,
`RunEnds`, `ChildReaped`), and `TimeoutJustified`, which is stated with `ENABLED`: TLAPS
here has no means for either. For the latter `NeverMutual` proves the same statement
with the guards spelled out (`AgentReady`, `LeaderReady`), for pipes of any capacity
and any program: a leader that is stuck has a full output pipe, which the agent
reads, or an empty input, which it fills (`LeaderFreed`); behind a leader that has
exited every future of the join ends (`JoinFreed`). That the actions really are
enabled then is what the run adds. Every other invariant that a run checks, and both
refinements, are theorems.

## 5. Not modelled, and the plan

Left out of the modelled components: per-second rate limits (which is why the
lifecycle and the event loop count as modelled in part), oversized frames and
frame parsing, statistics, the bandwidth estimate, wall-clock durations, the
contents of JSON, TOML and certificates. Rate limits depend on real time; the
models let the conditions they guard vary freely where that matters. Terminal
modes and environment variables, TCP connect errors' wording and progress
displays have no effect on the properties.

Left out as well, each named because a property would be affected: the frame with
which a peer closes its transport in order (in `ConnectionLoop` the link ends at once);
a PUT that the object storage completes after its caller has given up and a later run
has begun (`UndisturbedSucceeds` is about storage that has either taken a body or will
not); and the entry of a newly created data directory (Observation 15).

Not modelled as components: the WebSocket adapter (its behaviour is that of the
tungstenite socket's write queue, outside the repository; `ConnectionLoop` states
what is assumed of it), identifiers, certificates, generated API types and
generators, CLI argument handling, configuration and system information (no state
or pure I/O).

What could follow: the per-second limits of the multiplex layer with a model of time,
oversized frames, and the WebSocket adapter, once the behaviour of the socket's write
queue is written down.
