------------------------------ MODULE RpcExchange ------------------------------
(***************************************************************************)
(* Actions executed over channels (nexigon-rpc): on each connection an     *)
(* executor calls one action after the other, and a handler reads them,    *)
(* runs them, and answers.  The executors share one admission of body      *)
(* memory and the handlers another, each with a pool for requests and one  *)
(* for responses.  A message is a header, which announces a number of body *)
(* units, and the units; what a unit says is the call it belongs to.       *)
(*                                                                         *)
(* The executor is ClientExecutor: its channel is used again after a call  *)
(* that failed.  The handler loop is the hub's, which is not in this       *)
(* repository: it is taken to use the crate's functions in their order and *)
(* to give up a connection on the first error.  Deadlines may expire at    *)
(* any time while they run.                                                *)
(***************************************************************************)
EXTENDS WeightedPool

CONSTANTS
    Conns,       \* connections
    Actors,      \* keys under which the handlers admit connections
    Sizes,       \* sizes of serialized values, in units
    StreamCap,   \* messages and units a stream takes unread
    Plans        \* bound: how many calls each connection makes, one plan per behaviour

ASSUME ExchangeAssumption ==
    /\ IsFiniteSet(Conns)
    /\ Sizes \subseteq Nat \ {0} /\ Sizes # {} \* no JSON value is empty
    /\ StreamCap \in Nat \ {0} /\ Plans \subseteq [Conns -> Nat]
    /\ "global" \notin Actors /\ "overflow" \notin Actors

VARIABLES
    plan,     \* the calls each connection will make
    actor,    \* each connection's actor at the handlers' side
    pool,     \* "creq", "cresp": executors; "sreq", "sresp": handlers
    client,   \* each executor: execute_with_admission
    server,   \* each handler
    up, down, \* unread requests and responses of each connection
    tainted,  \* history: a call failed after it had begun to use the stream
    confused  \* history: an end misread its stream although no call had failed

exchangeVars == <<plan, actor, pool, client, server, up, down, tainted, confused>>
historyVars == <<tainted, confused>>

Pools == {"creq", "cresp", "sreq", "sresp"}
ClientKey == "default"  \* DEFAULT_ACTOR_KEY

(* The pool of a handler's response, and the two requests for permits that *)
(* a task makes: for the body it reads or writes first, and for the other. *)
SharedPool == "sreq"  \* mutation: one pool for both directions
ResponsePool == "sresp"
Request(k) == <<k, "request">>
Response(k) == <<k, "response">>
Tickets == {Request(k) : k \in Conns} \union {Response(k) : k \in Conns}

IdleClient(call) == [pc |-> "idle", tx |-> "none", rx |-> "none", call |-> call,
                     size |-> 0, left |-> 0, rsize |-> 0, rleft |-> 0, got |-> {}]
IdleServer == [pc |-> "header", call |-> 0, size |-> 0, left |-> 0, rsize |-> 0]

ExchangeInit ==
    /\ plan \in Plans /\ actor \in [Conns -> Actors]
    /\ pool = [d \in Pools |-> EmptyPool(Tickets, Actors \union {ClientKey})]
    /\ client = [k \in Conns |-> IdleClient(0)]
    /\ server = [k \in Conns |-> IdleServer]
    /\ up = [k \in Conns |-> <<>>] /\ down = [k \in Conns |-> <<>>]
    /\ tainted = {} /\ confused = {}

Header(call, size) == [kind |-> "header", call |-> call, size |-> size]
Unit(call) == [kind |-> "unit", call |-> call, size |-> 0]
Broken(call) == [kind |-> "broken", call |-> call, size |-> 0]
Room(stream) == Len(stream) < StreamCap

(* An end of k reads something that does not belong to its message.        *)
Misread(k) == confused' = confused \union ({k} \ tainted)

(* A semaphore of any pool serves the head of its line.                    *)
Admit(d, ticket) ==
    /\ CanPass(pool[d], ticket)
    /\ pool' = [pool EXCEPT ![d] = Advance(@, ticket)]
    /\ UNCHANGED <<plan, actor, client, server, up, down, historyVars>>

-----------------------------------------------------------------------------
(* The executor.                                                           *)

(* The call ends; its permits are dropped.  What it has written stays in   *)
(* the stream, and so does what it has not read.                           *)
EndCall(k) ==
    /\ client' = [client EXCEPT ![k] = IdleClient(@.call)]
    /\ pool' = [pool EXCEPT !["creq"] = Release(@, Request(k)),
                             !["cresp"] = Release(@, Response(k))]
    /\ UNCHANGED <<plan, actor, server>>

FailCall(k) ==
    /\ EndCall(k)
    /\ tainted' = IF client[k].pc = "exchange" THEN tainted \union {k} ELSE tainted

(* Memory for the largest possible input is reserved before serializing.   *)
StartCall(k) ==
    /\ client[k].pc = "idle" /\ client[k].call < plan[k]
    /\ client' = [client EXCEPT ![k].pc = "reserve", ![k].call = @ + 1]
    /\ pool' = [pool EXCEPT !["creq"] = Acquire(@, Request(k), ClientKey, MaxBody)]
    /\ UNCHANGED <<plan, actor, server, up, down, historyVars>>

(* serialize_bounded writes at most MaxBody bytes; a larger value fails,   *)
(* before anything is written to the stream, and so do the errors of the   *)
(* allocator and of the serializer.                                        *)
SerializeInput(k) ==
    /\ client[k].pc = "reserve" /\ Held(pool["creq"], Request(k))
    /\ \E n \in {s \in Sizes : s <= MaxBody} :
        /\ client' = [client EXCEPT ![k].pc = "exchange", ![k].tx = "header",
                                    ![k].rx = "header", ![k].size = n, ![k].left = n]
        /\ pool' = [pool EXCEPT !["creq"] = ShrinkTo(@, Request(k), n)]
    /\ UNCHANGED <<plan, actor, server, up, down, historyVars>>

SerializeInputFails(k) ==
    /\ client[k].pc = "reserve" /\ Held(pool["creq"], Request(k))
    /\ FailCall(k)
    /\ UNCHANGED <<up, down, confused>>

(* The writer: name and sizes, then the input, then a flush, with which it *)
(* drops the request's permit.  The input itself is the caller's, and      *)
(* stays until the call ends.                                              *)
WriteHeader(k) ==
    /\ client[k].tx = "header" /\ server[k].pc # "closed" /\ Room(up[k])
    /\ up' = [up EXCEPT ![k] = Append(@, Header(client[k].call, client[k].size))]
    /\ client' = [client EXCEPT ![k].tx = "body"]
    /\ UNCHANGED <<plan, actor, pool, server, down, historyVars>>

WriteBody(k) ==
    /\ client[k].tx = "body" /\ client[k].left > 0
    /\ server[k].pc # "closed" /\ Room(up[k])
    /\ up' = [up EXCEPT ![k] = Append(@, Unit(client[k].call))]
    /\ client' = [client EXCEPT ![k].left = @ - 1]
    /\ UNCHANGED <<plan, actor, pool, server, down, historyVars>>

FlushRequest(k) ==
    /\ client[k].tx = "body" /\ client[k].left = 0
    /\ client' = [client EXCEPT ![k].tx = "done"]
    /\ pool' = [pool EXCEPT !["creq"] = Release(@, Request(k))]
    /\ UNCHANGED <<plan, actor, server, up, down, historyVars>>

(* The reader, which runs beside the writer.  A text where a length should *)
(* be is a length beyond MAX_OUTPUT_SIZE.                                  *)
ReadLength(k) ==
    /\ client[k].rx = "header" /\ down[k] # <<>>
    /\ down' = [down EXCEPT ![k] = Tail(@)]
    /\ \/ /\ Head(down[k]).kind = "header"
          /\ client' = [client EXCEPT ![k].rx = "body", ![k].rsize = Head(down[k]).size,
                                      ![k].rleft = Head(down[k]).size]
          /\ pool' = [pool EXCEPT !["cresp"] =
                         Acquire(@, Response(k), ClientKey, Head(down[k]).size)]
          /\ UNCHANGED <<plan, actor, server, historyVars>>
       \/ /\ Head(down[k]).kind # "header"
          /\ FailCall(k) /\ Misread(k)
    /\ UNCHANGED up

ReadBody(k) ==
    /\ client[k].rx = "body" /\ Held(pool["cresp"], Response(k))
    /\ client[k].rleft > 0 /\ down[k] # <<>>
    /\ client' = [client EXCEPT ![k].rleft = @ - 1, ![k].got = @ \union {Head(down[k]).call}]
    /\ down' = [down EXCEPT ![k] = Tail(@)]
    /\ UNCHANGED <<plan, actor, pool, server, up, historyVars>>

(* Both halves are through: the result is what the body says, if it is a   *)
(* result of the action that was called.                                   *)
DecodeResult(k) ==
    /\ client[k].tx = "done" /\ client[k].rx = "body" /\ client[k].rleft = 0
    /\ \/ EndCall(k) /\ UNCHANGED tainted
       \/ client[k].got # {client[k].call} /\ FailCall(k)
    /\ IF client[k].got = {client[k].call} THEN UNCHANGED confused ELSE Misread(k)
    /\ UNCHANGED <<up, down>>

(* End of stream where the reader expects more, or a write that fails.     *)
TransportFails(k) ==
    /\ server[k].pc = "closed"
    /\ \/ client[k].tx \in {"header", "body"}
       \/ down[k] = <<>> /\ (client[k].rx = "header" \/ client[k].rleft > 0)
    /\ FailCall(k)
    /\ UNCHANGED <<up, down, confused>>

(* The two deadlines of a call: for its request until it is flushed, and   *)
(* for the response's body.  Waiting for the response has none.  A header  *)
(* may have been written in part.                                          *)
WriteTimeout(k) ==
    /\ client[k].pc = "reserve" \/ client[k].tx \in {"header", "body"}
    /\ FailCall(k)
    /\ \/ up' = up
       \/ /\ client[k].tx = "header" /\ Room(up[k])
          /\ up' = [up EXCEPT ![k] = Append(@, Broken(client[k].call))]
    /\ UNCHANGED <<down, confused>>

ReadTimeout(k) ==
    /\ client[k].rx = "body"
    /\ FailCall(k)
    /\ UNCHANGED <<up, down, confused>>

-----------------------------------------------------------------------------
(* The handler.                                                            *)

Step(k, record) == server' = [server EXCEPT ![k] = record]

(* Mutation: an error forgets the memory of the request.                   *)
ShutKeepingRequest(k) ==
    /\ Step(k, [IdleServer EXCEPT !.pc = "closed"])
    /\ pool' = [pool EXCEPT ![ResponsePool] = Release(@, Response(k))]
    /\ UNCHANGED <<plan, actor, client, tainted>>

Shut(k) ==
    /\ Step(k, [IdleServer EXCEPT !.pc = "closed"])
    /\ pool' = [pool EXCEPT !["sreq"] = Release(@, Request(k)),
                             ![ResponsePool] = Release(@, Response(k))]
    /\ UNCHANGED <<plan, actor, client, tainted>>

(* ActionHeader::read_body up to its admission.                            *)
AdmitAction(k, header) ==
    /\ Step(k, [IdleServer EXCEPT !.pc = "body", !.call = header.call,
                                  !.size = header.size, !.left = header.size])
    /\ pool' = [pool EXCEPT !["sreq"] = Acquire(@, Request(k), actor[k], header.size)]

(* Mutation: a rejected body is left in the stream.                        *)
DiscardNothing(k, header) ==
    /\ Step(k, [IdleServer EXCEPT !.pc = "discard", !.call = header.call])
    /\ UNCHANGED pool

(* ActionHeader::discard_body: nobody is charged.                          *)
DiscardAction(k, header) ==
    /\ Step(k, [IdleServer EXCEPT !.pc = "discard", !.call = header.call,
                                  !.left = header.size])
    /\ UNCHANGED pool

(* read_action_header: no memory is charged for it.  Then the body is read,*)
(* once it is admitted, or it is discarded and charged to nobody.          *)
ReadHeader(k) ==
    /\ server[k].pc = "header" /\ up[k] # <<>>
    /\ up' = [up EXCEPT ![k] = Tail(@)]
    /\ \/ Head(up[k]).kind # "header" /\ Shut(k) /\ Misread(k)
       \/ /\ Head(up[k]).kind = "header"
          /\ \/ AdmitAction(k, Head(up[k])) \/ DiscardAction(k, Head(up[k]))
          /\ UNCHANGED <<plan, actor, client, historyVars>>
    /\ UNCHANGED down

ReadInput(k) ==
    /\ server[k].pc \in {"body", "discard"}
    /\ server[k].pc = "body" => Held(pool["sreq"], Request(k))
    /\ server[k].left > 0 /\ up[k] # <<>>
    /\ Step(k, [server[k] EXCEPT !.left = @ - 1])
    /\ up' = [up EXCEPT ![k] = Tail(@)]
    /\ UNCHANGED <<plan, actor, pool, client, down, historyVars>>

(* The action has run, or was rejected; its result is written.  Memory for *)
(* the largest possible output is reserved first, while the SerializedAction*)
(* still holds the request's.                                              *)
StartResult(k) ==
    /\ server[k].pc \in {"body", "discard"} /\ server[k].left = 0
    /\ Step(k, [server[k] EXCEPT !.pc = "reserve"])
    /\ pool' = [pool EXCEPT ![ResponsePool] = Acquire(@, Response(k), actor[k], MaxBody)]
    /\ UNCHANGED <<plan, actor, client, up, down, historyVars>>

SerializeResult(k) ==
    /\ server[k].pc = "reserve" /\ Held(pool[ResponsePool], Response(k))
    /\ \E n \in {s \in Sizes : s <= MaxBody} :
        /\ Step(k, [server[k] EXCEPT !.pc = "length", !.rsize = n, !.left = n])
        /\ pool' = [pool EXCEPT ![ResponsePool] = ShrinkTo(@, Response(k), n)]
    /\ UNCHANGED <<plan, actor, client, up, down, historyVars>>

WriteLength(k) ==
    /\ server[k].pc = "length" /\ Room(down[k])
    /\ down' = [down EXCEPT ![k] = Append(@, Header(server[k].call, server[k].rsize))]
    /\ Step(k, [server[k] EXCEPT !.pc = "output"])
    /\ UNCHANGED <<plan, actor, pool, client, up, historyVars>>

WriteOutput(k) ==
    /\ server[k].pc = "output" /\ server[k].left > 0 /\ Room(down[k])
    /\ down' = [down EXCEPT ![k] = Append(@, Unit(server[k].call))]
    /\ Step(k, [server[k] EXCEPT !.left = @ - 1])
    /\ UNCHANGED <<plan, actor, pool, client, up, historyVars>>

FinishResult(k) ==
    /\ server[k].pc = "output" /\ server[k].left = 0
    /\ Step(k, IdleServer)
    /\ pool' = [pool EXCEPT !["sreq"] = Release(@, Request(k)),
                             ![ResponsePool] = Release(@, Response(k))]
    /\ UNCHANGED <<plan, actor, client, up, down, historyVars>>

(* A deadline, a result that cannot be serialized, or the connection's end. *)
HandlerFails(k) ==
    /\ server[k].pc # "closed"
    /\ Shut(k)
    /\ UNCHANGED <<up, down, confused>>

-----------------------------------------------------------------------------
(* What the two ends do when nothing fails.                                *)
Progress(k) ==
    \/ \E d \in Pools, t \in {Request(k), Response(k)} : Admit(d, t)
    \/ SerializeInput(k) \/ WriteHeader(k) \/ WriteBody(k) \/ FlushRequest(k)
    \/ ReadLength(k) \/ ReadBody(k) \/ DecodeResult(k)
    \/ TransportFails(k)
    \/ ReadHeader(k) \/ ReadInput(k)
    \/ StartResult(k) \/ SerializeResult(k) \/ WriteLength(k) \/ WriteOutput(k)
    \/ FinishResult(k)

ExchangeNext == \E k \in Conns :
    \/ Progress(k) \/ StartCall(k) \/ SerializeInputFails(k)
    \/ WriteTimeout(k) \/ ReadTimeout(k) \/ HandlerFails(k)

ExchangeSpec == ExchangeInit /\ [][ExchangeNext]_exchangeVars

(* Tasks are polled when their transport or their semaphore is ready; no   *)
(* deadline has to expire.                                                 *)
FairExchangeSpec == ExchangeSpec /\ WF_exchangeVars(\E k \in Conns : Progress(k))

-----------------------------------------------------------------------------
(* Body memory in use: what is buffered of a body or written from it.  An  *)
(* executor keeps its input for as long as the call lasts.                 *)
Buffered(d, t) ==
    LET c == client[t[1]] h == server[t[1]] IN
    CASE d = "creq" /\ t[2] = "request" -> IF c.pc = "exchange" THEN c.size ELSE 0
      [] d = "cresp" /\ t[2] = "response" -> c.rsize - c.rleft
      [] d = "sreq" /\ t[2] = "request" -> IF h.pc = "body" THEN h.size - h.left ELSE h.size
      [] d = "sresp" /\ t[2] = "response" -> h.rsize
      [] OTHER -> 0

(* The buffer has outlived its permit: an input that was flushed, while    *)
(* the executor waits for the response.                                    *)
Outlives(d, t) == d = "creq" /\ client[t[1]].tx = "done"

(* Values have their types; the registry of actors keeps its bound.        *)
ExchangeTypeOK ==
    /\ \A d \in Pools :
        /\ \A t \in Tickets : pool[d].entry[t] \in
             [at : {"none", "actor", "global", "held"},
              via : DOMAIN pool[d].line, bytes : 0..MaxBody]
        /\ \A s \in DOMAIN pool[d].line : pool[d].line[s] \in Seq(Tickets)
        /\ Cardinality(pool[d].tracked) <= MaxTracked
    /\ \A k \in Conns : Len(up[k]) <= StreamCap /\ Len(down[k]) <= StreamCap
    /\ tainted \subseteq Conns /\ confused \subseteq Conns

(* RpcAdmission bounds the memory of the bodies it has admitted: over all  *)
(* connections they stay within the global limit, each is covered by a     *)
(* permit of its own task, no semaphore gives out more than it has, and an *)
(* executor or a handler that is in no call holds nothing and waits for    *)
(* nothing.  The one buffer without a permit is the input of an executor   *)
(* that has flushed its request, at most one body in each call; "twice     *)
(* global_memory_bytes", as the comment of RpcLimits has it, does not bound*)
(* these.                                                                  *)
MemoryBounded ==
    ExchangeTypeOK /\ \A d \in Pools :
        /\ Cardinality({u \in Tickets \X (1..MaxBody) :
                          ~Outlives(d, u[1]) /\ u[2] <= Buffered(d, u[1])}) <= GlobalCapacity
        /\ \A s \in DOMAIN pool[d].line : Used(pool[d], s) <= Capacity(s)
        /\ \A t \in Tickets :
            /\ Buffered(d, t) <= MaxBody
            /\ Buffered(d, t) > 0 /\ ~Outlives(d, t) =>
                 Held(pool[d], t) /\ Buffered(d, t) <= pool[d].entry[t].bytes
            /\ pool[d].entry[t].at # "none" =>
                 IF d \in {"creq", "cresp"} THEN client[t[1]].pc # "idle"
                 ELSE server[t[1]].pc \notin {"header", "closed"}

(* As long as no call on a connection has failed in the middle, both ends  *)
(* agree where messages begin, rejected requests and calls that fail       *)
(* before they use the stream included, and a result is the answer to the  *)
(* call it is returned for.                                                *)
Aligned == confused = {}

(* No call depends on a deadline to end: the directions have pools of      *)
(* their own and permits are requested in a fixed order, so a handler that *)
(* holds its request's memory always gets the memory for its response.     *)
(* Only a call that broke off in the middle may leave the handler, and     *)
(* those who wait for its memory, to its deadline.                         *)
ServedWithoutDeadline ==
    \A k \in Conns : client[k].pc # "idle" ~> client[k].pc = "idle" \/ tainted # {}
=============================================================================
