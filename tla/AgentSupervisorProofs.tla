------------------------ MODULE AgentSupervisorProofs ------------------------
(***************************************************************************)
(* Proofs about AgentSupervisor, for any number of requests, permits and   *)
(* slots: nothing is lost on the way and nothing is left behind.           *)
(*                                                                         *)
(* Permits and slots are accounted for by counting the requests that hold  *)
(* them.  Nothing is left because of who may still put a task on the queue *)
(* after it was closed and emptied: an accept callback, or a task that     *)
(* connects; the former go with the connection, the latter are joined.     *)
(*                                                                         *)
(* And proofs about TerminalSession, one of the tasks it runs, for any     *)
(* amount of output, window and graces in the order of the code's: the     *)
(* shell runs as the user, the hub sees its output in order and a true     *)
(* status last, and no process outlives the session but where the code     *)
(* gives up.                                                               *)
(***************************************************************************)
EXTENDS AgentSupervisor, TerminalSession, FiniteSetTheorems, SequenceTheorems, TLAPS

Phases == Range(Startup) \union {"supervise", "stop", "grace", "abort", "returned"}
Places == {"queued", "connecting", "accepting", "ready", "serving", "answering"}
Reqs == {Idle} \union [kind : Endpoints, at : Places]

Control ==
    /\ phase \in Phases /\ cancelled \in BOOLEAN /\ midway \subseteq {"run", "connection"}
    /\ running \subseteq Background \union {"shutdown"}
    /\ connection \in {"polled", "ended"} /\ open \in BOOLEAN

Work ==
    /\ operations \in {"off", "waiting", "working", "sleeping"}
    /\ req \in [Requests -> Reqs] /\ queue \in Seq(Requests)
    /\ free \in [terminal : Nat, handler : Nat, slots : Nat]

(* The queue holds each task once, and only forwarding tasks are queued    *)
(* before there is a channel.                                              *)
Lined ==
    /\ Range(queue) = At("queued") \union At("ready") /\ IsInjective(queue)
    /\ \A r \in Requests : req[r].at \in {"queued", "connecting"} => req[r].kind = "forward"

Holders(kind) == {r \in Requests : HoldsPermit(r, kind)}
Taken == IF operations = "working" THEN 1 ELSE 0

Accounts ==
    /\ free.terminal + Cardinality(Holders("terminal")) = Terminals
    /\ free.handler + Cardinality(Holders("handler")) + Taken = Commands
    /\ free.slots + Cardinality(At("accepting")) + Len(queue) = QueueCapacity

(* Who may still fill the queue once nobody reads it.                      *)
Ending ==
    /\ open <=> phase \notin {"grace", "abort", "returned"}
    /\ connection = "ended" => At("accepting") = {}
    /\ ~open /\ connection = "ended" /\ At("connecting") = {} => queue = <<>>
    /\ phase = "returned" => Joined

(* The operation loop is spawned once.                                     *)
NotBefore == phase \in {"actor", "system_info", "manifest", "operations"} => operations = "off"

IInv == Control /\ Work /\ Lined /\ Accounts /\ Ending /\ NotBefore

-----------------------------------------------------------------------------
(* Sets of requests, and the queue.                                        *)

LEMMA FiniteRequests ==
    \A S \in SUBSET Requests : IsFiniteSet(S) /\ Cardinality(S) \in Nat
  BY SupervisorAssumption, FS_Subset, FS_CardinalityType

LEMMA Added ==
    ASSUME NEW S \in SUBSET Requests, NEW r \in Requests, r \notin S
    PROVE  Cardinality(S \union {r}) = Cardinality(S) + 1
  BY FiniteRequests, FS_AddElement

LEMMA Removed ==
    ASSUME NEW S \in SUBSET Requests, NEW r \in S
    PROVE  Cardinality(S \ {r}) = Cardinality(S) - 1
  BY FiniteRequests, FS_RemoveElement

LEMMA Split ==
    ASSUME NEW S \in SUBSET Requests, NEW T \in SUBSET Requests
    PROVE  /\ Cardinality(S \ T) \in Nat /\ Cardinality(S \intersect T) \in Nat
           /\ Cardinality(S) = Cardinality(S \ T) + Cardinality(S \intersect T)
<1>1. /\ IsFiniteSet(S) /\ Cardinality(S) \in Nat
      /\ Cardinality(S \ T) \in Nat /\ Cardinality(S \intersect T) \in Nat
  BY FiniteRequests
<1>2. Cardinality(S \ T) = Cardinality(S) - Cardinality(S \intersect T)
  BY <1>1, FS_Difference
<1> QED  BY <1>1, <1>2

LEMMA NoCards == Cardinality({}) = 0
  BY FS_EmptySet

LEMMA QueueAppend ==
    ASSUME NEW s \in Seq(Requests), IsInjective(s), NEW r \in Requests, r \notin Range(s)
    PROVE  /\ Append(s, r) \in Seq(Requests) /\ IsInjective(Append(s, r))
           /\ Range(Append(s, r)) = Range(s) \union {r} /\ Len(Append(s, r)) = Len(s) + 1
<1>1. /\ Len(s) \in Nat /\ DOMAIN s = 1..Len(s) /\ \A i \in DOMAIN s : s[i] \in Range(s)
      /\ Range(s) = {s[i] : i \in 1..Len(s)}
  BY DEF Range
<1>2. /\ Append(s, r) \in Seq(Requests) /\ Len(Append(s, r)) = Len(s) + 1
      /\ DOMAIN Append(s, r) = 1..(Len(s) + 1) /\ Append(s, r)[Len(s) + 1] = r
      /\ \A i \in 1..Len(s) : Append(s, r)[i] = s[i]
  BY <1>1
<1>3. \A i \in 1..(Len(s) + 1) : i \in 1..Len(s) \/ i = Len(s) + 1
  BY <1>1
<1>4. IsInjective(Append(s, r))
  BY <1>1, <1>2, <1>3 DEF IsInjective
<1>5. Range(Append(s, r)) = Range(s) \union {r}
  <2>1. Range(Append(s, r)) \subseteq Range(s) \union {r}
    BY <1>1, <1>2, <1>3 DEF Range
  <2>2. Range(s) \union {r} \subseteq Range(Append(s, r))
    <3>1. Len(s) + 1 \in 1..(Len(s) + 1) /\ 1..Len(s) \subseteq 1..(Len(s) + 1)
      BY <1>1
    <3> QED  BY <1>1, <1>2, <3>1 DEF Range
  <2> QED  BY <2>1, <2>2
<1> QED  BY <1>2, <1>4, <1>5

LEMMA QueueTail ==
    ASSUME NEW s \in Seq(Requests), IsInjective(s), s # <<>>
    PROVE  /\ Head(s) \in Range(s) /\ Tail(s) \in Seq(Requests) /\ IsInjective(Tail(s))
           /\ Range(Tail(s)) = Range(s) \ {Head(s)} /\ Len(s) = Len(Tail(s)) + 1
<1>1. /\ Len(s) \in Nat /\ Len(s) >= 1 /\ DOMAIN s = 1..Len(s) /\ Head(s) = s[1]
      /\ Tail(s) \in Seq(Requests) /\ Len(Tail(s)) = Len(s) - 1
      /\ DOMAIN Tail(s) = 1..(Len(s) - 1)
      /\ \A i \in 1..(Len(s) - 1) : Tail(s)[i] = s[i + 1]
  BY HeadTailProperties
<1>2. Head(s) \in Range(s)
  BY <1>1 DEF Range
<1>3. \A i \in 1..(Len(s) - 1) : i + 1 \in 1..Len(s) /\ i + 1 # 1
  BY <1>1
<1>4. IsInjective(Tail(s))
  <2> SUFFICES ASSUME NEW i \in 1..(Len(s) - 1), NEW j \in 1..(Len(s) - 1), Tail(s)[i] = Tail(s)[j]
               PROVE  i = j
    BY <1>1 DEF IsInjective
  <2>1. i + 1 = j + 1
    BY <1>1, <1>3 DEF IsInjective
  <2> QED  BY <1>1, <2>1
<1>5. Range(Tail(s)) \subseteq Range(s) \ {Head(s)}
  <2> SUFFICES ASSUME NEW i \in 1..(Len(s) - 1)
               PROVE  Tail(s)[i] \in Range(s) /\ Tail(s)[i] # Head(s)
    BY <1>1 DEF Range
  <2>1. i + 1 \in DOMAIN s /\ 1 \in DOMAIN s /\ i + 1 # 1 /\ Tail(s)[i] = s[i + 1]
    BY <1>1, <1>3
  <2> QED  BY <1>1, <2>1 DEF Range, IsInjective
<1>6. Range(s) \ {Head(s)} \subseteq Range(Tail(s))
  <2> SUFFICES ASSUME NEW j \in 1..Len(s), s[j] # Head(s)
               PROVE  s[j] \in Range(Tail(s))
    BY <1>1 DEF Range
  <2>1. j # 1
    BY <1>1
  <2>2. j - 1 \in 1..(Len(s) - 1) /\ (j - 1) + 1 = j
    BY <1>1, <2>1
  <2>3. Tail(s)[j - 1] = s[j]
    BY <1>1, <2>2
  <2> QED  BY <1>1, <2>2, <2>3 DEF Range
<1>7. Len(s) = Len(Tail(s)) + 1
  BY <1>1
<1> QED  BY <1>1, <1>2, <1>4, <1>5, <1>6, <1>7

(* A queue without repetitions is as long as what is in it is many.        *)
LEMMA QueueCounts ==
    ASSUME NEW s \in Seq(Requests), IsInjective(s)
    PROVE  Len(s) = Cardinality(Range(s))
<1>1. Len(s) \in Nat /\ DOMAIN s = 1..Len(s)
  OBVIOUS
<1>2. s \in Bijection(1..Len(s), Range(s))
  BY <1>1 DEF Range, Bijection, Injection, Surjection, IsInjective
<1>3. ExistsBijection(1..Len(s), Range(s))
  BY <1>2 DEF ExistsBijection
<1> QED  BY <1>1, <1>3, FS_CountingElements

LEMMA EmptyQueue ==
    /\ <<>> \in Seq(Requests) /\ IsInjective(<<>>) /\ Range(<<>>) = {} /\ Len(<<>>) = 0
    /\ \A s \in Seq(Requests) : Range(s) = {} => s = <<>>
<1>1. <<>> \in Seq(Requests) /\ IsInjective(<<>>) /\ Range(<<>>) = {} /\ Len(<<>>) = 0
  BY DEF IsInjective, Range
<1>2. ASSUME NEW s \in Seq(Requests), s # <<>>  PROVE Range(s) # {}
  <2>1. 1 \in DOMAIN s
    BY <1>2
  <2> QED  BY <2>1 DEF Range
<1> QED  BY <1>1, <1>2

-----------------------------------------------------------------------------
(* Requests that go, and requests that move.                               *)

LEMMA Kinds ==
    ASSUME Work, NEW r \in Requests
    PROVE  /\ req[r] = Idle \/ req[r] \in [kind : Endpoints, at : Places]
           /\ req[r] = Idle <=> req[r].at = "idle"
           /\ req[r].at \in Places \union {"idle"}
           /\ req[r] \in Reqs
  BY DEF Work, Reqs, Idle, Places

LEMMA Subsets ==
    /\ \A place : At(place) \in SUBSET Requests
    /\ \A kind : Holders(kind) \in SUBSET Requests
  BY DEF At, Holders

(* What is dropped gives back what it has; the loop may be next in line.   *)
LEMMA Dropped ==
    ASSUME Work, Lined, Accounts, NEW rs \in SUBSET Requests, NEW q \in {queue, <<>>},
           q = <<>> => Range(queue) \subseteq rs, q = queue => rs \intersect Range(queue) = {},
           Drop(rs, q)
    PROVE  /\ Work' /\ Lined' /\ Accounts' /\ queue' = q
           /\ \A place \in Places : At(place)' = At(place) \ rs
           /\ operations' = "off" <=> operations = "off"
<1> DEFINE of(kind) == Cardinality(rs \intersect Holders(kind))
           slots == Cardinality(rs \intersect At("accepting"))
           handed == IF operations = "waiting" /\ of("handler") > 0 THEN 1 ELSE 0
<1>1. \A kind : {r \in rs : HoldsPermit(r, kind)} = rs \intersect Holders(kind)
  BY DEF Holders
<1>2. /\ req' = [r \in Requests |-> IF r \in rs THEN Idle ELSE req[r]]
      /\ queue' = q
      /\ free' = [free EXCEPT !.terminal = @ + of("terminal"), !.handler = @ + of("handler") - handed,
                              !.slots = @ + slots + Len(queue) - Len(q)]
      /\ operations' = IF handed = 1 THEN "working" ELSE operations
  BY <1>1 DEF Drop
<1>3. \A place \in Places : At(place)' = At(place) \ rs
  <2>1. \A r \in Requests : req'[r] = IF r \in rs THEN Idle ELSE req[r]
    BY <1>2
  <2> QED  BY <2>1 DEF At, Idle, Places
<1>4. \A kind \in {"terminal", "handler"} : Holders(kind)' = Holders(kind) \ rs
  <2>1. \A r \in Requests : req'[r] = IF r \in rs THEN Idle ELSE req[r]
    BY <1>2
  <2> QED  BY <2>1 DEF Holders, HoldsPermit, Idle
<1>5. /\ slots \in Nat /\ Cardinality(At("accepting") \ rs) \in Nat
      /\ Cardinality(At("accepting")) = Cardinality(At("accepting") \ rs) + slots
  <2>1. At("accepting") \in SUBSET Requests /\ At("accepting") \intersect rs = rs \intersect At("accepting")
    BY Subsets
  <2> QED  BY <2>1, Split
<1>6. \A kind \in {"terminal", "handler"} :
         /\ of(kind) \in Nat /\ Cardinality(Holders(kind) \ rs) \in Nat
         /\ Cardinality(Holders(kind)) = Cardinality(Holders(kind) \ rs) + of(kind)
  <2> SUFFICES ASSUME NEW kind \in {"terminal", "handler"}
               PROVE  /\ of(kind) \in Nat /\ Cardinality(Holders(kind) \ rs) \in Nat
                      /\ Cardinality(Holders(kind)) = Cardinality(Holders(kind) \ rs) + of(kind)
    OBVIOUS
  <2>1. Holders(kind) \in SUBSET Requests /\ Holders(kind) \intersect rs = rs \intersect Holders(kind)
    BY Subsets
  <2> QED  BY <2>1, Split
<1>7. /\ q \in Seq(Requests) /\ IsInjective(q) /\ Len(q) \in Nat /\ Len(queue) \in Nat
      /\ Len(queue) - Len(q) \in Nat
  <2>1. queue \in Seq(Requests) /\ IsInjective(queue) /\ Len(queue) \in Nat
    BY DEF Work, Lined
  <2>2. CASE q = queue
    BY <2>1, <2>2
  <2>3. CASE q = <<>>
    BY <2>1, <2>3, EmptyQueue
  <2> QED  BY <2>2, <2>3
<1>8. Range(q) = At("queued")' \union At("ready")'
  <2>1. Range(queue) = At("queued") \union At("ready")
    BY DEF Lined
  <2>2. At("queued")' = At("queued") \ rs /\ At("ready")' = At("ready") \ rs
    BY <1>3 DEF Places
  <2>3. CASE q = queue
    BY <2>1, <2>2, <2>3
  <2>4. CASE q = <<>>
    BY <2>1, <2>2, <2>4, EmptyQueue
  <2> QED  BY <2>3, <2>4
<1>9. /\ free \in [terminal : Nat, handler : Nat, slots : Nat]
      /\ operations \in {"off", "waiting", "working", "sleeping"}
      /\ req \in [Requests -> Reqs] /\ Idle \in Reqs
  BY DEF Work, Reqs
<1>10. handed \in {0, 1} /\ of("handler") - handed \in Nat /\ (handed = 1 => operations = "waiting")
  BY <1>6
<1>11. /\ free' = [terminal |-> free.terminal + of("terminal"),
                    handler |-> free.handler + of("handler") - handed,
                    slots |-> free.slots + slots + Len(queue) - Len(q)]
  BY <1>2, <1>9
<1>12. /\ free.terminal \in Nat /\ free.handler \in Nat /\ free.slots \in Nat
       /\ of("terminal") \in Nat /\ of("handler") \in Nat
  BY <1>6, <1>9
<1> HIDE DEF of, slots, handed
<1>13. /\ free'.terminal = free.terminal + of("terminal")
       /\ free'.handler = free.handler + of("handler") - handed
       /\ free'.slots = free.slots + slots + Len(queue) - Len(q)
  BY <1>11
<1>14. free' \in [terminal : Nat, handler : Nat, slots : Nat]
  <2>1. free.terminal + of("terminal") \in Nat
    BY <1>12
  <2>2. free.handler + of("handler") - handed \in Nat
    BY <1>10, <1>12
  <2>3. free.slots + slots + Len(queue) - Len(q) \in Nat
    <3>1. slots \in Nat /\ free.slots \in Nat /\ Len(q) \in Nat /\ Len(queue) \in Nat
      BY <1>5, <1>7, <1>12
    <3>2. Len(queue) >= Len(q)
      BY <1>7, <3>1
    <3> QED  BY <3>1, <3>2
  <2> QED  BY <1>11, <2>1, <2>2, <2>3
<1>15. Work'
  <2>1. req' \in [Requests -> Reqs]
    BY <1>2, <1>9
  <2>2. operations' \in {"off", "waiting", "working", "sleeping"}
    BY <1>2, <1>9
  <2> QED  BY <1>2, <1>7, <1>14, <2>1, <2>2 DEF Work
<1>16. Lined'
  <2>1. \A r \in Requests : req'[r].at \in {"queued", "connecting"} => req'[r].kind = "forward"
    BY <1>2 DEF Lined, Idle
  <2>2. Range(queue)' = At("queued")' \union At("ready")' /\ IsInjective(queue)'
    BY <1>2, <1>7, <1>8
  <2> QED  BY <2>1, <2>2 DEF Lined
<1>17. Taken' = Taken + handed /\ Taken \in {0, 1}
  BY <1>2, <1>10 DEF Taken
<1>18. Accounts'
  <2>1. /\ Cardinality(Holders("terminal"))' = Cardinality(Holders("terminal") \ rs)
        /\ Cardinality(Holders("handler"))' = Cardinality(Holders("handler") \ rs)
        /\ Cardinality(At("accepting"))' = Cardinality(At("accepting") \ rs)
        /\ Len(queue)' = Len(q)
    BY <1>2, <1>3, <1>4 DEF Places
  <2>2. free'.terminal + Cardinality(Holders("terminal"))' = Terminals
    BY <1>6, <1>12, <1>13, <2>1 DEF Accounts
  <2>3. free'.handler + Cardinality(Holders("handler"))' + Taken' = Commands
    <3>1. /\ Cardinality(Holders("handler")) = Cardinality(Holders("handler") \ rs) + of("handler")
          /\ Cardinality(Holders("handler") \ rs) \in Nat
      BY <1>6
    <3>2. free.handler + Cardinality(Holders("handler")) + Taken = Commands
      BY DEF Accounts
    <3> HIDE DEF Taken
    <3> QED  BY <1>10, <1>12, <1>13, <1>17, <2>1, <3>1, <3>2
  <2>4. free'.slots + Cardinality(At("accepting"))' + Len(queue)' = QueueCapacity
    <3>1. free.slots + Cardinality(At("accepting")) + Len(queue) = QueueCapacity
      BY DEF Accounts
    <3>2. slots \in Nat /\ free.slots \in Nat /\ Len(q) \in Nat /\ Len(queue) \in Nat
      BY <1>5, <1>7, <1>12
    <3> QED  BY <1>5, <1>13, <2>1, <3>1, <3>2
  <2> QED  BY <2>2, <2>3, <2>4 DEF Accounts
<1>19. operations' = "off" <=> operations = "off"
  BY <1>2, <1>10
<1> QED  BY <1>2, <1>3, <1>15, <1>16, <1>18, <1>19

-----------------------------------------------------------------------------
(* Requests.                                                               *)

LEMMA RequestChannelKept ==
    ASSUME IInv, NEW r \in Requests, NEW kind \in Endpoints, RequestChannel(r, kind)
    PROVE  IInv'
<1>1. /\ Control /\ Work /\ Lined /\ Accounts /\ Ending /\ NotBefore
      /\ connection = "polled" /\ req[r] = Idle /\ open /\ free.slots > 0
      /\ midway' = midway \ {"connection"}
      /\ UNCHANGED <<phase, cancelled, running, connection, operations, open>>
  BY DEF IInv, RequestChannel, Polling, Stepped, runVars
<1>2. /\ free \in [terminal : Nat, handler : Nat, slots : Nat]
      /\ free.terminal \in Nat /\ free.handler \in Nat /\ free.slots \in Nat
      /\ req \in [Requests -> Reqs] /\ queue \in Seq(Requests)
      /\ operations \in {"off", "waiting", "working", "sleeping"}
  BY <1>1 DEF Work
<1>3. Control' /\ Ending' /\ NotBefore'
  <2>1. Control'
    BY <1>1 DEF Control
  <2>2. NotBefore'
    BY <1>1 DEF NotBefore
  <2>3. phase \notin {"grace", "abort", "returned"}
    BY <1>1 DEF Ending
  <2> QED  BY <1>1, <2>1, <2>2, <2>3 DEF Ending
<1>4. CASE kind = "forward"
  <2>1. /\ req' = [req EXCEPT ![r] = [kind |-> kind, at |-> "queued"]]
        /\ queue' = Append(queue, r) /\ free' = [free EXCEPT !.slots = @ - 1]
    BY <1>4 DEF RequestChannel
  <2>2. /\ At("queued")' = At("queued") \union {r} /\ At("ready")' = At("ready")
        /\ At("accepting")' = At("accepting")
        /\ Holders("terminal")' = Holders("terminal") /\ Holders("handler")' = Holders("handler")
    BY <1>1, <1>2, <1>4, <2>1 DEF At, Holders, HoldsPermit, Idle
  <2>3. r \notin Range(queue)
    BY <1>1 DEF Lined, At, Idle
  <2>4. /\ queue' \in Seq(Requests) /\ IsInjective(queue') /\ Len(queue') = Len(queue) + 1
        /\ Range(queue') = Range(queue) \union {r}
    BY <1>1, <1>2, <2>1, <2>3, QueueAppend DEF Lined
  <2>5. Work'
    <3>1. req' \in [Requests -> Reqs]
      BY <1>2, <1>4, <2>1 DEF Reqs, Places
    <3>2. free' \in [terminal : Nat, handler : Nat, slots : Nat]
      BY <1>1, <1>2, <2>1
    <3> QED  BY <1>1, <1>2, <2>4, <3>1, <3>2 DEF Work
  <2>6. Lined'
    <3>1. \A x \in Requests : req'[x].at \in {"queued", "connecting"} => req'[x].kind = "forward"
      BY <1>1, <1>2, <1>4, <2>1 DEF Lined
    <3> QED  BY <1>1, <2>2, <2>4, <3>1 DEF Lined
  <2>7. Accounts'
    <3>1. free'.terminal = free.terminal /\ free'.handler = free.handler
          /\ free'.slots = free.slots - 1
      BY <1>2, <2>1
    <3>2. Len(queue) \in Nat /\ Cardinality(At("accepting")) \in Nat
      BY <1>2, FiniteRequests, Subsets
    <3>3. free'.slots + Cardinality(At("accepting")') + Len(queue') = QueueCapacity
      <4>1. free.slots + Cardinality(At("accepting")) + Len(queue) = QueueCapacity
        BY <1>1 DEF Accounts
      <4>2. /\ free.slots \in Nat /\ free'.slots = free.slots - 1
            /\ Cardinality(At("accepting")') = Cardinality(At("accepting"))
            /\ Len(queue') = Len(queue) + 1
        BY <1>2, <2>2, <2>4, <3>1
      <4>3. free'.slots + Cardinality(At("accepting")') + Len(queue')
              = (free.slots - 1) + Cardinality(At("accepting")) + (Len(queue) + 1)
        BY <4>2
      <4> QED  BY <3>2, <4>1, <4>2, <4>3
    <3> QED  BY <1>1, <2>2, <3>1, <3>3 DEF Accounts, Taken
  <2> QED  BY <1>3, <2>5, <2>6, <2>7 DEF IInv
<1>5. CASE kind # "forward"
  <2>1. /\ kind \in {"terminal", "handler"} /\ free[kind] > 0
        /\ req' = [req EXCEPT ![r] = [kind |-> kind, at |-> "accepting"]]
        /\ queue' = queue /\ free' = [free EXCEPT ![kind] = @ - 1, !.slots = @ - 1]
    BY <1>5 DEF RequestChannel, Endpoints
  <2>0. \A x \in Requests : req'[x] = IF x = r THEN [kind |-> kind, at |-> "accepting"] ELSE req[x]
    BY <1>2, <2>1
  <2>2. /\ At("queued")' = At("queued") /\ At("ready")' = At("ready")
        /\ At("accepting")' = At("accepting") \union {r} /\ r \notin At("accepting")
        /\ Holders(kind)' = Holders(kind) \union {r} /\ r \notin Holders(kind)
        /\ kind = "terminal" => Holders("handler")' = Holders("handler")
        /\ kind = "handler" => Holders("terminal")' = Holders("terminal")
    <3>1. /\ At("queued")' = At("queued") /\ At("ready")' = At("ready")
          /\ At("accepting")' = At("accepting") \union {r} /\ r \notin At("accepting")
      BY <1>1, <2>0 DEF At, Idle
    <3>2. r \notin Holders("terminal") /\ r \notin Holders("handler")
      BY <1>1 DEF Holders, HoldsPermit, Idle
    <3>3. CASE kind = "terminal"
      <4>1. /\ Holders("terminal")' = Holders("terminal") \union {r}
            /\ Holders("handler")' = Holders("handler")
        BY <1>1, <2>0, <3>3 DEF Holders, HoldsPermit, Idle
      <4> QED  BY <3>1, <3>2, <3>3, <4>1
    <3>4. CASE kind = "handler"
      <4>1. /\ Holders("handler")' = Holders("handler") \union {r}
            /\ Holders("terminal")' = Holders("terminal")
        BY <1>1, <2>0, <3>4 DEF Holders, HoldsPermit, Idle
      <4> QED  BY <3>1, <3>2, <3>4, <4>1
    <3> QED  BY <2>1, <3>3, <3>4
  <2>3. /\ Cardinality(At("accepting")') = Cardinality(At("accepting")) + 1
        /\ Cardinality(Holders(kind)') = Cardinality(Holders(kind)) + 1
        /\ Cardinality(At("accepting")) \in Nat /\ Cardinality(Holders(kind)) \in Nat
        /\ Len(queue) \in Nat
    BY <1>2, <2>2, Added, FiniteRequests, Subsets
  <2>4. /\ free'.slots = free.slots - 1 /\ free' \in [terminal : Nat, handler : Nat, slots : Nat]
        /\ kind = "terminal" => free'.terminal = free.terminal - 1 /\ free'.handler = free.handler
        /\ kind = "handler" => free'.handler = free.handler - 1 /\ free'.terminal = free.terminal
    <3>1. CASE kind = "terminal"
      <4>1. free' = [terminal |-> free.terminal - 1, handler |-> free.handler, slots |-> free.slots - 1]
        BY <1>2, <2>1, <3>1
      <4>0. free.terminal > 0 /\ free.slots > 0
        BY <1>1, <2>1, <3>1
      <4>2. free.terminal - 1 \in Nat /\ free.slots - 1 \in Nat
        BY <1>2, <4>0
      <4> QED  BY <1>2, <3>1, <4>1, <4>2
    <3>2. CASE kind = "handler"
      <4>1. free' = [terminal |-> free.terminal, handler |-> free.handler - 1, slots |-> free.slots - 1]
        BY <1>2, <2>1, <3>2
      <4>0. free.handler > 0 /\ free.slots > 0
        BY <1>1, <2>1, <3>2
      <4>2. free.handler - 1 \in Nat /\ free.slots - 1 \in Nat
        BY <1>2, <4>0
      <4> QED  BY <1>2, <3>2, <4>1, <4>2
    <3> QED  BY <2>1, <3>1, <3>2
  <2>5. Work'
    <3>1. req' \in [Requests -> Reqs]
      BY <1>2, <2>1 DEF Reqs, Places
    <3> QED  BY <1>1, <1>2, <2>1, <2>4, <3>1 DEF Work
  <2>6. Lined'
    <3>1. \A x \in Requests : req'[x].at \in {"queued", "connecting"} => req'[x].kind = "forward"
      BY <1>1, <1>2, <2>1 DEF Lined
    <3> QED  BY <1>1, <2>1, <2>2, <3>1 DEF Lined
  <2>7. Accounts'
    <3>1. free'.slots + Cardinality(At("accepting")') + Len(queue') = QueueCapacity
      <4>1. free.slots + Cardinality(At("accepting")) + Len(queue) = QueueCapacity
        BY <1>1 DEF Accounts
      <4>2. free.slots \in Nat /\ free'.slots = free.slots - 1 /\ Len(queue') = Len(queue)
        BY <1>2, <2>1, <2>4
      <4> QED  BY <2>3, <4>1, <4>2
    <3>2. Taken' = Taken /\ Taken \in Nat
      BY <1>1 DEF Taken
    <3>3. CASE kind = "terminal"
      <4>1. Holders("handler")' = Holders("handler")
        BY <2>2, <3>3
      <4>2. free'.terminal + Cardinality(Holders("terminal")') = Terminals
        BY <1>1, <1>2, <2>3, <2>4, <3>3 DEF Accounts
      <4> QED  BY <1>1, <2>4, <3>1, <3>2, <3>3, <4>1, <4>2 DEF Accounts
    <3>4. CASE kind = "handler"
      <4>1. Holders("terminal")' = Holders("terminal")
        BY <2>2, <3>4
      <4>2. free.handler + Cardinality(Holders("handler")) + Taken = Commands
        BY <1>1 DEF Accounts
      <4> HIDE DEF Taken
      <4>3. free'.handler + Cardinality(Holders("handler")') + Taken' = Commands
        BY <1>2, <2>3, <2>4, <3>2, <3>4, <4>2
      <4> QED  BY <1>1, <2>4, <3>1, <3>4, <4>1, <4>3 DEF Accounts
    <3> QED  BY <2>1, <3>3, <3>4
  <2> QED  BY <1>3, <2>5, <2>6, <2>7 DEF IInv
<1> QED  BY <1>4, <1>5

(* A request that keeps its permit: it gets or passes on its slot.         *)
LEMMA AcceptKept ==
    ASSUME IInv, NEW r \in Requests, Accept(r)
    PROVE  IInv'
<1>1. /\ Control /\ Work /\ Lined /\ Accounts /\ Ending /\ NotBefore
      /\ connection = "polled" /\ req[r].at = "accepting"
      /\ req' = [req EXCEPT ![r].at = "ready"] /\ queue' = Append(queue, r)
      /\ UNCHANGED <<phase, cancelled, running, connection, midway, operations, open, free>>
  BY DEF IInv, Accept, Polling, runVars
<1>2. /\ req \in [Requests -> Reqs] /\ queue \in Seq(Requests) /\ IsInjective(queue)
      /\ free.slots \in Nat /\ req[r] \in [kind : Endpoints, at : Places]
  BY <1>1, Kinds DEF Work, Lined, Idle
<1>3. \A x \in Requests : req'[x] = IF x = r THEN [kind |-> req[r].kind, at |-> "ready"] ELSE req[x]
  BY <1>1, <1>2
<1>4. /\ At("queued")' = At("queued") /\ At("ready")' = At("ready") \union {r}
      /\ At("connecting")' = At("connecting")
      /\ At("accepting")' = At("accepting") \ {r} /\ r \in At("accepting")
  BY <1>1, <1>3 DEF At
<1>5. Holders("terminal")' = Holders("terminal") /\ Holders("handler")' = Holders("handler")
  BY <1>1, <1>3 DEF Holders, HoldsPermit
<1>6. r \notin Range(queue)
  BY <1>1 DEF Lined, At
<1>7. /\ queue' \in Seq(Requests) /\ IsInjective(queue') /\ Len(queue') = Len(queue) + 1
      /\ Range(queue') = Range(queue) \union {r}
  BY <1>1, <1>2, <1>6, QueueAppend
<1>8. Work'
  <2>1. req' \in [Requests -> Reqs]
    BY <1>1, <1>2 DEF Reqs, Places
  <2> QED  BY <1>1, <1>7, <2>1 DEF Work
<1>9. Lined'
  <2>1. \A x \in Requests : req'[x].at \in {"queued", "connecting"} => req'[x].kind = "forward"
    BY <1>1, <1>3 DEF Lined
  <2> QED  BY <1>1, <1>4, <1>7, <2>1 DEF Lined
<1>10. Accounts'
  <2>1. /\ Cardinality(At("accepting")') = Cardinality(At("accepting")) - 1
        /\ Cardinality(At("accepting")) \in Nat /\ Len(queue) \in Nat
    BY <1>2, <1>4, Removed, FiniteRequests, Subsets
  <2>2. free'.slots + Cardinality(At("accepting")') + Len(queue') = QueueCapacity
    <3>1. free.slots + Cardinality(At("accepting")) + Len(queue) = QueueCapacity
      BY <1>1 DEF Accounts
    <3>2. free'.slots = free.slots /\ Len(queue') = Len(queue) + 1
      BY <1>1, <1>7
    <3> QED  BY <1>2, <2>1, <3>1, <3>2
  <2> QED  BY <1>1, <1>5, <2>2 DEF Accounts, Taken
<1>11. Ending'
  BY <1>1 DEF Ending, Joined
<1>12. Control' /\ NotBefore'
  BY <1>1 DEF Control, NotBefore
<1> QED  BY <1>8, <1>9, <1>10, <1>11, <1>12 DEF IInv

(* A handler whose command is over keeps its permit.                       *)
LEMMA CommandOverKept ==
    ASSUME IInv, NEW r \in Requests, CommandOver(r)
    PROVE  IInv'
<1>1. /\ Control /\ Work /\ Lined /\ Accounts /\ Ending /\ NotBefore
      /\ req[r].kind = "handler" /\ req[r].at = "serving"
      /\ req' = [req EXCEPT ![r].at = "answering"]
      /\ UNCHANGED <<phase, cancelled, running, connection, midway, operations, queue, open, free>>
  BY DEF IInv, CommandOver, runVars
<1>2. /\ req \in [Requests -> Reqs] /\ req[r] \in [kind : Endpoints, at : Places]
  BY <1>1, Kinds DEF Work, Lined, Idle
<1>3. \A x \in Requests :
         req'[x] = IF x = r THEN [kind |-> req[r].kind, at |-> "answering"] ELSE req[x]
  BY <1>1, <1>2
<1>4. \A place \in {"queued", "ready", "connecting", "accepting"} : At(place)' = At(place)
  BY <1>1, <1>3 DEF At
<1>5. Holders("terminal")' = Holders("terminal") /\ Holders("handler")' = Holders("handler")
  BY <1>1, <1>3 DEF Holders, HoldsPermit
<1>6. Work'
  <2>1. req' \in [Requests -> Reqs]
    BY <1>1, <1>2 DEF Reqs, Places
  <2> QED  BY <1>1, <2>1 DEF Work
<1>7. Lined'
  <2>1. \A x \in Requests : req'[x].at \in {"queued", "connecting"} => req'[x].kind = "forward"
    BY <1>1, <1>3 DEF Lined
  <2> QED  BY <1>1, <1>4, <2>1 DEF Lined
<1>8. Accounts'
  BY <1>1, <1>4, <1>5 DEF Accounts, Taken
<1>9. Ending'
  <2>1. phase # "returned"
    BY <1>1 DEF Ending, Joined, At
  <2> QED  BY <1>1, <1>4, <2>1 DEF Ending
<1>10. Control' /\ NotBefore'
  BY <1>1 DEF Control, NotBefore
<1> QED  BY <1>6, <1>7, <1>8, <1>9, <1>10 DEF IInv

LEMMA TcpConnectedKept ==
    ASSUME IInv, NEW r \in Requests, TcpConnected(r)
    PROVE  IInv'
<1>1. /\ Control /\ Work /\ Lined /\ Accounts /\ Ending /\ NotBefore
      /\ connection = "polled" /\ req[r].at = "connecting" /\ open /\ free.slots > 0
      /\ req' = [req EXCEPT ![r].at = "accepting"] /\ free' = [free EXCEPT !.slots = @ - 1]
      /\ UNCHANGED <<phase, cancelled, running, connection, midway, operations, open, queue>>
  BY DEF IInv, TcpConnected, runVars
<1>2. /\ req \in [Requests -> Reqs] /\ queue \in Seq(Requests)
      /\ free \in [terminal : Nat, handler : Nat, slots : Nat] /\ free.slots \in Nat
      /\ req[r] \in [kind : Endpoints, at : Places] /\ req[r].kind = "forward"
  BY <1>1, Kinds DEF Work, Lined, Idle
<1>3. \A x \in Requests : req'[x] = IF x = r THEN [kind |-> "forward", at |-> "accepting"] ELSE req[x]
  BY <1>1, <1>2
<1>4. /\ At("queued")' = At("queued") /\ At("ready")' = At("ready")
      /\ At("accepting")' = At("accepting") \union {r} /\ r \notin At("accepting")
  BY <1>1, <1>3 DEF At
<1>5. Holders("terminal")' = Holders("terminal") /\ Holders("handler")' = Holders("handler")
  BY <1>2, <1>3 DEF Holders, HoldsPermit
<1>6. Work'
  <2>1. req' \in [Requests -> Reqs]
    BY <1>1, <1>2 DEF Reqs, Places
  <2>2. free' \in [terminal : Nat, handler : Nat, slots : Nat]
    BY <1>1, <1>2
  <2> QED  BY <1>1, <2>1, <2>2 DEF Work
<1>7. Lined'
  <2>1. \A x \in Requests : req'[x].at \in {"queued", "connecting"} => req'[x].kind = "forward"
    BY <1>1, <1>3 DEF Lined
  <2> QED  BY <1>1, <1>4, <2>1 DEF Lined
<1>8. Accounts'
  <2>1. /\ Cardinality(At("accepting")') = Cardinality(At("accepting")) + 1
        /\ Cardinality(At("accepting")) \in Nat /\ Len(queue) \in Nat
    BY <1>2, <1>4, Added, FiniteRequests, Subsets
  <2>2. free'.terminal = free.terminal /\ free'.handler = free.handler /\ free'.slots = free.slots - 1
    BY <1>1, <1>2
  <2>3. free'.slots + Cardinality(At("accepting")') + Len(queue') = QueueCapacity
    <3>1. free.slots + Cardinality(At("accepting")) + Len(queue) = QueueCapacity
      BY <1>1 DEF Accounts
    <3> QED  BY <1>1, <1>2, <2>1, <2>2, <3>1
  <2> QED  BY <1>1, <1>5, <2>2, <2>3 DEF Accounts, Taken
<1>9. Ending'
  BY <1>1 DEF Ending
<1>10. Control' /\ NotBefore'
  BY <1>1 DEF Control, NotBefore
<1> QED  BY <1>6, <1>7, <1>8, <1>9, <1>10 DEF IInv

-----------------------------------------------------------------------------
(* What ends, and takes what it owns with it.                              *)

(* Who could still put a task on the queue is gone: so is the queue.       *)
LEMMA ConnectionEndsKept ==
    ASSUME IInv, ConnectionEnds
    PROVE  IInv'
<1> DEFINE gone == At("accepting")
           rs == IF Abandoned(gone) THEN gone \union Range(queue) ELSE gone
           q == IF Abandoned(gone) THEN <<>> ELSE queue
<1>1. /\ Control /\ Work /\ Lined /\ Accounts /\ Ending /\ NotBefore
      /\ connection = "polled" /\ connection' = "ended" /\ midway' = midway \ {"connection"}
      /\ Drop(rs, q)
      /\ UNCHANGED <<phase, cancelled, running, open>>
  BY DEF IInv, ConnectionEnds, Stepped
<1>2. /\ rs \in SUBSET Requests /\ q \in {queue, <<>>}
      /\ gone \subseteq rs /\ rs \subseteq gone \union Range(queue)
  BY <1>1, Subsets DEF Lined
<1>3. gone \intersect Range(queue) = {}
  BY <1>1 DEF Lined, At
<1>4. (q = <<>> => Range(queue) \subseteq rs) /\ (q = queue => rs \intersect Range(queue) = {})
  <2>1. CASE Abandoned(gone)
    <3>1. q = queue => Range(queue) = {}
      BY <2>1, EmptyQueue
    <3> QED  BY <2>1, <3>1
  <2>2. CASE ~Abandoned(gone)
    <3>1. q = <<>> => Range(queue) = {}
      BY <2>2, EmptyQueue
    <3> QED  BY <1>3, <2>2, <3>1
  <2> QED  BY <2>1, <2>2
<1>5. /\ Work' /\ Lined' /\ Accounts' /\ queue' = q
      /\ \A place \in Places : At(place)' = At(place) \ rs
      /\ operations' = "off" <=> operations = "off"
  <2> HIDE DEF rs, q
  <2> QED  BY <1>1, <1>2, <1>4, Dropped
<1>6. At("accepting")' = {}
  BY <1>2, <1>5 DEF Places
<1>7. ~open /\ At("connecting")' = {} => queue' = <<>>
  <2> SUFFICES ASSUME ~open, At("connecting")' = {}
               PROVE  queue' = <<>>
    OBVIOUS
  <2>1. At("connecting") \ rs = {}
    BY <1>5 DEF Places
  <2>2. At("connecting") \intersect (gone \union Range(queue)) = {}
    BY <1>1 DEF Lined, At
  <2>3. At("connecting") = {}
    <3> HIDE DEF gone, rs
    <3> QED  BY <1>2, <2>1, <2>2
  <2>4. Abandoned(gone)
    BY <2>3 DEF Abandoned
  <2> QED  BY <1>5, <2>4
<1>8. Ending'
  <2>1. phase # "returned"
    BY <1>1 DEF Ending, Joined
  <2>2. open' <=> phase' \notin {"grace", "abort", "returned"}
    BY <1>1 DEF Ending
  <2> QED  BY <1>1, <1>6, <1>7, <2>1, <2>2 DEF Ending
<1>9. Control' /\ NotBefore'
  BY <1>1, <1>5 DEF Control, NotBefore
<1> QED  BY <1>5, <1>8, <1>9 DEF IInv

LEMMA TaskEndsKept ==
    ASSUME IInv, NEW r \in Requests, TaskEnds(r)
    PROVE  IInv'
<1> DEFINE last == connection # "polled" /\ Abandoned({r})
           rs == IF last THEN {r} \union Range(queue) ELSE {r}
           q == IF last THEN <<>> ELSE queue
<1>1. /\ Control /\ Work /\ Lined /\ Accounts /\ Ending /\ NotBefore
      /\ req[r].at \in {"connecting", "serving", "answering"}
      /\ Drop(rs, q)
      /\ UNCHANGED <<phase, cancelled, running, connection, midway, open>>
  BY DEF IInv, TaskEnds, runVars
<1>2. /\ rs \in SUBSET Requests /\ q \in {queue, <<>>}
      /\ r \in rs /\ rs \subseteq {r} \union Range(queue)
  BY <1>1, Subsets DEF Lined
<1>3. r \notin Range(queue)
  BY <1>1 DEF Lined, At
<1>4. (q = <<>> => Range(queue) \subseteq rs) /\ (q = queue => rs \intersect Range(queue) = {})
  <2>1. CASE last
    <3>1. q = queue => Range(queue) = {}
      BY <2>1, EmptyQueue
    <3> QED  BY <2>1, <3>1
  <2>2. CASE ~last
    <3>1. q = <<>> => Range(queue) = {}
      BY <2>2, EmptyQueue
    <3> QED  BY <1>3, <2>2, <3>1
  <2> QED  BY <2>1, <2>2
<1>5. /\ Work' /\ Lined' /\ Accounts' /\ queue' = q
      /\ \A place \in Places : At(place)' = At(place) \ rs
      /\ operations' = "off" <=> operations = "off"
  <2> HIDE DEF rs, q
  <2> QED  BY <1>1, <1>2, <1>4, Dropped
<1>6. connection = "ended" => At("accepting")' = {}
  BY <1>1, <1>5 DEF Ending, Places
<1>7. ~open /\ connection = "ended" /\ At("connecting")' = {} => queue' = <<>>
  <2> SUFFICES ASSUME ~open, connection = "ended", At("connecting")' = {}
               PROVE  queue' = <<>>
    OBVIOUS
  <2>1. At("connecting") \ rs = {}
    BY <1>5 DEF Places
  <2>2. At("connecting") \intersect Range(queue) = {}
    BY <1>1 DEF Lined, At
  <2>3. At("connecting") \subseteq {r}
    <3> HIDE DEF rs
    <3> QED  BY <1>2, <2>1, <2>2
  <2>4. At("accepting") = {}
    BY <1>1 DEF Ending
  <2>5. last
    BY <2>3, <2>4 DEF Abandoned
  <2> QED  BY <1>5, <2>5
<1>8. Ending'
  <2>1. phase # "returned"
    BY <1>1 DEF Ending, Joined, At
  <2>2. open' <=> phase' \notin {"grace", "abort", "returned"}
    BY <1>1 DEF Ending
  <2> QED  BY <1>1, <1>6, <1>7, <2>1, <2>2 DEF Ending
<1>9. Control' /\ NotBefore'
  BY <1>1, <1>5 DEF Control, NotBefore
<1> QED  BY <1>5, <1>8, <1>9 DEF IInv

(* The run closes the queue and empties it.                                *)
LEMMA StopKept ==
    ASSUME IInv, Stop
    PROVE  IInv'
<1>1. /\ Control /\ Work /\ Lined /\ Accounts /\ Ending /\ NotBefore
      /\ phase = "stop" /\ phase' = "grace" /\ open' = FALSE
      /\ cancelled' \in BOOLEAN /\ midway' \subseteq {"run", "connection"}
      /\ Drop(Range(queue), <<>>)
      /\ UNCHANGED <<running, connection>>
  BY DEF IInv, Stop, Cancel, Control
<1>2. Range(queue) \in SUBSET Requests
  BY <1>1, Subsets DEF Lined
<1>3. /\ <<>> = queue => Range(queue) \intersect Range(queue) = {}
  BY EmptyQueue
<1>4. /\ Work' /\ Lined' /\ Accounts' /\ queue' = <<>>
      /\ \A place \in Places : At(place)' = At(place) \ Range(queue)
      /\ operations' = "off" <=> operations = "off"
  BY <1>1, <1>2, <1>3, Dropped
<1>5. Ending'
  BY <1>1, <1>4 DEF Ending, Places
<1>6. Control' /\ NotBefore'
  <2>1. "grace" \in Phases
    BY DEF Phases
  <2> QED  BY <1>1, <1>4, <2>1 DEF Control, NotBefore
<1> QED  BY <1>4, <1>5, <1>6 DEF IInv

-----------------------------------------------------------------------------
(* The run and the other tasks.                                            *)

(* Steps that move neither requests, nor permits, nor the queue.           *)
LEMMA RestKept ==
    ASSUME Work, Lined, Accounts, UNCHANGED <<operations, req, queue, free>>
    PROVE  Work' /\ Lined' /\ Accounts'
<1>1. At("queued")' = At("queued") /\ At("ready")' = At("ready") /\ At("accepting")' = At("accepting")
  BY DEF At
<1>2. Holders("terminal")' = Holders("terminal") /\ Holders("handler")' = Holders("handler")
  BY DEF Holders, HoldsPermit
<1>3. Work'
  BY DEF Work
<1>4. Lined'
  BY <1>1 DEF Lined
<1>5. Accounts'
  BY <1>1, <1>2 DEF Accounts, Taken
<1> QED  BY <1>3, <1>4, <1>5

LEMMA BackgroundKept ==
    ASSUME IInv,
           ShutdownSignalled \/ \E t \in Background \union {"shutdown"} : BackgroundEnds(t)
    PROVE  IInv'
<1>1. /\ Control /\ Work /\ Lined /\ Accounts /\ Ending /\ NotBefore
      /\ running # {} /\ running' \subseteq running
      /\ cancelled' \in BOOLEAN /\ midway' \subseteq {"run", "connection"}
      /\ UNCHANGED <<phase, connection, operations, req, queue, open, free>>
  BY DEF IInv, ShutdownSignalled, BackgroundEnds, Cancel, Control
<1>2. Work' /\ Lined' /\ Accounts'
  BY <1>1, RestKept
<1>3. Ending'
  <2>1. phase # "returned"
    BY <1>1 DEF Ending, Joined
  <2>2. At("accepting")' = At("accepting") /\ At("connecting")' = At("connecting")
    BY <1>1 DEF At
  <2> QED  BY <1>1, <2>1, <2>2 DEF Ending
<1>4. Control' /\ NotBefore'
  BY <1>1 DEF Control, NotBefore
<1> QED  BY <1>2, <1>3, <1>4 DEF IInv

(* The operation loop takes a command permit, and gives it back.           *)
LEMMA OperationsKept ==
    ASSUME IInv, OperationsAcquire \/ OperationsWorked \/ OperationsWake \/ OperationsEnd
    PROVE  IInv'
<1>1. /\ Control /\ Work /\ Lined /\ Accounts /\ Ending /\ NotBefore
      /\ operations # "off" /\ operations \in {"waiting", "working", "sleeping"}
      /\ operations' \in {"off", "waiting", "working", "sleeping"}
      /\ UNCHANGED <<phase, cancelled, running, connection, midway, req, queue, open>>
  BY DEF IInv, OperationsAcquire, OperationsWorked, OperationsWake, OperationsEnd, runVars, Work
<1>2. /\ free \in [terminal : Nat, handler : Nat, slots : Nat]
      /\ free.terminal \in Nat /\ free.handler \in Nat /\ free.slots \in Nat
      /\ Taken \in {0, 1} /\ Taken' \in {0, 1}
  BY <1>1 DEF Work, Taken
<1>3. /\ free'.terminal = free.terminal /\ free'.slots = free.slots
      /\ free' \in [terminal : Nat, handler : Nat, slots : Nat]
      /\ free'.handler + Taken' = free.handler + Taken
  <2>1. CASE OperationsAcquire
    <3>1. /\ free' = [free EXCEPT !.handler = @ - 1] /\ free.handler > 0
          /\ Taken = 0 /\ Taken' = 1
      BY <2>1 DEF OperationsAcquire, Taken
    <3>2. free' = [terminal |-> free.terminal, handler |-> free.handler - 1, slots |-> free.slots]
      BY <1>2, <3>1
    <3>3. free.handler - 1 \in Nat
      BY <1>2, <3>1
    <3> QED  BY <1>2, <3>1, <3>2, <3>3
  <2>2. CASE OperationsWorked
    <3>1. free' = [free EXCEPT !.handler = @ + 1] /\ Taken = 1 /\ Taken' = 0
      BY <2>2 DEF OperationsWorked, Taken
    <3>2. free' = [terminal |-> free.terminal, handler |-> free.handler + 1, slots |-> free.slots]
      BY <1>2, <3>1
    <3> QED  BY <1>2, <3>1, <3>2
  <2>3. CASE OperationsWake
    <3>1. free' = free /\ Taken = 0 /\ Taken' = 0
      BY <2>3 DEF OperationsWake, Taken
    <3> QED  BY <1>2, <3>1
  <2>4. CASE OperationsEnd
    <3>1. free' = [free EXCEPT !.handler = @ + Taken] /\ Taken' = 0
      BY <2>4 DEF OperationsEnd, Taken
    <3> HIDE DEF Taken
    <3>2. free' = [terminal |-> free.terminal, handler |-> free.handler + Taken, slots |-> free.slots]
      BY <1>2, <3>1
    <3>3. free.handler + Taken \in Nat
      BY <1>2
    <3> QED  BY <1>2, <3>1, <3>2, <3>3
  <2> QED  BY <2>1, <2>2, <2>3, <2>4
<1>4. /\ \A place : At(place)' = At(place)
      /\ Holders("terminal")' = Holders("terminal") /\ Holders("handler")' = Holders("handler")
  BY <1>1 DEF At, Holders, HoldsPermit
<1>5. Work'
  BY <1>1, <1>3 DEF Work
<1>6. Lined'
  BY <1>1, <1>4 DEF Lined
<1>7. Accounts'
  <2>1. /\ free'.terminal + Cardinality(Holders("terminal"))' = Terminals
        /\ free'.slots + Cardinality(At("accepting"))' + Len(queue)' = QueueCapacity
    BY <1>1, <1>3, <1>4 DEF Accounts
  <2>2. free'.handler + Cardinality(Holders("handler"))' + Taken' = Commands
    <3>1. /\ free.handler + Cardinality(Holders("handler")) + Taken = Commands
          /\ Cardinality(Holders("handler"))' = Cardinality(Holders("handler"))
      BY <1>1, <1>4 DEF Accounts
    <3>2. Cardinality(Holders("handler")) \in Nat
      BY FiniteRequests, Subsets
    <3>3. free'.handler \in Nat
      BY <1>3
    <3> HIDE DEF Taken
    <3> QED  BY <1>2, <1>3, <3>1, <3>2, <3>3
  <2> QED  BY <2>1, <2>2 DEF Accounts
<1>8. Ending'
  <2>1. phase # "returned"
    BY <1>1 DEF Ending, Joined
  <2> QED  BY <1>1, <1>4, <2>1 DEF Ending
<1>9. Control' /\ NotBefore'
  BY <1>1 DEF Control, NotBefore
<1> QED  BY <1>5, <1>6, <1>7, <1>8, <1>9 DEF IInv

(* The order of the start-up.                                              *)
LEMMA Order ==
    /\ Range(Startup) = {"actor", "system_info", "manifest", "operations", "local_api"}
    /\ NextPhase("actor") = "system_info" /\ NextPhase("system_info") = "manifest"
    /\ NextPhase("manifest") = "operations" /\ NextPhase("operations") = "local_api"
    /\ NextPhase("local_api") = "supervise"
<1>1. /\ Len(Startup) = 5 /\ DOMAIN Startup = 1..5
      /\ Startup[1] = "actor" /\ Startup[2] = "system_info" /\ Startup[3] = "manifest"
      /\ Startup[4] = "operations" /\ Startup[5] = "local_api"
  BY DEF Startup
<1>2. \A j \in 1..5 : j = 1 \/ j = 2 \/ j = 3 \/ j = 4 \/ j = 5
  OBVIOUS
<1> HIDE DEF Startup
<1>3. Range(Startup) = {"actor", "system_info", "manifest", "operations", "local_api"}
  <2>1. Range(Startup) \subseteq {"actor", "system_info", "manifest", "operations", "local_api"}
    BY <1>1, <1>2 DEF Range
  <2>2. 1 \in 1..5 /\ 2 \in 1..5 /\ 3 \in 1..5 /\ 4 \in 1..5 /\ 5 \in 1..5
    OBVIOUS
  <2> QED  BY <1>1, <2>1, <2>2 DEF Range
<1>4. ASSUME NEW i \in 1..5
      PROVE  NextPhase(Startup[i]) = IF i = 5 THEN "supervise" ELSE Startup[i + 1]
  <2> DEFINE P(j) == j \in DOMAIN Startup /\ Startup[j] = Startup[i]
  <2>1. (CHOOSE j \in DOMAIN Startup : Startup[j] = Startup[i]) = i
    <3>1. i \in DOMAIN Startup /\ \A j \in DOMAIN Startup : Startup[j] = Startup[i] => j = i
      BY <1>1, <1>2
    <3> QED  BY <3>1
  <2> QED  BY <1>1, <2>1 DEF NextPhase
<1>5. /\ NextPhase(Startup[1]) = Startup[2] /\ NextPhase(Startup[2]) = Startup[3]
      /\ NextPhase(Startup[3]) = Startup[4] /\ NextPhase(Startup[4]) = Startup[5]
      /\ NextPhase(Startup[5]) = "supervise"
  BY <1>4
<1> QED  BY <1>1, <1>3, <1>5

LEMMA StartupStepKept ==
    ASSUME IInv, StartupStep
    PROVE  IInv'
<1>1. /\ Control /\ Work /\ Lined /\ Accounts /\ Ending /\ NotBefore
      /\ phase \in {"actor", "system_info", "manifest", "operations", "local_api"}
      /\ phase' = NextPhase(phase) /\ midway' = midway \ {"run"}
      /\ UNCHANGED <<cancelled, connection, req, queue, open, free>>
      /\ running' \subseteq running \union (Background \intersect {phase})
  BY Order DEF IInv, StartupStep, Starting, Stepped
<1>2. /\ phase' \in {"system_info", "manifest", "operations", "local_api", "supervise"}
      /\ phase' \in {"system_info", "manifest", "operations"}
             => phase \in {"actor", "system_info", "manifest"}
  BY <1>1, Order
<1>3. /\ operations' = operations \/ (operations' = "waiting" /\ phase = "operations")
      /\ operations \in {"off", "waiting", "working", "sleeping"}
  BY <1>1 DEF StartupStep, Work
<1>4. Taken' = Taken
  BY <1>1, <1>3 DEF Taken, NotBefore
<1>5. /\ \A place : At(place)' = At(place)
      /\ Holders("terminal")' = Holders("terminal") /\ Holders("handler")' = Holders("handler")
  BY <1>1 DEF At, Holders, HoldsPermit
<1>6. Work'
  BY <1>1, <1>3 DEF Work
<1>7. Lined'
  BY <1>1, <1>5 DEF Lined
<1>8. Accounts'
  BY <1>1, <1>4, <1>5 DEF Accounts
<1>9. Ending'
  BY <1>1, <1>2, <1>5 DEF Ending
<1>10. NotBefore'
  <2>1. phase' \in {"actor", "system_info", "manifest", "operations"} => operations' = "off"
    BY <1>1, <1>2, <1>3 DEF NotBefore
  <2> QED  BY <2>1 DEF NotBefore
<1>11. Control'
  <2>1. phase' \in Phases
    BY <1>2, Order DEF Phases
  <2> QED  BY <1>1, <2>1 DEF Control
<1> QED  BY <1>6, <1>7, <1>8, <1>9, <1>10, <1>11 DEF IInv

(* A task leaves the queue, its slot is free.                              *)
LEMMA ReceiveKept ==
    ASSUME IInv, Receive
    PROVE  IInv'
<1> DEFINE r == Head(queue)
           place == IF req[r].at = "queued" THEN "connecting" ELSE "serving"
<1>1. /\ Control /\ Work /\ Lined /\ Accounts /\ Ending /\ NotBefore
      /\ phase = "supervise" /\ queue # <<>>
      /\ queue' = Tail(queue) /\ midway' = midway \ {"run"}
      /\ req' = [req EXCEPT ![r].at = place] /\ free' = [free EXCEPT !.slots = @ + 1]
      /\ UNCHANGED <<phase, cancelled, running, connection, operations, open>>
  BY DEF IInv, Receive, runVars, Stepped
<1>2. /\ req \in [Requests -> Reqs] /\ queue \in Seq(Requests) /\ IsInjective(queue)
      /\ free \in [terminal : Nat, handler : Nat, slots : Nat]
  BY <1>1 DEF Work, Lined
<1>3. /\ r \in Range(queue) /\ queue' \in Seq(Requests) /\ IsInjective(queue')
      /\ Range(queue') = Range(queue) \ {r} /\ Len(queue) = Len(queue') + 1
      /\ Len(queue) \in Nat /\ Len(queue') \in Nat
  BY <1>1, <1>2, QueueTail
<1>4. /\ r \in Requests /\ req[r].at \in {"queued", "ready"}
      /\ req[r] \in [kind : Endpoints, at : Places]
      /\ req[r].at = "queued" => req[r].kind = "forward"
  <2>1. r \in At("queued") \union At("ready")
    BY <1>1, <1>3 DEF Lined
  <2>2. r \in Requests /\ req[r].at \in {"queued", "ready"}
    BY <2>1 DEF At
  <2> QED  BY <1>1, <2>2, Kinds DEF Lined, Idle
<1>5. \A x \in Requests : req'[x] = IF x = r THEN [kind |-> req[r].kind, at |-> place] ELSE req[x]
  BY <1>1, <1>2, <1>4
<1>6. place \in {"connecting", "serving"} /\ (place = "connecting" => req[r].at = "queued")
  OBVIOUS
<1>7. /\ At("queued")' = At("queued") \ {r} /\ At("ready")' = At("ready") \ {r}
      /\ At("accepting")' = At("accepting")
  <2> HIDE DEF r, place
  <2> QED  BY <1>4, <1>5, <1>6 DEF At
<1>8. Holders("terminal")' = Holders("terminal") /\ Holders("handler")' = Holders("handler")
  <2>1. \A kind \in {"terminal", "handler"}, x \in Requests :
           (req'[x].kind = kind /\ req'[x].at \in {"accepting", "ready", "serving", "answering"})
             <=> (req[x].kind = kind
                    /\ req[x].at \in {"accepting", "ready", "serving", "answering"})
    BY <1>4, <1>5
  <2> HIDE DEF r, place
  <2> QED  BY <2>1 DEF Holders, HoldsPermit
<1> HIDE DEF r, place
<1>9. /\ free' = [terminal |-> free.terminal, handler |-> free.handler, slots |-> free.slots + 1]
      /\ free.terminal \in Nat /\ free.handler \in Nat /\ free.slots \in Nat
  BY <1>1, <1>2
<1>10. Work'
  <2>1. req' \in [Requests -> Reqs]
    <3>1. [kind |-> req[r].kind, at |-> place] \in Reqs
      BY <1>4, <1>6 DEF Reqs, Places
    <3>2. DOMAIN req' = Requests /\ req' = [x \in Requests |-> req'[x]]
      BY <1>1, <1>2
    <3> QED  BY <1>2, <1>5, <3>1, <3>2
  <2>2. free' \in [terminal : Nat, handler : Nat, slots : Nat]
    BY <1>9
  <2> QED  BY <1>1, <1>3, <2>1, <2>2 DEF Work
<1>11. Lined'
  <2>1. \A x \in Requests : req'[x].at \in {"queued", "connecting"} => req'[x].kind = "forward"
    BY <1>1, <1>4, <1>5, <1>6 DEF Lined
  <2>2. Range(queue') = At("queued")' \union At("ready")'
    BY <1>1, <1>3, <1>7 DEF Lined
  <2> QED  BY <1>3, <2>1, <2>2 DEF Lined
<1>12. Accounts'
  <2>1. /\ free'.terminal = free.terminal /\ free'.handler = free.handler
        /\ free'.slots = free.slots + 1
    BY <1>9
  <2>2. free'.slots + Cardinality(At("accepting")') + Len(queue') = QueueCapacity
    <3>1. free.slots + Cardinality(At("accepting")) + Len(queue) = QueueCapacity
      BY <1>1 DEF Accounts
    <3>2. /\ Cardinality(At("accepting")) \in Nat
          /\ Cardinality(At("accepting")') = Cardinality(At("accepting"))
      BY <1>7, FiniteRequests, Subsets
    <3>3. /\ free.slots \in Nat /\ Len(queue') \in Nat /\ Len(queue) = Len(queue') + 1
          /\ free'.slots = free.slots + 1
      BY <1>3, <1>9, <2>1
    <3>4. free'.slots + Cardinality(At("accepting")') + Len(queue')
            = (free.slots + 1) + Cardinality(At("accepting")) + Len(queue')
      BY <3>2, <3>3
    <3> QED  BY <3>1, <3>2, <3>3, <3>4
  <2> QED  BY <1>1, <1>8, <2>1, <2>2 DEF Accounts, Taken
<1>13. Ending'
  BY <1>1, <1>7 DEF Ending
<1>14. Control' /\ NotBefore'
  BY <1>1 DEF Control, NotBefore
<1> QED  BY <1>10, <1>11, <1>12, <1>13, <1>14 DEF IInv

(* The run moves on, and leaves everything as it is.                       *)
LEMMA PhaseKept ==
    ASSUME IInv, StartupFails \/ Leave \/ Abort \/ Return
    PROVE  IInv'
<1>1. /\ Control /\ Work /\ Lined /\ Accounts /\ Ending /\ NotBefore
      /\ midway' \subseteq midway
      /\ UNCHANGED <<cancelled, running, connection, operations, req, queue, open, free>>
      /\ \/ Range(Startup) \union {"supervise"} # {} /\ phase \in Range(Startup) \union {"supervise"}
            /\ phase' = "stop"
         \/ phase \in {"grace", "abort"} /\ phase' = "abort"
         \/ phase \in {"grace", "abort"} /\ phase' = "returned" /\ Joined
  BY DEF IInv, StartupFails, Leave, Abort, Return, Starting, Stepped
<1>2. Work' /\ Lined' /\ Accounts'
  BY <1>1, RestKept
<1>3. At("accepting")' = At("accepting") /\ At("connecting")' = At("connecting")
      /\ (Joined <=> Joined')
  BY <1>1 DEF At, Joined
<1>4. Ending'
  BY <1>1, <1>3, Order DEF Ending
<1>5. Control' /\ NotBefore'
  BY <1>1 DEF Control, NotBefore, Phases
<1> QED  BY <1>2, <1>4, <1>5 DEF IInv

-----------------------------------------------------------------------------
(* The invariant.                                                          *)

LEMMA Initially ==
    Init => IInv
<1> SUFFICES ASSUME Init  PROVE IInv
  OBVIOUS
<1>1. /\ \A place \in Places : At(place) = {}
      /\ Holders("terminal") = {} /\ Holders("handler") = {} /\ Taken = 0
  BY DEF Init, At, Holders, HoldsPermit, Idle, Places, Taken
<1>2. Control
  BY Order DEF Init, Control, Phases
<1>3. Work
  BY SupervisorAssumption, EmptyQueue DEF Init, Work, Reqs
<1>4. Lined
  BY <1>1, EmptyQueue DEF Init, Lined, Idle, Places
<1>5. Accounts
  <2>1. free.terminal = Terminals /\ free.handler = Commands /\ free.slots = QueueCapacity
    BY DEF Init
  <2>2. Len(queue) = 0 /\ At("accepting") = {}
    BY <1>1, EmptyQueue DEF Init, Places
  <2>3. /\ Cardinality(Holders("terminal")) = 0 /\ Cardinality(Holders("handler")) = 0
        /\ Cardinality(At("accepting")) = 0
    BY <1>1, <2>2, NoCards
  <2>4. Terminals + 0 = Terminals /\ Commands + 0 + 0 = Commands /\ QueueCapacity + 0 + 0 = QueueCapacity
    BY SupervisorAssumption
  <2> QED  BY <1>1, <2>1, <2>2, <2>3, <2>4 DEF Accounts
<1>6. Ending /\ NotBefore
  BY DEF Init, Ending, NotBefore
<1> QED  BY <1>2, <1>3, <1>4, <1>5, <1>6 DEF IInv

LEMMA StepKept ==
    IInv /\ [Next]_vars => IInv'
<1> SUFFICES ASSUME IInv, [Next]_vars  PROVE IInv'
  OBVIOUS
<1>1. CASE Serving
  BY <1>1, RequestChannelKept, AcceptKept, TcpConnectedKept, CommandOverKept, TaskEndsKept DEF Serving
<1>2. CASE ConnectionEnds
  BY <1>2, ConnectionEndsKept
<1>3. CASE ShutdownSignalled \/ \E t \in Background \union {"shutdown"} : BackgroundEnds(t)
  BY <1>3, BackgroundKept
<1>4. CASE OperationsAcquire \/ OperationsWorked \/ OperationsWake \/ OperationsEnd
  BY <1>4, OperationsKept
<1>5. CASE StartupStep
  BY <1>5, StartupStepKept
<1>6. CASE StartupFails \/ Leave \/ Abort \/ Return
  BY <1>6, PhaseKept
<1>7. CASE Receive
  BY <1>7, ReceiveKept
<1>8. CASE Stop
  BY <1>8, StopKept
<1>9. CASE UNCHANGED vars
  <2>1. /\ UNCHANGED <<phase, cancelled, midway, running, connection, open>>
        /\ UNCHANGED <<operations, req, queue, free>>
    BY <1>9 DEF vars
  <2>2. Control /\ Work /\ Lined /\ Accounts /\ Ending /\ NotBefore
    BY DEF IInv
  <2>3. Work' /\ Lined' /\ Accounts'
    BY <2>1, <2>2, RestKept
  <2>4. Control' /\ NotBefore'
    BY <2>1, <2>2 DEF Control, NotBefore
  <2>5. At("accepting")' = At("accepting") /\ At("connecting")' = At("connecting")
        /\ (Joined <=> Joined')
    BY <2>1 DEF At, Joined
  <2>6. Ending'
    BY <2>1, <2>2, <2>5 DEF Ending
  <2> QED  BY <2>3, <2>4, <2>6 DEF IInv
<1> QED  BY <1>1, <1>2, <1>3, <1>4, <1>5, <1>6, <1>7, <1>8, <1>9 DEF Next

THEOREM Invariance == Spec => []IInv
  BY Initially, StepKept, PTL DEF Spec

LEMMA Typed ==
    IInv => TypeOK
<1> SUFFICES ASSUME IInv  PROVE TypeOK
  OBVIOUS
<1>1. Control /\ Work /\ Lined /\ Accounts
  BY DEF IInv
<1>2. \A r \in Requests : req[r] = Idle \/ (req[r].kind \in Endpoints /\ req[r].at \in Places)
  BY <1>1, Kinds
<1>3. Range(queue) = At("queued") \union At("ready") /\ Len(queue) = Cardinality(Range(queue))
  BY <1>1, QueueCounts DEF Work, Lined
<1>4. /\ free \in [terminal : Nat, handler : Nat, slots : Nat]
      /\ free.terminal \in Nat /\ free.handler \in Nat /\ free.slots \in Nat
      /\ Cardinality(Holders("terminal")) \in Nat /\ Cardinality(Holders("handler")) \in Nat
      /\ Cardinality(At("accepting")) \in Nat /\ Len(queue) \in Nat /\ Taken \in {0, 1}
  BY <1>1, FiniteRequests, Subsets DEF Work, Taken
<1>5. ASSUME NEW kind \in {"terminal", "handler"}
      PROVE  free[kind] = Limit(kind) - Cardinality({r \in Requests : HoldsPermit(r, kind)})
                          - IF kind = "handler" /\ operations = "working" THEN 1 ELSE 0
  <2>1. {r \in Requests : HoldsPermit(r, kind)} = Holders(kind)
    BY DEF Holders
  <2>2. CASE kind = "terminal"
    <3>1. free.terminal + Cardinality(Holders("terminal")) = Terminals
      BY <1>1 DEF Accounts
    <3>2. free.terminal = Terminals - Cardinality(Holders("terminal")) - 0
      BY <1>4, <3>1
    <3> QED  BY <2>1, <2>2, <3>2 DEF Limit
  <2>3. CASE kind = "handler"
    <3>1. free.handler + Cardinality(Holders("handler")) + Taken = Commands
      BY <1>1 DEF Accounts
    <3>2. free.handler = Commands - Cardinality(Holders("handler")) - Taken
      <4> HIDE DEF Taken
      <4> QED  BY <1>4, <3>1
    <3> QED  BY <2>1, <2>3, <3>2 DEF Limit, Taken
  <2> QED  BY <2>2, <2>3
<1>6. free.slots = QueueCapacity - Cardinality(At("accepting")) - Len(queue)
  <2>1. free.slots + Cardinality(At("accepting")) + Len(queue) = QueueCapacity
    BY <1>1 DEF Accounts
  <2> QED  BY <1>4, <2>1
<1>7. \A place \in DOMAIN free : free[place] \in Nat
  BY <1>4
<1> QED  BY <1>1, <1>2, <1>3, <1>5, <1>6, <1>7 DEF TypeOK, Control, Work, Phases, Places

LEMMA NothingLeftInvariantly ==
    IInv => NothingLeft
<1> SUFFICES ASSUME IInv, phase = "returned"
             PROVE  /\ Joined /\ queue = <<>> /\ Requests = At("idle")
                    /\ free = [terminal |-> Terminals, handler |-> Commands, slots |-> QueueCapacity]
  BY Typed DEF NothingLeft
<1>1. Control /\ Work /\ Lined /\ Accounts /\ Ending
  BY DEF IInv
<1>2. Joined /\ ~open /\ connection = "ended" /\ At("accepting") = {}
  BY <1>1 DEF Ending, Joined, Control
<1>3. At("connecting") = {} /\ At("serving") = {} /\ At("answering") = {}
  BY <1>2 DEF Joined
<1>4. queue = <<>>
  BY <1>1, <1>2, <1>3 DEF Ending
<1>5. At("queued") = {} /\ At("ready") = {}
  BY <1>1, <1>4, EmptyQueue DEF Lined
<1>6. \A r \in Requests : req[r].at = "idle"
  BY <1>1, <1>2, <1>3, <1>5, Kinds DEF At, Places
<1>7. Holders("terminal") = {} /\ Holders("handler") = {} /\ Taken = 0
  BY <1>2, <1>6 DEF Holders, HoldsPermit, Joined, Taken
<1>8. /\ free \in [terminal : Nat, handler : Nat, slots : Nat]
      /\ free.terminal \in Nat /\ free.handler \in Nat /\ free.slots \in Nat
  BY <1>1 DEF Work
<1>9. free.terminal = Terminals /\ free.handler = Commands /\ free.slots = QueueCapacity
  <2>1. /\ free.terminal + 0 = Terminals /\ free.handler + 0 + 0 = Commands
        /\ free.slots + 0 + 0 = QueueCapacity
    BY <1>1, <1>2, <1>4, <1>7, NoCards, EmptyQueue DEF Accounts
  <2> QED  BY <1>8, <2>1
<1> QED  BY <1>2, <1>4, <1>6, <1>8, <1>9 DEF At

(* No permit or slot is lost on the way, and when run_with_connection has  *)
(* returned nothing it started is left, not even a task that was queued    *)
(* after the queue was closed and emptied.                                 *)
THEOREM NothingIsLeft == Spec => []NothingLeft
  BY Invariance, NothingLeftInvariantly, PTL

-----------------------------------------------------------------------------
(***************************************************************************)
(* TerminalSession.                                                        *)
(***************************************************************************)
Stages == {"starting", "relay", "drain", "awaiting", "terminating", "killing", "exit",
           "closing", "over"}
Processes == [state : {"none", "setup", "alive", "dead", "reaped"}, holds : BOOLEAN,
              stubborn : BOOLEAN, termed : BOOLEAN]
Users == {Root, Target, [Target EXCEPT !.groups = {"user", "adm"}]}
Statuses == {"none", "setup", "ok", "term", "kill"}
Ids == [uid : {"root", "user"}, gid : {"root", "user"}, groups : SUBSET {"root", "user", "adm"}]
Shells == [proc : Processes, creds : Ids, status : Statuses]

SessionTypes ==
    /\ stage \in Stages /\ after \in {"exit", "closing"}
    /\ agent \in Users /\ shell \in Shells /\ kin \in Processes
    /\ pty \in [printed : Nat, unread : Seq(Nat)] /\ Len(pty.unread) <= pty.printed
    /\ hub \in {"open", "mute", "gone"} /\ timer \in Nat

(* A process exists only where the agent could prepare it, and it runs as  *)
(* the user only.                                                          *)
Credentials ==
    /\ shell.proc.state # "none" => Prepared
    /\ RunsAsUser

(* Nothing is printed any more, and everything that was printed is sent.   *)
Holding(p) == p.holds /\ Up(p)
Settled == shell.proc.state = "reaped" /\ pty.unread = <<>> /\ ~Holding(kin)

Pieces == {"Data", "Exit"} \X (Nat \union Statuses) \X {"head", "body"}

(* The parts of the stream: two for each piece of output, then two for the *)
(* status.  Passed is how many pieces of output the relay has taken.       *)
Passed == pty.printed - Len(pty.unread)
Piece(i, printed, status) ==
    << IF i <= 2 * printed THEN "Data" ELSE "Exit",
       IF i <= 2 * printed THEN (i + 1) \div 2 ELSE status,
       IF i % 2 = 1 THEN "head" ELSE "body" >>
Wanted(i) == Piece(i, pty.printed, shell.status)

(* What is sent, and what is left of the frame being written behind it.    *)
Ordered ==
    /\ sent \in Seq(Pieces) /\ \A i \in 1..Len(sent) : sent[i] = Wanted(i)
    /\ writing \in Seq(Pieces)
    /\ \A i \in 1..Len(writing) : writing[i] = Wanted(Len(sent) + i)
    /\ \A i \in 1..Len(pty.unread) : pty.unread[i] = Passed + i

InOrder(n) == n <= 2 * Passed
Through(n) == Settled /\ n <= 2 * pty.printed + 2
Total == Len(sent) + Len(writing)
Emptied == PtyEof /\ Total = 2 * Passed

(* How far each stage is: a relay that is cut stops within the output, and *)
(* only a session whose terminal is read empty goes on with the status.    *)
Progress ==
    /\ InOrder(Total) \/ Through(Total)
    /\ stage = "starting" => shell.proc.state = "none"
    /\ stage \in {"starting", "relay", "drain"} => Total = 2 * Passed
    /\ stage \in {"awaiting", "terminating", "killing"} => writing = <<>> /\ InOrder(Total)
    /\ stage = "drain" => shell.proc.state = "reaped"
    /\ stage = "awaiting" => Emptied
    /\ stage \in {"terminating", "killing"} /\ after = "exit" => Emptied
    /\ stage = "exit" => Through(Total)

Stream == Ordered /\ Progress

(***************************************************************************)
(* Credentials.                                                            *)
(***************************************************************************)
LEMMA Signals ==
    ASSUME NEW p \in Processes
    PROVE  /\ Killed(p) \in Processes /\ Termed(p) \in Processes
           /\ ~Up(Killed(p)) /\ Killed(p).holds = p.holds
           /\ Termed(p).state = p.state /\ Termed(p).holds = p.holds
           /\ Killed(p).state = p.state \/ (Up(p) /\ Killed(p).state = "dead")
  BY DEF Killed, Termed, Up, Processes

LEMMA UserTypes ==
    /\ Users \subseteq Ids /\ NoProcess \in Processes
    /\ Root \in Ids /\ Target \in Ids
    /\ Root.uid = "root" /\ Target.uid = "user" /\ \A u \in Users : u.uid = "root" => u = Root
  BY DEF Users, Ids, Root, Target, NoProcess, Processes

LEMMA SameIds ==
    ASSUME NEW a \in Ids, NEW b \in Ids, a.uid = b.uid, a.gid = b.gid, a.groups = b.groups
    PROVE  a = b
  BY DEF Ids

(* All eight steps pass only if the credentials end up as the user's.      *)
LEMMA SetupSucceeds ==
    ASSUME agent \in Users, Prepared, NEW f \in Faults, \A k \in 1..8 : Passes(k, f)
    PROVE  CredsAfter(f) = Target
<1> DEFINE c == CredsAfter(f)
<1>1. c \in Ids
  BY UserTypes DEF CredsAfter, Ids
<1>2. CASE agent.uid = "root"
  <2>1. Verified(3, c) /\ Verified(5, c) /\ Verified(6, c)
    BY <1>2 DEF Passes, SetupSteps
  <2>2. c.gid = Target.gid
    BY <2>1 DEF Verified, SetupSteps
  <2>3. c.uid = Target.uid
    BY <2>1 DEF Verified, SetupSteps
  <2>4. c.groups = Target.groups
    BY <2>1 DEF Verified, SetupSteps
  <2> QED  BY <1>1, <2>2, <2>3, <2>4, UserTypes, SameIds
<1>3. CASE agent.uid # "root"
  <2>1. agent = Target
    BY <1>3 DEF Prepared
  <2> QED  BY <2>1, <1>3, UserTypes DEF CredsAfter, Setting, Target
<1> QED  BY <1>2, <1>3

LEMMA CredsTyped ==
    ASSUME agent \in Users, NEW f \in Faults
    PROVE  CredsAfter(f) \in Ids
  BY UserTypes DEF CredsAfter, Ids

(***************************************************************************)
(* What a step does to the shell, to its descendant and to the PTY.        *)
(***************************************************************************)
(* No step but Fork makes a process from none, and none lets it take up    *)
(* again the terminal it gave up, or changes the status it was reaped with. *)
ShellKept ==
    /\ shell' \in Shells
    /\ shell.proc.state = "none" <=> shell'.proc.state = "none"
    /\ Holding(shell.proc)' => Holding(shell.proc)
    /\ shell.proc.state = "reaped" => shell'.proc.state = "reaped" /\ shell'.status = shell.status
    /\ shell'.proc.state = "alive" => shell'.creds = Target

KinKept ==
    /\ kin' \in Processes
    /\ Holding(kin)' => Holding(kin) \/ (Holding(shell.proc) /\ shell.proc.state = "alive")

LEMMA SameShell ==
    ASSUME SessionTypes, RunsAsUser
    PROVE  shell' = shell => ShellKept
  BY DEF SessionTypes, RunsAsUser, ShellKept, Holding, Up

LEMMA SameKin ==
    ASSUME SessionTypes
    PROVE  kin' = kin => KinKept
  BY DEF SessionTypes, KinKept, Holding, Up

LEMMA ShellChanged ==
    ASSUME SessionTypes, RunsAsUser, NEW p \in Processes, NEW st \in Statuses,
           shell' = [shell EXCEPT !.proc = p, !.status = st],
           p.state = "none" <=> shell.proc.state = "none",
           Holding(p) => Holding(shell.proc), p.state = "alive" => shell.proc.state = "alive",
           shell.proc.state = "reaped" => p.state = "reaped" /\ st = shell.status
    PROVE  ShellKept
  BY DEF SessionTypes, RunsAsUser, ShellKept, Holding, Up, Shells

LEMMA ShellSame ==
    ASSUME SessionTypes, NEW p, shell' = [shell EXCEPT !.proc = p]
    PROVE  shell' = [shell EXCEPT !.proc = p, !.status = shell.status]
  BY DEF SessionTypes, Shells

LEMMA ReapedKept ==
    ASSUME SessionTypes, RunsAsUser, Reaped
    PROVE  ShellKept /\ shell'.proc.state = "reaped" /\ ~Holding(shell.proc)
<1> DEFINE p == [shell.proc EXCEPT !.state = "reaped"]
<1>1. shell' = [shell EXCEPT !.proc = p, !.status = shell.status]
  BY DEF SessionTypes, Shells, Reaped
<1>2. p \in Processes /\ shell.status \in Statuses /\ p.state = "reaped" /\ ~Holding(p)
  BY DEF SessionTypes, Shells, Processes, Reaped, Holding, Up
<1>3. shell.proc.state = "dead" /\ ~Holding(shell.proc)
  BY DEF Reaped, Holding, Up
<1>4. shell'.proc.state = "reaped"
  BY <1>1, <1>2 DEF SessionTypes, Shells
<1> HIDE DEF p
<1> QED  BY <1>1, <1>2, <1>3, <1>4, ShellChanged

LEMMA ShellTermed ==
    ASSUME SessionTypes, RunsAsUser, shell' = [shell EXCEPT !.proc = Termed(@)]
    PROVE  ShellKept
<1> DEFINE p == Termed(shell.proc)
<1>1. shell' = [shell EXCEPT !.proc = p, !.status = shell.status]
  BY DEF SessionTypes, Shells
<1>2. shell.proc \in Processes /\ shell.status \in Statuses
  BY DEF SessionTypes, Shells
<1>3. p \in Processes /\ p.state = shell.proc.state /\ p.holds = shell.proc.holds
  BY <1>2, Signals
<1>4. Holding(p) => Holding(shell.proc)
  BY <1>3 DEF Holding, Up
<1> HIDE DEF p
<1> QED  BY <1>1, <1>2, <1>3, <1>4, ShellChanged

LEMMA ShellKilled ==
    ASSUME SessionTypes, RunsAsUser, KillGroup
    PROVE  ShellKept
<1> DEFINE p == Killed(shell.proc)
           st == IF Up(shell.proc) THEN "kill" ELSE shell.status
<1>1. shell' = [shell EXCEPT !.proc = p, !.status = st]
  BY DEF SessionTypes, Shells, KillGroup
<1>2. shell.proc \in Processes /\ st \in Statuses
  BY DEF SessionTypes, Shells, Statuses
<1>3. p \in Processes /\ ~Up(p)
      /\ (p.state = shell.proc.state \/ (Up(shell.proc) /\ p.state = "dead"))
  BY <1>2, Signals
<1>4. (p.state = "none" <=> shell.proc.state = "none") /\ ~Holding(p) /\ p.state # "alive"
  BY <1>3 DEF Holding, Up
<1>5. shell.proc.state = "reaped" => p.state = "reaped" /\ st = shell.status
  BY <1>3 DEF Up
<1> HIDE DEF p, st
<1> QED  BY <1>1, <1>2, <1>3, <1>4, <1>5, ShellChanged

LEMMA KinSignalled ==
    ASSUME SessionTypes
    PROVE  /\ kin' = Killed(kin) => KinKept /\ ~Up(kin')
           /\ kin' = Termed(kin) => KinKept
  BY Signals DEF SessionTypes, KinKept, Holding, Up

LEMMA ShellMovesKept ==
    ASSUME SessionTypes, RunsAsUser, ShellMoves
    PROVE  ShellKept
<1>1. shell.proc \in Processes /\ shell.status \in Statuses
  BY DEF SessionTypes, Shells
<1>2. CASE shell.proc.state = "alive" /\ shell' = [shell EXCEPT !.proc.holds = FALSE]
  <2> DEFINE p == [shell.proc EXCEPT !.holds = FALSE]
  <2>1. shell' = [shell EXCEPT !.proc = p, !.status = shell.status]
    BY <1>2 DEF SessionTypes, Shells
  <2>2. p \in Processes /\ p.state = shell.proc.state /\ ~Holding(p)
    BY <1>1 DEF Processes, Holding
  <2> HIDE DEF p
  <2> QED  BY <1>1, <1>2, <2>1, <2>2, ShellChanged
<1>3. ASSUME NEW st \in {"ok", "term"}, Up(shell.proc),
             shell' = [shell EXCEPT !.proc.state = "dead", !.status = st]
      PROVE  ShellKept
  <2> DEFINE p == [shell.proc EXCEPT !.state = "dead"]
  <2>1. shell' = [shell EXCEPT !.proc = p, !.status = st]
    BY <1>3 DEF SessionTypes, Shells
  <2>2. p \in Processes /\ p.state = "dead" /\ ~Holding(p)
    BY <1>1 DEF Processes, Holding, Up
  <2>3. st \in Statuses /\ shell.proc.state # "none" /\ shell.proc.state # "reaped"
    BY <1>3 DEF Statuses, Up
  <2> HIDE DEF p
  <2> QED  BY <1>1, <2>1, <2>2, <2>3, ShellChanged
<1> QED  BY <1>2, <1>3 DEF ShellMoves, Obeys, Up

LEMMA ChildSetupKept ==
    ASSUME SessionTypes, Credentials, ChildSetup
    PROVE  ShellKept
<1>1. shell.proc \in Processes /\ shell.status \in Statuses /\ shell.proc.state = "setup"
  BY DEF SessionTypes, Shells, ChildSetup
<1>2. PICK f \in Faults, stubborn \in BOOLEAN :
          shell' = IF \A k \in 1..8 : Passes(k, f)
                   THEN [shell EXCEPT !.proc.state = "alive", !.proc.stubborn = stubborn,
                                      !.creds = CredsAfter(f)]
                   ELSE [shell EXCEPT !.proc.state = "dead", !.status = "setup"]
  BY DEF ChildSetup
<1>3. CASE \A k \in 1..8 : Passes(k, f)
  <2>1. CredsAfter(f) = Target
    BY <1>1, <1>3, SetupSucceeds DEF SessionTypes, Credentials
  <2> DEFINE p == [shell.proc EXCEPT !.state = "alive", !.stubborn = stubborn]
  <2>2. shell' = [shell EXCEPT !.proc = p, !.creds = Target]
    BY <1>2, <1>3, <2>1 DEF SessionTypes, Shells
  <2>3. p \in Processes /\ p.state = "alive" /\ p.holds = shell.proc.holds
    BY <1>1 DEF Processes
  <2> HIDE DEF p
  <2>4. shell' \in Shells /\ shell'.proc = p /\ shell'.creds = Target
    BY <2>2, <2>3, UserTypes DEF SessionTypes, Shells
  <2> QED  BY <1>1, <2>3, <2>4 DEF ShellKept, Holding, Up
<1>4. CASE ~\A k \in 1..8 : Passes(k, f)
  <2> DEFINE p == [shell.proc EXCEPT !.state = "dead"]
  <2>1. shell' = [shell EXCEPT !.proc = p, !.status = "setup"]
    BY <1>2, <1>4 DEF SessionTypes, Shells
  <2>2. p \in Processes /\ p.state = "dead" /\ ~Holding(p) /\ "setup" \in Statuses
    BY <1>1 DEF Processes, Holding, Up, Statuses
  <2> HIDE DEF p
  <2> QED  BY <1>1, <2>1, <2>2, ShellChanged DEF Credentials
<1> QED  BY <1>3, <1>4

LEMMA ShellForksKept ==
    ASSUME SessionTypes, ShellForks
    PROVE  KinKept
<1>1. PICK holds \in {shell.proc.holds, FALSE}, stubborn \in BOOLEAN :
          kin' = [NoProcess EXCEPT !.state = "alive", !.holds = holds, !.stubborn = stubborn]
  BY DEF ShellForks
<1>2. holds \in BOOLEAN /\ shell.proc.state = "alive"
  BY DEF SessionTypes, Shells, Processes, ShellForks
<1>3. kin' = [state |-> "alive", holds |-> holds, stubborn |-> stubborn, termed |-> FALSE]
  BY <1>1 DEF NoProcess
<1>4. kin' \in Processes /\ kin'.holds = holds
  BY <1>2, <1>3 DEF Processes
<1>5. holds => shell.proc.holds
  OBVIOUS
<1> QED  BY <1>2, <1>4, <1>5 DEF KinKept, Holding, Up

LEMMA KinMovesKept ==
    ASSUME SessionTypes, KinMoves
    PROVE  KinKept
  BY DEF SessionTypes, KinMoves, KinKept, Processes, Holding, Up

(***************************************************************************)
(* What is on the channel.                                                 *)
(***************************************************************************)
LEMMA Halves ==
    \A k \in Nat : /\ (2 * k + 1) % 2 = 1 /\ (2 * k + 2) % 2 = 0
                   /\ (2 * k + 2) \div 2 = k + 1 /\ (2 * k + 3) \div 2 = k + 1
  OBVIOUS

LEMMA Eof ==
    /\ PtyEof <=> pty.unread = <<>> /\ ~Holding(shell.proc) /\ ~Holding(kin)
    /\ PtyEof' <=> pty'.unread = <<>> /\ ~Holding(shell.proc)' /\ ~Holding(kin)'
  BY DEF PtyEof, Holding

LEMMA Counts ==
    ASSUME SessionTypes, Ordered
    PROVE  /\ pty.printed \in Nat /\ pty.unread \in Seq(Nat) /\ Len(pty.unread) \in Nat
           /\ Passed \in Nat /\ Passed <= pty.printed
           /\ pty.unread = <<>> <=> Passed = pty.printed
           /\ Len(sent) \in Nat /\ Len(writing) \in Nat /\ Total \in Nat
           /\ writing = <<>> <=> Len(writing) = 0
<1>1. pty.printed \in Nat /\ pty.unread \in Seq(Nat) /\ Len(pty.unread) <= pty.printed
  BY DEF SessionTypes
<1>2. Len(pty.unread) \in Nat /\ (pty.unread = <<>> <=> Len(pty.unread) = 0)
  BY <1>1
<1>3. Len(sent) \in Nat /\ Len(writing) \in Nat /\ (writing = <<>> <=> Len(writing) = 0)
  BY DEF Ordered
<1> DEFINE l == Len(pty.unread)
           m == Len(sent)
           n == Len(writing)
<1> HIDE DEF l, m, n
<1>4. l \in Nat /\ m \in Nat /\ n \in Nat /\ l <= pty.printed
  BY <1>1, <1>2, <1>3 DEF l, m, n
<1>5. pty.printed - l \in Nat /\ pty.printed - l <= pty.printed /\ m + n \in Nat
      /\ (l = 0 <=> pty.printed - l = pty.printed)
  BY <1>1, <1>4
<1> QED  BY <1>1, <1>2, <1>3, <1>5 DEF Passed, Total, l, m, n

(* The wanted parts stay those that they are while nothing is added to     *)
(* them, for the parts on the channel and of the frame.                    *)
LEMMA WantedSame ==
    ASSUME NEW i \in Nat, pty'.printed = pty.printed,
           i <= 2 * pty.printed \/ shell'.status = shell.status
    PROVE  /\ Wanted(i)' = Wanted(i)
           /\ Piece(i, pty'.printed, shell'.status) = Piece(i, pty.printed, shell.status)
  BY DEF Wanted, Piece

LEMMA Steady ==
    ASSUME SessionTypes, Ordered, InOrder(Total) \/ Through(Total), ShellKept, KinKept,
           UNCHANGED <<pty, sent>>, writing' \in {writing, <<>>}
    PROVE  /\ Ordered' /\ Passed' = Passed
           /\ InOrder(Total) => InOrder(Total)'
           /\ Through(Total) => Through(Total)'
           /\ PtyEof => PtyEof'
           /\ writing' = writing => Total' = Total
<1>1. Passed' = Passed /\ Passed \in Nat /\ Passed <= pty.printed /\ pty.printed \in Nat
      /\ Len(sent) \in Nat /\ Len(writing) \in Nat
  BY Counts DEF Passed
<1>2. Settled => Settled' /\ shell'.status = shell.status
  BY DEF Settled, ShellKept, KinKept, Holding, Up
<1>3. PtyEof => PtyEof'
  BY Eof DEF ShellKept, KinKept, Holding
<1>4. \A i \in 1..Total : Wanted(i)' = Wanted(i)
  <2>1. \A i \in 1..Total : i \in Nat /\ (i <= 2 * pty.printed \/ shell'.status = shell.status)
    <3>1. CASE InOrder(Total)
      BY <3>1, <1>1 DEF InOrder, Total
    <3>2. CASE Through(Total)
      BY <3>2, <1>1, <1>2 DEF Through, Total
    <3> QED  BY <3>1, <3>2
  <2> QED  BY <2>1, WantedSame
<1>5. writing' \in Seq(Pieces) /\ Len(writing') \in Nat /\ Len(writing') <= Len(writing)
      /\ \A i \in 1..Len(writing') : i \in 1..Len(writing) /\ writing'[i] = writing[i]
  <2>1. CASE writing' = writing
    BY <1>1, <2>1 DEF Ordered
  <2>2. CASE writing' = <<>>
    <3>1. writing' \in Seq(Pieces) /\ Len(writing') = 0
      BY <2>2
    <3> QED  BY <3>1, <1>1
  <2> QED  BY <2>1, <2>2
<1>6. \A i \in 1..Len(sent) : i \in 1..Total
  BY <1>1 DEF Total
<1>7. \A i \in 1..Len(writing) : Len(sent) + i \in 1..Total
  BY <1>1 DEF Total
<1>8. Ordered'
  <2>1. sent' \in Seq(Pieces) /\ \A i \in 1..Len(sent') : sent'[i] = Wanted(i)'
    BY <1>4, <1>6 DEF Ordered
  <2>2. \A i \in 1..Len(writing') : writing'[i] = Wanted(Len(sent) + i)'
    BY <1>4, <1>5, <1>7 DEF Ordered
  <2>3. \A i \in 1..Len(pty'.unread) : pty'.unread[i] = Passed' + i
    BY <1>1 DEF Ordered
  <2> QED  BY <2>1, <2>2, <2>3, <1>5 DEF Ordered, Wanted
<1>9. Total' <= Total /\ Total' \in Nat /\ Total \in Nat
  BY <1>1, <1>5 DEF Total
<1>10. InOrder(Total) => InOrder(Total)'
  BY <1>1, <1>9 DEF InOrder
<1>11. Through(Total) => Through(Total)'
  BY <1>1, <1>2, <1>9 DEF Through
<1>12. writing' = writing => Total' = Total
  BY DEF Total
<1> QED  BY <1>1, <1>3, <1>8, <1>10, <1>11, <1>12

LEMMA ReportKept ==
    ASSUME SessionTypes, Ordered, PtyEof, writing = <<>>, Total = 2 * Passed,
           ShellKept, KinKept, UNCHANGED <<pty, sent>>, shell'.proc.state = "reaped",
           shell'.status = shell.status, writing' = ExitFrame, stage' = "exit"
    PROVE  Stream'
<1>1. Passed' = Passed /\ Passed = pty.printed /\ pty.printed \in Nat
      /\ Len(sent) = 2 * pty.printed /\ Len(writing) = 0
  BY Counts, Eof DEF Passed, Total
<1>2. Settled'
  BY Eof DEF Settled, KinKept, Holding
<1>3. \A i \in Nat : Wanted(i)' = Wanted(i)
  BY WantedSame
<1>4. shell.status \in Statuses
  BY DEF SessionTypes, Shells
<1>5. /\ Wanted(Len(sent) + 1) = <<"Exit", shell.status, "head">>
      /\ Wanted(Len(sent) + 2) = <<"Exit", shell.status, "body">>
  <2> DEFINE k == pty.printed
             a == 2 * k + 1
             b == 2 * k + 2
  <2>1. a % 2 = 1 /\ b % 2 = 0 /\ ~(a <= 2 * k) /\ ~(b <= 2 * k)
    BY <1>1, Halves
  <2>2. Len(sent) + 1 = a /\ Len(sent) + 2 = b
    BY <1>1
  <2> HIDE DEF a, b
  <2>3. \A st : Piece(a, k, st) = <<"Exit", st, "head">> /\ Piece(b, k, st) = <<"Exit", st, "body">>
    BY <2>1 DEF Piece
  <2> QED  BY <2>2, <2>3 DEF Wanted
<1>6. writing' \in Seq(Pieces) /\ Len(writing') = 2
      /\ writing'[1] = <<"Exit", shell.status, "head">> /\ writing'[2] = <<"Exit", shell.status, "body">>
  BY <1>4 DEF ExitFrame, Pieces
<1>7. Ordered'
  <2>1. sent' \in Seq(Pieces) /\ \A i \in 1..Len(sent') : sent'[i] = Wanted(i)'
    BY <1>3 DEF Ordered
  <2>2. \A i \in 1..Len(writing') : writing'[i] = Wanted(Len(sent) + i)'
    <3> SUFFICES ASSUME NEW i \in 1..2 PROVE writing'[i] = Wanted(Len(sent) + i)'
      BY <1>6
    <3>1. Wanted(Len(sent) + i)' = Wanted(Len(sent) + i)
      BY <1>1, <1>3
    <3> QED  BY <3>1, <1>5, <1>6
  <2>3. \A i \in 1..Len(pty'.unread) : pty'.unread[i] = Passed' + i
    BY <1>1 DEF Ordered
  <2> QED  BY <2>1, <2>2, <2>3, <1>6 DEF Ordered, Wanted
<1>8. Total' = 2 * pty.printed + 2
  BY <1>1, <1>6 DEF Total
<1>9. Through(Total)'
  BY <1>2, <1>8, <1>1 DEF Through
<1> QED  BY <1>7, <1>9 DEF Stream, Progress

LEMMA ReadPtyKept ==
    ASSUME SessionTypes, Stream, ReadPty
    PROVE  Stream' /\ pty' \in [printed : Nat, unread : Seq(Nat)] /\ Len(pty'.unread) <= pty'.printed
<1> DEFINE n == Head(pty.unread)
           l == Len(pty.unread)
           u == Tail(pty.unread)
           Later(i) == Piece(i, pty'.printed, shell'.status)
<1>1. stage \in {"relay", "drain"} /\ stage' = stage /\ after' = after /\ shell' = shell /\ kin' = kin
      /\ sent' = sent /\ writing = <<>> /\ pty.unread # <<>> /\ Ordered /\ Progress
      /\ pty' = [pty EXCEPT !.unread = u]
      /\ writing' = <<<<"Data", n, "head">>, <<"Data", n, "body">>>>
  BY DEF ReadPty, Stream
<1>2. Passed \in Nat /\ pty.printed \in Nat /\ Len(sent) = 2 * Passed /\ Len(sent) \in Nat
      /\ l \in Nat /\ l <= pty.printed /\ pty.unread \in Seq(Nat)
  BY <1>1, Counts DEF Total, Progress, SessionTypes
<1>3. /\ Len(u) = l - 1 /\ u \in Seq(Nat) /\ n \in Nat /\ n = pty.unread[1] /\ l >= 1
      /\ \A i \in 1..Len(u) : u[i] = pty.unread[i + 1]
  BY <1>1, <1>2
<1> HIDE DEF l, n, u
<1>4. pty'.printed = pty.printed /\ pty'.unread = u
      /\ pty' \in [printed : Nat, unread : Seq(Nat)]
  BY <1>1, <1>3 DEF SessionTypes
<1>5. Passed = pty.printed - l
  BY DEF Passed, l
<1>6. Passed' = Passed + 1 /\ Passed + 1 <= pty.printed /\ l - 1 <= pty.printed
  <2> DEFINE q == Passed
             r == pty.printed
  <2>1. Passed' = r - (l - 1)
    BY <1>3, <1>4 DEF Passed
  <2>2. q \in Nat /\ r \in Nat /\ l \in Nat /\ l >= 1 /\ q = r - l
    BY <1>2, <1>3, <1>5
  <2> HIDE DEF q, r
  <2>3. r - (l - 1) = q + 1 /\ q + 1 <= r /\ l - 1 <= r
    BY <2>2
  <2> QED  BY <2>1, <2>3 DEF q, r
<1>7. \A i \in 1..Len(pty'.unread) : pty'.unread[i] = Passed' + i
  <2> SUFFICES ASSUME NEW i \in 1..Len(u) PROVE u[i] = Passed + 1 + i
    BY <1>4, <1>6
  <2>1. i + 1 \in 1..l /\ i \in Nat
    BY <1>2, <1>3
  <2>2. pty.unread[i + 1] = Passed + (i + 1)
    BY <2>1, <1>1 DEF Ordered, l
  <2> QED  BY <1>2, <1>3, <2>1, <2>2
<1>8. n = Passed + 1
  <2>1. 1 \in 1..l
    BY <1>2, <1>3
  <2> QED  BY <2>1, <1>1, <1>3 DEF Ordered, l
<1>9. /\ Later(2 * Passed + 1) = <<"Data", n, "head">>
      /\ Later(2 * Passed + 2) = <<"Data", n, "body">>
  <2>1. /\ 2 * Passed + 1 <= 2 * pty.printed /\ 2 * Passed + 2 <= 2 * pty.printed
        /\ (2 * Passed + 1) + 1 = 2 * Passed + 2 /\ (2 * Passed + 2) + 1 = 2 * Passed + 3
    BY <1>2, <1>6
  <2>2. /\ (2 * Passed + 1) % 2 = 1 /\ (2 * Passed + 2) % 2 = 0
        /\ (2 * Passed + 2) \div 2 = Passed + 1 /\ (2 * Passed + 3) \div 2 = Passed + 1
    BY <1>2, Halves
  <2>3. \A k \in Nat : k = 2 * Passed + 1 \/ k = 2 * Passed + 2 =>
            Later(k) = <<"Data", Passed + 1, IF k % 2 = 1 THEN "head" ELSE "body">>
    BY <1>2, <1>4, <2>1, <2>2 DEF Piece
  <2> DEFINE a == 2 * Passed + 1
             b == 2 * Passed + 2
  <2>4. a \in Nat /\ b \in Nat /\ a % 2 = 1 /\ b % 2 = 0
    BY <1>2, <2>2
  <2> HIDE DEF Later
  <2>5. /\ Later(a) = <<"Data", Passed + 1, IF a % 2 = 1 THEN "head" ELSE "body">>
        /\ Later(b) = <<"Data", Passed + 1, IF b % 2 = 1 THEN "head" ELSE "body">>
    BY <2>3, <2>4
  <2>6. Later(a) = <<"Data", n, "head">> /\ Later(b) = <<"Data", n, "body">>
    BY <2>4, <2>5, <1>8
  <2> QED  BY <2>6
<1>10. writing' \in Seq(Pieces) /\ Len(writing') = 2
       /\ writing'[1] = <<"Data", n, "head">> /\ writing'[2] = <<"Data", n, "body">>
  BY <1>1, <1>3 DEF Pieces
<1>11. sent' \in Seq(Pieces) /\ \A i \in 1..Len(sent') : sent'[i] = Later(i)
  <2>1. \A i \in 1..Len(sent) : Later(i) = Wanted(i)
    BY <1>1, <1>2, <1>4, WantedSame DEF Wanted
  <2> QED  BY <2>1, <1>1 DEF Ordered
<1>12. \A i \in 1..Len(writing') : writing'[i] = Later(Len(sent') + i)
  <2> SUFFICES ASSUME NEW i \in 1..2 PROVE writing'[i] = Later(2 * Passed + i)
    BY <1>1, <1>2, <1>10
  <2> QED  BY <1>9, <1>10
<1>13. Ordered'
  BY <1>7, <1>10, <1>11, <1>12 DEF Ordered, Wanted
<1>14. Total' = 2 * Passed'
  BY <1>1, <1>2, <1>6, <1>10 DEF Total
<1>15. Progress'
  <2>1. InOrder(Total)'
    BY <1>14, <1>6, <1>2 DEF InOrder
  <2> QED  BY <2>1, <1>14, <1>1 DEF Progress
<1> QED  BY <1>3, <1>4, <1>6, <1>13, <1>15 DEF Stream

LEMMA WritePartOrdered ==
    ASSUME SessionTypes, Ordered, InOrder(Total) \/ Through(Total), WritePart,
           UNCHANGED <<shell, kin, pty>>
    PROVE  /\ Ordered' /\ Total' = Total /\ Passed' = Passed
           /\ InOrder(Total) => InOrder(Total)'
           /\ Through(Total) => Through(Total)'
<1> DEFINE m == Len(sent)
           n == Len(writing)
           x == Head(writing)
           Later(i) == Piece(i, pty'.printed, shell'.status)
<1>1. /\ writing # <<>> /\ sent' = Append(sent, x) /\ writing' = Tail(writing)
      /\ sent \in Seq(Pieces) /\ writing \in Seq(Pieces)
  BY DEF WritePart, Ordered
<1>2. /\ m \in Nat /\ n \in Nat /\ n >= 1 /\ x \in Pieces /\ x = writing[1]
      /\ sent' \in Seq(Pieces) /\ Len(sent') = m + 1 /\ sent'[m + 1] = x
      /\ \A i \in 1..m : sent'[i] = sent[i]
  BY <1>1
<1>3. /\ writing' \in Seq(Pieces) /\ Len(writing') = n - 1
      /\ \A i \in 1..Len(writing') : writing'[i] = writing[i + 1]
  BY <1>1
<1> HIDE DEF m, n, x
<1>4. \A i \in Nat : Later(i) = Wanted(i)
  BY WantedSame DEF Wanted
<1>5. \A i \in 1..m : sent[i] = Wanted(i)
  BY DEF Ordered, m
<1>6. \A i \in 1..n : writing[i] = Wanted(m + i)
  BY DEF Ordered, m, n
<1>7. \A i \in 1..Len(sent') : sent'[i] = Later(i)
  <2> SUFFICES ASSUME NEW i \in 1..(m + 1) PROVE sent'[i] = Later(i)
    BY <1>2
  <2>1. CASE i = m + 1
    BY <2>1, <1>2, <1>4, <1>6
  <2>2. CASE i # m + 1
    BY <2>2, <1>2, <1>4, <1>5
  <2> QED  BY <2>1, <2>2
<1>8. \A i \in 1..Len(writing') : writing'[i] = Later(Len(sent') + i)
  <2> SUFFICES ASSUME NEW i \in 1..(n - 1) PROVE writing'[i] = Later(m + 1 + i)
    BY <1>2, <1>3
  <2>1. i + 1 \in 1..n /\ m + 1 + i = m + (i + 1) /\ m + 1 + i \in Nat
    BY <1>2
  <2>2. writing'[i] = writing[i + 1]
    BY <1>2, <1>3
  <2>3. writing[i + 1] = Wanted(m + (i + 1))
    BY <2>1, <1>6
  <2> QED  BY <2>1, <2>2, <2>3, <1>4
<1>9. Ordered'
  <2>1. Passed' = Passed
    BY DEF Passed
  <2>2. \A i \in 1..Len(pty'.unread) : pty'.unread[i] = Passed' + i
    BY <2>1 DEF Ordered
  <2> QED  BY <2>2, <1>2, <1>3, <1>7, <1>8 DEF Ordered, Wanted
<1>10. Total' = Total /\ Passed' = Passed
  <2>1. Total = m + n
    BY DEF Total, m, n
  <2>2. Total' = (m + 1) + (n - 1)
    BY <1>2, <1>3 DEF Total
  <2> QED  BY <1>2, <2>1, <2>2 DEF Passed
<1> QED  BY <1>9, <1>10 DEF InOrder, Through, Settled, Holding, Up

LEMMA PrintsKept ==
    ASSUME SessionTypes, Stream, Prints
    PROVE  Stream' /\ pty' \in [printed : Nat, unread : Seq(Nat)] /\ Len(pty'.unread) <= pty'.printed
<1> DEFINE l == Len(pty.unread)
           u == Append(pty.unread, pty.printed + 1)
           Later(i) == Piece(i, pty'.printed, shell'.status)
<1>1. /\ ~PtyEof /\ ~Settled /\ Ordered /\ Progress
      /\ UNCHANGED <<stage, after, shell, kin, sent, writing>>
      /\ pty' = [printed |-> pty.printed + 1, unread |-> u]
  BY DEF Prints, PtyEof, Settled, Holding, Up, Stream, wire
<1>2. /\ pty.unread \in Seq(Nat) /\ pty.printed \in Nat /\ l \in Nat /\ l <= pty.printed
      /\ Passed \in Nat /\ Passed <= pty.printed /\ Len(sent) \in Nat /\ Len(writing) \in Nat
  BY <1>1, Counts DEF SessionTypes
<1>3. u \in Seq(Nat) /\ Len(u) = l + 1 /\ u[l + 1] = pty.printed + 1 /\ \A i \in 1..l : u[i] = pty.unread[i]
  BY <1>2
<1>4. pty'.printed = pty.printed + 1 /\ pty'.unread = u /\ pty' \in [printed : Nat, unread : Seq(Nat)]
  BY <1>1, <1>2, <1>3
<1> HIDE DEF l, u
<1>5. Passed = pty.printed - l
  BY DEF Passed, l
<1>6. Passed' = Passed /\ l + 1 <= pty.printed + 1
  <2>1. Passed' = (pty.printed + 1) - (l + 1)
    BY <1>3, <1>4 DEF Passed
  <2> QED  BY <2>1, <1>2, <1>5
<1>7. \A i \in 1..Len(pty'.unread) : pty'.unread[i] = Passed' + i
  <2> SUFFICES ASSUME NEW i \in 1..(l + 1) PROVE u[i] = Passed + i
    BY <1>3, <1>4, <1>6
  <2>1. CASE i = l + 1
    BY <2>1, <1>2, <1>3, <1>5
  <2>2. CASE i # l + 1
    <3>1. i \in 1..l
      BY <2>2, <1>2
    <3> QED  BY <3>1, <1>1, <1>3 DEF Ordered, l
  <2> QED  BY <2>1, <2>2
<1>8. InOrder(Total)
  BY <1>1 DEF Progress, Through
<1>9. Total' = Total /\ InOrder(Total)'
  BY <1>1, <1>6, <1>8 DEF Total, InOrder
<1>10. \A i \in 1..Total : Later(i) = Wanted(i)
  <2>1. \A i \in 1..Total : i <= 2 * pty.printed /\ i <= 2 * pty'.printed
    BY <1>2, <1>4, <1>8 DEF InOrder, Total
  <2> QED  BY <2>1 DEF Wanted, Piece
<1>11. \A i \in 1..Len(sent) : i \in 1..Total
  BY <1>2 DEF Total
<1>12. \A i \in 1..Len(writing) : Len(sent) + i \in 1..Total
  BY <1>2 DEF Total
<1>13. Ordered'
  <2>1. \A i \in 1..Len(sent) : sent[i] = Later(i)
    BY <1>1, <1>10, <1>11 DEF Ordered
  <2>2. \A i \in 1..Len(writing) : writing[i] = Later(Len(sent) + i)
    BY <1>1, <1>10, <1>12 DEF Ordered
  <2> QED  BY <2>1, <2>2, <1>1, <1>7 DEF Ordered, Wanted
<1>14. Progress'
  BY <1>1, <1>6, <1>9 DEF Progress, Through, Emptied
<1> QED  BY <1>3, <1>4, <1>6, <1>13, <1>14 DEF Stream

(***************************************************************************)
(* Each step.                                                              *)
(***************************************************************************)
(* Nothing moves on the channel, and the session stays where it is.        *)
LEMMA StandsKept ==
    ASSUME SessionTypes, Stream, ShellKept, KinKept,
           UNCHANGED <<pty, sent, writing, stage, after>>
    PROVE  Stream'
<1>1. Ordered' /\ Passed' = Passed /\ Total' = Total
      /\ (InOrder(Total) => InOrder(Total)') /\ (Through(Total) => Through(Total)')
      /\ (PtyEof => PtyEof')
  BY Steady DEF Stream, Progress
<1>2. Progress'
  BY <1>1 DEF Stream, Progress, Emptied, ShellKept
<1> QED  BY <1>1, <1>2 DEF Stream

(* The session only has to end.                                            *)
LEMMA EndsKept ==
    ASSUME SessionTypes, Stream, ShellKept, KinKept, UNCHANGED <<pty, sent>>,
           writing' \in {writing, <<>>}, stage' \in {"closing", "over"}
    PROVE  Stream'
<1>1. Ordered' /\ (InOrder(Total) => InOrder(Total)') /\ (Through(Total) => Through(Total)')
  BY Steady DEF Stream, Progress
<1>2. Progress'
  BY <1>1 DEF Stream, Progress
<1> QED  BY <1>1, <1>2 DEF Stream

LEMMA TerminateKept ==
    ASSUME SessionTypes, Stream, RunsAsUser, NEW what \in {"exit", "closing"}, Terminate(what),
           stage \in {"relay", "awaiting"}, what = "exit" => stage = "awaiting"
    PROVE  Stream' /\ ShellKept /\ KinKept
<1>1. ShellKept /\ KinKept
  BY ShellTermed, KinSignalled DEF Terminate
<1>2. stage' = "terminating" /\ after' = what /\ UNCHANGED <<pty, sent>> /\ writing' = <<>>
  BY DEF Terminate
<1>3. Ordered' /\ Passed' = Passed /\ (InOrder(Total) => InOrder(Total)') /\ (PtyEof => PtyEof')
      /\ (writing' = writing => Total' = Total)
  BY <1>1, <1>2, Steady DEF Stream, Progress
<1>4. InOrder(Total)
  <2>1. stage = "relay" => Total = 2 * Passed
    BY DEF Stream, Progress
  <2>2. stage = "relay" => InOrder(Total)
    BY <2>1, Counts DEF InOrder, Stream
  <2> QED  BY <2>2 DEF Stream, Progress
<1>5. what = "exit" => Emptied'
  BY <1>2, <1>3 DEF Stream, Progress, Emptied
<1>6. Progress'
  BY <1>2, <1>3, <1>4, <1>5 DEF Progress
<1> QED  BY <1>1, <1>3, <1>6 DEF Stream

(* What follows a termination, and a wait for the shell.                   *)
LEMMA ProceedKept ==
    ASSUME SessionTypes, Stream, ShellKept, KinKept, UNCHANGED <<pty, sent>>, Proceed,
           stage \in {"terminating", "killing"},
           shell'.proc.state = "reaped", shell'.status = shell.status
    PROVE  Stream'
<1>1. writing = <<>> /\ (after = "exit" => PtyEof /\ Total = 2 * Passed) /\ Ordered
      /\ after \in {"exit", "closing"}
  BY DEF Stream, Progress, Emptied, SessionTypes
<1>2. CASE after = "exit"
  BY <1>1, <1>2, ReportKept DEF Proceed
<1>3. CASE after = "closing"
  BY <1>1, <1>3, EndsKept DEF Proceed
<1> QED  BY <1>1, <1>2, <1>3

LEMMA WriteExitKept ==
    ASSUME SessionTypes, Stream, RunsAsUser, WriteExit
    PROVE  Stream'
<1>1. stage = "exit" /\ UNCHANGED <<after, shell, kin, pty>> /\ Through(Total) /\ Ordered
  BY DEF WriteExit, Stream, Progress
<1>2. CASE WritePart /\ stage' \in {"closing", stage}
  <2>1. Ordered' /\ Through(Total)'
    BY <1>1, <1>2, WritePartOrdered
  <2>2. Progress'
    BY <1>1, <1>2, <2>1 DEF Progress
  <2> QED  BY <2>1, <2>2 DEF Stream
<1>3. CASE End("unreported") /\ UNCHANGED wire
  <2>1. stage' = "over" /\ sent' = sent /\ writing' = writing
    BY <1>3 DEF End, wire
  <2> QED  BY <1>1, <2>1, EndsKept, SameShell, SameKin
<1> QED  BY <1>2, <1>3 DEF WriteExit

LEMMA WriteDataKept ==
    ASSUME SessionTypes, Stream, WriteData
    PROVE  Stream'
<1>1. stage \in {"relay", "drain"} /\ WritePart /\ UNCHANGED <<stage, after, shell, kin, pty>>
      /\ Ordered /\ Progress /\ (InOrder(Total) \/ Through(Total)) /\ Total = 2 * Passed
  BY DEF WriteData, Stream, Progress
<1>2. Ordered' /\ Total' = Total /\ Passed' = Passed
      /\ (InOrder(Total) => InOrder(Total)') /\ (Through(Total) => Through(Total)')
  BY <1>1, WritePartOrdered
<1>3. Progress'
  BY <1>1, <1>2 DEF Progress
<1> QED  BY <1>2, <1>3 DEF Stream

LEMMA ForkKept ==
    ASSUME SessionTypes, Credentials, Stream, Fork
    PROVE  SessionTypes' /\ Credentials' /\ Stream'
<1> DEFINE p == [shell.proc EXCEPT !.state = "setup", !.holds = TRUE]
<1>1. shell.proc.state = "none" /\ stage = "starting" /\ Total = 2 * Passed /\ stage' = "relay"
      /\ UNCHANGED <<after, agent, kin, pty, sent, writing, hub, timer>> /\ Prepared
      /\ Ordered /\ Progress
  BY DEF Fork, Stream, Progress, wire
<1>2. shell' = [shell EXCEPT !.proc = p]
  BY DEF Fork, SessionTypes, Shells
<1>3. p \in Processes /\ p.state = "setup"
  BY DEF SessionTypes, Shells, Processes
<1> HIDE DEF p
<1>4. shell' \in Shells /\ shell'.proc.state = "setup" /\ shell'.status = shell.status
  BY <1>2, <1>3 DEF SessionTypes, Shells
<1>5. SessionTypes'
  BY <1>1, <1>4 DEF SessionTypes, Stages
<1>6. Credentials'
  BY <1>1, <1>4 DEF Credentials, RunsAsUser, Prepared
<1>7. Total' = Total /\ Passed' = Passed
  BY <1>1 DEF Total, Passed
<1>9. Ordered'
  BY <1>1, <1>4, <1>7 DEF Ordered, Wanted
<1>10. InOrder(Total)'
  BY <1>1, <1>7, Counts DEF InOrder
<1>11. Progress'
  BY <1>1, <1>7, <1>10 DEF Progress
<1> QED  BY <1>5, <1>6, <1>9, <1>11 DEF Stream

(* What remains to be shown of a step that leaves the PTY to the relays.   *)
LEMMA ControlKept ==
    ASSUME SessionTypes, Credentials, ShellKept, KinKept, agent' = agent,
           stage' \in Stages, after' \in {"exit", "closing"}, timer' \in Nat,
           hub' \in {"open", "mute", "gone"},
           pty' \in [printed : Nat, unread : Seq(Nat)], Len(pty'.unread) <= pty'.printed
    PROVE  SessionTypes' /\ Credentials'
  BY DEF SessionTypes, Credentials, ShellKept, KinKept, RunsAsUser, Prepared

SessionInv == SessionTypes /\ Credentials /\ Stream

LEMMA SessionInitially == SessionInit => SessionInv
<1> SUFFICES ASSUME SessionInit PROVE SessionInv
  OBVIOUS
<1>1. agent \in Users /\ agent \in Ids /\ NoProcess \in Processes
  BY UserTypes DEF SessionInit, Users
<1>2. shell = [proc |-> NoProcess, creds |-> agent, status |-> "none"] /\ kin = NoProcess
  BY DEF SessionInit
<1>3. shell \in Shells /\ shell.proc = NoProcess
  BY <1>1, <1>2 DEF Shells, Statuses
<1>4. NoProcess.state = "none"
  BY DEF NoProcess
<1>5. pty.printed = 0 /\ pty.unread = <<>> /\ pty \in [printed : Nat, unread : Seq(Nat)]
      /\ Len(pty.unread) = 0 /\ sent = <<>> /\ Len(sent) = 0 /\ writing = <<>>
      /\ Len(writing) = 0 /\ stage = "starting"
  BY DEF SessionInit
<1>6. SessionTypes
  BY <1>1, <1>2, <1>3, <1>5 DEF SessionInit, SessionTypes, Stages
<1>7. Credentials
  BY <1>3, <1>4 DEF Credentials, RunsAsUser
<1>8. Passed = 0 /\ Total = 0
  <2>1. pty.printed - Len(pty.unread) = 0 - 0 /\ Len(sent) + Len(writing) = 0 + 0
    BY <1>5
  <2> QED  BY <2>1 DEF Passed, Total
<1>9. Ordered
  BY <1>5 DEF Ordered
<1>10. Progress
  BY <1>3, <1>4, <1>5, <1>8 DEF Progress, InOrder
<1> QED  BY <1>6, <1>7, <1>9, <1>10 DEF SessionInv, Stream

LEMMA Graces == TermGrace \in Nat /\ DrainGrace \in Nat
  BY GraceAssumption

LEMMA SessionKept == SessionInv /\ Session => SessionInv'
<1> SUFFICES ASSUME SessionTypes, Credentials, Stream, Session
             PROVE  SessionTypes' /\ Credentials' /\ Stream'
  BY DEF SessionInv
<1>1. RunsAsUser /\ stage \in Stages /\ after \in {"exit", "closing"} /\ timer \in Nat
      /\ hub \in {"open", "mute", "gone"} /\ pty \in [printed : Nat, unread : Seq(Nat)]
      /\ Len(pty.unread) <= pty.printed /\ Ordered /\ Progress
  BY DEF Credentials, SessionTypes, Stream
<1>2. CASE Refuse
  <2>1. stage' = "over" /\ UNCHANGED <<after, agent, shell, kin, pty, hub, writing, sent, timer>>
    BY <1>2 DEF Refuse, End, wire
  <2>2. ShellKept /\ KinKept
    BY <2>1, <1>1, SameShell, SameKin
  <2> QED  BY <1>1, <2>1, <2>2, EndsKept, ControlKept DEF Stages
<1>3. CASE Fork
  BY <1>3, ForkKept
<1>4. ASSUME NEW what \in {"exit", "closing"}, Terminate(what),
             stage \in {"relay", "awaiting"}, what = "exit" => stage = "awaiting"
      PROVE  SessionTypes' /\ Credentials' /\ Stream'
  <2>1. Stream' /\ ShellKept /\ KinKept
    BY <1>1, <1>4, TerminateKept
  <2>2. stage' = "terminating" /\ after' = what /\ timer' = TermGrace
        /\ UNCHANGED <<agent, pty, hub>>
    BY <1>4 DEF Terminate
  <2> QED  BY <1>1, <2>1, <2>2, ControlKept, Graces DEF Stages
<1>5. CASE ParentSetupFails
  BY <1>4, <1>5 DEF ParentSetupFails
<1>6. CASE Cancelled
  BY <1>4, <1>6 DEF Cancelled
<1>7. CASE ChannelEnds
  BY <1>4, <1>7 DEF ChannelEnds
<1>8. CASE PtyFails
  BY <1>4, <1>8 DEF PtyFails
<1>9. CASE AwaitTimesOut
  BY <1>4, <1>9 DEF AwaitTimesOut
<1>10. CASE ReadPty
  <2>1. Stream' /\ pty' \in [printed : Nat, unread : Seq(Nat)] /\ Len(pty'.unread) <= pty'.printed
    BY <1>10, ReadPtyKept
  <2>2. UNCHANGED <<stage, after, agent, shell, kin, hub, timer>>
    BY <1>10 DEF ReadPty
  <2>3. ShellKept /\ KinKept
    BY <2>2, <1>1, SameShell, SameKin
  <2> QED  BY <1>1, <2>1, <2>2, <2>3, ControlKept
<1>11. CASE WriteData
  <2>1. UNCHANGED <<stage, after, agent, shell, kin, hub, timer, pty>>
    BY <1>11 DEF WriteData
  <2>2. ShellKept /\ KinKept
    BY <2>1, <1>1, SameShell, SameKin
  <2> QED  BY <1>1, <1>11, <2>1, <2>2, ControlKept, WriteDataKept
<1>12. CASE PtyEnds
  <2>1. stage = "relay" /\ stage' = "awaiting" /\ timer' = TermGrace /\ PtyEof /\ writing = <<>>
        /\ UNCHANGED <<after, agent, shell, kin, pty, hub, sent, writing>>
    BY <1>12 DEF PtyEnds, wire
  <2>2. ShellKept /\ KinKept
    BY <2>1, <1>1, SameShell, SameKin
  <2>3. Ordered' /\ Passed' = Passed /\ Total' = Total /\ PtyEof'
        /\ (InOrder(Total) => InOrder(Total)')
    BY <1>1, <2>1, <2>2, Steady DEF Progress
  <2>4. Total = 2 * Passed /\ InOrder(Total)
    BY <1>1, <2>1, Counts DEF Progress, InOrder
  <2>5. Progress'
    BY <2>1, <2>3, <2>4 DEF Progress, Emptied
  <2> QED  BY <1>1, <2>1, <2>2, <2>3, <2>5, ControlKept, Graces DEF Stages, Stream
<1>13. CASE ShellEnds
  <2>1. stage = "relay" /\ stage' = "drain" /\ timer' = DrainGrace /\ Reaped
        /\ UNCHANGED <<after, agent, kin, pty, hub, sent, writing>>
    BY <1>13 DEF ShellEnds, wire
  <2>2. ShellKept /\ KinKept /\ shell'.proc.state = "reaped"
    BY <2>1, <1>1, ReapedKept, SameKin
  <2>3. Ordered' /\ Passed' = Passed /\ Total' = Total
        /\ (InOrder(Total) => InOrder(Total)') /\ (Through(Total) => Through(Total)')
    BY <1>1, <2>1, <2>2, Steady DEF Progress
  <2>4. Progress'
    BY <1>1, <2>1, <2>2, <2>3 DEF Progress
  <2> QED  BY <1>1, <2>1, <2>2, <2>3, <2>4, ControlKept, Graces DEF Stages, Stream
<1>14. CASE Drained
  <2>1. stage = "drain" /\ stage' = "exit" /\ PtyEof /\ writing = <<>> /\ writing' = ExitFrame
        /\ kin' = Killed(kin) /\ UNCHANGED <<after, agent, shell, pty, hub, sent, timer>>
    BY <1>14 DEF Drained, Report
  <2>2. ShellKept /\ KinKept
    BY <2>1, <1>1, SameShell, KinSignalled
  <2>3. shell.proc.state = "reaped" /\ Total = 2 * Passed
    BY <1>1, <2>1 DEF Progress
  <2> QED  BY <1>1, <2>1, <2>2, <2>3, ReportKept, ControlKept DEF Stages
<1>15. CASE DrainFails
  <2>1. stage' = "closing" /\ writing' = <<>>
        /\ UNCHANGED <<after, agent, shell, kin, pty, hub, sent, timer>>
    BY <1>15 DEF DrainFails
  <2>2. ShellKept /\ KinKept
    BY <2>1, <1>1, SameShell, SameKin
  <2> QED  BY <1>1, <2>1, <2>2, EndsKept, ControlKept DEF Stages
<1>16. CASE AwaitedShell
  <2>1. stage = "awaiting" /\ stage' = "exit" /\ Reaped /\ writing' = ExitFrame
        /\ kin' = Killed(kin) /\ UNCHANGED <<after, agent, pty, hub, sent, timer>>
    BY <1>16 DEF AwaitedShell, Report
  <2>2. ShellKept /\ KinKept /\ shell'.proc.state = "reaped"
    BY <2>1, <1>1, ReapedKept, KinSignalled
  <2>3. writing = <<>> /\ PtyEof /\ Total = 2 * Passed
    BY <1>1, <2>1 DEF Progress, Emptied
  <2>4. shell'.status = shell.status
    BY <2>1 DEF Reaped, SessionTypes, Shells
  <2> QED  BY <1>1, <2>1, <2>2, <2>3, <2>4, ReportKept, ControlKept DEF Stages
<1>17. ASSUME Reaped, Proceed, KinKept, stage \in {"terminating", "killing"},
              UNCHANGED <<after, agent, pty, hub, sent, timer>>
       PROVE  SessionTypes' /\ Credentials' /\ Stream'
  <2>1. ShellKept /\ shell'.proc.state = "reaped"
    BY <1>17, <1>1, ReapedKept
  <2>2. shell'.status = shell.status
    BY <1>17 DEF Reaped, SessionTypes, Shells
  <2>3. stage' \in Stages
    BY <1>17, <1>1 DEF Proceed, Stages
  <2> QED  BY <1>1, <1>17, <2>1, <2>2, <2>3, ProceedKept, ControlKept
<1>18. CASE Terminated
  BY <1>17, <1>18, KinSignalled DEF Terminated
<1>19. CASE KilledReaped
  BY <1>17, <1>19, SameKin DEF KilledReaped
<1>20. CASE TermTimesOut
  <2>1. stage = "terminating" /\ stage' = "killing" /\ KillGroup
        /\ UNCHANGED <<after, agent, pty, hub, sent, writing, timer>>
    BY <1>20 DEF TermTimesOut, wire
  <2>2. ShellKept /\ KinKept
    BY <2>1, <1>1, ShellKilled, KinSignalled DEF KillGroup
  <2>3. Ordered' /\ Passed' = Passed /\ Total' = Total /\ (PtyEof => PtyEof')
        /\ (InOrder(Total) => InOrder(Total)')
    BY <1>1, <2>1, <2>2, Steady DEF Progress
  <2>4. Progress'
    BY <1>1, <2>1, <2>3 DEF Progress, Emptied
  <2> QED  BY <1>1, <2>1, <2>2, <2>3, <2>4, ControlKept DEF Stages, Stream
<1>21. CASE WriteExit
  <2>1. stage' \in Stages /\ UNCHANGED <<after, agent, shell, kin, pty, hub, timer>>
    BY <1>21, <1>1 DEF WriteExit, End, wire, Stages
  <2>2. ShellKept /\ KinKept
    BY <2>1, <1>1, SameShell, SameKin
  <2> QED  BY <1>1, <1>21, <2>1, <2>2, WriteExitKept, ControlKept
<1>22. CASE Shutdown
  <2>1. stage' = "over" /\ UNCHANGED <<after, agent, shell, kin, pty, hub, writing, sent, timer>>
    BY <1>22 DEF Shutdown, End, wire
  <2>2. ShellKept /\ KinKept
    BY <2>1, <1>1, SameShell, SameKin
  <2> QED  BY <1>1, <2>1, <2>2, EndsKept, ControlKept DEF Stages
<1> QED
  BY <1>2, <1>3, <1>5, <1>6, <1>7, <1>8, <1>9, <1>10, <1>11, <1>12, <1>13, <1>14, <1>15,
     <1>16, <1>18, <1>19, <1>20, <1>21, <1>22 DEF Session

LEMMA AroundKept == SessionInv /\ (ConnectionDrops \/ AbortSession \/ Environment \/ Tick) => SessionInv'
<1> SUFFICES ASSUME SessionTypes, Credentials, Stream,
                    ConnectionDrops \/ AbortSession \/ Environment \/ Tick
             PROVE  SessionTypes' /\ Credentials' /\ Stream'
  BY DEF SessionInv
<1>1. RunsAsUser /\ stage \in Stages /\ after \in {"exit", "closing"} /\ timer \in Nat
      /\ hub \in {"open", "mute", "gone"} /\ pty \in [printed : Nat, unread : Seq(Nat)]
      /\ Len(pty.unread) <= pty.printed
  BY DEF Credentials, SessionTypes
<1>2. ASSUME ShellKept, KinKept, UNCHANGED <<pty, sent, writing, stage, after, agent>>,
             timer' \in Nat, hub' \in {"open", "mute", "gone"}
      PROVE  SessionTypes' /\ Credentials' /\ Stream'
  BY <1>1, <1>2, StandsKept, ControlKept
<1>3. ASSUME UNCHANGED <<pty, sent, writing, stage, after, agent, shell, kin>>,
             timer' \in Nat, hub' \in {"open", "mute", "gone"}
      PROVE  SessionTypes' /\ Credentials' /\ Stream'
  BY <1>1, <1>2, <1>3, SameShell, SameKin
<1>4. CASE ConnectionDrops
  BY <1>1, <1>3, <1>4 DEF ConnectionDrops
<1>5. CASE AbortSession
  <2>1. stage' = "over" /\ UNCHANGED <<after, agent, shell, kin, pty, hub, writing, sent, timer>>
    BY <1>5 DEF AbortSession, End, wire
  <2>2. ShellKept /\ KinKept
    BY <2>1, <1>1, SameShell, SameKin
  <2> QED  BY <1>1, <2>1, <2>2, EndsKept, ControlKept DEF Stages
<1>6. CASE ChildSetup
  <2>1. UNCHANGED <<pty, sent, writing, stage, after, agent, kin, timer, hub>>
    BY <1>6 DEF ChildSetup, wire
  <2> QED  BY <1>1, <1>2, <1>6, <2>1, ChildSetupKept, SameKin
<1>7. CASE ShellMoves
  <2>1. UNCHANGED <<pty, sent, writing, stage, after, agent, kin, timer, hub>>
    BY <1>7 DEF ShellMoves, wire
  <2> QED  BY <1>1, <1>2, <1>7, <2>1, ShellMovesKept, SameKin
<1>8. CASE ShellForks
  <2>1. UNCHANGED <<pty, sent, writing, stage, after, agent, shell, timer, hub>>
    BY <1>8 DEF ShellForks, wire
  <2> QED  BY <1>1, <1>2, <1>8, <2>1, ShellForksKept, SameShell
<1>9. CASE KinMoves
  <2>1. UNCHANGED <<pty, sent, writing, stage, after, agent, shell, timer, hub>>
    BY <1>9 DEF KinMoves, wire
  <2> QED  BY <1>1, <1>2, <1>9, <2>1, KinMovesKept, SameShell
<1>10. CASE Prints
  <2>1. Stream' /\ pty' \in [printed : Nat, unread : Seq(Nat)] /\ Len(pty'.unread) <= pty'.printed
    BY <1>10, PrintsKept
  <2>2. UNCHANGED <<stage, after, agent, shell, kin, hub, timer>>
    BY <1>10 DEF Prints, wire
  <2>3. ShellKept /\ KinKept
    BY <2>2, <1>1, SameShell, SameKin
  <2> QED  BY <1>1, <2>1, <2>2, <2>3, ControlKept
<1>11. CASE TypeInput
  BY <1>1, <1>3, <1>11 DEF TypeInput, wire
<1>12. CASE ShellReads
  BY <1>1, <1>3, <1>12 DEF ShellReads, wire
<1>13. CASE HubReads
  BY <1>1, <1>3, <1>13 DEF HubReads
<1>14. CASE HubEnds
  BY <1>1, <1>3, <1>14 DEF HubEnds
<1>15. CASE CancelSession
  BY <1>1, <1>3, <1>15 DEF CancelSession, wire
<1>16. CASE Tick
  <2>1. timer' \in Nat
    BY <1>1, <1>16 DEF Tick
  <2> QED  BY <1>1, <1>3, <1>16, <2>1 DEF Tick, wire
<1> QED
  BY <1>4, <1>5, <1>6, <1>7, <1>8, <1>9, <1>10, <1>11, <1>12, <1>13, <1>14, <1>15, <1>16
  DEF Environment

LEMMA SessionInvariant == SessionSpec => []SessionInv
<1>1. SessionInv /\ [SessionNext]_sessionVars => SessionInv'
  <2>1. SessionInv /\ UNCHANGED sessionVars => SessionInv'
    <3> SUFFICES ASSUME SessionInv, UNCHANGED sessionVars PROVE SessionInv'
      OBVIOUS
    <3>1. UNCHANGED <<stage, after, agent, shell, kin, pty, hub, writing, sent, timer>>
      BY DEF sessionVars, wire
    <3>2. SessionTypes /\ Credentials /\ Stream /\ RunsAsUser
      BY DEF SessionInv, Credentials
    <3>3. ShellKept /\ KinKept
      BY <3>1, <3>2, SameShell, SameKin
    <3>4. Stream'
      BY <3>1, <3>2, <3>3, StandsKept
    <3> QED  BY <3>1, <3>2, <3>3, <3>4, ControlKept DEF SessionTypes, SessionInv
  <2> QED  BY <2>1, SessionKept, AroundKept DEF SessionNext, Prompt
<1> QED  BY <1>1, SessionInitially, PTL DEF SessionSpec

(* The shell runs with the credentials of the requested user.              *)
THEOREM ShellIsTheUser == SessionSpec => []RunsAsUser
<1>1. SessionInv => RunsAsUser
  BY DEF SessionInv, Credentials
<1> QED  BY <1>1, SessionInvariant, PTL

LEMMA StreamRead == SessionInv => HubStream
<1> SUFFICES ASSUME SessionTypes, Ordered, Progress, NEW i \in 1..Len(sent)
             PROVE  LET part == sent[i] IN
                    /\ part[3] = IF i % 2 = 1 THEN "head" ELSE "body"
                    /\ part[1] = "Data" => part[2] = (i + 1) \div 2
                    /\ part[1] = "Exit" =>
                          /\ (i + 1) \div 2 = pty.printed + 1
                          /\ part[2] = shell.status /\ shell.proc.state = "reaped"
  BY DEF SessionInv, Stream, HubStream
<1>1. sent[i] = Piece(i, pty.printed, shell.status)
  BY DEF Ordered, Wanted
<1>2. i \in Nat /\ i >= 1 /\ i <= Total /\ pty.printed \in Nat /\ Passed <= pty.printed
      /\ Passed \in Nat /\ Total \in Nat
  BY Counts DEF Total
<1>3. sent[i][3] = IF i % 2 = 1 THEN "head" ELSE "body"
  BY <1>1 DEF Piece
<1>4. CASE i <= 2 * pty.printed
  BY <1>1, <1>3, <1>4 DEF Piece
<1>5. CASE ~(i <= 2 * pty.printed)
  <2>1. Through(Total)
    BY <1>2, <1>5 DEF Progress, InOrder
  <2>2. shell.proc.state = "reaped" /\ i <= 2 * pty.printed + 2
    BY <2>1, <1>2 DEF Through, Settled, Total
  <2> DEFINE p == pty.printed
  <2> HIDE DEF p
  <2>3. i = 2 * p + 1 \/ i = 2 * p + 2
    <3>1. p \in Nat /\ i \in Nat /\ ~(i <= 2 * p) /\ i <= 2 * p + 2
      BY <1>2, <1>5, <2>2 DEF p
    <3> QED  BY <3>1
  <2>4. (i + 1) \div 2 = pty.printed + 1
    BY <1>2, <2>3 DEF p
  <2>5. sent[i][1] = "Exit" /\ sent[i][2] = shell.status
    BY <1>1, <1>5 DEF Piece
  <2> QED  BY <1>3, <2>2, <2>4, <2>5
<1> QED  BY <1>4, <1>5

(* What the hub reads are whole frames with the output in order, and the   *)
(* status last, behind all of it.                                          *)
THEOREM HubReadsTrue == SessionSpec => []HubStream
BY StreamRead, SessionInvariant, PTL

(***************************************************************************)
(* What is left behind.                                                    *)
(***************************************************************************)
(* The ticks a timer of the session has left are ticks of the supervisor's *)
(* grace, which therefore does not run out before a termination is over.   *)
Clocks ==
    /\ signalled \in BOOLEAN /\ grace \in 0..ShutdownGrace /\ timer \in 0..TermGrace
    /\ ~signalled \/ stage \in {"starting", "relay"} => grace = ShutdownGrace
    /\ stage = "drain" => grace + DrainGrace >= ShutdownGrace + timer
    /\ stage = "awaiting" \/ (stage = "terminating" /\ after = "closing") =>
          grace + TermGrace >= ShutdownGrace + timer
    /\ stage = "killing" /\ after = "closing" => grace > 0
    /\ stage = "closing" /\ outcome = "undrained" => grace > 0

Gone == ~Up(shell.proc) /\ ~Up(kin) /\ shell.proc.state # "dead"
Remains ==
    \/ Gone
    \/ outcome = "undrained" /\ shell.proc.state = "reaped"
    \/ outcome = "aborted" /\ after = "exit"

Family ==
    /\ shell.proc.state \in {"none", "setup"} => kin.state = "none"
    /\ stage \in {"relay", "awaiting", "terminating"} =>
          shell.proc.state \in {"setup", "alive", "dead"}
    /\ stage = "killing" => shell.proc.state = "dead" /\ ~Up(kin)
    /\ stage = "exit" => shell.proc.state = "reaped" /\ ~Up(kin)
    /\ stage = "closing" => shell.proc.state = "reaped" /\ (~Up(kin) \/ outcome = "undrained")
    /\ stage \notin {"closing", "over"} => outcome = "none"
    /\ stage = "closing" => outcome \in {"none", "undrained"}
    /\ stage = "over" => Remains

(* The rest of the types.                                                  *)
Bounds ==
    /\ pty.printed \in 0..MaxOutput
    /\ input.sent \in 0..MaxInput /\ input.typed \in 0..1
    /\ taken \in 0..Len(sent) /\ Len(sent) - taken <= WindowSize

LeavingInv == Clocks /\ Family

LEMMA GraceFacts ==
    /\ DrainGrace \in Nat /\ TermGrace \in Nat /\ ShutdownGrace \in Nat
    /\ DrainGrace < TermGrace /\ TermGrace < ShutdownGrace
  BY GraceAssumption

(* The processes move by themselves.                                       *)
LEMMA FamilyMoves ==
    ASSUME Family, UNCHANGED <<stage, after, outcome>>,
           \/ UNCHANGED <<shell, kin>>
           \/ /\ Up(shell.proc) /\ shell'.proc.state \in {"alive", "dead"} /\ kin' = kin
              /\ stage # "starting"
           \/ shell' = shell /\ (Up(kin) \/ shell.proc.state = "alive")
    PROVE  Family'
  BY DEF Family, Remains, Gone, Up

LEMMA ShellStates ==
    ASSUME SessionTypes
    PROVE  /\ ChildSetup => Up(shell.proc) /\ shell'.proc.state \in {"alive", "dead"}
           /\ ShellMoves => Up(shell.proc) /\ shell'.proc.state \in {"alive", "dead"}
           /\ Reaped => shell'.proc.state = "reaped"
<1>1. ChildSetup => Up(shell.proc) /\ shell'.proc.state \in {"alive", "dead"}
  BY DEF ChildSetup, SessionTypes, Shells, Processes, Up
<1>2. ShellMoves => Up(shell.proc) /\ shell'.proc.state \in {"alive", "dead"}
  <2> SUFFICES ASSUME ShellMoves
               PROVE  Up(shell.proc) /\ shell'.proc.state \in {"alive", "dead"}
    OBVIOUS
  <2>1. shell \in Shells /\ shell.proc \in Processes
    BY DEF SessionTypes, Shells
  <2>2. CASE shell.proc.state = "alive" /\ shell' = [shell EXCEPT !.proc.holds = FALSE]
    BY <2>1, <2>2 DEF Shells, Processes, Up
  <2>3. ASSUME NEW st \in {"ok", "term"}, Up(shell.proc),
               shell' = [shell EXCEPT !.proc.state = "dead", !.status = st]
        PROVE  shell'.proc.state = "dead"
    BY <2>1, <2>3 DEF Shells, Processes
  <2>4. CASE /\ shell.proc.state = "alive"
             /\ shell' = [shell EXCEPT !.proc.state = "dead", !.status = "ok"]
    <3>1. Up(shell.proc)
      BY <2>4 DEF Up
    <3> QED  BY <2>3, <2>4, <3>1
  <2>5. CASE Obeys(shell.proc) /\ shell' = [shell EXCEPT !.proc.state = "dead", !.status = "term"]
    BY <2>3, <2>5 DEF Obeys
  <2> QED  BY <2>2, <2>4, <2>5 DEF ShellMoves
<1>3. Reaped => shell'.proc.state = "reaped"
  BY DEF Reaped, SessionTypes, Shells, Processes
<1> QED  BY <1>1, <1>2, <1>3

LEMMA SessionLeaves == SessionInv /\ LeavingInv /\ Session => LeavingInv'
<1> SUFFICES ASSUME SessionTypes, Progress, Clocks, Family, Session PROVE Clocks' /\ Family'
  BY DEF SessionInv, LeavingInv, Stream
<1> USE GraceFacts
<1>1. shell.proc.state \in {"none", "setup", "alive", "dead", "reaped"} /\ kin \in Processes
      /\ shell \in Shells /\ shell.proc \in Processes /\ after \in {"exit", "closing"}
  BY DEF SessionTypes, Shells, Processes
<1>2. CASE Refuse
  <2>1. Clocks'
    BY <1>2 DEF Refuse, End, Clocks, supervisor
  <2>2. Gone
    BY <1>1, <1>2 DEF Refuse, Progress, Family, Gone, Up
  <2>3. Family'
    BY <1>2, <2>2 DEF Refuse, End, Family, Remains, Gone, Up
  <2> QED  BY <2>1, <2>3
<1>3. CASE Fork
  <2>1. Clocks'
    BY <1>3 DEF Fork, Clocks, supervisor
  <2>2. shell'.proc.state = "setup" /\ kin.state = "none" /\ kin' = kin /\ stage' = "relay"
        /\ outcome' = "none"
    BY <1>1, <1>3 DEF Fork, Progress, Family, Shells, Processes
  <2> QED  BY <2>1, <2>2 DEF Family
<1>4. ASSUME NEW what \in {"exit", "closing"}, Terminate(what),
             stage \in {"relay", "awaiting"}, what = "closing" => stage = "relay"
      PROVE  Clocks' /\ Family'
  <2>1. Clocks'
    BY <1>4 DEF Terminate, Clocks, supervisor
  <2>2. shell'.proc.state = shell.proc.state /\ kin'.state = kin.state
    BY <1>1, <1>4, Signals DEF Terminate, Shells
  <2>3. Family'
    BY <1>4, <2>2 DEF Terminate, Family
  <2> QED  BY <2>1, <2>3
<1>5. CASE ParentSetupFails
  BY <1>4, <1>5 DEF ParentSetupFails
<1>6. CASE Cancelled
  BY <1>4, <1>6 DEF Cancelled
<1>7. CASE ChannelEnds
  BY <1>4, <1>7 DEF ChannelEnds
<1>8. CASE PtyFails
  BY <1>4, <1>8 DEF PtyFails
<1>9. CASE AwaitTimesOut
  BY <1>4, <1>9 DEF AwaitTimesOut
<1>10. CASE ReadPty
  <2>1. UNCHANGED <<stage, after, shell, kin, timer, supervisor, outcome>>
    BY <1>10 DEF ReadPty
  <2> QED  BY <2>1, FamilyMoves DEF Clocks, supervisor
<1>11. CASE WriteData
  <2>1. UNCHANGED <<stage, after, shell, kin, timer, supervisor, outcome>>
    BY <1>11 DEF WriteData
  <2> QED  BY <2>1, FamilyMoves DEF Clocks, supervisor
<1>12. CASE PtyEnds
  <2>1. Clocks'
    BY <1>12 DEF PtyEnds, Clocks, supervisor
  <2> QED  BY <2>1, <1>12 DEF PtyEnds, Family
<1>13. CASE ShellEnds
  <2>1. Clocks'
    BY <1>13 DEF ShellEnds, Clocks, supervisor
  <2>2. shell'.proc.state = "reaped"
    BY <1>13, ShellStates DEF ShellEnds
  <2> QED  BY <2>1, <2>2, <1>13 DEF ShellEnds, Family
<1>14. CASE Drained
  <2>1. Clocks'
    BY <1>14 DEF Drained, Report, Clocks, supervisor
  <2>2. ~Up(kin') /\ shell' = shell /\ shell.proc.state = "reaped"
    BY <1>1, <1>14, Signals DEF Drained, Report, Progress
  <2> QED  BY <2>1, <2>2, <1>14 DEF Drained, Report, Family
<1>15. CASE DrainFails
  <2>1. Clocks'
    <3>1. grace > 0
      BY <1>15 DEF DrainFails, Clocks
    <3> QED  BY <1>15, <3>1 DEF DrainFails, Clocks, supervisor
  <2>2. shell.proc.state = "reaped"
    BY <1>15 DEF DrainFails, Progress
  <2> QED  BY <2>1, <2>2, <1>15 DEF DrainFails, Family
<1>16. CASE AwaitedShell
  <2>1. Clocks'
    BY <1>16 DEF AwaitedShell, Report, Clocks, supervisor
  <2>2. ~Up(kin') /\ shell'.proc.state = "reaped"
    BY <1>1, <1>16, Signals, ShellStates DEF AwaitedShell, Report
  <2> QED  BY <2>1, <2>2, <1>16 DEF AwaitedShell, Report, Family
<1>17. ASSUME Reaped, Proceed, ~Up(kin'), stage \in {"terminating", "killing"},
              UNCHANGED <<after, timer, supervisor, outcome>>
       PROVE  Clocks' /\ Family'
  <2>1. outcome = "none" /\ shell'.proc.state = "reaped" /\ stage' \in {"exit", "closing"}
    BY <1>1, <1>17, ShellStates DEF Family, Proceed
  <2>2. Clocks'
    BY <1>17, <2>1 DEF Clocks, supervisor
  <2> QED  BY <1>17, <2>1, <2>2 DEF Family
<1>18. CASE Terminated
  <2>1. ~Up(kin')
    BY <1>1, <1>18, Signals DEF Terminated
  <2> QED  BY <1>17, <1>18, <2>1 DEF Terminated
<1>19. CASE KilledReaped
  <2>1. ~Up(kin')
    BY <1>19 DEF KilledReaped, Family
  <2> QED  BY <1>17, <1>19, <2>1 DEF KilledReaped
<1>20. CASE TermTimesOut
  <2>1. Clocks'
    BY <1>1, <1>20 DEF TermTimesOut, Clocks, supervisor
  <2>2. ~Up(kin') /\ shell'.proc = Killed(shell.proc)
    BY <1>1, <1>20, Signals DEF TermTimesOut, KillGroup, Shells
  <2>3. shell.proc.state \in {"setup", "alive", "dead"}
    BY <1>20 DEF TermTimesOut, Family
  <2>4. shell'.proc.state = "dead"
    BY <1>1, <2>2, <2>3, Signals DEF Up
  <2> QED  BY <2>1, <2>2, <2>4, <1>20 DEF TermTimesOut, Family
<1>21. CASE WriteExit
  <2>1. stage = "exit" /\ UNCHANGED <<after, shell, kin, timer, supervisor>>
        /\ outcome = "none" /\ shell.proc.state = "reaped" /\ ~Up(kin)
        /\ (outcome' = outcome \/ outcome' = "unreported")
        /\ ((stage' \in {"exit", "closing"} /\ outcome' = outcome) \/ stage' = "over")
    BY <1>21 DEF WriteExit, End, Family
  <2>2. Clocks'
    BY <2>1 DEF Clocks, supervisor
  <2> QED  BY <2>1, <2>2 DEF Family, Remains, Gone, Up
<1>22. CASE Shutdown
  <2>1. stage = "closing" /\ stage' = "over" /\ UNCHANGED <<after, shell, kin, timer, supervisor>>
        /\ (outcome = "undrained" => outcome' = "undrained")
    BY <1>22 DEF Shutdown, End
  <2>2. Clocks'
    BY <2>1 DEF Clocks, supervisor
  <2> QED  BY <2>1, <2>2 DEF Family, Remains, Gone, Up
<1> QED
  BY <1>2, <1>3, <1>5, <1>6, <1>7, <1>8, <1>9, <1>10, <1>11, <1>12, <1>13, <1>14, <1>15,
     <1>16, <1>18, <1>19, <1>20, <1>21, <1>22 DEF Session

LEMMA AroundLeaves ==
    SessionInv /\ LeavingInv /\ (ConnectionDrops \/ AbortSession \/ Environment \/ Tick) => LeavingInv'
<1> SUFFICES ASSUME SessionTypes, Progress, Clocks, Family,
                    ConnectionDrops \/ AbortSession \/ Environment \/ Tick
             PROVE  Clocks' /\ Family'
  BY DEF SessionInv, LeavingInv, Stream
<1> USE GraceFacts
<1>1. ASSUME UNCHANGED <<stage, after, timer, outcome, supervisor>>, Family'
      PROVE  Clocks' /\ Family'
  BY <1>1 DEF Clocks, supervisor
<1>2. ASSUME UNCHANGED <<stage, after, timer, outcome, supervisor, shell, kin>>
      PROVE  Clocks' /\ Family'
  BY <1>1, <1>2, FamilyMoves
<1>3. CASE ConnectionDrops
  BY <1>2, <1>3 DEF ConnectionDrops
<1>4. CASE AbortSession
  <2>1. stage' = "over" /\ outcome' = "aborted" /\ grace = 0 /\ stage # "over"
        /\ UNCHANGED <<after, shell, kin, timer, supervisor>>
    BY <1>4 DEF AbortSession, End
  <2>2. Clocks'
    BY <2>1 DEF Clocks, supervisor
  <2>3. after = "exit" \/ stage \in {"exit", "closing"}
    BY <2>1 DEF Clocks, SessionTypes, Stages
  <2>4. stage = "closing" => outcome # "undrained"
    BY <2>1 DEF Clocks
  <2>5. after = "exit" \/ Gone
    BY <2>3, <2>4 DEF Family, Gone, Up
  <2> QED  BY <2>1, <2>2, <2>5 DEF Family, Remains, Gone, Up
<1>5. CASE ChildSetup
  <2>1. UNCHANGED <<stage, after, timer, outcome, supervisor, kin>> /\ stage # "starting"
    BY <1>5 DEF ChildSetup, Progress
  <2>2. Family'
    BY <1>5, <2>1, ShellStates, FamilyMoves
  <2> QED  BY <1>1, <2>1, <2>2
<1>6. CASE ShellMoves
  <2>1. UNCHANGED <<stage, after, timer, outcome, supervisor, kin>>
    BY <1>6 DEF ShellMoves
  <2>2. stage # "starting"
    BY <1>6, ShellStates DEF Progress, Up
  <2>3. Family'
    BY <1>6, <2>1, <2>2, ShellStates, FamilyMoves
  <2> QED  BY <1>1, <2>1, <2>3
<1>7. CASE ShellForks
  <2>1. UNCHANGED <<stage, after, timer, outcome, supervisor, shell>> /\ shell.proc.state = "alive"
    BY <1>7 DEF ShellForks
  <2> QED  BY <1>1, <2>1, FamilyMoves
<1>8. CASE KinMoves
  <2>1. UNCHANGED <<stage, after, timer, outcome, supervisor, shell>> /\ Up(kin)
    BY <1>8 DEF KinMoves, Up
  <2> QED  BY <1>1, <2>1, FamilyMoves
<1>9. CASE Prints
  BY <1>2, <1>9 DEF Prints
<1>10. CASE TypeInput
  BY <1>2, <1>10 DEF TypeInput
<1>11. CASE ShellReads
  BY <1>2, <1>11 DEF ShellReads
<1>12. CASE HubReads
  BY <1>2, <1>12 DEF HubReads
<1>13. CASE HubEnds
  BY <1>2, <1>13 DEF HubEnds
<1>14. CASE CancelSession
  <2>1. UNCHANGED <<stage, after, timer, outcome, grace, shell, kin>> /\ ~signalled /\ signalled'
    BY <1>14 DEF CancelSession
  <2>2. Clocks'
    BY <2>1, <1>14 DEF Clocks, CancelSession
  <2> QED  BY <2>1, <2>2, FamilyMoves
<1>15. CASE Tick
  <2>1. UNCHANGED <<stage, after, outcome, signalled, shell, kin>> /\ ~Due
        /\ timer' = (IF stage \in {"drain", "awaiting", "terminating"} /\ timer > 0
                     THEN timer - 1 ELSE 0)
        /\ grace' = (IF signalled /\ grace > 0 THEN grace - 1 ELSE grace)
    BY <1>15 DEF Tick
  <2>2. Clocks'
    <3>1. timer' \in 0..TermGrace /\ grace' \in 0..ShutdownGrace
      BY <2>1 DEF Clocks
    <3>2. ~signalled \/ stage \in {"starting", "relay"} => grace' = ShutdownGrace
      BY <2>1 DEF Clocks, Due
    <3>3. stage \in {"drain", "awaiting", "terminating"} =>
              timer' = timer - 1 /\ timer > 0 /\ grace' \in {grace, grace - 1}
      BY <2>1 DEF Clocks, Due
    <3>4. stage = "drain" => grace' + DrainGrace >= ShutdownGrace + timer'
      BY <3>3 DEF Clocks
    <3>5. stage = "awaiting" \/ (stage = "terminating" /\ after = "closing") =>
              grace' + TermGrace >= ShutdownGrace + timer'
      BY <3>3 DEF Clocks
    <3>6. stage \notin {"killing", "closing"}
      BY <2>1 DEF Due
    <3> QED  BY <2>1, <3>1, <3>2, <3>4, <3>5, <3>6 DEF Clocks
  <2> QED  BY <2>1, <2>2, FamilyMoves
<1> QED
  BY <1>3, <1>4, <1>5, <1>6, <1>7, <1>8, <1>9, <1>10, <1>11, <1>12, <1>13, <1>14, <1>15
  DEF Environment

(* The remaining types change with one action each.                        *)
LEMMA BoundsKept == SessionInv /\ Bounds /\ [SessionNext]_sessionVars => Bounds'
<1> SUFFICES ASSUME SessionTypes, Ordered, Bounds, [SessionNext]_sessionVars
             PROVE  Bounds'
  BY DEF SessionInv, Stream
<1> USE GraceAssumption
<1> DEFINE m == Len(sent)
<1>1. MaxOutput \in Nat /\ MaxInput \in Nat /\ WindowSize \in Nat /\ m \in Nat
      /\ pty \in [printed : Nat, unread : Seq(Nat)] /\ sent \in Seq(Pieces)
  BY DEF SessionTypes, Ordered
<1>2. CASE UNCHANGED <<input, sent, taken>> /\ pty'.printed = pty.printed
  BY <1>2 DEF Bounds
<1>3. ASSUME WritePart, UNCHANGED <<input, pty, taken>>
      PROVE  Bounds'
  <2>1. Len(sent') = m + 1 /\ m - taken < WindowSize
    BY <1>1, <1>3 DEF WritePart, Ordered
  <2>2. taken \in 0..m
    BY DEF Bounds
  <2> HIDE DEF m
  <2>3. taken \in 0..(m + 1) /\ (m + 1) - taken <= WindowSize
    BY <1>1, <2>1, <2>2
  <2> QED  BY <1>3, <2>1, <2>3 DEF Bounds
<1>4. CASE ReadPty
  <2>1. pty'.printed = pty.printed
    BY <1>1, <1>4 DEF ReadPty
  <2> QED  BY <1>2, <1>4, <2>1 DEF ReadPty
<1>5. CASE WriteData
  BY <1>3, <1>5 DEF WriteData
<1>6. CASE WriteExit
  <2>1. CASE WritePart /\ UNCHANGED <<input, pty, taken>>
    BY <1>3, <2>1
  <2>2. CASE UNCHANGED <<input, pty, wire>>
    BY <1>2, <2>2 DEF wire
  <2> QED  BY <1>6, <2>1, <2>2 DEF WriteExit
<1>7. CASE TypeInput
  <2>1. UNCHANGED <<pty, sent, taken>> /\ input' = [sent |-> input.sent + 1, typed |-> 1]
        /\ input.sent < MaxInput
    BY <1>7 DEF TypeInput, wire
  <2> QED  BY <1>1, <2>1 DEF Bounds
<1>8. CASE Prints
  <2>1. UNCHANGED <<input, sent, taken>> /\ pty'.printed = pty.printed + 1
        /\ pty.printed < MaxOutput
    BY <1>8 DEF Prints, wire
  <2> QED  BY <1>1, <2>1 DEF Bounds
<1>9. CASE HubReads
  <2>1. UNCHANGED <<input, sent, pty>> /\ taken' = taken + 1 /\ taken < m
    BY <1>9 DEF HubReads
  <2>2. taken \in 0..m /\ m - taken <= WindowSize
    BY DEF Bounds
  <2>3. taken' \in 0..m /\ m - taken' <= WindowSize
    BY <1>1, <2>1, <2>2
  <2> QED  BY <2>1, <2>3 DEF Bounds
<1>10. CASE Session /\ ~ReadPty /\ ~WriteData /\ ~WriteExit
  <2>1. UNCHANGED <<input, sent, taken, pty>>
    BY <1>10 DEF Session, Refuse, Fork, ParentSetupFails, Cancelled, ChannelEnds, PtyFails,
       PtyEnds, ShellEnds, Drained, DrainFails, AwaitedShell, AwaitTimesOut, Terminated,
       TermTimesOut, KilledReaped, Shutdown, Terminate, wire
  <2> QED  BY <1>2, <2>1
<1>11. CASE ShellReads
  BY <1>11 DEF ShellReads, Bounds, wire
<1>12. CASE ConnectionDrops \/ AbortSession \/ Tick \/ ChildSetup \/ ShellForks \/ ShellMoves
            \/ KinMoves \/ HubEnds \/ CancelSession
  <2>1. UNCHANGED <<input, sent, taken, pty>>
    BY <1>12 DEF ConnectionDrops, AbortSession, Tick, ChildSetup, ShellForks, ShellMoves,
       KinMoves, HubEnds, CancelSession, wire
  <2> QED  BY <1>2, <2>1
<1>13. CASE UNCHANGED sessionVars
  BY <1>2, <1>13 DEF sessionVars, wire
<1> QED
  BY <1>4, <1>5, <1>6, <1>7, <1>8, <1>9, <1>10, <1>11, <1>12, <1>13
  DEF SessionNext, Prompt, Environment

LEMMA LeavingInvariant == SessionSpec => [](SessionInv /\ LeavingInv /\ Bounds)
<1>1. SessionInit => LeavingInv /\ Bounds
  <2> SUFFICES ASSUME SessionInit PROVE LeavingInv /\ Bounds
    OBVIOUS
  <2>1. shell.proc.state = "none" /\ kin.state = "none"
    BY DEF SessionInit, NoProcess
  <2>2. Clocks
    <3>1. /\ stage = "starting" /\ timer = 0 /\ signalled = FALSE /\ grace = ShutdownGrace
          /\ outcome = "none"
      BY DEF SessionInit
    <3>2. 0 \in 0..TermGrace /\ ShutdownGrace \in 0..ShutdownGrace
      BY GraceFacts
    <3> QED  BY <3>1, <3>2 DEF Clocks
  <2>3. Family
    BY <2>1 DEF SessionInit, Family
  <2>4. MaxOutput \in Nat /\ MaxInput \in Nat /\ WindowSize \in Nat
    BY GraceAssumption
  <2>5. pty.printed = 0 /\ input.sent = 0 /\ input.typed = 0 /\ taken = 0 /\ Len(sent) = 0
    BY DEF SessionInit
  <2>6. Bounds
    BY <2>4, <2>5 DEF Bounds
  <2> QED  BY <2>2, <2>3, <2>6 DEF LeavingInv
<1>2. SessionInv /\ LeavingInv /\ [SessionNext]_sessionVars => LeavingInv'
  <2>1. LeavingInv /\ UNCHANGED sessionVars => LeavingInv'
    <3> SUFFICES ASSUME Clocks, Family, UNCHANGED sessionVars PROVE Clocks' /\ Family'
      BY DEF LeavingInv
    <3>1. UNCHANGED <<stage, after, shell, kin, timer, signalled, grace, outcome>>
      BY DEF sessionVars, supervisor
    <3> QED  BY <3>1, FamilyMoves DEF Clocks
  <2> QED  BY <2>1, SessionLeaves, AroundLeaves DEF SessionNext, Prompt
<1> QED  BY <1>1, <1>2, BoundsKept, SessionInvariant, PTL DEF SessionSpec

LEMMA LeavesRead == SessionInv /\ LeavingInv /\ Bounds => LeavesNothing
<1> SUFFICES ASSUME SessionTypes, Clocks, Family, Bounds PROVE LeavesNothing
  BY DEF SessionInv, LeavingInv
<1>1. \A p \in {shell.proc, kin} : p.state \in {"none", "setup", "alive", "dead", "reaped"}
  BY DEF SessionTypes, Shells, Processes
<1>2. shell.status \in {"none", "setup", "ok", "term", "kill"}
  BY DEF SessionTypes, Shells, Statuses
<1>3. SessionTypeOK
  BY <1>1, <1>2 DEF SessionTypes, Clocks, Bounds, SessionTypeOK, Stages
<1>4. stage = "over" => Remains
  BY DEF Family
<1> QED  BY <1>3, <1>4 DEF LeavesNothing, Remains, Gone

(* A session that is over left no process behind but where the agent was   *)
(* stopped in its second grace, or the last output could not be relayed.   *)
THEOREM SessionCleansUp == SessionSpec => []LeavesNothing
BY LeavesRead, LeavingInvariant, PTL

=============================================================================
