----------------------------- MODULE WeightedPool -----------------------------
(***************************************************************************)
(* One direction of RpcAdmission (nexigon-rpc): a global budget of bytes   *)
(* and one budget per actor, both tokio semaphores, which hand out permits *)
(* in the order of the requests.  A request waits for its actor's budget   *)
(* first and holds it while it waits for the global one.                   *)
(*                                                                         *)
(* A pool is a record: entry says how far each task's request has come,    *)
(* line holds the tasks waiting at each semaphore, tracked the keys of the *)
(* registry of actors.  The registry has weak references: an actor's       *)
(* semaphore lives as long as a request or a permit uses it.               *)
(***************************************************************************)
EXTENDS Naturals, FiniteSets, Sequences

CONSTANTS
    GlobalCapacity,   \* global_memory_bytes
    ActorCapacity,    \* per_actor_memory_bytes
    MaxBody,          \* MAX_INPUT_SIZE and MAX_OUTPUT_SIZE
    CleanupThreshold, \* STALE_ACTOR_CLEANUP_THRESHOLD
    MaxTracked        \* MAX_TRACKED_ACTORS

(* RpcAdmission::new accepts no other limits.                              *)
ValidLimits ==
    /\ GlobalCapacity \in Nat /\ ActorCapacity \in Nat \ {0}
    /\ ActorCapacity <= GlobalCapacity
    /\ MaxBody \in Nat /\ MaxBody <= ActorCapacity

ASSUME PoolAssumption ==
    /\ ValidLimits
    /\ CleanupThreshold \in Nat \ {0} /\ MaxTracked \in Nat
    /\ CleanupThreshold <= MaxTracked

NoPermit == [at |-> "none", via |-> "global", bytes |-> 0]

EmptyPool(tasks, actors) ==
    [entry |-> [t \in tasks |-> NoPermit],
     line |-> [s \in actors \union {"global", "overflow"} |-> <<>>],
     tracked |-> {}]

Capacity(s) == IF s = "global" THEN GlobalCapacity ELSE ActorCapacity

(* The tasks that hold permits of a semaphore: of the actor's since the    *)
(* task stands in line for the global one.                                 *)
Holders(p, s) ==
    {t \in DOMAIN p.entry :
        IF s = "global" THEN p.entry[t].at = "held"
        ELSE p.entry[t].at \in {"global", "held"} /\ p.entry[t].via = s}

(* The permits a set of tasks holds, one by one; what is out of s.         *)
Permits(p, tasks) ==
    {u \in tasks \X (1..MaxBody) : u[2] <= p.entry[u[1]].bytes}

Used(p, s) == Cardinality(Permits(p, Holders(p, s)))

Alive(p, s) == \E t \in DOMAIN p.entry : p.entry[t].at # "none" /\ p.entry[t].via = s

Held(p, t) == p.entry[t].at = "held"

Waits(p, t) == IF p.entry[t].at = "global" THEN "global" ELSE p.entry[t].via

(* A semaphore serves the head of its line as soon as it has the permits.  *)
CanPass(p, t) ==
    /\ p.entry[t].at \in {"actor", "global"}
    /\ p.line[Waits(p, t)] # <<>> /\ Head(p.line[Waits(p, t)]) = t
    /\ Used(p, Waits(p, t)) + p.entry[t].bytes <= Capacity(Waits(p, t))

Pass(p, t) ==
    IF p.entry[t].at = "global"
      THEN [p EXCEPT !.entry[t].at = "held", !.line["global"] = Tail(@)]
      ELSE [p EXCEPT !.entry[t].at = "global",
                     !.line = [p.line EXCEPT ![p.entry[t].via] = Tail(@),
                                              !["global"] = Append(@, t)]]

(* A poll of acquire_many_owned, first on the actor's and then on the      *)
(* global semaphore, goes as far as it can without waiting.                *)
Advance(p, t) ==
    IF ~CanPass(p, t) THEN p
    ELSE LET q == Pass(p, t) IN IF CanPass(q, t) THEN Pass(q, t) ELSE q

(* WeightedPool::acquire: find the actor's semaphore or make one, and      *)
(* stand in line for it.                                                   *)
Acquire(p, t, actor, bytes) ==
    LET kept == IF Cardinality(p.tracked) >= CleanupThreshold
                  THEN {b \in p.tracked : Alive(p, b)} ELSE p.tracked
        via == IF (actor \in kept /\ Alive(p, actor)) \/ Cardinality(kept) < MaxTracked
                 THEN actor ELSE "overflow"
        queued == [entry |-> [p.entry EXCEPT ![t] = [at |-> "actor", via |-> via, bytes |-> bytes]],
                   line |-> [p.line EXCEPT ![via] = Append(@, t)],
                   tracked |-> (kept \union {via}) \ {"overflow"}]
    IN  IF bytes = 0 THEN [p EXCEPT !.entry[t].at = "held"] ELSE Advance(queued, t)

(* A task stands at most once in a line.                                   *)
Leave(q, t) ==
    IF \E i \in DOMAIN q : q[i] = t
      THEN LET i == CHOOSE j \in DOMAIN q : q[j] = t
           IN  SubSeq(q, 1, i - 1) \o SubSeq(q, i + 1, Len(q))
      ELSE q

(* The request is dropped, wherever it stands, or its permit is.           *)
Release(p, t) ==
    [p EXCEPT !.entry[t] = NoPermit, !.line = [s \in DOMAIN @ |-> Leave(@[s], t)]]

(* MemoryPermit::shrink_to: what is not needed goes back to both budgets.  *)
ShrinkTo(p, t, bytes) ==
    [p EXCEPT !.entry[t] = IF bytes = 0 THEN [NoPermit EXCEPT !.at = "held"]
                           ELSE [@ EXCEPT !.bytes = bytes]]
=============================================================================
