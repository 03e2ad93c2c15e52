------------------------ MODULE ConnectionLoopProofs ------------------------
(***************************************************************************)
(* What ConnectionLoop guarantees for any limits, any capacities and any   *)
(* number of frames: it never sleeps without a waker for what it has to    *)
(* do, gives up for a deadline only if that deadline was missed, honours   *)
(* the protocol and keeps its reserve.  The last two rest on an account of *)
(* what is under way in the queue, the transport and the peer: it adds up  *)
(* to what the two sides wait for.                                         *)
(***************************************************************************)
EXTENDS ConnectionLoop, FiniteSetTheorems, FunctionTheorems, SequenceTheorems, TLAPS

Booleans ==
    /\ hello \in BOOLEAN /\ outstanding \in BOOLEAN /\ flushing \in BOOLEAN
    /\ writeActive \in BOOLEAN /\ pongActive \in BOOLEAN
    /\ ponged \in BOOLEAN /\ pinged \in BOOLEAN /\ answeredLate \in BOOLEAN
    /\ woken \in BOOLEAN /\ sinkWaker \in BOOLEAN /\ streamWaker \in BOOLEAN
    /\ timer \in [Timers -> {"idle", "armed", "fired"}]

(* A ping that is outstanding has one of its two deadlines; each flag of   *)
(* the ping implies the stage it belongs to.                               *)
PingStages ==
    /\ outstanding => hello /\ (writeActive \/ pongActive)
    /\ writeActive => outstanding
    /\ pongActive => outstanding /\ pinged /\ ~ponged
    /\ flushing => outstanding /\ pinged /\ ~ponged /\ writeActive
    /\ pinged => outstanding /\ ~ponged

(* A deadline that is found expired while it counts was missed: neither    *)
(* the flags nor the copies of the timers in expired outlive their ping.   *)
LateKnown ==
    /\ Fired("hello") /\ ~hello => "hello" \in late
    /\ Fired("write") /\ writeActive => "write" \in late
    /\ Fired("pong") /\ pongActive => "pong" \in late
    /\ "hello" \in expired /\ ~hello => "hello" \in late
    /\ "write" \in expired /\ writeActive => "write" \in late
    /\ "pong" \in expired /\ ~ponged => "pong" \in late
    /\ "pong" \in expired /\ pc \in {"commands", "send", "flush"} => pongActive
    /\ cause \in Deadlines => cause \in late

(* Some timer will wake the task, which then polls the interval: that of   *)
(* the interval or one of the last ping, unless the pong came too late.    *)
Probing ==
    answeredLate \/ \E t \in {"tick", "write", "pong"} : timer[t] = "armed"

(* What each phase leaves behind for the phases after it; at the end of    *)
(* the poll this makes SleepsSafely.                                       *)
WakersLeft ==
    cause = "none" /\ ~woken =>
        /\ shared = "up"
        /\ pc # "idle" => \A d \in Watched : timer[d] = "armed" \/ d \in expired
        /\ pc \in {"deadlines", "idle"} => streamWaker /\ in = <<>> /\ link # "cut"
        /\ pc = "flush" => queue = <<>> \/ sinkWaker
        /\ pc \in {"receive", "deadlines", "idle"} =>
              (queue = <<>> /\ sink = <<>>) \/ sinkWaker
        /\ pc = "idle" => \A d \in Watched : timer[d] = "armed"
        /\ hello /\ ~outstanding => Probing

IInv == Booleans /\ PingStages /\ LateKnown /\ WakersLeft

LEMMA Initially == Init => IInv
  BY DEF Init, IInv, Booleans, PingStages, LateKnown, WakersLeft, Fired, Timers, Deadlines

LEMMA PollStarts ==
  ASSUME IInv, cause = "none", EnterClosed \/ EnterNoPing \/ EnterPing \/ EnterPingFull \/ Commands
  PROVE  IInv'
  <1> USE DEF IInv, Booleans, PingStages, LateKnown, WakersLeft,
             Polling, Enter, Polled, End, Return, Fired, Watched, Probing, Timers, Deadlines,
             pollVars, pingVars, deadlineVars, wakerVars, transportVars
  <1>1. CASE EnterClosed
    BY <1>1 DEF EnterClosed
  <1>2. CASE EnterNoPing
    BY <1>2 DEF EnterNoPing
  <1>3. CASE EnterPing
    BY <1>3 DEF EnterPing
  <1>4. CASE EnterPingFull
    BY <1>4 DEF EnterPingFull
  <1>5. CASE Commands
    BY <1>5 DEF Commands
  <1> QED
    BY <1>1, <1>2, <1>3, <1>4, <1>5

LEMMA PollSends ==
  ASSUME IInv, cause = "none", SendFrame \/ SendDone \/ SendFails \/ Flushed \/ FlushPending
  PROVE  IInv'
  <1> USE DEF IInv, Booleans, PingStages, LateKnown, WakersLeft,
             End, Return, Fired, Watched, Probing, Timers, Deadlines,
             pollVars, pingVars, deadlineVars, wakerVars, transportVars
  <1>1. CASE SendFrame
    BY <1>1 DEF SendFrame
  <1>2. CASE SendDone
    <2> USE <1>2 DEF SendDone
    <2>1. CASE handled = MaxQueued /\ woken'
      BY <2>1
    <2>2. CASE UNCHANGED woken /\ sinkWaker'
      BY <2>2
    <2>3. CASE UNCHANGED <<woken, sinkWaker>> /\ queue = <<>>
      BY <2>3
    <2> QED
      BY <2>1, <2>2, <2>3
  <1>3. CASE SendFails
    BY <1>3 DEF SendFails
  <1>4. CASE Flushed
    BY <1>4 DEF Flushed
  <1>5. CASE FlushPending
    BY <1>5 DEF FlushPending
  <1> QED
    BY <1>1, <1>2, <1>3, <1>4, <1>5

LEMMA PollReceives ==
  ASSUME IInv, cause = "none",
         ReceiveLate \/ ReceiveViolation \/ ReceiveHello \/ ReceiveChannelFrame
           \/ ReceivePing \/ ReceivePong \/ ReceiveDone \/ ReceiveEnd \/ CheckDeadlines
  PROVE  IInv'
  <1> USE DEF IInv, Booleans, PingStages, LateKnown, WakersLeft,
             Receiving, Take, Missed, Handled, Event, End, Return,
             Fired, Watched, Probing, Timers, Deadlines,
             pollVars, pingVars, deadlineVars, wakerVars, transportVars
  <1>1. CASE ReceiveLate
    BY <1>1 DEF ReceiveLate
  <1>2. CASE ReceiveViolation
    BY <1>2 DEF ReceiveViolation
  <1>3. CASE ReceiveHello
    BY <1>3 DEF ReceiveHello
  <1>4. CASE ReceiveChannelFrame
    <2>1. CASE Take("data") /\ Handled
      BY <1>4, <2>1 DEF ReceiveChannelFrame
    <2>2. CASE Take("control") /\ Event
      BY <1>4, <2>2 DEF ReceiveChannelFrame
    <2> QED
      BY <1>4, <2>1, <2>2 DEF ReceiveChannelFrame
  <1>5. CASE ReceivePing
    BY <1>5 DEF ReceivePing
  <1>6. CASE ReceivePong
    BY <1>6 DEF ReceivePong
  <1>7. CASE ReceiveDone
    BY <1>7 DEF ReceiveDone
  <1>8. CASE ReceiveEnd
    BY <1>8 DEF ReceiveEnd
  <1>9. CASE CheckDeadlines
    <2>1. CASE \E d \in Missed("none") : End(d)
      BY <1>9, <2>1 DEF CheckDeadlines
    <2>2. CASE Missed("none") = {} /\ Return
      <3>1. \A d \in Watched : d \notin expired
        <4>1. "hello" \in Missed("none") \/ hello \/ "hello" \notin expired
          OBVIOUS
        <4>2. "write" \in Missed("none") \/ ~writeActive \/ "write" \notin expired
          OBVIOUS
        <4>3. "pong" \in Missed("none") \/ ponged \/ "pong" \notin expired
          OBVIOUS
        <4> QED
          BY <2>2, <4>1, <4>2, <4>3
      <3> QED
        BY <1>9, <2>2, <3>1 DEF CheckDeadlines
    <2> QED
      BY <1>9, <2>1, <2>2 DEF CheckDeadlines
  <1> QED
    BY <1>1, <1>2, <1>3, <1>4, <1>5, <1>6, <1>7, <1>8, <1>9

LEMMA TaskSteps ==
  ASSUME IInv, cause = "none", QueueData \/ QueueControl \/ Terminate
  PROVE  IInv'
  <1> USE DEF IInv, Booleans, PingStages, LateKnown, WakersLeft,
             Fired, Watched, Probing, Timers, Deadlines,
             pollVars, pingVars, deadlineVars, wakerVars, transportVars
  <1>1. CASE QueueData
    BY <1>1 DEF QueueData
  <1>2. CASE QueueControl
    BY <1>2 DEF QueueControl
  <1>3. CASE Terminate
    BY <1>3 DEF Terminate
  <1> QED
    BY <1>1, <1>2, <1>3

LEMMA TimerSteps ==
  ASSUME IInv, cause = "none", NEW t \in Timers, Fire(t)
  PROVE  IInv'
  <1> USE DEF IInv, Booleans, PingStages, LateKnown, WakersLeft,
             Fired, Watched, Probing, Timers, Deadlines,
             pollVars, pingVars, deadlineVars, wakerVars, transportVars
  <1>1. woken' \in BOOLEAN /\ (~woken' => ~woken /\ timer[t] # "armed")
    BY Zenon DEF Fire
  <1>2. /\ timer' = [timer EXCEPT ![t] = "fired"]
        /\ late \subseteq late'
        /\ t = "hello" /\ ~hello => "hello" \in late'
        /\ t = "write" /\ outstanding /\ writeActive => "write" \in late'
        /\ t = "pong" /\ outstanding /\ pongActive => "pong" \in late'
    BY DEF Fire
  <1>3. UNCHANGED <<pollVars, shared, hello, pingVars, writeActive, pongActive, sinkWaker,
                   streamWaker, queue, transportVars>>
    BY DEF Fire
  <1> QED
    BY <1>1, <1>2, <1>3

LEMMA TransportSteps ==
  ASSUME IInv, cause = "none", Transmit \/ SinkReady \/ LinkFails \/ \E f \in Kinds : PeerSend(f)
  PROVE  IInv'
  <1> USE DEF IInv, Booleans, PingStages, LateKnown, WakersLeft,
             Fired, Watched, Probing, Timers, Deadlines,
             pollVars, pingVars, deadlineVars, wakerVars, transportVars
  <1>1. CASE Transmit
    <2>1. woken' \in BOOLEAN /\ (~woken' => ~woken /\ ~sinkWaker)
      BY <1>1, Zenon DEF Transmit
    <2>2. /\ sinkWaker' = FALSE /\ sink # <<>>
          /\ UNCHANGED <<pollVars, shared, hello, pingVars, deadlineVars, streamWaker, queue, in,
                         link>>
      BY <1>1 DEF Transmit
    <2> QED
      BY <2>1, <2>2
  <1>2. CASE SinkReady
    BY <1>2 DEF SinkReady
  <1>3. CASE LinkFails
    <2>1. woken' \in BOOLEAN /\ (~woken' => ~woken)
      BY <1>3, Zenon DEF LinkFails
    <2>2. ~woken' => link' # "cut" \/ ~streamWaker
      BY <1>3, Zenon DEF LinkFails
    <2>3. UNCHANGED <<pollVars, shared, hello, pingVars, deadlineVars, sinkWaker, streamWaker,
                     queue, sink, in>>
      BY <1>3 DEF LinkFails
    <2> QED
      BY <2>1, <2>2, <2>3
  <1>4. ASSUME NEW f \in Kinds, PeerSend(f)
        PROVE  IInv'
    <2>1. woken' \in BOOLEAN /\ (~woken' => ~woken /\ ~streamWaker)
      BY <1>4, Zenon DEF PeerSend
    <2>2. /\ streamWaker' = FALSE
          /\ UNCHANGED <<pollVars, shared, hello, pingVars, deadlineVars, sinkWaker, queue, sink,
                         link>>
      BY <1>4 DEF PeerSend
    <2> QED
      BY <2>1, <2>2
  <1> QED
    BY <1>1, <1>2, <1>3, <1>4

LEMMA Invariance == Spec => []IInv
  <1>1. IInv /\ [Next]_vars => IInv'
    <2>1. ASSUME IInv, UNCHANGED vars
          PROVE  IInv'
      BY <2>1 DEF IInv, Booleans, PingStages, LateKnown, WakersLeft, Fired, Watched, Probing,
                  vars, pollVars, pingVars, deadlineVars, wakerVars, transportVars
    <2> QED
      BY <2>1, PollStarts, PollSends, PollReceives, TaskSteps, TimerSteps, TransportSteps
         DEF Next, Poll, Tasks, Environment
  <1> QED
    BY <1>1, Initially, PTL DEF Spec

(* A poll that ends without waking its task leaves a waker behind for all  *)
(* that the task must still do, the next ping included unless the last     *)
(* pong was handled in the poll that had found its deadline expired,       *)
(* whatever tasks, timers, transport and peer do between and during the    *)
(* phases of poll_event.                                                   *)
THEOREM NeverStuck == Spec => []SleepsSafely
  <1>1. IInv => SleepsSafely
    <2> SUFFICES ASSUME IInv, cause = "none", pc = "idle", ~woken
                 PROVE  SleepsSafely
      BY DEF SleepsSafely
    <2>1. queue \o sink # <<>> => sinkWaker
      <3>1. <<>> \o <<>> = <<>>
        OBVIOUS
      <3> QED
        BY <3>1 DEF IInv, WakersLeft
    <2> QED
      BY <2>1 DEF IInv, WakersLeft, SleepsSafely, Probing
  <1> QED
    BY <1>1, Invariance, PTL

(* The connection is given up for a missed deadline only if that deadline  *)
(* ran out for the handshake or for the ping that is outstanding: neither  *)
(* the timer of an earlier ping nor a copy in expired is taken for it.     *)
THEOREM OnlyMissed == Spec => []DeadlineHonest
  <1>1. IInv => DeadlineHonest
    BY DEF IInv, LateKnown, DeadlineHonest
  <1> QED
    BY <1>1, Invariance, PTL

-----------------------------------------------------------------------------
(* How many frames of a kind there are in a sequence. *)

Places(s, f) == {i \in DOMAIN s : s[i] = f}

LEMMA CountPlaces == \A s, f : Count(s, f) = Cardinality(Places(s, f))
  BY DEF Count, Places

LEMMA CountType ==
  ASSUME NEW s \in Seq(Kinds), NEW f
  PROVE  Count(s, f) \in Nat /\ IsFiniteSet(Places(s, f))
  <1>1. Places(s, f) \in SUBSET (1..Len(s))
    BY DEF Places
  <1>2. IsFiniteSet(1..Len(s))
    BY FS_Interval
  <1>3. IsFiniteSet(Places(s, f))
    BY <1>1, <1>2, FS_Subset
  <1> QED
    BY <1>3, FS_CardinalityType, CountPlaces

LEMMA CountEmpty == \A f : Count(<<>>, f) = 0
  <1> TAKE f
  <1>1. Places(<<>>, f) = {}
    BY DEF Places
  <1> QED
    BY <1>1, FS_EmptySet, CountPlaces

LEMMA CountAppend ==
  ASSUME NEW s \in Seq(Kinds), NEW g \in Kinds, NEW f
  PROVE  Count(Append(s, g), f) = Count(s, f) + (IF g = f THEN 1 ELSE 0)
  <1>1. Places(Append(s, g), f) = Places(s, f) \union (IF g = f THEN {Len(s) + 1} ELSE {})
    BY AppendProperties DEF Places
  <1>2. Len(s) + 1 \notin Places(s, f)
    BY DEF Places
  <1>3. IsFiniteSet(Places(s, f)) /\ Count(s, f) \in Nat
    BY CountType
  <1>4. CASE g = f
    BY <1>1, <1>2, <1>3, <1>4, FS_AddElement, CountPlaces
  <1>5. CASE g # f
    <2>1. Places(Append(s, g), f) = Places(s, f)
      BY <1>1, <1>5
    <2> QED
      BY <1>3, <1>5, <2>1, CountPlaces
  <1> QED
    BY <1>4, <1>5

LEMMA CountTail ==
  ASSUME NEW s \in Seq(Kinds), s # <<>>, NEW f
  PROVE  Count(s, f) = Count(Tail(s), f) + (IF Head(s) = f THEN 1 ELSE 0)
  <1> DEFINE A == Places(Tail(s), f)
             B == {i + 1 : i \in A}
             shift == [i \in A |-> i + 1]
  <1>1. /\ Tail(s) \in Seq(Kinds) /\ Len(Tail(s)) = Len(s) - 1 /\ Len(s) > 0
        /\ \A i \in 1..Len(Tail(s)) : Tail(s)[i] = s[i + 1]
    BY HeadTailProperties
  <1>2. IsFiniteSet(A) /\ Count(Tail(s), f) \in Nat
    BY <1>1, CountType
  <1>3. A \subseteq Nat
    BY <1>1 DEF Places
  <1>4. IsFiniteSet(B) /\ Cardinality(B) = Cardinality(A)
    <2>1. shift \in [A -> B]
      OBVIOUS
    <2>2. \A a, b \in A : shift[a] = shift[b] => a = b
      BY <1>3
    <2>3. \A t \in B : \E a \in A : shift[a] = t
      OBVIOUS
    <2>4. shift \in Bijection(A, B)
      BY <2>1, <2>2, <2>3, Fun_IsBij
    <2>5. ExistsBijection(A, B)
      BY <2>4 DEF ExistsBijection
    <2> QED
      BY <1>2, <2>5, FS_Bijection
  <1>5. Places(s, f) = B \union (IF Head(s) = f THEN {1} ELSE {})
    <2>1. \A i \in Nat : i + 1 \in B <=> i \in A
      BY <1>3
    <2>2. \A i \in B : i \in Nat /\ i > 1
      BY <1>1 DEF Places
    <2>3. \A i \in Nat : i \in A <=> i \in 1..Len(s) - 1 /\ s[i + 1] = f
      BY <1>1 DEF Places
    <2>4. \A j \in 2..Len(s) : j \in B <=> s[j] = f
      <3> TAKE j \in 2..Len(s)
      <3>1. j - 1 \in Nat /\ j - 1 \in 1..Len(s) - 1 /\ (j - 1) + 1 = j
        BY <1>1
      <3> QED
        BY <2>1, <2>3, <3>1
    <2>5. \A j \in B : j \in 2..Len(s)
      BY <1>1, <2>2 DEF Places
    <2>6. DOMAIN s = {1} \union 2..Len(s)
      BY <1>1
    <2>7. s[1] = Head(s)
      BY <1>1
    <2> QED
      BY <2>4, <2>5, <2>6, <2>7 DEF Places
  <1>6. 1 \notin B
    BY <1>1 DEF Places
  <1>7. CASE Head(s) = f
    <2>1. Places(s, f) = B \union {1}
      BY <1>5, <1>7
    <2>2. Cardinality(B \union {1}) = Cardinality(B) + 1
      BY <1>4, <1>6, FS_AddElement
    <2>3. Count(s, f) = Cardinality(B \union {1}) /\ Count(Tail(s), f) = Cardinality(A)
      BY <2>1, CountPlaces
    <2> HIDE DEF A, B
    <2> QED
      BY <1>4, <1>7, <2>2, <2>3
  <1>8. CASE Head(s) # f
    <2>1. Places(s, f) = B
      BY <1>5, <1>8
    <2>2. Count(s, f) = Cardinality(B) /\ Count(Tail(s), f) = Cardinality(A)
      BY <2>1, CountPlaces
    <2> HIDE DEF A, B
    <2> QED
      BY <1>2, <1>4, <1>8, <2>2
  <1> QED
    BY <1>7, <1>8

LEMMA CountCons ==
  ASSUME NEW s \in Seq(Kinds), NEW g \in Kinds, NEW f
  PROVE  Count(<<g>> \o s, f) = Count(s, f) + (IF g = f THEN 1 ELSE 0)
  <1>1. <<g>> \o s \in Seq(Kinds) /\ <<g>> \o s # <<>> /\ Head(<<g>> \o s) = g
    BY ConcatProperties
  <1>2. Tail(<<g>> \o s) = s
    BY <1>1, ConcatProperties, HeadTailProperties, SeqEqual
  <1> QED
    BY <1>1, <1>2, CountTail

-----------------------------------------------------------------------------
(* The invariant *)

One(b) == IF b THEN 1 ELSE 0

(* The ping that has left the queue is on its way, owed by the peer, or    *)
(* coming back; the queue has the ping that has not left yet.              *)
PingSum ==
    /\ Count(sink, "ping") + peer.owed + Count(in, "pong") = One(pinged)
    /\ Count(queue, "ping") = One(shared # "closed" /\ outstanding /\ ~pinged)

(* The peer waits for every pong that is on its way to it. *)
PongSum ==
    Count(in, "ping") + Count(queue, "pong") + Count(sink, "pong") <= One(peer.pinging)

(* Until the peer has the Hello it is the first frame that goes out. *)
HelloSent ==
    /\ peer.gotHello => Count(sink, "hello") = 0 /\ Count(queue, "hello") = 0
    /\ ~peer.gotHello =>
          \/ /\ sink # <<>> /\ Head(sink) = "hello"
             /\ Count(Tail(sink), "hello") = 0 /\ Count(queue, "hello") = 0
          \/ /\ sink = <<>> /\ queue # <<>> /\ Head(queue) = "hello"
             /\ Count(Tail(queue), "hello") = 0
          \/ sink = <<>> /\ queue = <<>> /\ shared = "closed"

(* So is the Hello of the peer the first frame that comes in. *)
HelloReceived ==
    /\ hello => peer.sentHello /\ Count(in, "hello") = 0
    /\ peer.sentHello /\ ~hello =>
          in # <<>> /\ Head(in) = "hello" /\ Count(Tail(in), "hello") = 0
    /\ ~peer.sentHello => in = <<>>

Accounts ==
    cause = "none" =>
        /\ PingSum /\ PongSum /\ HelloSent /\ HelloReceived
        /\ shared = "closed" => queue = <<>>

Types ==
    /\ pc \in {"idle", "commands", "send", "flush", "receive", "deadlines"}
    /\ handled \in 0..MaxQueued \union 0..MaxProcessed
    /\ expired \subseteq Deadlines /\ late \subseteq Deadlines
    /\ cause \in {"none", "local", "overload", "transport", "violation"} \union Deadlines
    /\ shared \in {"up", "closed", "overloaded"}
    /\ peerViolation \in BOOLEAN
    /\ queue \in Seq(Kinds) /\ Len(queue) <= MaxQueued
    /\ sink \in Seq(Kinds) /\ Len(sink) <= SinkCap
    /\ in \in Seq(Kinds) /\ Len(in) <= InCap
    /\ link \in {"up", "cut", "silent"}
    /\ peer \in [sentHello : BOOLEAN, gotHello : BOOLEAN, owed : Nat, pinging : BOOLEAN]

LEMMA TypesSuffice == IInv /\ Types => TypeOK
  BY DEF IInv, Booleans, Types, TypeOK

-----------------------------------------------------------------------------
(* Sequences of frames *)

LEMMA Appended ==
  ASSUME NEW s \in Seq(Kinds), NEW g \in Kinds
  PROVE  /\ Append(s, g) \in Seq(Kinds) /\ Append(s, g) # <<>>
         /\ Len(Append(s, g)) = Len(s) + 1
         /\ Head(Append(s, g)) = IF s = <<>> THEN g ELSE Head(s)
         /\ Tail(Append(s, g)) = IF s = <<>> THEN <<>> ELSE Append(Tail(s), g)
         /\ \A f : Count(Append(s, g), f) = Count(s, f) + One(g = f)
  BY AppendProperties, HeadTailAppend, CountAppend DEF One

LEMMA Taken ==
  ASSUME NEW s \in Seq(Kinds), s # <<>>
  PROVE  /\ Head(s) \in Kinds /\ Tail(s) \in Seq(Kinds)
         /\ Len(s) > 0 /\ Len(Tail(s)) = Len(s) - 1
         /\ \A f : Count(s, f) = Count(Tail(s), f) + One(Head(s) = f)
  BY HeadTailProperties, CountTail DEF One

LEMMA Prepended ==
  ASSUME NEW s \in Seq(Kinds), NEW g \in Kinds
  PROVE  /\ <<g>> \o s \in Seq(Kinds) /\ <<g>> \o s # <<>>
         /\ Len(<<g>> \o s) = Len(s) + 1
         /\ Head(<<g>> \o s) = g /\ Tail(<<g>> \o s) = s
         /\ \A f : Count(<<g>> \o s, f) = Count(s, f) + One(g = f)
  <1>1. <<g>> \o s \in Seq(Kinds) /\ <<g>> \o s # <<>> /\ Head(<<g>> \o s) = g
    BY ConcatProperties
  <1>2. Len(<<g>> \o s) = Len(s) + 1
    BY ConcatProperties
  <1>3. Tail(<<g>> \o s) = s
    BY <1>1, ConcatProperties, HeadTailProperties, SeqEqual
  <1> QED
    BY <1>1, <1>2, <1>3, CountCons DEF One

LEMMA Prioritised ==
  ASSUME queue \in Seq(Kinds), NEW g \in Kinds \ {"hello"}
  PROVE  /\ Priority(g) \in Seq(Kinds) /\ Len(Priority(g)) = Len(queue) + 1
         /\ \A f : Count(Priority(g), f) = Count(queue, f) + One(g = f)
         /\ queue # <<>> /\ Head(queue) = "hello" =>
               /\ Priority(g) # <<>> /\ Head(Priority(g)) = "hello"
               /\ Count(Tail(Priority(g)), "hello") = Count(Tail(queue), "hello")
  <1>1. CASE queue # <<>> /\ Head(queue) = "hello"
    <2> DEFINE t == Tail(queue)
               u == <<g>> \o t
    <2>1. /\ t \in Seq(Kinds) /\ Len(queue) = Len(t) + 1 /\ Len(t) \in Nat
          /\ \A f : Count(queue, f) = Count(t, f) + One("hello" = f)
      BY <1>1, Taken
    <2>2. /\ u \in Seq(Kinds) /\ Len(u) = Len(t) + 1
          /\ \A f : Count(u, f) = Count(t, f) + One(g = f)
      BY <2>1, Prepended
    <2>3. "hello" \in Kinds
      BY DEF Kinds
    <2> HIDE DEF t, u
    <2>4. /\ <<"hello">> \o u \in Seq(Kinds) /\ Len(<<"hello">> \o u) = Len(u) + 1
          /\ <<"hello">> \o u # <<>> /\ Head(<<"hello">> \o u) = "hello"
          /\ Tail(<<"hello">> \o u) = u
          /\ \A f : Count(<<"hello">> \o u, f) = Count(u, f) + One("hello" = f)
      BY <2>2, <2>3, Prepended
    <2>5. Priority(g) = <<"hello">> \o u
      <3>1. <<"hello", g>> = <<"hello">> \o <<g>>
        OBVIOUS
      <3>2. (<<"hello">> \o <<g>>) \o t = <<"hello">> \o (<<g>> \o t)
        BY <2>1, <2>3, ConcatAssociative
      <3> QED
        BY <1>1, <3>1, <3>2 DEF Priority, t, u
    <2>6. /\ Len(Priority(g)) = Len(queue) + 1
          /\ Tail(Priority(g)) = u
      BY <2>1, <2>2, <2>4, <2>5
    <2>7. ASSUME NEW f
          PROVE  Count(Priority(g), f) = Count(queue, f) + One(g = f)
      <3>1. Count(t, f) \in Nat
        BY <2>1, CountType
      <3>2. Count(Priority(g), f) = Count(u, f) + One("hello" = f)
        BY <2>4, <2>5
      <3>3. Count(u, f) = Count(t, f) + One(g = f)
        BY <2>2
      <3>4. Count(queue, f) = Count(t, f) + One("hello" = f)
        BY <2>1
      <3>5. One(g = f) \in Nat /\ One("hello" = f) \in Nat
        BY DEF One
      <3> QED
        BY <3>1, <3>2, <3>3, <3>4, <3>5
    <2>8. Count(u, "hello") = Count(Tail(queue), "hello")
      <3>1. Count(t, "hello") \in Nat
        BY <2>1, CountType
      <3> QED
        BY <2>2, <3>1 DEF One, t
    <2> QED
      BY <2>4, <2>5, <2>6, <2>7, <2>8
  <1>2. CASE ~(queue # <<>> /\ Head(queue) = "hello")
    BY <1>2, Prepended DEF Priority
  <1> QED
    BY <1>1, <1>2

-----------------------------------------------------------------------------
(* Types *)

LEMMA EndTypes ==
  ASSUME Types, NEW c \in {"local", "overload", "transport", "violation"} \union Deadlines,
         End(c), sink' = sink, in' \in Seq(Kinds), Len(in') <= InCap
  PROVE  Types'
  <1>1. <<>> \in Seq(Kinds) /\ Len(<<>>) = 0
    OBVIOUS
  <1> QED
    BY <1>1, LoopAssumption DEF Types, End, Return, deadlineVars, peerVars

LEMMA QuietTypes ==
  ASSUME Types, UNCHANGED <<cause, shared, late, sink, link, peerVars>>,
         pc' \in {"idle", "receive"}, handled' \in 0..MaxQueued \union 0..MaxProcessed,
         expired' \in {expired, {}},
         queue' \in Seq(Kinds), Len(queue') <= MaxQueued, in' \in Seq(Kinds), Len(in') <= InCap
  PROVE  Types'
  BY DEF Types, peerVars

LEMMA QueueGrows ==
  ASSUME Types, NEW k \in Kinds,
         \/ Len(queue) < MaxQueued /\ queue' = Append(queue, k)
         \/ queue' = queue
  PROVE  queue' \in Seq(Kinds) /\ Len(queue') <= MaxQueued
  <1>1. queue \in Seq(Kinds) /\ Len(queue) <= MaxQueued /\ MaxQueued \in Nat
    BY LoopAssumption DEF Types
  <1>2. Append(queue, k) \in Seq(Kinds) /\ Len(Append(queue, k)) = Len(queue) + 1
    BY <1>1, Appended
  <1> QED
    BY <1>1, <1>2

(* The peer after Transmit. *)
LEMMA TransmitPeer ==
  ASSUME Types, Transmit
  PROVE  /\ peer' \in [sentHello : BOOLEAN, gotHello : BOOLEAN, owed : Nat, pinging : BOOLEAN]
         /\ peer'.sentHello = peer.sentHello
         /\ peer'.gotHello <=> peer.gotHello \/ Head(sink) = "hello"
         /\ peer'.owed = peer.owed + One(Head(sink) = "ping")
         /\ peer'.pinging <=> peer.pinging /\ Head(sink) # "pong"
  <1> DEFINE got == peer.gotHello \/ Head(sink) = "hello"
             waiting == peer.pinging /\ Head(sink) # "pong"
             owed == peer.owed + One(Head(sink) = "ping")
  <1>1. peer' = [peer EXCEPT !.gotHello = got, !.owed = owed, !.pinging = waiting]
    BY DEF Transmit, One
  <1>2. got \in BOOLEAN /\ waiting \in BOOLEAN
    BY Zenon
  <1>3. owed \in Nat
    BY DEF Types, One
  <1> HIDE DEF got, waiting, owed
  <1>4. /\ peer' \in [sentHello : BOOLEAN, gotHello : BOOLEAN, owed : Nat, pinging : BOOLEAN]
        /\ peer'.sentHello = peer.sentHello /\ peer'.gotHello = got
        /\ peer'.owed = owed /\ peer'.pinging = waiting
    BY <1>1, <1>2, <1>3 DEF Types
  <1> QED
    BY <1>4, Zenon DEF got, waiting, owed

(* The peer after PeerSend. *)
LEMMA PeerSendPeer ==
  ASSUME Types, NEW f \in Kinds, PeerSend(f)
  PROVE  /\ peer' \in [sentHello : BOOLEAN, gotHello : BOOLEAN, owed : Nat, pinging : BOOLEAN]
         /\ f = "hello" => ~peer.sentHello /\ peer' = [peer EXCEPT !.sentHello = TRUE]
         /\ f # "hello" => peer.sentHello
         /\ f = "pong" => peer.owed > 0 /\ peer' = [peer EXCEPT !.owed = peer.owed - 1]
         /\ f = "ping" => ~peer.pinging /\ peer' = [peer EXCEPT !.pinging = TRUE]
         /\ f \in {"control", "data"} => peer' = peer
  <1>1. peer.sentHello \in BOOLEAN
    BY DEF Types
  <1>2. /\ f = "hello" => ~peer.sentHello
        /\ f # "hello" => peer.sentHello
    <2>1. peer.sentHello # (f = "hello")
      BY DEF PeerSend
    <2> QED
      BY <1>1, <2>1, Zenon
  <1>3. CASE f = "hello"
    BY <1>2, <1>3 DEF PeerSend, Types
  <1>4. CASE f = "pong"
    <2>1. peer.owed > 0 /\ peer' = [peer EXCEPT !.owed = peer.owed - 1]
      BY <1>4 DEF PeerSend
    <2>2. peer.owed - 1 \in Nat
      BY <2>1 DEF Types
    <2> QED
      BY <1>2, <1>4, <2>1, <2>2 DEF Types
  <1>5. CASE f = "ping"
    BY <1>2, <1>5 DEF PeerSend, Types
  <1>6. CASE f \in {"control", "data"}
    BY <1>2, <1>6 DEF PeerSend, Types
  <1> QED
    BY <1>3, <1>4, <1>5, <1>6 DEF Kinds

LEMMA StartTypes ==
  ASSUME IInv, Types, cause = "none",
         EnterClosed \/ EnterNoPing \/ EnterPing \/ EnterPingFull \/ Commands
  PROVE  Types'
  <1> USE LoopAssumption DEF Types, Polling, Enter, End, Return, Watched, Deadlines,
            pollVars, pingVars, deadlineVars, wakerVars, transportVars, peerVars
  <1>1. CASE EnterClosed
    BY <1>1 DEF EnterClosed
  <1>2. CASE EnterNoPing
    BY <1>2 DEF EnterNoPing
  <1>3. CASE EnterPing
    <2>1. Priority("ping") \in Seq(Kinds) /\ Len(Priority("ping")) = Len(queue) + 1
      BY Prioritised DEF Kinds
    <2> QED
      BY <1>3, <2>1 DEF EnterPing
  <1>4. CASE EnterPingFull
    BY <1>4 DEF EnterPingFull
  <1>5. CASE Commands
    <2>1. CASE End("overload")
      BY <1>5, <2>1, EndTypes DEF Commands
    <2>2. CASE pc' = "send" /\ UNCHANGED <<shared, queue>>
      BY <1>5, <2>2 DEF Commands
    <2> QED
      BY <1>5, <2>1, <2>2 DEF Commands
  <1> QED
    BY <1>1, <1>2, <1>3, <1>4, <1>5

LEMMA SendTypes ==
  ASSUME IInv, Types, cause = "none",
         SendFrame \/ SendDone \/ SendFails \/ Flushed \/ FlushPending
  PROVE  Types'
  <1> USE LoopAssumption DEF Types, End, Return,
            pollVars, pingVars, deadlineVars, wakerVars, transportVars, peerVars
  <1>1. CASE SendFrame
    <2>1. queue # <<>> /\ Len(sink) < SinkCap /\ queue' = Tail(queue)
          /\ sink' = Append(sink, Head(queue)) /\ handled < MaxQueued /\ handled' = handled + 1
      BY <1>1 DEF SendFrame
    <2>2. Head(queue) \in Kinds /\ queue' \in Seq(Kinds) /\ Len(queue') = Len(queue) - 1
      BY <2>1, Taken
    <2>3. sink' \in Seq(Kinds) /\ Len(sink') = Len(sink) + 1
      BY <2>1, <2>2, Appended
    <2> QED
      BY <1>1, <2>1, <2>2, <2>3 DEF SendFrame
  <1>2. CASE SendDone
    BY <1>2 DEF SendDone
  <1>3. CASE SendFails
    BY <1>3 DEF SendFails
  <1>4. CASE Flushed
    BY <1>4 DEF Flushed
  <1>5. CASE FlushPending
    BY <1>5 DEF FlushPending
  <1> QED
    BY <1>1, <1>2, <1>3, <1>4, <1>5

LEMMA ReceiveTypes ==
  ASSUME IInv, Types, cause = "none",
         ReceiveLate \/ ReceiveViolation \/ ReceiveHello \/ ReceiveChannelFrame
           \/ ReceivePing \/ ReceivePong \/ ReceiveDone \/ ReceiveEnd \/ CheckDeadlines
  PROVE  Types'
  <1> USE LoopAssumption DEF Types, Receiving, Take, Missed, Handled, Event, End, Return,
            Deadlines, pollVars, pingVars, deadlineVars, wakerVars, transportVars, peerVars
  <1>1. CASE ReceiveLate
    <2>1. in # <<>> /\ Tail(in) \in Seq(Kinds) /\ Len(Tail(in)) = Len(in) - 1
      BY <1>1, Taken DEF ReceiveLate
    <2> QED
      BY <1>1, <2>1 DEF ReceiveLate
  <1>2. CASE ReceiveViolation
    <2>1. in # <<>> /\ Tail(in) \in Seq(Kinds) /\ Len(Tail(in)) = Len(in) - 1
      BY <1>2, Taken DEF ReceiveViolation
    <2> QED
      BY <1>2, <2>1 DEF ReceiveViolation
  <1>3. CASE ReceiveHello
    <2>1. in # <<>> /\ Tail(in) \in Seq(Kinds) /\ Len(Tail(in)) = Len(in) - 1
      BY <1>3, Taken DEF ReceiveHello
    <2> QED
      BY <1>3, <2>1 DEF ReceiveHello
  <1>4. CASE ReceiveChannelFrame
    <2>1. in # <<>> /\ Tail(in) \in Seq(Kinds) /\ Len(Tail(in)) = Len(in) - 1
      BY <1>4, Taken DEF ReceiveChannelFrame
    <2>2. /\ in' = Tail(in) /\ handled < MaxProcessed
          /\ UNCHANGED <<cause, shared, late, sink, link, peerVars, queue>>
      BY <1>4 DEF ReceiveChannelFrame
    <2>3. handled + 1 \in 0..MaxQueued \union 0..MaxProcessed
      BY <2>2
    <2>4. CASE Handled
      BY <2>1, <2>2, <2>3, <2>4, QuietTypes
    <2>5. CASE Event
      BY <2>1, <2>2, <2>5, QuietTypes
    <2> QED
      BY <1>4, <2>4, <2>5 DEF ReceiveChannelFrame
  <1>5. CASE ReceivePing
    <2>1. Priority("pong") \in Seq(Kinds) /\ Len(Priority("pong")) = Len(queue) + 1
      BY Prioritised DEF Kinds
    <2>2. in # <<>> /\ Tail(in) \in Seq(Kinds) /\ Len(Tail(in)) = Len(in) - 1
      BY <1>5, Taken DEF ReceivePing
    <2>3. CASE End("overload")
      BY <1>5, <2>2, <2>3, EndTypes DEF ReceivePing
    <2>4. CASE Handled /\ Len(queue) < MaxQueued /\ queue' = Priority("pong")
      <3>1. in' = Tail(in) /\ handled < MaxProcessed
        BY <1>5 DEF ReceivePing
      <3>2. UNCHANGED <<cause, shared, late, sink, link, peerVars>>
        BY <1>5, <2>4 DEF ReceivePing
      <3>3. Len(queue') <= MaxQueued /\ handled + 1 \in 0..MaxQueued \union 0..MaxProcessed
        BY <2>1, <2>4, <3>1
      <3> QED
        BY <2>1, <2>2, <2>4, <3>1, <3>2, <3>3, QuietTypes
    <2> QED
      BY <1>5, <2>3, <2>4 DEF ReceivePing
  <1>6. CASE ReceivePong
    <2>1. in # <<>> /\ Tail(in) \in Seq(Kinds) /\ Len(Tail(in)) = Len(in) - 1
      BY <1>6, Taken DEF ReceivePong
    <2> QED
      BY <1>6, <2>1 DEF ReceivePong
  <1>7. CASE ReceiveDone
    BY <1>7 DEF ReceiveDone
  <1>8. CASE ReceiveEnd
    BY <1>8 DEF ReceiveEnd
  <1>9. CASE CheckDeadlines
    <2>1. CASE \E d \in Missed("none") : End(d)
      <3>1. PICK d \in Deadlines : End(d)
        BY <2>1
      <3> QED
        BY <1>9, <3>1, EndTypes DEF CheckDeadlines
    <2>2. CASE Return /\ UNCHANGED <<cause, shared, deadlineVars, queue, link, peerVars>>
      <3>1. UNCHANGED <<sink, in>>
        BY <1>9 DEF CheckDeadlines
      <3> QED
        BY <2>2, <3>1, QuietTypes
    <2> QED
      BY <1>9, <2>1, <2>2 DEF CheckDeadlines
  <1> QED
    BY <1>1, <1>2, <1>3, <1>4, <1>5, <1>6, <1>7, <1>8, <1>9

LEMMA TaskTypes ==
  ASSUME IInv, Types, cause = "none",
         QueueData \/ QueueControl \/ Terminate
  PROVE  Types'
  <1> USE LoopAssumption DEF Types,
            pollVars, pingVars, deadlineVars, wakerVars, transportVars, peerVars
  <1>1. CASE QueueData
    <2>1. \/ Len(queue) < MaxQueued /\ queue' = Append(queue, "data")
          \/ queue' = queue
      BY <1>1 DEF QueueData, DataLimit
    <2>2. queue' \in Seq(Kinds) /\ Len(queue') <= MaxQueued
      BY <2>1, QueueGrows DEF Kinds
    <2>3. shared' \in {shared, "overloaded"}
      BY <1>1 DEF QueueData
    <2>4. UNCHANGED <<pollVars, deadlineVars, transportVars, peerVars>>
      BY <1>1 DEF QueueData
    <2> QED
      BY <2>2, <2>3, <2>4
  <1>2. CASE QueueControl
    <2>1. \/ Len(queue) < MaxQueued /\ queue' = Append(queue, "control")
          \/ queue' = queue
      BY <1>2 DEF QueueControl, DataLimit
    <2>2. queue' \in Seq(Kinds) /\ Len(queue') <= MaxQueued
      BY <2>1, QueueGrows DEF Kinds
    <2>3. shared' \in {shared, "overloaded"}
      BY <1>2 DEF QueueControl
    <2>4. UNCHANGED <<pollVars, deadlineVars, transportVars, peerVars>>
      BY <1>2 DEF QueueControl
    <2> QED
      BY <2>2, <2>3, <2>4
  <1>3. CASE Terminate
    BY <1>3 DEF Terminate
  <1> QED
    BY <1>1, <1>2, <1>3

LEMMA EnvironmentTypes ==
  ASSUME IInv, Types, cause = "none", Environment
  PROVE  Types'
  <1> USE LoopAssumption DEF Types,
            pollVars, pingVars, deadlineVars, wakerVars, transportVars, peerVars
  <1>1. ASSUME NEW t \in Timers, Fire(t)
        PROVE  Types'
    <2>1. late' \subseteq late \union {t} /\ (t = "tick" => late' = late)
      BY <1>1 DEF Fire
    <2>2. late' \subseteq Deadlines
      BY <2>1 DEF Timers
    <2>3. UNCHANGED <<pollVars, shared, queue, transportVars, peerVars>>
      BY <1>1 DEF Fire
    <2> QED
      BY <2>2, <2>3
  <1>2. CASE Transmit
    <2>1. sink # <<>> /\ Tail(sink) \in Seq(Kinds) /\ Len(Tail(sink)) = Len(sink) - 1
      BY <1>2, Taken DEF Transmit
    <2>2. peerViolation' \in BOOLEAN
      BY <1>2, Zenon DEF Transmit
    <2>3. peer' \in [sentHello : BOOLEAN, gotHello : BOOLEAN, owed : Nat, pinging : BOOLEAN]
      BY <1>2, TransmitPeer
    <2>4. sink' = Tail(sink) /\ UNCHANGED <<pollVars, shared, deadlineVars, queue, in, link>>
      BY <1>2 DEF Transmit
    <2> QED
      BY <2>1, <2>2, <2>3, <2>4
  <1>3. CASE SinkReady
    BY <1>3 DEF SinkReady
  <1>4. ASSUME NEW f \in Kinds, PeerSend(f)
        PROVE  Types'
    <2>1. Append(in, f) \in Seq(Kinds) /\ Len(Append(in, f)) = Len(in) + 1
      BY Appended
    <2>2. peer' \in [sentHello : BOOLEAN, gotHello : BOOLEAN, owed : Nat, pinging : BOOLEAN]
      BY <1>4, PeerSendPeer
    <2>3. /\ Len(in) < InCap /\ in' = Append(in, f)
          /\ UNCHANGED <<pollVars, shared, deadlineVars, queue, sink, link, peerViolation>>
      BY <1>4 DEF PeerSend
    <2> QED
      BY <2>1, <2>2, <2>3
  <1>5. CASE LinkFails
    BY <1>5 DEF LinkFails
  <1> QED
    BY <1>1, <1>2, <1>3, <1>4, <1>5 DEF Environment

LEMMA TypesKept ==
  ASSUME IInv, Types, [Next]_vars
  PROVE  Types'
  <1>1. CASE UNCHANGED vars
    BY <1>1 DEF Types, vars, pollVars, pingVars, deadlineVars, wakerVars, transportVars, peerVars
  <1> QED
    BY <1>1, StartTypes, SendTypes, ReceiveTypes, TaskTypes, EnvironmentTypes
       DEF Next, Poll, Tasks

-----------------------------------------------------------------------------
(* The accounts *)

AInv == Types /\ Accounts /\ NoViolation

LEMMA Kept ==
  ASSUME Accounts, NoViolation, cause = "none",
         UNCHANGED <<cause, shared, hello, outstanding, pinged, queue, sink, in, peer,
                     peerViolation>>
  PROVE  Accounts' /\ NoViolation'
  BY DEF Accounts, NoViolation, PingSum, PongSum, HelloSent, HelloReceived

LEMMA Ended ==
  ASSUME NoViolation, NEW c \in {"local", "overload", "transport"} \union Deadlines, End(c)
  PROVE  Accounts' /\ NoViolation'
  BY DEF Accounts, NoViolation, End, peerVars, Deadlines

(* Counts are numbers. *)
LEMMA CountNat ==
  ASSUME Types
  PROVE  \A f : Count(queue, f) \in Nat /\ Count(sink, f) \in Nat /\ Count(in, f) \in Nat
  BY CountType DEF Types

LEMMA TailAppended ==
  ASSUME NEW s \in Seq(Kinds), s # <<>>, NEW g \in Kinds, NEW f
  PROVE  Count(Append(Tail(s), g), f) = Count(Tail(s), f) + One(g = f)
  <1>1. Tail(s) \in Seq(Kinds)
    BY Taken
  <1>2. \A t \in Seq(Kinds) : Count(Append(t, g), f) = Count(t, f) + One(g = f)
    BY Appended
  <1> QED
    BY <1>1, <1>2, Zenon

LEMMA Unsent ==
  ASSUME IInv, AInv, cause = "none",
         EnterClosed \/ EnterNoPing \/ EnterPingFull \/ Commands \/ SendDone \/ SendFails
           \/ Flushed \/ FlushPending
  PROVE  Accounts' /\ NoViolation'
  <1> USE DEF AInv, pollVars, pingVars, deadlineVars, wakerVars, transportVars, peerVars
  <1>1. CASE EnterClosed
    BY <1>1, Ended DEF EnterClosed
  <1>2. CASE EnterNoPing
    BY <1>2, Kept DEF EnterNoPing, Enter, Polling
  <1>3. CASE EnterPingFull
    BY <1>3, Ended DEF EnterPingFull
  <1>4. CASE Commands
    <2>1. CASE End("overload")
      BY <2>1, Ended
    <2>2. CASE ~End("overload")
      BY <1>4, <2>2, Kept DEF Commands
    <2> QED
      BY <2>1, <2>2
  <1>5. CASE SendDone
    BY <1>5, Kept DEF SendDone
  <1>6. CASE SendFails
    BY <1>6, Ended DEF SendFails
  <1>7. CASE Flushed
    <2>1. outstanding' = outstanding
      BY <1>7 DEF Flushed, IInv, PingStages
    <2> QED
      BY <1>7, <2>1, Kept DEF Flushed
  <1>8. CASE FlushPending
    BY <1>8, Kept DEF FlushPending
  <1> QED
    BY <1>1, <1>2, <1>3, <1>4, <1>5, <1>6, <1>7, <1>8

(* The ping enters the queue. *)
LEMMA PingQueued ==
  ASSUME IInv, AInv, cause = "none", EnterPing
  PROVE  Accounts' /\ NoViolation'
  <1>1. /\ shared = "up" /\ ~outstanding /\ outstanding' = TRUE
        /\ queue' = Priority("ping")
        /\ UNCHANGED <<cause, shared, hello, pinged, sink, in, peer, peerViolation>>
    BY DEF EnterPing, Enter, Polling, transportVars, peerVars
  <1>2. pinged = FALSE
    BY <1>1 DEF IInv, Booleans, PingStages
  <1>3. /\ \A f : Count(queue', f) = Count(queue, f) + One("ping" = f)
        /\ queue # <<>> /\ Head(queue) = "hello" =>
              /\ queue' # <<>> /\ Head(queue') = "hello"
              /\ Count(Tail(queue'), "hello") = Count(Tail(queue), "hello")
    BY <1>1, Prioritised DEF AInv, Types, Kinds
  <1>4. /\ Count(queue', "ping") = Count(queue, "ping") + 1
        /\ Count(queue', "pong") = Count(queue, "pong")
        /\ Count(queue', "hello") = Count(queue, "hello")
    BY <1>3, CountNat DEF AInv, One
  <1>5. PingSum' /\ PongSum'
    BY <1>1, <1>2, <1>4 DEF AInv, Accounts, PingSum, PongSum, One
  <1>6. HelloSent'
    BY <1>1, <1>3, <1>4 DEF AInv, Accounts, HelloSent
  <1> QED
    BY <1>1, <1>5, <1>6 DEF AInv, Accounts, HelloReceived, NoViolation

(* A frame goes from the queue to the transport. *)
LEMMA FrameSent ==
  ASSUME IInv, AInv, cause = "none", SendFrame
  PROVE  Accounts' /\ NoViolation'
  <1> DEFINE f == Head(queue)
  <1>1. /\ queue # <<>> /\ queue' = Tail(queue) /\ sink' = Append(sink, f)
        /\ UNCHANGED <<cause, shared, hello, outstanding, in, peer, peerViolation>>
    BY DEF SendFrame, transportVars, peerVars
  <1>2. shared # "closed"
    BY <1>1 DEF AInv, Accounts
  <1>3. /\ f \in Kinds
        /\ \A k : Count(queue, k) = Count(queue', k) + One(f = k)
        /\ \A k : Count(queue', k) \in Nat
    <2>1. queue \in Seq(Kinds)
      BY DEF AInv, Types
    <2>2. /\ f \in Kinds /\ Tail(queue) \in Seq(Kinds)
          /\ \A k : Count(queue, k) = Count(Tail(queue), k) + One(f = k)
      BY <1>1, <2>1, Taken
    <2>3. \A k : Count(Tail(queue), k) \in Nat
      BY <2>2, CountType
    <2> QED
      BY <1>1, <2>2, <2>3
  <1>4. /\ \A k : Count(sink', k) = Count(sink, k) + One(f = k)
        /\ sink' # <<>> /\ Head(sink') = (IF sink = <<>> THEN f ELSE Head(sink))
        /\ Tail(sink') = (IF sink = <<>> THEN <<>> ELSE Append(Tail(sink), f))
    BY <1>1, <1>3, Appended DEF AInv, Types
  <1>5. \A k : Count(sink, k) \in Nat /\ Count(in, k) \in Nat
    BY CountNat DEF AInv
  <1> HIDE DEF f
  <1>6. PingSum'
    <2>1. CASE f = "ping"
      <3>1. /\ Count(queue, "ping") = Count(queue', "ping") + 1
            /\ Count(sink', "ping") = Count(sink, "ping") + 1
        BY <1>3, <1>4, <2>1 DEF One
      <3>2. outstanding /\ ~pinged /\ Count(queue', "ping") = 0
        BY <1>2, <1>3, <3>1 DEF AInv, Accounts, PingSum, One
      <3>3. pinged' = TRUE
        BY <2>1, <3>2 DEF SendFrame, f
      <3> QED
        BY <1>1, <1>2, <1>5, <3>1, <3>2, <3>3 DEF AInv, Accounts, PingSum, Types, One
    <2>2. CASE f # "ping"
      <3>1. /\ Count(queue, "ping") = Count(queue', "ping")
            /\ Count(sink', "ping") = Count(sink, "ping")
        BY <1>3, <1>4, <1>5, <2>2 DEF One
      <3>2. pinged' = pinged
        BY <2>2 DEF SendFrame, f
      <3> QED
        BY <1>1, <1>2, <3>1, <3>2 DEF AInv, Accounts, PingSum
    <2> QED
      BY <2>1, <2>2
  <1>7. PongSum'
    <2>1. Count(queue', "pong") + Count(sink', "pong")
            = Count(queue, "pong") + Count(sink, "pong")
      BY <1>3, <1>4, <1>5 DEF One
    <2>2. Count(queue', "pong") \in Nat /\ Count(sink', "pong") \in Nat
      BY <1>3, <1>4, <1>5 DEF One
    <2>3. Count(queue, "pong") \in Nat
      BY CountNat DEF AInv
    <2>4. PongSum /\ One(peer.pinging) \in Nat
      BY DEF AInv, Accounts, One
    <2>5. Count(in, "ping") \in Nat /\ Count(sink, "pong") \in Nat
      BY <1>5
    <2> QED
      BY <1>1, <2>1, <2>2, <2>3, <2>4, <2>5 DEF PongSum
  <1>8. HelloSent'
    <2>1. CASE peer.gotHello
      BY <1>1, <1>3, <1>4, <1>5, <2>1 DEF AInv, Accounts, HelloSent, One
    <2>2. CASE ~peer.gotHello /\ sink # <<>>
      <3>1. /\ Head(sink) = "hello" /\ Count(Tail(sink), "hello") = 0
            /\ Count(queue, "hello") = 0
        BY <2>2 DEF AInv, Accounts, HelloSent
      <3>2. Count(queue', "hello") = 0 /\ f # "hello"
        BY <1>3, <3>1 DEF One
      <3>3. Count(Append(Tail(sink), f), "hello") = 0
        <4>1. Count(Append(Tail(sink), f), "hello")
                = Count(Tail(sink), "hello") + One(f = "hello")
          BY <1>3, <2>2, TailAppended DEF AInv, Types
        <4> QED
          BY <3>1, <3>2, <4>1 DEF One
      <3> QED
        BY <1>1, <1>4, <2>2, <3>1, <3>2, <3>3 DEF HelloSent
    <2>3. CASE ~peer.gotHello /\ sink = <<>>
      <3>1. f = "hello" /\ Count(queue', "hello") = 0
        BY <1>1, <1>2, <2>3 DEF AInv, Accounts, HelloSent, f
      <3>2. Head(sink') = "hello" /\ Tail(sink') = <<>>
        BY <1>4, <2>3, <3>1
      <3> QED
        BY <1>1, <1>4, <2>3, <3>1, <3>2, CountEmpty DEF HelloSent
    <2> QED
      BY <2>1, <2>2, <2>3
  <1> QED
    BY <1>1, <1>2, <1>6, <1>7, <1>8 DEF AInv, Accounts, HelloReceived, NoViolation

(* The frames of tasks. *)
LEMMA TasksQueued ==
  ASSUME IInv, AInv, cause = "none", Tasks
  PROVE  Accounts' /\ NoViolation'
  <1>1. UNCHANGED <<cause, hello, outstanding, pinged, sink, in, peer, peerViolation>>
    BY DEF Tasks, QueueData, QueueControl, Terminate, pollVars, pingVars, transportVars, peerVars
  <1>2. CASE shared' = shared /\ queue' = queue
    BY <1>1, <1>2, Kept DEF AInv
  <1>3. ASSUME NEW k \in {"data", "control"}, shared' = shared, shared = "up",
               queue' = Append(queue, k)
        PROVE  Accounts' /\ NoViolation'
    <2>1. /\ queue' # <<>> /\ Head(queue') = (IF queue = <<>> THEN k ELSE Head(queue))
          /\ Tail(queue') = (IF queue = <<>> THEN <<>> ELSE Append(Tail(queue), k))
          /\ \A f : Count(queue', f) = Count(queue, f) + One(k = f)
      BY <1>3, Appended DEF AInv, Types, Kinds
    <2>2. \A f \in {"hello", "ping", "pong"} : Count(queue', f) = Count(queue, f)
      BY <2>1, CountNat DEF AInv, One
    <2>3. HelloSent'
      <3>1. CASE queue # <<>> /\ Count(Tail(queue), "hello") = 0
        <4>1. Count(Append(Tail(queue), k), "hello")
                = Count(Tail(queue), "hello") + One(k = "hello")
          BY <3>1, TailAppended DEF AInv, Types, Kinds
        <4>2. One(k = "hello") = 0 /\ Tail(queue') = Append(Tail(queue), k)
          BY <2>1, <3>1 DEF One
        <4>3. Count(Append(Tail(queue), k), "hello") = 0
          BY <3>1, <4>1, <4>2
        <4>4. Count(Tail(queue'), "hello") = 0
          BY <4>2, <4>3, Zenon
        <4> QED
          BY <1>1, <1>3, <2>1, <2>2, <3>1, <4>4 DEF AInv, Accounts, HelloSent
      <3>2. CASE ~(queue # <<>> /\ Count(Tail(queue), "hello") = 0)
        BY <1>1, <1>3, <2>2, <3>2 DEF AInv, Accounts, HelloSent
      <3> QED
        BY <3>1, <3>2
    <2> QED
      BY <1>1, <1>3, <2>2, <2>3
         DEF AInv, Accounts, PingSum, PongSum, HelloReceived, NoViolation
  <1>4. CASE shared' = "overloaded" /\ shared = "up" /\ queue' = queue
    BY <1>1, <1>4 DEF AInv, Accounts, PingSum, PongSum, HelloSent, HelloReceived, NoViolation
  <1>5. CASE shared' = "closed" /\ queue' = <<>>
    <2>1. PongSum'
      BY <1>1, <1>5, CountEmpty, CountNat DEF AInv, Accounts, PongSum, One, Types
    <2>2. PingSum'
      BY <1>1, <1>5, CountEmpty DEF AInv, Accounts, PingSum, One
    <2>3. HelloSent'
      BY <1>1, <1>5, CountEmpty DEF AInv, Accounts, HelloSent
    <2> QED
      BY <1>1, <1>5, <2>1, <2>2, <2>3 DEF AInv, Accounts, HelloReceived, NoViolation
  <1> QED
    BY <1>2, <1>3, <1>4, <1>5 DEF Tasks, QueueData, QueueControl, Terminate

-----------------------------------------------------------------------------
(* Frames of the peer *)

(* What comes in. *)
LEMMA FrameTaken ==
  ASSUME Types, in # <<>>, in' = Tail(in)
  PROVE  /\ Head(in) \in Kinds
         /\ \A k : Count(in, k) = Count(in', k) + One(Head(in) = k)
         /\ \A k : Count(in', k) \in Nat
  <1>1. /\ Head(in) \in Kinds /\ Tail(in) \in Seq(Kinds)
        /\ \A k : Count(in, k) = Count(Tail(in), k) + One(Head(in) = k)
    BY Taken DEF Types
  <1>2. \A k : Count(Tail(in), k) \in Nat
    BY <1>1, CountType
  <1> QED
    BY <1>1, <1>2

(* The peer gives no reason to complain: its Hello is its first frame, and *)
(* its pongs were asked for.                                               *)
LEMMA NothingToViolate ==
  ASSUME IInv, AInv, cause = "none"
  PROVE  ~ReceiveViolation
  <1> SUFFICES ASSUME ReceiveViolation
               PROVE  FALSE
    OBVIOUS
  <1>1. in # <<>> /\ in' = Tail(in)
    BY DEF ReceiveViolation
  <1>2. /\ \A k : Count(in, k) = Count(in', k) + One(Head(in) = k)
        /\ \A k : Count(in', k) \in Nat
    BY <1>1, FrameTaken DEF AInv
  <1>3. hello \in BOOLEAN /\ peer.sentHello
    BY <1>1 DEF IInv, Booleans, AInv, Accounts, HelloReceived
  <1>4. hello => Head(in) # "hello"
    <2>1. hello => Count(in, "hello") = 0
      BY DEF AInv, Accounts, HelloReceived
    <2> QED
      BY <1>2, <2>1 DEF One
  <1>5. ~hello => Head(in) = "hello"
    BY <1>3 DEF AInv, Accounts, HelloReceived
  <1>6. Head(in) = "pong" => pinged
    <2>1. /\ Count(sink, "ping") \in Nat /\ peer.owed \in Nat
          /\ Count(sink, "ping") + peer.owed + Count(in, "pong") = One(pinged)
      BY CountNat DEF AInv, Accounts, PingSum, Types
    <2>2. Head(in) = "pong" => Count(in, "pong") > 0
      BY <1>2 DEF One
    <2>3. Count(in, "pong") \in Nat
      BY CountNat DEF AInv
    <2>4. ~pinged => One(pinged) = 0
      BY DEF One
    <2> QED
      BY <2>1, <2>2, <2>3, <2>4
  <1>7. \/ hello = (Head(in) = "hello")
        \/ Head(in) = "pong" /\ ~pinged
    BY DEF ReceiveViolation
  <1> QED
    BY <1>3, <1>4, <1>5, <1>6, <1>7, Zenon

LEMMA HelloTaken ==
  ASSUME IInv, AInv, cause = "none", ReceiveHello
  PROVE  Accounts' /\ NoViolation'
  <1>1. /\ in # <<>> /\ Head(in) = "hello" /\ in' = Tail(in) /\ ~hello /\ hello' = TRUE
        /\ UNCHANGED <<cause, shared, outstanding, pinged, queue, sink, peer, peerViolation>>
    BY DEF ReceiveHello, Take, Event, pingVars, peerVars
  <1>2. \A k \in {"ping", "pong"} : Count(in, k) = Count(in', k)
    BY <1>1, FrameTaken DEF AInv, One
  <1>3. PingSum' /\ PongSum'
    BY <1>1, <1>2 DEF AInv, Accounts, PingSum, PongSum
  <1>4. HelloSent'
    BY <1>1 DEF AInv, Accounts, HelloSent
  <1>5. HelloReceived'
    BY <1>1 DEF AInv, Accounts, HelloReceived
  <1> QED
    BY <1>1, <1>3, <1>4, <1>5 DEF AInv, Accounts, NoViolation

LEMMA ChannelFrameTaken ==
  ASSUME IInv, AInv, cause = "none", ReceiveChannelFrame
  PROVE  Accounts' /\ NoViolation'
  <1>1. /\ in # <<>> /\ Head(in) \in {"data", "control"} /\ in' = Tail(in) /\ hello
        /\ UNCHANGED <<cause, shared, hello, outstanding, pinged, queue, sink, peer, peerViolation>>
    BY DEF ReceiveChannelFrame, Take, Handled, Event, pingVars, peerVars
  <1>2. \A k \in {"hello", "ping", "pong"} : Count(in, k) = Count(in', k)
    BY <1>1, FrameTaken DEF AInv, One
  <1>3. PingSum' /\ PongSum'
    BY <1>1, <1>2 DEF AInv, Accounts, PingSum, PongSum
  <1>4. HelloSent'
    BY <1>1 DEF AInv, Accounts, HelloSent
  <1>5. HelloReceived'
    BY <1>1, <1>2 DEF AInv, Accounts, HelloReceived
  <1> QED
    BY <1>1, <1>3, <1>4, <1>5 DEF AInv, Accounts, NoViolation

(* A ping is answered in the queue. *)
LEMMA PingTaken ==
  ASSUME IInv, AInv, cause = "none", ReceivePing
  PROVE  Accounts' /\ NoViolation'
  <1>1. CASE End("overload")
    BY <1>1, Ended DEF AInv
  <1>2. CASE ~End("overload")
    <2>1. /\ in # <<>> /\ Head(in) = "ping" /\ in' = Tail(in) /\ hello /\ shared = "up"
          /\ queue' = Priority("pong")
          /\ UNCHANGED <<cause, shared, hello, outstanding, pinged, sink, peer, peerViolation>>
      BY <1>2 DEF ReceivePing, Take, Handled, pingVars, peerVars
    <2>2. /\ \A k : Count(in, k) = Count(in', k) + One("ping" = k)
          /\ \A k : Count(in', k) \in Nat
      BY <2>1, FrameTaken DEF AInv
    <2>3. /\ \A f : Count(queue', f) = Count(queue, f) + One("pong" = f)
          /\ queue # <<>> /\ Head(queue) = "hello" =>
                /\ queue' # <<>> /\ Head(queue') = "hello"
                /\ Count(Tail(queue'), "hello") = Count(Tail(queue), "hello")
      BY <2>1, Prioritised DEF AInv, Types, Kinds
    <2>4. /\ Count(queue', "ping") = Count(queue, "ping")
          /\ Count(queue', "pong") = Count(queue, "pong") + 1
          /\ Count(queue', "hello") = Count(queue, "hello")
      BY <2>3, CountNat DEF AInv, One
    <2>5. /\ Count(in, "ping") = Count(in', "ping") + 1
          /\ Count(in', "pong") = Count(in, "pong")
          /\ Count(in', "hello") = Count(in, "hello")
      BY <2>2 DEF One
    <2>6. PingSum'
      BY <2>1, <2>4, <2>5 DEF AInv, Accounts, PingSum
    <2>7. PongSum'
      <3>1. /\ PongSum /\ One(peer.pinging) \in Nat
            /\ Count(sink, "pong") \in Nat /\ Count(queue, "pong") \in Nat
            /\ Count(in', "ping") \in Nat
        BY <2>2, CountNat DEF AInv, Accounts, One
      <3> QED
        BY <2>1, <2>4, <2>5, <3>1 DEF PongSum
    <2>8. HelloSent'
      BY <2>1, <2>3, <2>4 DEF AInv, Accounts, HelloSent
    <2>9. HelloReceived'
      BY <2>1, <2>5 DEF AInv, Accounts, HelloReceived
    <2> QED
      BY <2>1, <2>6, <2>7, <2>8, <2>9 DEF AInv, Accounts, NoViolation
  <1> QED
    BY <1>1, <1>2

(* The pong ends the ping. *)
LEMMA PongTaken ==
  ASSUME IInv, AInv, cause = "none", ReceivePong
  PROVE  Accounts' /\ NoViolation'
  <1>1. /\ in # <<>> /\ Head(in) = "pong" /\ in' = Tail(in) /\ hello /\ pinged
        /\ pinged' = FALSE /\ outstanding' = FALSE
        /\ UNCHANGED <<cause, shared, hello, queue, sink, peer, peerViolation>>
    BY DEF ReceivePong, Take, Handled, peerVars
  <1>2. /\ \A k : Count(in, k) = Count(in', k) + One("pong" = k)
        /\ \A k : Count(in', k) \in Nat
    BY <1>1, FrameTaken DEF AInv
  <1>3. /\ Count(in, "pong") = Count(in', "pong") + 1
        /\ Count(in', "ping") = Count(in, "ping")
        /\ Count(in', "hello") = Count(in, "hello")
    BY <1>2 DEF One
  <1>4. PingSum'
    <2>1. /\ PingSum /\ peer.owed \in Nat /\ Count(sink, "ping") \in Nat
          /\ Count(in', "pong") \in Nat
      BY <1>2, CountNat DEF AInv, Accounts, Types
    <2> QED
      BY <1>1, <1>3, <2>1 DEF PingSum, One
  <1>5. PongSum' /\ HelloSent'
    BY <1>1, <1>3 DEF AInv, Accounts, PongSum, HelloSent
  <1>6. HelloReceived'
    BY <1>1, <1>3 DEF AInv, Accounts, HelloReceived
  <1> QED
    BY <1>1, <1>4, <1>5, <1>6 DEF AInv, Accounts, NoViolation

LEMMA Received ==
  ASSUME IInv, AInv, cause = "none",
         ReceiveLate \/ ReceiveViolation \/ ReceiveHello \/ ReceiveChannelFrame
           \/ ReceivePing \/ ReceivePong \/ ReceiveDone \/ ReceiveEnd \/ CheckDeadlines
  PROVE  Accounts' /\ NoViolation'
  <1>1. \A kind : Missed(kind) \subseteq Deadlines
    BY DEF Missed, Deadlines
  <1>2. CASE ReceiveLate
    <2>1. PICK d \in Missed(Head(in)) : End(d)
      BY <1>2 DEF ReceiveLate
    <2> QED
      BY <1>1, <2>1, Ended DEF AInv
  <1>3. CASE ReceiveDone
    BY <1>3, Kept DEF AInv, ReceiveDone, pingVars, transportVars, peerVars
  <1>4. CASE ReceiveEnd
    BY <1>4, Ended DEF AInv, ReceiveEnd
  <1>5. CASE CheckDeadlines
    <2>1. CASE \E d \in Missed("none") : End(d)
      BY <1>1, <2>1, Ended DEF AInv
    <2>2. CASE ~\E d \in Missed("none") : End(d)
      BY <1>5, <2>2, Kept DEF AInv, CheckDeadlines, pingVars, peerVars
    <2> QED
      BY <2>1, <2>2
  <1> QED
    BY <1>2, <1>3, <1>4, <1>5, NothingToViolate, HelloTaken,
       ChannelFrameTaken, PingTaken, PongTaken

-----------------------------------------------------------------------------
(* The transport and the other side *)

LEMMA FrameTransmitted ==
  ASSUME IInv, AInv, cause = "none", Transmit
  PROVE  Accounts' /\ NoViolation'
  <1> DEFINE f == Head(sink)
  <1>1. /\ sink # <<>> /\ sink' = Tail(sink)
        /\ UNCHANGED <<cause, shared, hello, outstanding, pinged, queue, in>>
    BY DEF Transmit, pollVars, pingVars
  <1>2. /\ f \in Kinds
        /\ \A k : Count(sink, k) = Count(sink', k) + One(f = k)
        /\ \A k : Count(sink', k) \in Nat
    <2>1. /\ f \in Kinds /\ Tail(sink) \in Seq(Kinds)
          /\ \A k : Count(sink, k) = Count(Tail(sink), k) + One(f = k)
      BY <1>1, Taken DEF AInv, Types
    <2>2. \A k : Count(Tail(sink), k) \in Nat
      BY <2>1, CountType
    <2> QED
      BY <1>1, <2>1, <2>2
  <1>3. /\ peer'.sentHello = peer.sentHello
        /\ peer'.gotHello <=> peer.gotHello \/ f = "hello"
        /\ peer'.owed = peer.owed + One(f = "ping")
        /\ peer'.pinging <=> peer.pinging /\ f # "pong"
        /\ peer'.pinging \in BOOLEAN /\ peer'.gotHello \in BOOLEAN
    BY TransmitPeer DEF AInv
  <1>4. /\ peer.owed \in Nat /\ peer.pinging \in BOOLEAN /\ peer.gotHello \in BOOLEAN
        /\ \A k : Count(queue, k) \in Nat /\ Count(in, k) \in Nat
    BY CountNat DEF AInv, Types
  <1>5. peerViolation' <=> \/ peerViolation
                           \/ peer.gotHello = (f = "hello")
                           \/ f = "pong" /\ ~peer.pinging
    BY Zenon DEF Transmit
  <1> HIDE DEF f
  <1>6. PingSum'
    <2>1. Count(sink', "ping") + One(f = "ping") = Count(sink, "ping")
      BY <1>2
    <2>2. One(f = "ping") \in Nat
      BY DEF One
    <2>3. PingSum
      BY DEF AInv, Accounts
    <2> QED
      BY <1>1, <1>2, <1>3, <1>4, <2>1, <2>2, <2>3 DEF PingSum
  <1>7. PongSum' /\ (f = "pong" => peer.pinging)
    <2>1. Count(sink, "pong") = Count(sink', "pong") + One(f = "pong")
      BY <1>2
    <2>2. PongSum
      BY DEF AInv, Accounts
    <2>3. CASE f = "pong"
      BY <1>1, <1>2, <1>3, <1>4, <2>1, <2>2, <2>3 DEF PongSum, One
    <2>4. CASE f # "pong"
      BY <1>1, <1>2, <1>3, <1>4, <2>1, <2>2, <2>4 DEF PongSum, One
    <2> QED
      BY <2>3, <2>4
  <1>8. /\ HelloSent'
        /\ peer.gotHello => f # "hello"
        /\ ~peer.gotHello => f = "hello"
    <2>1. Count(sink, "hello") = Count(sink', "hello") + One(f = "hello")
      BY <1>2
    <2>2. CASE peer.gotHello
      <3>1. Count(sink, "hello") = 0 /\ Count(queue, "hello") = 0
        BY <2>2 DEF AInv, Accounts, HelloSent
      <3>2. f # "hello" /\ Count(sink', "hello") = 0
        BY <1>2, <2>1, <3>1 DEF One
      <3> QED
        BY <1>1, <1>3, <2>2, <3>1, <3>2 DEF HelloSent
    <2>3. CASE ~peer.gotHello
      <3>1. f = "hello" /\ Count(sink', "hello") = 0 /\ Count(queue, "hello") = 0
        BY <1>1, <2>3 DEF AInv, Accounts, HelloSent, f
      <3> QED
        BY <1>1, <1>3, <2>3, <3>1 DEF HelloSent
    <2> QED
      BY <2>2, <2>3
  <1>9. HelloReceived'
    BY <1>1, <1>3 DEF AInv, Accounts, HelloReceived
  <1>10. ~peerViolation'
    <2>1. ~peerViolation /\ (f = "hello") \in BOOLEAN
      BY DEF AInv, NoViolation
    <2>2. ~(peer.gotHello = (f = "hello"))
      BY <1>4, <1>8, <2>1, Zenon
    <2> QED
      BY <1>5, <1>7, <2>1, <2>2, Zenon
  <1> QED
    BY <1>1, <1>6, <1>7, <1>8, <1>9, <1>10 DEF AInv, Accounts, NoViolation

LEMMA PeerSent ==
  ASSUME IInv, AInv, cause = "none", NEW f \in Kinds, PeerSend(f)
  PROVE  Accounts' /\ NoViolation'
  <1>1. /\ in' = Append(in, f)
        /\ UNCHANGED <<cause, shared, hello, outstanding, pinged, queue, sink, peerViolation>>
    BY DEF PeerSend, pollVars, pingVars
  <1>2. /\ in' # <<>> /\ Head(in') = (IF in = <<>> THEN f ELSE Head(in))
        /\ Tail(in') = (IF in = <<>> THEN <<>> ELSE Append(Tail(in), f))
        /\ \A k : Count(in', k) = Count(in, k) + One(f = k)
    BY <1>1, Appended DEF AInv, Types
  <1>3. /\ f = "hello" => ~peer.sentHello /\ peer' = [peer EXCEPT !.sentHello = TRUE]
        /\ f # "hello" => peer.sentHello
        /\ f = "pong" => peer.owed > 0 /\ peer' = [peer EXCEPT !.owed = peer.owed - 1]
        /\ f = "ping" => ~peer.pinging /\ peer' = [peer EXCEPT !.pinging = TRUE]
        /\ f \in {"control", "data"} => peer' = peer
    BY PeerSendPeer DEF AInv
  <1>4. /\ peer \in [sentHello : BOOLEAN, gotHello : BOOLEAN, owed : Nat, pinging : BOOLEAN]
        /\ \A k : Count(sink, k) \in Nat /\ Count(in, k) \in Nat /\ Count(queue, k) \in Nat
    BY CountNat DEF AInv, Types
  <1>5. /\ peer'.gotHello = peer.gotHello
        /\ peer'.sentHello
        /\ peer'.owed = peer.owed - One(f = "pong")
        /\ peer'.pinging <=> peer.pinging \/ f = "ping"
    <2>1. CASE f = "hello"
      BY <1>3, <1>4, <2>1 DEF One
    <2>2. CASE f = "pong"
      BY <1>3, <1>4, <2>2 DEF One
    <2>3. CASE f = "ping"
      BY <1>3, <1>4, <2>3 DEF One
    <2>4. CASE f \in {"control", "data"}
      BY <1>3, <1>4, <2>4 DEF One
    <2> QED
      BY <2>1, <2>2, <2>3, <2>4 DEF Kinds
  <1>6. PingSum'
    <2>1. PingSum /\ One(f = "pong") \in Nat
      BY DEF AInv, Accounts, One
    <2>2. Count(in', "pong") = Count(in, "pong") + One(f = "pong")
      BY <1>2
    <2> QED
      BY <1>1, <1>4, <1>5, <2>1, <2>2 DEF PingSum
  <1>7. PongSum'
    <2>1. PongSum /\ Count(in', "ping") = Count(in, "ping") + One(f = "ping")
      BY <1>2 DEF AInv, Accounts
    <2>2. CASE f = "ping"
      BY <1>1, <1>3, <1>4, <1>5, <2>1, <2>2 DEF PongSum, One
    <2>3. CASE f # "ping"
      BY <1>1, <1>4, <1>5, <2>1, <2>3 DEF PongSum, One
    <2> QED
      BY <2>2, <2>3
  <1>8. HelloSent'
    BY <1>1, <1>5 DEF AInv, Accounts, HelloSent
  <1>9. HelloReceived'
    <2>1. CASE ~peer.sentHello
      <3>1. in = <<>> /\ ~hello /\ f = "hello"
        BY <1>3, <2>1 DEF AInv, Accounts, HelloReceived
      <3>2. in' # <<>> /\ Head(in') = "hello" /\ Tail(in') = <<>>
        BY <1>2, <3>1
      <3> QED
        BY <1>1, <1>5, <3>1, <3>2, CountEmpty DEF HelloReceived
    <2>2. CASE peer.sentHello /\ hello
      <3>1. f # "hello" /\ Count(in, "hello") = 0
        BY <1>3, <2>2 DEF AInv, Accounts, HelloReceived
      <3>2. Count(in', "hello") = 0
        BY <1>2, <3>1 DEF One
      <3> QED
        BY <1>1, <1>5, <2>2, <3>2 DEF HelloReceived
    <2>3. CASE peer.sentHello /\ ~hello
      <3>1. /\ f # "hello" /\ in # <<>> /\ Head(in) = "hello"
            /\ Count(Tail(in), "hello") = 0
        BY <1>3, <2>3 DEF AInv, Accounts, HelloReceived
      <3>2. Count(Append(Tail(in), f), "hello") = Count(Tail(in), "hello") + One(f = "hello")
        BY <3>1, TailAppended DEF AInv, Types
      <3>3. Count(Append(Tail(in), f), "hello") = 0
        BY <3>1, <3>2 DEF One
      <3>4. Tail(in') = Append(Tail(in), f) /\ Head(in') = "hello" /\ in' # <<>>
        BY <1>2, <3>1
      <3>5. Count(Tail(in'), "hello") = 0
        BY <3>3, <3>4, Zenon
      <3> QED
        BY <1>1, <1>5, <2>3, <3>4, <3>5 DEF HelloReceived
    <2> QED
      BY <2>1, <2>2, <2>3
  <1> QED
    BY <1>1, <1>6, <1>7, <1>8, <1>9 DEF AInv, Accounts, NoViolation

LEMMA AroundTheLoop ==
  ASSUME IInv, AInv, cause = "none", Environment
  PROVE  Accounts' /\ NoViolation'
  <1>1. ASSUME NEW t \in Timers, Fire(t)
        PROVE  Accounts' /\ NoViolation'
    BY <1>1, Kept DEF AInv, Fire, pollVars, pingVars, transportVars, peerVars
  <1>2. CASE SinkReady
    BY <1>2, Kept DEF AInv, SinkReady, pollVars, pingVars, transportVars, peerVars
  <1>3. CASE LinkFails
    BY <1>3, Kept DEF AInv, LinkFails, pollVars, pingVars, peerVars
  <1> QED
    BY <1>1, <1>2, <1>3, FrameTransmitted, PeerSent DEF Environment

-----------------------------------------------------------------------------
LEMMA AccountsInitially == Init => AInv
  <1> SUFFICES ASSUME Init
               PROVE  AInv
    OBVIOUS
  <1>1. /\ <<>> \in Seq(Kinds) /\ "hello" \in Kinds /\ queue = Append(<<>>, "hello")
        /\ Len(<<>>) = 0
    BY DEF Init, Kinds
  <1>2. /\ queue \in Seq(Kinds) /\ Len(queue) = 1 /\ queue # <<>>
        /\ Head(queue) = "hello" /\ Tail(queue) = <<>>
        /\ \A f : Count(queue, f) = Count(<<>>, f) + One("hello" = f)
    <2>1. \A s \in Seq(Kinds) :
             /\ Append(s, "hello") \in Seq(Kinds) /\ Append(s, "hello") # <<>>
             /\ Len(Append(s, "hello")) = Len(s) + 1
             /\ s = <<>> => Head(Append(s, "hello")) = "hello" /\ Tail(Append(s, "hello")) = <<>>
             /\ \A f : Count(Append(s, "hello"), f) = Count(s, f) + One("hello" = f)
      BY <1>1, Appended
    <2>2. /\ queue \in Seq(Kinds) /\ Len(queue) = Len(<<>>) + 1 /\ queue # <<>>
          /\ Head(queue) = "hello" /\ Tail(queue) = <<>>
          /\ \A f : Count(queue, f) = Count(<<>>, f) + One("hello" = f)
      BY <1>1, <2>1, Zenon
    <2> QED
      BY <1>1, <2>2
  <1>3. \A f : Count(queue, f) = One("hello" = f)
    BY <1>2, CountEmpty DEF One
  <1>4. Types
    <2>1. peer \in [sentHello : BOOLEAN, gotHello : BOOLEAN, owed : Nat, pinging : BOOLEAN]
      BY DEF Init
    <2>2. {MaxQueued, MaxProcessed, SinkCap, InCap} \subseteq Nat \ {0}
      BY LoopAssumption
    <2>3. Len(queue) <= MaxQueued /\ Len(<<>>) <= SinkCap /\ Len(<<>>) <= InCap
      BY <1>1, <1>2, <2>2
    <2>4. 0 \in 0..MaxQueued \union 0..MaxProcessed
      BY <2>2
    <2>5. /\ sink = <<>> /\ in = <<>> /\ pc = "idle" /\ handled = 0 /\ expired = {} /\ late = {}
          /\ cause = "none" /\ shared = "up" /\ peerViolation = FALSE /\ link = "up"
      BY DEF Init
    <2> QED
      BY <1>1, <1>2, <2>1, <2>3, <2>4, <2>5 DEF Types
  <1>5. PingSum /\ PongSum /\ HelloSent /\ HelloReceived
    BY <1>2, <1>3, CountEmpty DEF Init, PingSum, PongSum, HelloSent, HelloReceived, One
  <1> QED
    BY <1>4, <1>5 DEF Init, AInv, Accounts, NoViolation

LEMMA AccountsKept == Spec => []AInv
  <1>1. IInv /\ AInv /\ [Next]_vars => AInv'
    <2>1. ASSUME AInv, UNCHANGED vars
          PROVE  Accounts' /\ NoViolation'
      BY <2>1 DEF AInv, Accounts, NoViolation, PingSum, PongSum, HelloSent, HelloReceived, vars,
                  pollVars, pingVars, transportVars, peerVars
    <2> QED
      BY <2>1, TypesKept, Unsent, PingQueued, FrameSent, TasksQueued, Received, AroundTheLoop
         DEF AInv, Next, Poll
  <1> QED
    BY <1>1, Invariance, AccountsInitially, PTL DEF Spec

(* Two endpoints that run this code never see a violation of the protocol, *)
(* account for every ping and pong, and give up for a deadline only if it  *)
(* was missed, whatever fills the queue and the transport in between.      *)
THEOREM Honoured == Spec => []ProtocolHonoured
  <1>1. IInv /\ AInv => PingAccounted
    <2> SUFFICES ASSUME IInv, AInv, cause = "none", shared # "closed"
                 PROVE  PingAccounted
      BY DEF PingAccounted
    <2>1. /\ PingSum /\ pinged \in BOOLEAN /\ outstanding \in BOOLEAN
          /\ pinged => outstanding
      BY DEF IInv, Booleans, PingStages, AInv, Accounts
    <2>2. /\ peer.owed \in Nat
          /\ \A k : Count(sink, k) \in Nat /\ Count(in, k) \in Nat /\ Count(queue, k) \in Nat
      BY CountNat DEF AInv, Types
    <2>3. pinged = (outstanding /\ Count(queue, "ping") = 0)
      BY <2>1 DEF PingSum, One
    <2>4. Count(queue, "ping") + Count(sink, "ping") + peer.owed + Count(in, "pong")
            = (IF outstanding THEN 1 ELSE 0)
      BY <2>1, <2>2 DEF PingSum, One
    <2> QED
      BY <2>3, <2>4 DEF PingAccounted
  <1>2. IInv /\ AInv => ProtocolHonoured
    BY <1>1, TypesSuffice DEF ProtocolHonoured, AInv, IInv, LateKnown, DeadlineHonest
  <1> QED
    BY <1>2, Invariance, AccountsKept, PTL

-----------------------------------------------------------------------------
(* The reserve of the queue *)

(* Data never fills more than its share of the queue. *)
DataWithin == Count(queue, "data") <= DataLimit

LEMMA CountBound ==
  ASSUME NEW s \in Seq(Kinds), NEW f
  PROVE  Count(s, f) <= Len(s)
  <1>1. Places(s, f) \in SUBSET (1..Len(s)) /\ Len(s) \in Nat
    BY DEF Places
  <1>2. IsFiniteSet(1..Len(s)) /\ Cardinality(1..Len(s)) = Len(s)
    <2>1. /\ IsFiniteSet(1..Len(s))
          /\ Cardinality(1..Len(s)) = IF 1 > Len(s) THEN 0 ELSE Len(s) - 1 + 1
      BY <1>1, FS_Interval
    <2> QED
      BY <1>1, <2>1
  <1> QED
    BY <1>1, <1>2, FS_Subset, CountPlaces

(* What can happen to the queue in one step. *)
QueueStep ==
    \/ queue' = queue \/ queue' = <<>>
    \/ queue # <<>> /\ queue' = Tail(queue)
    \/ queue' = Append(queue, "control")
    \/ \E g \in {"ping", "pong"} : queue' = Priority(g)
    \/ Len(queue) < DataLimit /\ queue' = Append(queue, "data")

LEMMA QueueSteps == Next => QueueStep
  <1> SUFFICES ASSUME Next
               PROVE  QueueStep
    OBVIOUS
  <1> USE DEF QueueStep, End
  <1>1. CASE Tasks
    BY <1>1 DEF Tasks, QueueData, QueueControl, Terminate
  <1>2. CASE Environment
    BY <1>2 DEF Environment, Fire, Transmit, SinkReady, PeerSend, LinkFails
  <1>3. CASE EnterClosed \/ EnterNoPing \/ EnterPing \/ EnterPingFull \/ Commands
    BY <1>3 DEF EnterClosed, EnterNoPing, EnterPing, EnterPingFull, Commands
  <1>4. CASE SendFrame \/ SendDone \/ SendFails \/ Flushed \/ FlushPending
    BY <1>4 DEF SendFrame, SendDone, SendFails, Flushed, FlushPending
  <1>5. CASE ReceiveLate \/ ReceiveViolation \/ ReceiveHello \/ ReceiveChannelFrame
    BY <1>5 DEF ReceiveLate, ReceiveViolation, ReceiveHello, ReceiveChannelFrame
  <1>6. CASE ReceivePing \/ ReceivePong \/ ReceiveDone \/ ReceiveEnd \/ CheckDeadlines
    BY <1>6 DEF ReceivePing, ReceivePong, ReceiveDone, ReceiveEnd, CheckDeadlines
  <1> QED
    BY <1>1, <1>2, <1>3, <1>4, <1>5, <1>6 DEF Next, Poll

LEMMA DataKept ==
  ASSUME Types, DataWithin, QueueStep
  PROVE  DataWithin'
  <1>1. /\ queue \in Seq(Kinds) /\ Count(queue, "data") \in Nat
        /\ DataLimit \in Nat /\ DataLimit > 0 /\ {"ping", "pong", "control", "data"} \subseteq Kinds
    BY CountType, LoopAssumption DEF Types, DataLimit, Kinds
  <1>2. CASE queue' = queue
    BY <1>2 DEF DataWithin, DataLimit
  <1>3. CASE queue' = <<>>
    BY <1>1, <1>3, CountEmpty DEF DataWithin, DataLimit
  <1>4. CASE queue # <<>> /\ queue' = Tail(queue)
    <2>1. Count(queue, "data") = Count(queue', "data") + One(Head(queue) = "data")
      BY <1>1, <1>4, Taken
    <2>2. Count(queue', "data") \in Nat
      BY <1>1, <1>4, Taken, CountType
    <2> QED
      BY <1>1, <2>1, <2>2 DEF DataWithin, DataLimit, One
  <1>5. CASE queue' = Append(queue, "control")
    <2>1. Count(queue', "data") = Count(queue, "data") + One("control" = "data")
      BY <1>1, <1>5, Appended
    <2> QED
      BY <1>1, <2>1 DEF DataWithin, DataLimit, One
  <1>6. ASSUME NEW g \in {"ping", "pong"}, queue' = Priority(g)
        PROVE  DataWithin'
    <2>1. Count(queue', "data") = Count(queue, "data") + One(g = "data")
      BY <1>1, <1>6, Prioritised
    <2> QED
      BY <1>1, <2>1 DEF DataWithin, DataLimit, One
  <1>7. CASE Len(queue) < DataLimit /\ queue' = Append(queue, "data")
    <2>1. Count(queue', "data") = Count(queue, "data") + One("data" = "data")
      BY <1>1, <1>7, Appended
    <2>2. Count(queue, "data") <= Len(queue) /\ Len(queue) \in Nat
      BY <1>1, CountBound
    <2> QED
      BY <1>1, <1>7, <2>1, <2>2 DEF DataWithin, DataLimit, One
  <1> QED
    BY <1>2, <1>3, <1>4, <1>5, <1>6, <1>7 DEF QueueStep

(* The connection is overloaded only when the reserve is full of frames    *)
(* that are not data: no amount of data, from any number of channels, can  *)
(* take the room of a control frame, a ping or a pong.                     *)
THEOREM ReserveKept == Spec => OverloadByControl
  <1> DEFINE Overloads == shared = "up" /\ (shared' = "overloaded" \/ cause' = "overload")
             Reserves == Len(queue) - Count(queue, "data") >= Reserved
  <1>1. Init => DataWithin
    <2> SUFFICES ASSUME Init
                 PROVE  DataWithin
      OBVIOUS
    <2>1. queue \in Seq(Kinds) /\ Len(queue) = 1 /\ DOMAIN queue = {1} /\ queue[1] = "hello"
      BY DEF Init, Kinds
    <2>2. Places(queue, "data") = {}
      BY <2>1 DEF Places
    <2>3. Count(queue, "data") = 0
      BY <2>2, CountPlaces, FS_EmptySet
    <2> QED
      BY <2>3, LoopAssumption DEF DataWithin, DataLimit
  <1>2. Types /\ DataWithin /\ [Next]_vars => DataWithin'
    BY QueueSteps, DataKept DEF vars, QueueStep
  <1>3. ASSUME Types, DataWithin, Next, Overloads
        PROVE  Reserves
    <2>1. Len(queue) >= MaxQueued
      <3> USE <1>3 DEF End
      <3>0. Len(queue) \in Nat /\ MaxQueued \in Nat
        BY LoopAssumption DEF Types
      <3>1. CASE Tasks
        <4>1. CASE QueueData \/ Terminate
          BY <4>1 DEF Next, QueueData, Terminate, pollVars
        <4>2. CASE QueueControl
          <5>1. Len(queue) < MaxQueued => shared' = shared
            BY <4>2 DEF QueueControl
          <5>2. cause' = cause /\ cause = "none"
            BY <4>2 DEF Next, QueueControl, pollVars
          <5> QED
            BY <3>0, <5>1, <5>2
        <4> QED
          BY <3>1, <4>1, <4>2 DEF Tasks
      <3>2. CASE Environment
        BY <3>2 DEF Next, Environment, Fire, Transmit, SinkReady, PeerSend, LinkFails, pollVars
      <3>3. CASE EnterClosed \/ EnterNoPing \/ EnterPing \/ EnterPingFull \/ Commands
        BY <3>3 DEF Next, EnterClosed, EnterNoPing, EnterPing, EnterPingFull, Commands, Enter
      <3>4. CASE SendFrame \/ SendDone \/ SendFails \/ Flushed \/ FlushPending
        BY <3>4 DEF Next, SendFrame, SendDone, SendFails, Flushed, FlushPending
      <3>5. CASE ReceiveLate \/ ReceiveViolation \/ ReceiveHello \/ ReceiveChannelFrame
        BY <3>5 DEF Next, ReceiveLate, ReceiveViolation, ReceiveHello, ReceiveChannelFrame,
                    Missed, Handled, Event
      <3>6. CASE ReceivePing
        <4>1. Len(queue) < MaxQueued => UNCHANGED <<cause, shared>>
          BY <3>6 DEF ReceivePing, Handled
        <4>2. cause = "none"
          BY DEF Next
        <4> QED
          BY <3>0, <4>1, <4>2
      <3>7. CASE ReceivePong \/ ReceiveDone \/ ReceiveEnd \/ CheckDeadlines
        BY <3>7 DEF Next, ReceivePong, ReceiveDone, ReceiveEnd, CheckDeadlines, Missed, Handled
      <3> QED
        BY <3>1, <3>2, <3>3, <3>4, <3>5, <3>6, <3>7 DEF Next, Poll
    <2>2. Len(queue) \in Nat /\ Count(queue, "data") \in Nat /\ {MaxQueued, Reserved} \subseteq Nat
      BY <1>3, CountType, LoopAssumption DEF Types
    <2> QED
      BY <1>3, <2>1, <2>2 DEF DataWithin, DataLimit
  <1>4. Types /\ DataWithin /\ [Next]_vars => [Overloads => Reserves]_vars
    BY <1>3
  <1>5. AInv => Types
    BY DEF AInv
  <1> HIDE DEF Overloads, Reserves
  <1>6. Spec => [][Overloads => Reserves]_vars
    BY <1>1, <1>2, <1>4, <1>5, AccountsKept, PTL DEF Spec
  <1> QED
    BY <1>6 DEF OverloadByControl, Overloads, Reserves

=============================================================================
