----------------------- MODULE ChannelLifecycleProofs -----------------------
(***************************************************************************)
(* What ChannelLifecycle guarantees for any limits and any number of calls *)
(* from either end: a slot is reserved for exactly the requests an         *)
(* endpoint holds or has accepted; every request is answered once; the     *)
(* ends of a channel match, and never find fault with each other's frames. *)
(*                                                                         *)
(* The invariants build on each other.  IInv: types, reserved slots, fresh *)
(* numbers of requests.  AInv: where each request is, as the number of its *)
(* traces in queues, tables and frames.  MInv: what each end of a channel  *)
(* knows of the other.  CInv: which request decides which call.            *)
(***************************************************************************)
EXTENDS ChannelLifecycle, FiniteSetTheorems, FunctionTheorems, SequenceTheorems, TLAPS

Commands == [kind : {"open"}, call : Calls] \union [kind : {"accept"}, remote : Ids]

Frames ==
    [kind : {"request"}, sender : Ids]
      \union [kind : {"accept"}, receiver : Ids, sender : Ids]
      \union [kind : {"reject", "gone"}, receiver : Ids]

Types ==
    /\ conn \in [Endpoints -> {"up", "closing", "failed", "closed"}]
    /\ result \in [Calls -> {"idle", "waiting", "ok", "rejected", "limit", "closed", "cancelled"}]
    /\ nextId \in [Endpoints -> Ids]
    /\ requests \in [Endpoints -> SUBSET [id : Ids, call : Calls]]
    /\ cancelled \in [Endpoints -> SUBSET Ids] /\ incoming \in [Endpoints -> SUBSET Ids]
    /\ slots \in [Endpoints -> Nat]
    /\ channels \in [Endpoints -> SUBSET Pairs] /\ dropped \in [Endpoints -> SUBSET Pairs]
    /\ tombs \in [Endpoints -> Seq(Ids)] /\ cmds \in [Endpoints -> Seq(Commands)]
    /\ wire \in [Endpoints -> Seq(Frames)]
    /\ \A e \in Endpoints : Len(tombs[e]) <= MaxTombs /\ Len(cmds[e]) <= MaxCommands
    /\ \A e \in Endpoints : dropped[e] \subseteq channels[e]

(* The accept commands in a queue. *)
Accepts(q) == {i \in DOMAIN q : q[i].kind = "accept"}

(* An endpoint with n slots in use, that holds the requests in held, with  *)
(* the commands q, the channels ch and its own requests rq.                *)
Reserved(n, held, q, ch, rq) ==
    /\ IsFiniteSet(held) /\ IsFiniteSet(ch) /\ IsFiniteSet(rq)
    /\ n = Cardinality(held) + Cardinality(Accepts(q))
    /\ n <= MaxPending
    /\ Cardinality(ch) + Cardinality(rq) + n <= MaxChannels

(* The requests on their way in w have ids below next, each its own and    *)
(* none that the receiver holds already.                                   *)
Numbered(w, held, next) ==
    /\ \A i \in DOMAIN w : w[i].kind = "request" => w[i].sender < next /\ w[i].sender \notin held
    /\ \A i, j \in DOMAIN w :
          w[i].kind = "request" /\ w[j].kind = "request" /\ w[i].sender = w[j].sender => i = j
    /\ \A r \in held : r < next

Reservations ==
    \A e \in Endpoints : Reserved(slots[e], incoming[e], cmds[e], channels[e], requests[e])

Numbering == \A e \in Endpoints : Numbered(wire[e], incoming[Peer(e)], nextId[e])

IInv == Types /\ Reservations /\ Numbering

LEMMA Limits ==
    /\ MaxChannels \in Nat \ {0} /\ MaxPending \in Nat \ {0}
    /\ MaxTombs \in Nat \ {0} /\ MaxCommands \in Nat \ {0}
  BY LifecycleAssumption

LEMMA Peers ==
    \A e \in Endpoints : Peer(e) \in Endpoints /\ Peer(e) # e /\ Peer(Peer(e)) = e
                           /\ Endpoints = {e, Peer(e)}
  BY LifecycleAssumption DEF Peer

-----------------------------------------------------------------------------
(* Commands come and go at the ends of their queue. *)

LEMMA AcceptsFinite ==
  ASSUME NEW q \in Seq(Commands)
  PROVE  IsFiniteSet(Accepts(q)) /\ Cardinality(Accepts(q)) \in Nat
  <1>1. Accepts(q) \in SUBSET (1..Len(q)) /\ IsFiniteSet(1..Len(q))
    BY FS_Interval DEF Accepts
  <1> QED
    BY <1>1, FS_Subset, FS_CardinalityType

LEMMA AcceptsEmpty == Accepts(<<>>) = {} /\ Cardinality(Accepts(<<>>)) = 0
  BY FS_EmptySet DEF Accepts

LEMMA AcceptsAppend ==
  ASSUME NEW q \in Seq(Commands), NEW c \in Commands
  PROVE  Cardinality(Accepts(Append(q, c)))
           = Cardinality(Accepts(q)) + (IF c.kind = "accept" THEN 1 ELSE 0)
  <1>1. Accepts(Append(q, c)) = Accepts(q) \union (IF c.kind = "accept" THEN {Len(q) + 1} ELSE {})
    BY DEF Accepts
  <1>2. Len(q) + 1 \notin Accepts(q)
    BY DEF Accepts
  <1>3. CASE c.kind = "accept"
    BY <1>1, <1>2, <1>3, AcceptsFinite, FS_AddElement
  <1>4. CASE c.kind # "accept"
    BY <1>1, <1>4, AcceptsFinite
  <1> QED
    BY <1>3, <1>4

LEMMA AcceptsTail ==
  ASSUME NEW q \in Seq(Commands), q # <<>>
  PROVE  /\ Tail(q) \in Seq(Commands) /\ Head(q) \in Commands /\ Len(Tail(q)) = Len(q) - 1
         /\ Cardinality(Accepts(q))
              = Cardinality(Accepts(Tail(q))) + (IF Head(q).kind = "accept" THEN 1 ELSE 0)
  <1> DEFINE t == Tail(q)
             up == [i \in Accepts(t) |-> i + 1]
             rest == Accepts(q) \ {1}
  <1>1. /\ t \in Seq(Commands) /\ Head(q) \in Commands /\ Len(t) = Len(q) - 1
        /\ Len(q) \in Nat /\ Len(q) > 0 /\ Head(q) = q[1]
        /\ \A i \in 1..Len(t) : t[i] = q[i + 1]
    OBVIOUS
  <1>2. rest = {i + 1 : i \in Accepts(t)}
    <2>1. \A i \in Accepts(t) : i + 1 \in rest
      BY <1>1 DEF Accepts
    <2>2. \A j \in rest : j - 1 \in Accepts(t) /\ j = (j - 1) + 1
      BY <1>1 DEF Accepts
    <2> QED
      BY <2>1, <2>2
  <1>3. up \in Bijection(Accepts(t), rest)
    <2>1. up \in [Accepts(t) -> rest]
      BY <1>2
    <2>2. \A i, j \in Accepts(t) : up[i] = up[j] => i = j
      BY DEF Accepts
    <2>3. \A j \in rest : \E i \in Accepts(t) : up[i] = j
      BY <1>2
    <2> QED
      BY <2>1, <2>2, <2>3, Fun_IsBij
  <1>4. Cardinality(rest) = Cardinality(Accepts(t))
    BY <1>1, <1>3, AcceptsFinite, FS_Bijection DEF ExistsBijection
  <1>5. Cardinality(Accepts(q)) \in Nat /\ Cardinality(Accepts(t)) \in Nat
    BY <1>1, AcceptsFinite
  <1>6. CASE Head(q).kind = "accept"
    <2>1. 1 \in Accepts(q)
      BY <1>1, <1>6 DEF Accepts
    <2>2. Cardinality(rest) = Cardinality(Accepts(q)) - 1
      BY <2>1, AcceptsFinite, FS_RemoveElement
    <2> HIDE DEF rest
    <2> QED
      BY <1>1, <1>4, <1>5, <1>6, <2>2
  <1>7. CASE Head(q).kind # "accept"
    <2>1. rest = Accepts(q)
      BY <1>1, <1>7 DEF Accepts
    <2> HIDE DEF rest
    <2> QED
      BY <1>1, <1>4, <1>5, <1>7, <2>1
  <1> QED
    BY <1>1, <1>6, <1>7

-----------------------------------------------------------------------------
(* How the reservations of an endpoint change. *)

LEMMA CardinalityStep ==
  ASSUME NEW S, IsFiniteSet(S), NEW x
  PROVE  /\ IsFiniteSet(S \union {x}) /\ IsFiniteSet(S \ {x})
         /\ Cardinality(S) \in Nat /\ Cardinality(S \union {x}) \in Nat
         /\ Cardinality(S \ {x}) \in Nat
         /\ Cardinality(S \union {x}) <= Cardinality(S) + 1
         /\ x \notin S => Cardinality(S \union {x}) = Cardinality(S) + 1
         /\ x \in S => Cardinality(S \ {x}) = Cardinality(S) - 1
  BY FS_AddElement, FS_RemoveElement, FS_CardinalityType

LEMMA Fewer ==
  ASSUME NEW n \in Nat, NEW held, NEW q \in Seq(Commands), NEW ch, NEW rq,
         Reserved(n, held, q, ch, rq),
         NEW ch2 \in SUBSET ch, NEW rq2 \in SUBSET rq
  PROVE  Reserved(n, held, q, ch2, rq2)
  <1>1. /\ IsFiniteSet(ch2) /\ Cardinality(ch2) <= Cardinality(ch)
        /\ IsFiniteSet(rq2) /\ Cardinality(rq2) <= Cardinality(rq)
    BY FS_Subset DEF Reserved
  <1>2. /\ Cardinality(ch) \in Nat /\ Cardinality(ch2) \in Nat
        /\ Cardinality(rq) \in Nat /\ Cardinality(rq2) \in Nat
    BY <1>1, FS_CardinalityType DEF Reserved
  <1> QED
    BY <1>1, <1>2, Limits DEF Reserved

LEMMA Queued ==
  ASSUME NEW n \in Nat, NEW held, NEW q \in Seq(Commands), NEW ch, NEW rq,
         Reserved(n, held, q, ch, rq), NEW c \in Calls
  PROVE  Reserved(n, held, Append(q, OpenChannel(c)), ch, rq)
  <1>1. OpenChannel(c) \in Commands /\ OpenChannel(c).kind # "accept"
    BY DEF OpenChannel, Commands
  <1>2. Cardinality(Accepts(Append(q, OpenChannel(c)))) = Cardinality(Accepts(q))
    BY <1>1, AcceptsAppend, AcceptsFinite
  <1> QED
    BY <1>2 DEF Reserved

LEMMA Answered ==
  ASSUME NEW n \in Nat, NEW held \in SUBSET Ids, NEW q \in Seq(Commands), NEW ch, NEW rq,
         Reserved(n, held, q, ch, rq), NEW r \in held
  PROVE  /\ Reserved(n, held \ {r}, Append(q, AcceptChannel(r)), ch, rq)
         /\ n - 1 \in Nat /\ Reserved(n - 1, held \ {r}, q, ch, rq)
  <1>1. AcceptChannel(r) \in Commands /\ AcceptChannel(r).kind = "accept"
    BY DEF AcceptChannel, Commands
  <1>2. Cardinality(Accepts(Append(q, AcceptChannel(r)))) = Cardinality(Accepts(q)) + 1
    BY <1>1, AcceptsAppend
  <1>3. /\ IsFiniteSet(held \ {r}) /\ Cardinality(held \ {r}) = Cardinality(held) - 1
        /\ Cardinality(held \ {r}) \in Nat /\ Cardinality(held) \in Nat
    BY CardinalityStep DEF Reserved
  <1>4. Cardinality(Accepts(q)) \in Nat
    BY AcceptsFinite
  <1>5. Cardinality(ch) \in Nat /\ Cardinality(rq) \in Nat
    BY FS_CardinalityType DEF Reserved
  <1>6. /\ n = Cardinality(held) + Cardinality(Accepts(q)) /\ n <= MaxPending
        /\ Cardinality(ch) + Cardinality(rq) + n <= MaxChannels
        /\ MaxPending \in Nat /\ MaxChannels \in Nat
    BY Limits DEF Reserved
  <1>7. Reserved(n, held \ {r}, Append(q, AcceptChannel(r)), ch, rq)
    <2>1. n = Cardinality(held \ {r}) + Cardinality(Accepts(Append(q, AcceptChannel(r))))
      BY <1>2, <1>3, <1>4, <1>6
    <2> QED
      BY <1>3, <1>6, <2>1 DEF Reserved
  <1>8. n - 1 \in Nat /\ n - 1 = Cardinality(held \ {r}) + Cardinality(Accepts(q))
    BY <1>3, <1>4, <1>6
  <1>9. n - 1 <= MaxPending /\ Cardinality(ch) + Cardinality(rq) + (n - 1) <= MaxChannels
    BY <1>5, <1>6
  <1> QED
    BY <1>3, <1>7, <1>8, <1>9 DEF Reserved

LEMMA OpenTaken ==
  ASSUME NEW n \in Nat, NEW held, NEW q \in Seq(Commands), NEW ch, NEW rq,
         Reserved(n, held, q, ch, rq), q # <<>>, Head(q).kind = "open"
  PROVE  /\ Reserved(n, held, Tail(q), ch, rq)
         /\ \A x : Cardinality(ch) + Cardinality(rq) + n < MaxChannels =>
                Reserved(n, held, Tail(q), ch, rq \union {x})
  <1>1. Cardinality(Accepts(q)) = Cardinality(Accepts(Tail(q)))
    <2>1. /\ Tail(q) \in Seq(Commands) /\ Head(q).kind # "accept"
          /\ Cardinality(Accepts(q)) = Cardinality(Accepts(Tail(q))) + 0
      BY AcceptsTail
    <2>2. Cardinality(Accepts(Tail(q))) \in Nat
      BY <2>1, AcceptsFinite
    <2> QED
      BY <2>1, <2>2
  <1>2. Cardinality(ch) \in Nat /\ Cardinality(rq) \in Nat
    BY FS_CardinalityType DEF Reserved
  <1>3. \A x : /\ IsFiniteSet(rq \union {x}) /\ Cardinality(rq \union {x}) \in Nat
               /\ Cardinality(rq \union {x}) <= Cardinality(rq) + 1
    BY CardinalityStep DEF Reserved
  <1>4. ASSUME NEW x, Cardinality(ch) + Cardinality(rq) + n < MaxChannels
        PROVE  Cardinality(ch) + Cardinality(rq \union {x}) + n <= MaxChannels
    <2>1. /\ Cardinality(rq \union {x}) \in Nat
          /\ Cardinality(rq \union {x}) <= Cardinality(rq) + 1
      BY <1>3
    <2> QED
      BY <1>2, <1>4, <2>1, Limits
  <1> QED
    BY <1>1, <1>3, <1>4 DEF Reserved

LEMMA AcceptTaken ==
  ASSUME NEW n \in Nat, NEW held, NEW q \in Seq(Commands), NEW ch, NEW rq,
         Reserved(n, held, q, ch, rq), q # <<>>, Head(q).kind = "accept"
  PROVE  /\ n - 1 \in Nat /\ Reserved(n - 1, held, Tail(q), ch, rq)
         /\ \A x : Reserved(n - 1, held, Tail(q), ch \union {x}, rq)
  <1>1. /\ Cardinality(Accepts(q)) = Cardinality(Accepts(Tail(q))) + 1
        /\ Cardinality(Accepts(Tail(q))) \in Nat
    BY AcceptsTail, AcceptsFinite
  <1>2. Cardinality(ch) \in Nat /\ Cardinality(rq) \in Nat /\ Cardinality(held) \in Nat
    BY FS_CardinalityType DEF Reserved
  <1>3. \A x : /\ IsFiniteSet(ch \union {x}) /\ Cardinality(ch \union {x}) \in Nat
               /\ Cardinality(ch \union {x}) <= Cardinality(ch) + 1
    BY CardinalityStep DEF Reserved
  <1>4. /\ n = Cardinality(held) + Cardinality(Accepts(q)) /\ n <= MaxPending
        /\ Cardinality(ch) + Cardinality(rq) + n <= MaxChannels
        /\ MaxPending \in Nat /\ MaxChannels \in Nat
    BY Limits DEF Reserved
  <1>5. n - 1 \in Nat /\ n - 1 = Cardinality(held) + Cardinality(Accepts(Tail(q)))
    BY <1>1, <1>2, <1>4
  <1>6. n - 1 <= MaxPending /\ Cardinality(ch) + Cardinality(rq) + (n - 1) <= MaxChannels
    BY <1>2, <1>4
  <1>7. ASSUME NEW x
        PROVE  Cardinality(ch \union {x}) + Cardinality(rq) + (n - 1) <= MaxChannels
    <2>1. /\ Cardinality(ch \union {x}) \in Nat
          /\ Cardinality(ch \union {x}) <= Cardinality(ch) + 1
      BY <1>3
    <2> QED
      BY <1>2, <1>4, <2>1
  <1> QED
    BY <1>3, <1>5, <1>6, <1>7 DEF Reserved

LEMMA RequestTaken ==
  ASSUME NEW n \in Nat, NEW held, NEW q \in Seq(Commands), NEW ch, NEW rq,
         Reserved(n, held, q, ch, rq), NEW r, r \notin held,
         n < MaxPending, Cardinality(ch) + Cardinality(rq) + n < MaxChannels
  PROVE  Reserved(n + 1, held \union {r}, q, ch, rq)
  <1>1. /\ IsFiniteSet(held \union {r}) /\ Cardinality(held \union {r}) = Cardinality(held) + 1
        /\ Cardinality(held) \in Nat
    BY CardinalityStep DEF Reserved
  <1>2. /\ Cardinality(ch) \in Nat /\ Cardinality(rq) \in Nat
        /\ Cardinality(Accepts(q)) \in Nat
    BY FS_CardinalityType, AcceptsFinite DEF Reserved
  <1>3. n = Cardinality(held) + Cardinality(Accepts(q))
    BY DEF Reserved
  <1>4. n + 1 = Cardinality(held \union {r}) + Cardinality(Accepts(q))
    BY <1>1, <1>2, <1>3
  <1>5. n + 1 <= MaxPending
    BY Limits
  <1>6. Cardinality(ch) + Cardinality(rq) + (n + 1) <= MaxChannels
    BY <1>2, Limits
  <1> QED
    BY <1>1, <1>4, <1>5, <1>6 DEF Reserved

LEMMA RequestBecomesChannel ==
  ASSUME NEW n \in Nat, NEW held, NEW q \in Seq(Commands), NEW ch, NEW rq,
         Reserved(n, held, q, ch, rq), NEW x \in rq, NEW y
  PROVE  Reserved(n, held, q, ch \union {y}, rq \ {x})
  <1>1. /\ IsFiniteSet(rq \ {x}) /\ Cardinality(rq \ {x}) = Cardinality(rq) - 1
        /\ Cardinality(rq) \in Nat
    BY CardinalityStep DEF Reserved
  <1>2. /\ IsFiniteSet(ch \union {y}) /\ Cardinality(ch \union {y}) \in Nat
        /\ Cardinality(ch \union {y}) <= Cardinality(ch) + 1 /\ Cardinality(ch) \in Nat
    BY CardinalityStep DEF Reserved
  <1> QED
    BY <1>1, <1>2, Limits DEF Reserved

LEMMA TablesClosed ==
  ASSUME NEW n \in Nat, NEW held, NEW q \in Seq(Commands), NEW ch, NEW rq,
         Reserved(n, held, q, ch, rq)
  PROVE  /\ n - Cardinality(Accepts(q)) \in Nat
         /\ Reserved(n - Cardinality(Accepts(q)), held, <<>>, {}, {})
  <1>1. /\ Cardinality(ch) \in Nat /\ Cardinality(rq) \in Nat /\ Cardinality(held) \in Nat
        /\ Cardinality(Accepts(q)) \in Nat
    BY FS_CardinalityType, AcceptsFinite DEF Reserved
  <1>2. IsFiniteSet({}) /\ Cardinality({}) = 0
    BY FS_EmptySet
  <1> QED
    BY <1>1, <1>2, AcceptsEmpty, Limits DEF Reserved

-----------------------------------------------------------------------------
(* How the frames on their way change. *)

LEMMA FrameParts ==
  ASSUME NEW w \in Seq(Frames), NEW i \in DOMAIN w
  PROVE  /\ w[i] \in Frames
         /\ w[i].kind \in {"request", "accept", "reject", "gone"}
         /\ w[i].kind \in {"request", "accept"} => w[i].sender \in Ids
         /\ w[i].kind # "request" => w[i].receiver \in Ids
  <1>1. w[i] \in Frames
    OBVIOUS
  <1> QED
    BY <1>1 DEF Frames

LEMMA NumberedFewer ==
  ASSUME NEW w \in Seq(Frames), NEW held \in SUBSET Ids, NEW n \in Ids, Numbered(w, held, n),
         NEW held2 \in SUBSET held, NEW m \in Ids, n <= m
  PROVE  Numbered(w, held2, m)
  <1>1. ASSUME NEW i \in Ids, i < n PROVE i < m
    BY <1>1 DEF Ids
  <1> QED
    BY <1>1, FrameParts DEF Numbered

LEMMA NumberedTail ==
  ASSUME NEW w \in Seq(Frames), w # <<>>, NEW held, NEW n, Numbered(w, held, n)
  PROVE  /\ Tail(w) \in Seq(Frames) /\ Head(w) \in Frames
         /\ Numbered(Tail(w), held, n)
         /\ Head(w).kind = "request" =>
                /\ Head(w).sender \notin held
                /\ Numbered(Tail(w), held \union {Head(w).sender}, n)
  <1> DEFINE t == Tail(w)
  <1>1. /\ t \in Seq(Frames) /\ Head(w) \in Frames /\ Len(t) = Len(w) - 1
        /\ Len(w) \in Nat /\ Len(w) > 0 /\ Head(w) = w[1]
        /\ DOMAIN t = 1..Len(t) /\ DOMAIN w = 1..Len(w)
        /\ \A i \in 1..Len(t) : t[i] = w[i + 1]
    OBVIOUS
  <1>2. \A i \in DOMAIN t : i + 1 \in DOMAIN w /\ i + 1 # 1 /\ t[i] = w[i + 1]
    BY <1>1
  <1>3. \A i, j \in DOMAIN t : i + 1 = j + 1 => i = j
    BY <1>1
  <1>4. 1 \in DOMAIN w
    BY <1>1
  <1>5. Numbered(t, held, n)
    BY <1>2, <1>3 DEF Numbered
  <1>6. ASSUME Head(w).kind = "request"
        PROVE  /\ Head(w).sender \notin held
               /\ Numbered(t, held \union {Head(w).sender}, n)
    <2>1. w[1].sender \notin held /\ w[1].sender < n /\ w[1].kind = "request"
      BY <1>1, <1>4, <1>6 DEF Numbered
    <2>2. \A i \in DOMAIN t : t[i].kind = "request" => t[i].sender # w[1].sender
      BY <1>2, <1>4, <2>1 DEF Numbered
    <2> QED
      BY <1>1, <1>5, <2>1, <2>2 DEF Numbered
  <1> QED
    BY <1>1, <1>5, <1>6

LEMMA NumberedPrefix ==
  ASSUME NEW w \in Seq(Frames), NEW held, NEW n, Numbered(w, held, n), NEW k \in 0..Len(w)
  PROVE  SubSeq(w, 1, k) \in Seq(Frames) /\ Numbered(SubSeq(w, 1, k), held, n)
  <1>1. /\ SubSeq(w, 1, k) \in Seq(Frames)
        /\ DOMAIN SubSeq(w, 1, k) \subseteq DOMAIN w
        /\ \A i \in DOMAIN SubSeq(w, 1, k) : SubSeq(w, 1, k)[i] = w[i]
    BY SubSeqProperties
  <1> QED
    BY <1>1 DEF Numbered

LEMMA NumberedMore ==
  ASSUME NEW w \in Seq(Frames), NEW held \in SUBSET Ids, NEW n \in Ids, Numbered(w, held, n),
         NEW f \in Frames
  PROVE  /\ w \o <<f>> \in Seq(Frames)
         /\ f.kind # "request" => Numbered(w \o <<f>>, held, n)
         /\ f.kind = "request" /\ f.sender = n => Numbered(w \o <<f>>, held, n + 1)
  <1> DEFINE v == w \o <<f>>
  <1>1. /\ v \in Seq(Frames) /\ Len(v) = Len(w) + 1 /\ v[Len(w) + 1] = f
        /\ \A j \in DOMAIN w : v[j] = w[j]
        /\ DOMAIN v = 1..(Len(w) + 1) /\ DOMAIN w = 1..Len(w) /\ Len(w) \in Nat
    OBVIOUS
  <1> HIDE DEF v
  <1>2. ASSUME NEW i \in DOMAIN v
        PROVE  (i \in DOMAIN w /\ v[i] = w[i]) \/ (i = Len(w) + 1 /\ v[i] = f)
    <2>1. CASE i \in DOMAIN w
      BY <1>1, <2>1
    <2>2. CASE i \notin DOMAIN w
      <3>1. i = Len(w) + 1
        BY <1>1, <2>2
      <3> QED
        BY <1>1, <3>1
    <2> QED
      BY <2>1, <2>2
  <1>3. ASSUME f.kind # "request" PROVE Numbered(v, held, n)
    BY <1>2, <1>3 DEF Numbered
  <1>4. ASSUME f.kind = "request", f.sender = n PROVE Numbered(v, held, n + 1)
    <2>1. n + 1 \in Ids /\ n < n + 1
      BY DEF Ids
    <2>2. Numbered(w, held, n + 1)
      BY <2>1, NumberedFewer DEF Ids
    <2>3. n \notin held
      BY DEF Numbered, Ids
    <2>4. \A i \in DOMAIN w : w[i].kind = "request" => w[i].sender # n
      BY FrameParts DEF Numbered, Ids
    <2> QED
      BY <1>2, <1>4, <2>1, <2>2, <2>3, <2>4 DEF Numbered
  <1> QED
    BY <1>1, <1>3, <1>4 DEF v

Statuses == {"up", "closing", "failed", "closed"}
Results == {"idle", "waiting", "ok", "rejected", "limit", "closed", "cancelled"}

(* The tasks take requests away and ids are given out, but no request is   *)
(* added to those that are held.                                           *)
Quiet ==
    /\ incoming' \in [Endpoints -> SUBSET Ids] /\ nextId' \in [Endpoints -> Ids]
    /\ \A x \in Endpoints : incoming'[x] \subseteq incoming[x] /\ nextId[x] <= nextId'[x]

LEMMA QuietNumbers ==
  ASSUME Types, Quiet, NEW x \in Endpoints, NEW w \in Seq(Frames),
         Numbered(w, incoming[Peer(x)], nextId[x])
  PROVE  Numbered(w, incoming'[Peer(x)], nextId'[x])
  <1>1. Peer(x) \in Endpoints
    BY Peers
  <1>2. /\ incoming[Peer(x)] \in SUBSET Ids /\ incoming'[Peer(x)] \in SUBSET incoming[Peer(x)]
        /\ nextId[x] \in Ids /\ nextId'[x] \in Ids /\ nextId[x] <= nextId'[x]
    BY <1>1 DEF Types, Quiet
  <1> QED
    BY <1>2, NumberedFewer

LEMMA QuietKeeps ==
  ASSUME Types, Numbering, Quiet, wire' = wire
  PROVE  Numbering'
  <1> SUFFICES ASSUME NEW x \in Endpoints
               PROVE  Numbered(wire[x], incoming'[Peer(x)], nextId'[x])
    BY DEF Numbering
  <1>1. wire[x] \in Seq(Frames) /\ Numbered(wire[x], incoming[Peer(x)], nextId[x])
    BY DEF Types, Numbering
  <1> QED
    BY <1>1, QuietNumbers

LEMMA SendKeeps ==
  ASSUME Types, Numbering, Quiet, NEW e \in Endpoints,
         NEW f \in Frames, f.kind # "request", SendFrame(e, f)
  PROVE  conn' \in [Endpoints -> Statuses] /\ wire' \in [Endpoints -> Seq(Frames)] /\ Numbering'
  <1>1. CASE NotSent(e)
    BY <1>1, QuietKeeps DEF Types, NotSent, Statuses
  <1>2. CASE Sent(e, <<f>>)
    <2>1. /\ wire[e] \o <<f>> \in Seq(Frames)
          /\ Numbered(wire[e] \o <<f>>, incoming[Peer(e)], nextId[e])
      BY Peers, NumberedMore DEF Types, Numbering
    <2>2. /\ wire' \in [Endpoints -> Seq(Frames)]
          /\ wire'[e] = wire[e] \o <<f>> /\ \A x \in Endpoints \ {e} : wire'[x] = wire[x]
      BY <1>2, <2>1 DEF Sent, Types
    <2>3. \A x \in Endpoints : Numbered(wire'[x], incoming[Peer(x)], nextId[x])
      BY <2>1, <2>2 DEF Numbering
    <2>4. \A x \in Endpoints : Numbered(wire'[x], incoming'[Peer(x)], nextId'[x])
      BY <2>2, <2>3, QuietNumbers
    <2> QED
      BY <1>2, <2>2, <2>4 DEF Sent, Types, Statuses, Numbering
  <1> QED
    BY <1>1, <1>2 DEF SendFrame

LEMMA TakeKeeps ==
  ASSUME Types, Numbering, Quiet, NEW e \in Endpoints, wire[Peer(e)] # <<>>, Take(e)
  PROVE  wire' \in [Endpoints -> Seq(Frames)] /\ Numbering'
  <1> DEFINE p == Peer(e)
  <1>1. p \in Endpoints
    BY Peers
  <1>2. Tail(wire[p]) \in Seq(Frames) /\ Numbered(Tail(wire[p]), incoming[Peer(p)], nextId[p])
    BY <1>1, NumberedTail DEF Types, Numbering
  <1>3. /\ wire' \in [Endpoints -> Seq(Frames)]
        /\ wire'[p] = Tail(wire[p]) /\ \A x \in Endpoints \ {p} : wire'[x] = wire[x]
    BY <1>1, <1>2 DEF Take, Types
  <1>4. \A x \in Endpoints : Numbered(wire'[x], incoming[Peer(x)], nextId[x])
    BY <1>2, <1>3 DEF Numbering
  <1>5. \A x \in Endpoints : Numbered(wire'[x], incoming'[Peer(x)], nextId'[x])
    BY <1>3, <1>4, QuietNumbers
  <1> QED
    BY <1>3, <1>5 DEF Numbering

LEMMA TakeSendKeeps ==
  ASSUME Types, Numbering, Quiet, NEW e \in Endpoints, wire[Peer(e)] # <<>>,
         NEW f \in Frames, f.kind # "request", NEW s \in Statuses, TakeSend(e, <<f>>, s)
  PROVE  conn' \in [Endpoints -> Statuses] /\ wire' \in [Endpoints -> Seq(Frames)] /\ Numbering'
  <1> DEFINE p == Peer(e)
  <1>1. p \in Endpoints /\ p # e
    BY Peers
  <1>2. conn' \in [Endpoints -> Statuses]
    BY DEF TakeSend, Types, Statuses
  <1>3. CASE Take(e)
    BY <1>2, <1>3, TakeKeeps
  <1>4. CASE wire' = [wire EXCEPT ![Peer(e)] = Tail(@), ![e] = @ \o <<f>>]
    <2>1. Tail(wire[p]) \in Seq(Frames) /\ Numbered(Tail(wire[p]), incoming[Peer(p)], nextId[p])
      BY <1>1, NumberedTail DEF Types, Numbering
    <2>2. /\ wire[e] \o <<f>> \in Seq(Frames)
          /\ Numbered(wire[e] \o <<f>>, incoming[Peer(e)], nextId[e])
      BY Peers, NumberedMore DEF Types, Numbering
    <2>3. /\ wire' \in [Endpoints -> Seq(Frames)]
          /\ wire'[p] = Tail(wire[p]) /\ wire'[e] = wire[e] \o <<f>>
      BY <1>1, <1>4, <2>1, <2>2 DEF Types
    <2>4. ASSUME NEW x \in Endpoints PROVE Numbered(wire'[x], incoming[Peer(x)], nextId[x])
      <3>1. x = e \/ x = p
        BY Peers
      <3> QED
        BY <2>1, <2>2, <2>3, <3>1
    <2>5. \A x \in Endpoints : Numbered(wire'[x], incoming'[Peer(x)], nextId'[x])
      BY <2>3, <2>4, QuietNumbers
    <2> QED
      BY <1>2, <2>3, <2>5 DEF Numbering
  <1> QED
    BY <1>3, <1>4 DEF TakeSend, Take

-----------------------------------------------------------------------------
(* Steps of the tasks. *)

(* A step of endpoint e that leaves the tables of its peer alone. *)
LEMMA ReservedHere ==
  ASSUME Reservations, NEW e \in Endpoints,
         \A x \in Endpoints \ {e} :
            /\ slots'[x] = slots[x] /\ incoming'[x] = incoming[x] /\ cmds'[x] = cmds[x]
            /\ channels'[x] = channels[x] /\ requests'[x] = requests[x],
         Reserved(slots'[e], incoming'[e], cmds'[e], channels'[e], requests'[e])
  PROVE  Reservations'
  BY DEF Reservations

LEMMA NothingHeld ==
  ASSUME Types, UNCHANGED <<incoming, nextId>>
  PROVE  Quiet
  BY DEF Types, Quiet, Ids

LEMMA CommandSent ==
  ASSUME Types, NEW e \in Endpoints, NEW c \in Commands, SendCmd(e, c)
  PROVE  /\ cmds' \in [Endpoints -> Seq(Commands)]
         /\ cmds'[e] = Append(cmds[e], c) /\ \A x \in Endpoints \ {e} : cmds'[x] = cmds[x]
         /\ \A x \in Endpoints : Len(cmds'[x]) <= MaxCommands
         /\ conn' = conn
  <1>1. /\ cmds[e] \in Seq(Commands) /\ Append(cmds[e], c) \in Seq(Commands)
        /\ Len(Append(cmds[e], c)) = Len(cmds[e]) + 1 /\ Len(cmds[e]) \in Nat
    BY DEF Types
  <1>2. Len(cmds[e]) + 1 <= MaxCommands
    BY <1>1, Limits DEF SendCmd
  <1> QED
    BY <1>1, <1>2 DEF SendCmd, Types

LEMMA OpenSteps ==
  ASSUME IInv, NEW c \in Calls, Open(c) \/ Cancel(c)
  PROVE  IInv'
  <1>1. Types /\ Reservations /\ Numbering /\ Quiet /\ wire' = wire
    BY NothingHeld DEF IInv, Open, Cancel, acceptVars
  <1>2. Numbering'
    BY <1>1, QuietKeeps
  <1>3. CASE Cancel(c)
    <2>1. Types'
      BY <1>1, <1>3 DEF Cancel, Types, acceptVars, tombVars
    <2>2. Reservations'
      BY <1>1, <1>3 DEF Cancel, Reservations, acceptVars
    <2> QED
      BY <1>2, <2>1, <2>2 DEF IInv
  <1>4. CASE Open(c)
    <2> DEFINE e == Caller[c]
    <2>1. e \in Endpoints /\ OpenChannel(c) \in Commands
      BY LifecycleAssumption DEF OpenChannel, Commands
    <2>2. CASE SendCmd(e, OpenChannel(c)) /\ result' = [result EXCEPT ![c] = "waiting"]
      <3>1. Types'
        BY <1>1, <1>4, <2>1, <2>2, CommandSent DEF Open, Types, acceptVars, tombVars
      <3>2. Reserved(slots[e], incoming[e], cmds'[e], channels[e], requests[e])
        <4>1. cmds'[e] = Append(cmds[e], OpenChannel(c))
          BY <1>1, <2>1, <2>2, CommandSent
        <4>2. /\ slots[e] \in Nat /\ cmds[e] \in Seq(Commands)
              /\ Reserved(slots[e], incoming[e], cmds[e], channels[e], requests[e])
          BY <1>1, <2>1 DEF Types, Reservations
        <4>3. Reserved(slots[e], incoming[e], Append(cmds[e], OpenChannel(c)), channels[e],
                       requests[e])
          BY <4>2, Queued
        <4> QED
          BY <4>1, <4>3
      <3>3. Reservations'
        BY <1>1, <1>4, <2>1, <2>2, <3>2, CommandSent, ReservedHere DEF Open, acceptVars
      <3> QED
        BY <1>2, <3>1, <3>3 DEF IInv
    <2>3. CASE CmdNotSent(e) /\ result' = [result EXCEPT ![c] = "closed"]
      <3>1. Types'
        BY <1>1, <1>4, <2>1, <2>3 DEF Open, CmdNotSent, Types, acceptVars, tombVars
      <3>2. Reservations'
        BY <1>1, <1>4, <2>3 DEF Open, CmdNotSent, Reservations, acceptVars
      <3> QED
        BY <1>2, <3>1, <3>2 DEF IInv
    <2> QED
      BY <1>4, <2>2, <2>3 DEF Open
  <1> QED
    BY <1>3, <1>4

LEMMA HolderSteps ==
  ASSUME IInv, NEW e \in Endpoints, NEW r \in incoming[e],
         AcceptRequest(e, r) \/ RejectRequest(e, r)
  PROVE  IInv'
  <1>1. Types /\ Reservations /\ Numbering
    BY DEF IInv
  <1>2. /\ r \in Ids /\ AcceptChannel(r) \in Commands
        /\ Reject(r) \in Frames /\ Reject(r).kind # "request"
    BY <1>1 DEF Types, AcceptChannel, Commands, Reject, Frames
  <1>3. /\ incoming' \in [Endpoints -> SUBSET Ids] /\ incoming'[e] = incoming[e] \ {r}
        /\ \A x \in Endpoints \ {e} : incoming'[x] = incoming[x]
        /\ nextId' = nextId
    <2>1. incoming[e] \ {r} \in SUBSET Ids /\ incoming \in [Endpoints -> SUBSET Ids]
      BY <1>1 DEF Types
    <2>2. incoming' = [incoming EXCEPT ![e] = @ \ {r}] /\ nextId' = nextId
      BY DEF AcceptRequest, RejectRequest
    <2> QED
      BY <2>1, <2>2
  <1>4. Quiet
    <2>1. \A x \in Endpoints : incoming'[x] \subseteq incoming[x]
      BY <1>3
    <2>2. nextId \in [Endpoints -> Ids] /\ \A x \in Endpoints : nextId[x] <= nextId[x]
      BY <1>1 DEF Types, Ids
    <2> QED
      BY <1>3, <2>1, <2>2 DEF Quiet
  <1>5. /\ slots[e] - 1 \in Nat
        /\ Reserved(slots[e], incoming'[e], Append(cmds[e], AcceptChannel(r)), channels[e], requests[e])
        /\ Reserved(slots[e] - 1, incoming'[e], cmds[e], channels[e], requests[e])
    <2>1. /\ slots[e] \in Nat /\ cmds[e] \in Seq(Commands) /\ incoming[e] \in SUBSET Ids
          /\ Reserved(slots[e], incoming[e], cmds[e], channels[e], requests[e])
      BY <1>1 DEF Types, Reservations
    <2>2. /\ slots[e] - 1 \in Nat
          /\ Reserved(slots[e], incoming[e] \ {r}, Append(cmds[e], AcceptChannel(r)), channels[e],
                      requests[e])
          /\ Reserved(slots[e] - 1, incoming[e] \ {r}, cmds[e], channels[e], requests[e])
      BY <2>1, Answered
    <2> QED
      BY <1>3, <2>2
  <1>6. CASE AcceptRequest(e, r) /\ SendCmd(e, AcceptChannel(r)) /\ UNCHANGED slots
    <2>1. Types'
      BY <1>1, <1>2, <1>3, <1>6, CommandSent DEF AcceptRequest, Types, callVars, tombVars
    <2>2. Reservations'
      <3>1. /\ cmds'[e] = Append(cmds[e], AcceptChannel(r))
            /\ \A x \in Endpoints \ {e} : cmds'[x] = cmds[x]
        BY <1>1, <1>2, <1>6, CommandSent
      <3>2. UNCHANGED <<slots, channels, requests>>
        BY <1>6 DEF AcceptRequest, callVars
      <3>3. Reserved(slots'[e], incoming'[e], cmds'[e], channels'[e], requests'[e])
        BY <1>5, <3>1, <3>2
      <3> QED
        BY <1>1, <1>3, <3>1, <3>2, <3>3, ReservedHere
    <2>3. Numbering'
      BY <1>1, <1>4, <1>6, QuietKeeps DEF AcceptRequest
    <2> QED
      BY <2>1, <2>2, <2>3 DEF IInv
  <1>7. ASSUME slots' = [slots EXCEPT ![e] = @ - 1]
        PROVE  /\ slots' \in [Endpoints -> Nat] /\ slots'[e] = slots[e] - 1
               /\ \A x \in Endpoints \ {e} : slots'[x] = slots[x]
    BY <1>1, <1>5, <1>7 DEF Types
  <1>8. CASE /\ AcceptRequest(e, r) /\ CmdNotSent(e)
             /\ slots' = [slots EXCEPT ![e] = @ - 1]
    <2>1. Types'
      BY <1>1, <1>3, <1>7, <1>8 DEF AcceptRequest, CmdNotSent, Types, callVars, tombVars
    <2>2. Reservations'
      BY <1>1, <1>3, <1>5, <1>7, <1>8, ReservedHere DEF AcceptRequest, CmdNotSent, callVars
    <2>3. Numbering'
      BY <1>1, <1>4, <1>8, QuietKeeps DEF AcceptRequest
    <2> QED
      BY <2>1, <2>2, <2>3 DEF IInv
  <1>9. CASE RejectRequest(e, r)
    <2>1. conn' \in [Endpoints -> Statuses] /\ wire' \in [Endpoints -> Seq(Frames)] /\ Numbering'
      BY <1>1, <1>2, <1>4, <1>9, SendKeeps DEF RejectRequest
    <2>2. Types'
      BY <1>1, <1>3, <1>7, <1>9, <2>1 DEF RejectRequest, Types, callVars, tombVars, Statuses
    <2>3. Reservations'
      BY <1>1, <1>3, <1>5, <1>7, <1>9, ReservedHere DEF RejectRequest, callVars
    <2> QED
      BY <2>1, <2>2, <2>3 DEF IInv
  <1> QED
    BY <1>6, <1>8, <1>9 DEF AcceptRequest

LEMMA OtherSteps ==
  ASSUME IInv, NEW e \in Endpoints,
         GoDown(e) \/ HandleGone(e) \/ \E ch \in channels[e] : DropChannel(e, ch)
  PROVE  IInv'
  <1>1. Types /\ Reservations /\ Numbering /\ Quiet
    BY NothingHeld DEF IInv, GoDown, HandleGone, DropChannel, acceptVars
  <1>2. Reservations'
    BY <1>1 DEF Reservations, GoDown, HandleGone, DropChannel, acceptVars, callVars
  <1>3. CASE GoDown(e)
    <2>1. Types'
      BY <1>1, <1>3 DEF GoDown, Types, callVars, acceptVars, tombVars
    <2> QED
      BY <1>1, <1>2, <1>3, <2>1, QuietKeeps DEF GoDown, IInv
  <1>4. CASE HandleGone(e)
    <2>1. wire' \in [Endpoints -> Seq(Frames)] /\ Numbering'
      BY <1>1, <1>4, TakeKeeps DEF HandleGone, Received
    <2>2. Types'
      BY <1>1, <1>4, <2>1 DEF HandleGone, Types, callVars, acceptVars
    <2> QED
      BY <1>2, <2>1, <2>2 DEF IInv
  <1>5. ASSUME NEW ch \in channels[e], DropChannel(e, ch) PROVE IInv'
    <2>1. ch \in Pairs /\ Gone(ch.remote) \in Frames /\ Gone(ch.remote).kind # "request"
      BY <1>1 DEF Types, Pairs, Gone, Frames
    <2>2. conn' \in [Endpoints -> Statuses] /\ wire' \in [Endpoints -> Seq(Frames)] /\ Numbering'
      BY <1>1, <1>5, <2>1, SendKeeps DEF DropChannel
    <2>3. /\ dropped' \in [Endpoints -> SUBSET Pairs]
          /\ \A x \in Endpoints : dropped'[x] \subseteq channels[x]
      BY <1>1, <1>5, <2>1 DEF DropChannel, Types
    <2>4. Types'
      BY <1>1, <1>5, <2>2, <2>3 DEF DropChannel, Types, callVars, acceptVars, tombVars, Statuses
    <2> QED
      BY <1>2, <2>2, <2>4 DEF IInv
  <1> QED
    BY <1>3, <1>4, <1>5

-----------------------------------------------------------------------------
(* Steps of the event loop. *)

LEMMA BuryTypes ==
  ASSUME Types, NEW e \in Endpoints, NEW ids \in Seq(Ids), Bury(e, ids)
  PROVE  /\ tombs' \in [Endpoints -> Seq(Ids)]
         /\ \A x \in Endpoints : Len(tombs'[x]) <= MaxTombs
  <1> DEFINE all == tombs[e] \o ids
             over == IF Len(all) > MaxTombs THEN Len(all) - MaxTombs ELSE 0
             kept == SubSeq(all, over + 1, Len(all))
  <1>1. all \in Seq(Ids) /\ Len(all) \in Nat
    BY DEF Types
  <1> HIDE DEF all
  <1>2. over \in Nat /\ over <= Len(all)
    BY <1>1, Limits
  <1>3. kept \in Seq(Ids) /\ Len(kept) = Len(all) - over
    <2>1. over + 1 \in 1..(Len(all) + 1)
      BY <1>1, <1>2
    <2>2. \A i \in (over + 1)..Len(all) : all[i] \in Ids
      BY <1>1, <1>2
    <2> QED
      BY <1>1, <1>2, <2>1, <2>2, SubSeqProperties
  <1>4. Len(kept) <= MaxTombs
    BY <1>1, <1>3, Limits
  <1>5. tombs' = [tombs EXCEPT ![e] = kept]
    BY DEF Bury, all
  <1> HIDE DEF kept
  <1> QED
    BY <1>3, <1>4, <1>5 DEF Types

LEMMA CleanupSteps ==
  ASSUME IInv, NEW e \in Endpoints, CleanupChannels(e) \/ CleanupCancelledOpens(e)
  PROVE  IInv'
  <1>1. Types /\ Reservations /\ Numbering /\ Quiet /\ wire' = wire
    BY NothingHeld DEF IInv, CleanupChannels, CleanupCancelledOpens, acceptVars
  <1>2. Numbering'
    BY <1>1, QuietKeeps
  <1>3. /\ slots[e] \in Nat /\ cmds[e] \in Seq(Commands)
        /\ Reserved(slots[e], incoming[e], cmds[e], channels[e], requests[e])
    BY <1>1 DEF Types, Reservations
  <1>4. CASE CleanupChannels(e)
    <2>1. PICK ids \in [1..Cardinality(dropped[e]) -> {ch.id : ch \in dropped[e]}] : Bury(e, ids)
      BY <1>4 DEF CleanupChannels
    <2>2. ids \in Seq(Ids)
      <3>1. {ch.id : ch \in dropped[e]} \subseteq Ids
        BY <1>1 DEF Types, Pairs
      <3>2. Cardinality(dropped[e]) \in Nat
        BY <1>1, <1>3, FS_Subset, FS_CardinalityType DEF Types, Reserved
      <3> QED
        BY <3>1, <3>2
    <2>3. /\ tombs' \in [Endpoints -> Seq(Ids)]
          /\ \A x \in Endpoints : Len(tombs'[x]) <= MaxTombs
      BY <1>1, <2>1, <2>2, BuryTypes
    <2>4. Types'
      BY <1>1, <1>4, <2>3 DEF CleanupChannels, Types, callVars, acceptVars
    <2>5. Reserved(slots[e], incoming[e], cmds[e], channels[e] \ dropped[e], requests[e])
      BY <1>3, Fewer
    <2>6. Reservations'
      BY <1>1, <1>4, <2>5, ReservedHere DEF CleanupChannels, Types, callVars, acceptVars
    <2> QED
      BY <1>2, <2>4, <2>6 DEF IInv
  <1>5. CASE CleanupCancelledOpens(e)
    <2>1. Cancellations(e) \subseteq requests[e]
      BY DEF Cancellations
    <2>2. /\ requests' \in [Endpoints -> SUBSET [id : Ids, call : Calls]]
          /\ requests'[e] = requests[e] \ Cancellations(e)
          /\ \A x \in Endpoints \ {e} : requests'[x] = requests[x]
      BY <1>1, <1>5 DEF CleanupCancelledOpens, Types
    <2>3. cancelled[e] \union {q.id : q \in Cancellations(e)} \in SUBSET Ids
      BY <1>1, <2>1 DEF Types
    <2>4. /\ conn' \in [Endpoints -> Statuses] /\ cancelled' \in [Endpoints -> SUBSET Ids]
      BY <1>1, <1>5, <2>3 DEF CleanupCancelledOpens, Types, Statuses
    <2>5. Types'
      BY <1>1, <1>5, <2>2, <2>4 DEF CleanupCancelledOpens, Types, acceptVars, tombVars, Statuses
    <2>6. Reserved(slots[e], incoming[e], cmds[e], channels[e], requests'[e])
      BY <1>3, <2>2, Fewer
    <2>7. Reservations'
      BY <1>1, <1>5, <2>2, <2>6, ReservedHere DEF CleanupCancelledOpens, acceptVars
    <2> QED
      BY <1>2, <2>7, <2>5 DEF IInv
  <1> QED
    BY <1>4, <1>5

LEMMA CommandTaken ==
  ASSUME Types, NEW e \in Endpoints, cmds[e] # <<>>, cmds' = [cmds EXCEPT ![e] = Tail(@)]
  PROVE  /\ cmds' \in [Endpoints -> Seq(Commands)] /\ Head(cmds[e]) \in Commands
         /\ cmds'[e] = Tail(cmds[e]) /\ \A x \in Endpoints \ {e} : cmds'[x] = cmds[x]
         /\ \A x \in Endpoints : Len(cmds'[x]) <= MaxCommands
  <1>1. /\ Tail(cmds[e]) \in Seq(Commands) /\ Head(cmds[e]) \in Commands
        /\ Len(Tail(cmds[e])) = Len(cmds[e]) - 1 /\ Len(cmds[e]) \in Nat
        /\ Len(cmds[e]) <= MaxCommands
    BY AcceptsTail DEF Types
  <1>2. Len(Tail(cmds[e])) <= MaxCommands
    BY <1>1, Limits
  <1> QED
    BY <1>1, <1>2 DEF Types

LEMMA HandleOpenStep ==
  ASSUME IInv, NEW e \in Endpoints, HandleOpen(e)
  PROVE  IInv'
  <1> DEFINE c == Head(cmds[e]).call
             id == nextId[e]
  <1>1. /\ Types /\ Reservations /\ Numbering
        /\ cmds[e] # <<>> /\ Head(cmds[e]).kind = "open"
        /\ cmds' = [cmds EXCEPT ![e] = Tail(@)]
        /\ UNCHANGED <<cancelled, acceptVars, channels, dropped, tombVars>>
    BY DEF IInv, HandleOpen
  <1>2. /\ cmds' \in [Endpoints -> Seq(Commands)]
        /\ cmds'[e] = Tail(cmds[e]) /\ \A x \in Endpoints \ {e} : cmds'[x] = cmds[x]
        /\ \A x \in Endpoints : Len(cmds'[x]) <= MaxCommands
    BY <1>1, CommandTaken
  <1>3. c \in Calls
    BY <1>1, CommandTaken DEF Commands
  <1>4. /\ Reserved(slots[e], incoming[e], cmds'[e], channels[e], requests[e])
        /\ \A x : Occupied(e) < MaxChannels =>
              Reserved(slots[e], incoming[e], cmds'[e], channels[e], requests[e] \union {x})
    <2>1. /\ slots[e] \in Nat /\ cmds[e] \in Seq(Commands)
          /\ Reserved(slots[e], incoming[e], cmds[e], channels[e], requests[e])
      BY <1>1 DEF Types, Reservations
    <2> QED
      BY <1>1, <1>2, <2>1, OpenTaken DEF Occupied
  <1>5. result' \in [Calls -> Results]
    <2>1. result \in [Calls -> Results]
      BY <1>1 DEF Types, Results
    <2>2. \/ result' = result
          \/ \E r \in {"limit", "closed"} :
                result' = [result EXCEPT ![c] = IF @ = "waiting" THEN r ELSE @]
      BY DEF HandleOpen
    <2> QED
      BY <1>3, <2>1, <2>2 DEF Results
  <1>6. \/ UNCHANGED <<requests, nextId, conn, wire>>
        \/ /\ nextId' = [nextId EXCEPT ![e] = @ + 1]
           /\ NotSent(e) /\ UNCHANGED requests
        \/ /\ nextId' = [nextId EXCEPT ![e] = @ + 1]
           /\ Occupied(e) < MaxChannels /\ Sent(e, <<Request(id)>>)
           /\ requests' = [requests EXCEPT ![e] = @ \union {[id |-> id, call |-> c]}]
    <2>1. Cardinality(channels[e]) + Cardinality(requests[e]) + slots[e] \in Nat
      BY <1>1, FS_CardinalityType DEF Types, Reservations, Reserved
    <2> QED
      BY <2>1, Limits DEF HandleOpen, Occupied
  <1>7. CASE UNCHANGED <<requests, nextId, conn, wire>>
    <2>1. Types'
      BY <1>1, <1>2, <1>5, <1>7 DEF Types, acceptVars, tombVars, Results
    <2>2. Reservations'
      BY <1>1, <1>2, <1>4, <1>7, ReservedHere DEF acceptVars
    <2>3. Numbering'
      BY <1>1, <1>7, NothingHeld, QuietKeeps DEF acceptVars
    <2> QED
      BY <2>1, <2>2, <2>3 DEF IInv
  <1>8. /\ id \in Ids /\ id + 1 \in Ids /\ id <= id + 1
        /\ \A x \in Endpoints : nextId[x] <= nextId[x]
    BY <1>1 DEF Types, Ids
  <1>9. ASSUME nextId' = [nextId EXCEPT ![e] = @ + 1]
        PROVE  /\ nextId' \in [Endpoints -> Ids] /\ nextId'[e] = id + 1
               /\ \A x \in Endpoints \ {e} : nextId'[x] = nextId[x]
               /\ Quiet
    <2>1. /\ nextId' \in [Endpoints -> Ids] /\ nextId'[e] = id + 1
          /\ \A x \in Endpoints \ {e} : nextId'[x] = nextId[x]
      BY <1>1, <1>8, <1>9 DEF Types
    <2> QED
      BY <1>1, <1>8, <2>1 DEF Quiet, Types, acceptVars
  <1>10. CASE /\ nextId' = [nextId EXCEPT ![e] = @ + 1]
              /\ NotSent(e) /\ UNCHANGED requests
    <2>1. Types'
      BY <1>1, <1>2, <1>5, <1>9, <1>10 DEF NotSent, Types, acceptVars, tombVars, Results
    <2>2. Reservations'
      BY <1>1, <1>2, <1>4, <1>10, ReservedHere DEF acceptVars
    <2>3. Numbering'
      BY <1>1, <1>9, <1>10, QuietKeeps DEF NotSent
    <2> QED
      BY <2>1, <2>2, <2>3 DEF IInv
  <1>11. CASE /\ nextId' = [nextId EXCEPT ![e] = @ + 1]
              /\ Occupied(e) < MaxChannels /\ Sent(e, <<Request(id)>>)
              /\ requests' = [requests EXCEPT ![e] = @ \union {[id |-> id, call |-> c]}]
    <2>1. /\ requests' \in [Endpoints -> SUBSET [id : Ids, call : Calls]]
          /\ requests'[e] = requests[e] \union {[id |-> id, call |-> c]}
          /\ \A x \in Endpoints \ {e} : requests'[x] = requests[x]
      BY <1>1, <1>3, <1>8, <1>11 DEF Types
    <2>2. /\ Request(id) \in Frames /\ Request(id).kind = "request" /\ Request(id).sender = id
      BY <1>8 DEF Request, Frames
    <2>3. /\ wire[e] \o <<Request(id)>> \in Seq(Frames)
          /\ Numbered(wire[e] \o <<Request(id)>>, incoming[Peer(e)], id + 1)
      <3>1. /\ wire[e] \in Seq(Frames) /\ incoming[Peer(e)] \in SUBSET Ids
            /\ Numbered(wire[e], incoming[Peer(e)], id)
        BY <1>1, Peers DEF Types, Numbering
      <3> QED
        BY <1>8, <2>2, <3>1, NumberedMore
    <2>4. /\ wire' \in [Endpoints -> Seq(Frames)] /\ conn' = conn
          /\ wire'[e] = wire[e] \o <<Request(id)>>
          /\ \A x \in Endpoints \ {e} : wire'[x] = wire[x]
      BY <1>1, <1>11, <2>3 DEF Sent, Types
    <2>5. Types'
      BY <1>1, <1>2, <1>5, <1>9, <1>11, <2>1, <2>4 DEF Types, acceptVars, tombVars, Results
    <2>6. Reservations'
      BY <1>1, <1>2, <1>4, <1>11, <2>1, ReservedHere DEF acceptVars
    <2>7. Numbering'
      BY <1>1, <1>9, <1>11, <2>3, <2>4 DEF Numbering, acceptVars
    <2> QED
      BY <2>5, <2>6, <2>7 DEF IInv
  <1> QED
    BY <1>6, <1>7, <1>10, <1>11

LEMMA HandleAcceptStep ==
  ASSUME IInv, NEW e \in Endpoints, HandleAccept(e)
  PROVE  IInv'
  <1> DEFINE r == Head(cmds[e]).remote
             id == nextId[e]
             ch == [id |-> id, remote |-> r]
  <1>1. /\ Types /\ Reservations /\ Numbering
        /\ cmds[e] # <<>> /\ Head(cmds[e]).kind = "accept"
        /\ cmds' = [cmds EXCEPT ![e] = Tail(@)]
        /\ slots' = [slots EXCEPT ![e] = @ - 1]
        /\ UNCHANGED <<callVars, incoming, dropped, tombVars>>
    BY DEF IInv, HandleAccept
  <1>2. /\ cmds' \in [Endpoints -> Seq(Commands)]
        /\ cmds'[e] = Tail(cmds[e]) /\ \A x \in Endpoints \ {e} : cmds'[x] = cmds[x]
        /\ \A x \in Endpoints : Len(cmds'[x]) <= MaxCommands
    BY <1>1, CommandTaken
  <1>3. r \in Ids /\ id \in Ids /\ id + 1 \in Ids /\ id <= id + 1 /\ ch \in Pairs
    <2>1. r \in Ids
      BY <1>1, CommandTaken DEF Commands
    <2>2. id \in Ids /\ id + 1 \in Ids /\ id <= id + 1
      BY <1>1 DEF Types, Ids
    <2> QED
      BY <2>1, <2>2 DEF Pairs
  <1>4. /\ slots[e] - 1 \in Nat
        /\ Reserved(slots[e] - 1, incoming[e], cmds'[e], channels[e], requests[e])
        /\ Reserved(slots[e] - 1, incoming[e], cmds'[e], channels[e] \union {ch}, requests[e])
    <2>1. /\ slots[e] \in Nat /\ cmds[e] \in Seq(Commands)
          /\ Reserved(slots[e], incoming[e], cmds[e], channels[e], requests[e])
      BY <1>1 DEF Types, Reservations
    <2>2. /\ slots[e] - 1 \in Nat
          /\ Reserved(slots[e] - 1, incoming[e], Tail(cmds[e]), channels[e], requests[e])
          /\ \A x : Reserved(slots[e] - 1, incoming[e], Tail(cmds[e]), channels[e] \union {x},
                            requests[e])
      BY <1>1, <2>1, AcceptTaken
    <2> QED
      BY <1>2, <2>2
  <1>5. /\ slots' \in [Endpoints -> Nat] /\ slots'[e] = slots[e] - 1
        /\ \A x \in Endpoints \ {e} : slots'[x] = slots[x]
    BY <1>1, <1>4 DEF Types
  <1>6. /\ \/ UNCHANGED nextId
           \/ nextId' = [nextId EXCEPT ![e] = @ + 1]
        /\ \/ SendFrame(e, Reject(r)) /\ UNCHANGED channels
           \/ NotSent(e) /\ UNCHANGED channels
           \/ /\ Sent(e, <<Accept(r, id)>>)
              /\ channels' = [channels EXCEPT ![e] = @ \union {ch}]
    BY DEF HandleAccept
  <1>7. Quiet
    <2>1. nextId \in [Endpoints -> Ids] /\ incoming \in [Endpoints -> SUBSET Ids]
      BY <1>1 DEF Types
    <2>2. \A x \in Endpoints : nextId[x] <= nextId[x]
      BY <2>1 DEF Ids
    <2>3. CASE nextId' = [nextId EXCEPT ![e] = @ + 1]
      <3>1. /\ nextId' \in [Endpoints -> Ids] /\ nextId'[e] = id + 1
            /\ \A x \in Endpoints \ {e} : nextId'[x] = nextId[x]
        BY <1>3, <2>1, <2>3
      <3> QED
        BY <1>1, <1>3, <2>1, <2>2, <3>1 DEF Quiet
    <2> QED
      BY <1>1, <1>6, <2>1, <2>2, <2>3 DEF Quiet
  <1>8. conn' \in [Endpoints -> Statuses] /\ wire' \in [Endpoints -> Seq(Frames)] /\ Numbering'
    <2>1. \E f \in {Reject(r), Accept(r, id)} : SendFrame(e, f)
      BY <1>6 DEF SendFrame
    <2>2. \A f \in {Reject(r), Accept(r, id)} : f \in Frames /\ f.kind # "request"
      BY <1>3 DEF Reject, Accept, Frames
    <2> QED
      BY <1>1, <1>7, <2>1, <2>2, SendKeeps
  <1>9. /\ channels' \in [Endpoints -> SUBSET Pairs]
        /\ channels'[e] \in {channels[e], channels[e] \union {ch}}
        /\ \A x \in Endpoints \ {e} : channels'[x] = channels[x]
    <2>1. channels \in [Endpoints -> SUBSET Pairs] /\ channels[e] \union {ch} \in SUBSET Pairs
      BY <1>1, <1>3 DEF Types
    <2>2. CASE channels' = [channels EXCEPT ![e] = @ \union {ch}]
      BY <2>1, <2>2
    <2> QED
      BY <1>6, <2>1, <2>2
  <1>10. Types'
    <2>1. \A x \in Endpoints : channels[x] \subseteq channels'[x]
      BY <1>9
    <2> QED
      BY <1>1, <1>2, <1>5, <1>7, <1>8, <1>9, <2>1 DEF Types, Quiet, callVars, tombVars, Statuses
  <1>11. Reservations'
    <2>1. UNCHANGED <<incoming, requests>>
      BY <1>1 DEF callVars
    <2>2. Reserved(slots'[e], incoming'[e], cmds'[e], channels'[e], requests'[e])
      BY <1>4, <1>5, <1>9, <2>1
    <2> QED
      BY <1>1, <1>2, <1>5, <1>9, <2>1, <2>2, ReservedHere
  <1> QED
    BY <1>8, <1>10, <1>11 DEF IInv

LEMMA HandleRequestStep ==
  ASSUME IInv, NEW e \in Endpoints, HandleRequest(e)
  PROVE  IInv'
  <1> DEFINE p == Peer(e)
             r == Frame(e).sender
  <1>1. /\ Types /\ Reservations /\ Numbering
        /\ wire[p] # <<>> /\ Head(wire[p]).kind = "request" /\ Frame(e) = Head(wire[p])
        /\ p \in Endpoints /\ p # e /\ Peer(p) = e
        /\ UNCHANGED <<callVars, cmds, nextId, channels, dropped, tombVars>>
    BY Peers DEF IInv, HandleRequest, Received, Frame
  <1>2. /\ Tail(wire[p]) \in Seq(Frames) /\ r \in Ids /\ r \notin incoming[e]
        /\ Numbered(Tail(wire[p]), incoming[e] \union {r}, nextId[p])
    <2>1. wire[p] \in Seq(Frames) /\ Numbered(wire[p], incoming[e], nextId[p])
      BY <1>1 DEF Types, Numbering
    <2> QED
      BY <1>1, <2>1, NumberedTail DEF Frames
  <1>3. CASE TakeSend(e, <<Reject(r)>>, "failed") /\ UNCHANGED <<incoming, slots>>
    <2>1. Reject(r) \in Frames /\ Reject(r).kind # "request"
      BY <1>2 DEF Reject, Frames
    <2>2. conn' \in [Endpoints -> Statuses] /\ wire' \in [Endpoints -> Seq(Frames)] /\ Numbering'
      BY <1>1, <1>3, <2>1, NothingHeld, TakeSendKeeps DEF Statuses
    <2>3. Types'
      BY <1>1, <1>3, <2>2 DEF Types, callVars, tombVars, Statuses
    <2>4. Reservations'
      BY <1>1, <1>3 DEF Reservations, callVars
    <2> QED
      BY <2>2, <2>3, <2>4 DEF IInv
  <1>4. CASE ~(TakeSend(e, <<Reject(r)>>, "failed") /\ UNCHANGED <<incoming, slots>>)
    <2>1. /\ Take(e) /\ UNCHANGED conn
          /\ ~(slots[e] >= MaxPending) /\ ~(Occupied(e) >= MaxChannels)
          /\ incoming' = [incoming EXCEPT ![e] = @ \union {r}]
          /\ slots' = [slots EXCEPT ![e] = @ + 1]
      BY <1>4 DEF HandleRequest
    <2>2. /\ incoming' \in [Endpoints -> SUBSET Ids] /\ incoming'[e] = incoming[e] \union {r}
          /\ \A x \in Endpoints \ {e} : incoming'[x] = incoming[x]
          /\ slots' \in [Endpoints -> Nat] /\ slots'[e] = slots[e] + 1
          /\ \A x \in Endpoints \ {e} : slots'[x] = slots[x]
      BY <1>1, <1>2, <2>1 DEF Types
    <2>3. Reserved(slots[e] + 1, incoming[e] \union {r}, cmds[e], channels[e], requests[e])
      <3>1. /\ slots[e] \in Nat /\ cmds[e] \in Seq(Commands)
            /\ Reserved(slots[e], incoming[e], cmds[e], channels[e], requests[e])
        BY <1>1 DEF Types, Reservations
      <3>2. Cardinality(channels[e]) \in Nat /\ Cardinality(requests[e]) \in Nat
        BY <3>1, FS_CardinalityType DEF Reserved
      <3>3. /\ slots[e] < MaxPending
            /\ Cardinality(channels[e]) + Cardinality(requests[e]) + slots[e] < MaxChannels
        BY <2>1, <3>1, <3>2, Limits DEF Occupied
      <3> QED
        BY <1>2, <3>1, <3>3, RequestTaken
    <2>4. Reservations'
      BY <1>1, <2>2, <2>3, ReservedHere DEF callVars
    <2>5. /\ wire' \in [Endpoints -> Seq(Frames)] /\ wire'[p] = Tail(wire[p])
          /\ \A x \in Endpoints \ {p} : wire'[x] = wire[x]
      BY <1>1, <1>2, <2>1 DEF Take, Types
    <2>6. Numbering'
      <3>1. Numbered(wire'[p], incoming'[Peer(p)], nextId'[p])
        BY <1>1, <1>2, <2>2, <2>5
      <3>2. Numbered(wire'[e], incoming'[Peer(e)], nextId'[e])
        BY <1>1, <2>2, <2>5 DEF Numbering
      <3> QED
        BY <3>1, <3>2, Peers DEF Numbering
    <2>7. Types'
      BY <1>1, <2>1, <2>2, <2>5 DEF Types, callVars, tombVars
    <2> QED
      BY <2>4, <2>6, <2>7 DEF IInv
  <1> QED
    BY <1>3, <1>4

(* The answer to an open takes its request away; an accept puts a channel  *)
(* in its place.                                                           *)
LEMMA AnswerSteps ==
  ASSUME IInv, NEW e \in Endpoints, NEW q \in requests[e],
         HandleAcceptFrame(e, q) \/ HandleReject(e, q)
  PROVE  IInv'
  <1> DEFINE p == Peer(e)
             ch == [id |-> q.id, remote |-> Frame(e).sender]
  <1>1. /\ Types /\ Reservations /\ Numbering /\ Quiet
        /\ wire[p] # <<>> /\ p \in Endpoints /\ wire[p] \in Seq(Frames)
        /\ q \in [id : Ids, call : Calls]
        /\ requests' = [requests EXCEPT ![e] = @ \ {q}]
        /\ UNCHANGED <<cancelled, idOf, cmds, nextId, acceptVars, tombVars>>
    BY Peers, NothingHeld
       DEF IInv, Types, HandleAcceptFrame, HandleReject, Received, acceptVars
  <1>2. /\ requests' \in [Endpoints -> SUBSET [id : Ids, call : Calls]]
        /\ requests'[e] = requests[e] \ {q}
        /\ \A x \in Endpoints \ {e} : requests'[x] = requests[x]
    BY <1>1 DEF Types
  <1>3. /\ Reserved(slots[e], incoming[e], cmds[e], channels[e], requests[e] \ {q})
        /\ Reserved(slots[e], incoming[e], cmds[e], channels[e] \union {ch}, requests[e] \ {q})
    <2>1. /\ slots[e] \in Nat /\ cmds[e] \in Seq(Commands)
          /\ Reserved(slots[e], incoming[e], cmds[e], channels[e], requests[e])
      BY <1>1 DEF Types, Reservations
    <2> QED
      BY <2>1, Fewer, RequestBecomesChannel
  <1>4. CASE HandleReject(e, q)
    <2>1. wire' \in [Endpoints -> Seq(Frames)] /\ Numbering'
      BY <1>1, <1>4, TakeKeeps DEF HandleReject
    <2>2. result' \in [Calls -> Results]
      BY <1>1, <1>4 DEF HandleReject, Types, Results
    <2>3. Types'
      BY <1>1, <1>2, <1>4, <2>1, <2>2 DEF HandleReject, Types, acceptVars, tombVars, Results
    <2>4. Reservations'
      BY <1>1, <1>2, <1>3, <1>4, ReservedHere DEF HandleReject, acceptVars
    <2> QED
      BY <2>1, <2>3, <2>4 DEF IInv
  <1>5. CASE HandleAcceptFrame(e, q)
    <2>1. ch \in Pairs /\ Gone(ch.remote) \in Frames /\ Gone(ch.remote).kind # "request"
      <3>1. Head(wire[p]) \in Frames /\ Head(wire[p]).kind = "accept"
        BY <1>1, <1>5, NumberedTail DEF HandleAcceptFrame, Received, Frame, Numbering
      <3> QED
        BY <1>1, <3>1 DEF Frame, Frames, Pairs, Gone
    <2>2. /\ conn' \in [Endpoints -> Statuses] /\ wire' \in [Endpoints -> Seq(Frames)]
          /\ Numbering'
      <3>1. \/ TakeSend(e, <<Gone(ch.remote)>>, "closing")
            \/ Take(e) /\ UNCHANGED conn
        BY <1>5 DEF HandleAcceptFrame
      <3>2. CASE TakeSend(e, <<Gone(ch.remote)>>, "closing")
        BY <1>1, <2>1, <3>2, TakeSendKeeps DEF Statuses
      <3>3. CASE Take(e) /\ UNCHANGED conn
        BY <1>1, <3>3, TakeKeeps DEF Types, Statuses
      <3> QED
        BY <3>1, <3>2, <3>3
    <2>3. /\ channels' \in [Endpoints -> SUBSET Pairs] /\ channels'[e] = channels[e] \union {ch}
          /\ \A x \in Endpoints \ {e} : channels'[x] = channels[x]
      BY <1>1, <1>5, <2>1 DEF HandleAcceptFrame, Types
    <2>4. /\ dropped' \in [Endpoints -> SUBSET Pairs]
          /\ \A x \in Endpoints : dropped'[x] \subseteq channels'[x]
      <3>1. /\ dropped \in [Endpoints -> SUBSET Pairs]
            /\ \A x \in Endpoints : dropped[x] \subseteq channels'[x]
        BY <1>1, <2>3 DEF Types
      <3>2. CASE dropped' = [dropped EXCEPT ![e] = @ \union {ch}]
        BY <2>1, <2>3, <3>1, <3>2
      <3>3. CASE dropped' = dropped
        BY <3>1, <3>3
      <3> QED
        BY <1>5, <3>2, <3>3 DEF HandleAcceptFrame
    <2>5. result' \in [Calls -> Results]
      BY <1>1, <1>5 DEF HandleAcceptFrame, Types, Results
    <2>6. Types'
      BY <1>1, <1>2, <2>2, <2>3, <2>4, <2>5 DEF Types, acceptVars, tombVars, Results, Statuses
    <2>7. Reservations'
      BY <1>1, <1>2, <1>3, <2>3, ReservedHere DEF acceptVars
    <2> QED
      BY <2>2, <2>6, <2>7 DEF IInv
  <1> QED
    BY <1>4, <1>5

LEMMA CancelledSteps ==
  ASSUME IInv, NEW e \in Endpoints, HandleAcceptCancelled(e) \/ HandleRejectCancelled(e)
  PROVE  IInv'
  <1> DEFINE p == Peer(e)
  <1>1. /\ Types /\ Reservations /\ Numbering /\ Quiet
        /\ wire[p] # <<>> /\ p \in Endpoints /\ wire[p] \in Seq(Frames)
        /\ cancelled' = [cancelled EXCEPT ![e] = @ \ {Frame(e).receiver}]
        /\ UNCHANGED <<result, requests, idOf, cmds, nextId, acceptVars, channels, dropped>>
    BY Peers, NothingHeld
       DEF IInv, Types, HandleAcceptCancelled, HandleRejectCancelled, Received, acceptVars
  <1>2. Reservations'
    BY <1>1 DEF Reservations, acceptVars
  <1>3. cancelled' \in [Endpoints -> SUBSET Ids]
    BY <1>1 DEF Types
  <1>4. ASSUME Violation(e) \/ (Take(e) /\ UNCHANGED conn)
        PROVE  /\ conn' \in [Endpoints -> Statuses] /\ wire' \in [Endpoints -> Seq(Frames)]
               /\ Numbering'
    BY <1>1, <1>4, TakeKeeps DEF Violation, Types, Statuses
  <1>5. CASE HandleRejectCancelled(e)
    <2>1. /\ conn' \in [Endpoints -> Statuses] /\ wire' \in [Endpoints -> Seq(Frames)]
          /\ Numbering'
      BY <1>4, <1>5 DEF HandleRejectCancelled
    <2>2. Types'
      BY <1>1, <1>3, <1>5, <2>1 DEF HandleRejectCancelled, Types, acceptVars, tombVars, Statuses
    <2> QED
      BY <1>2, <2>1, <2>2 DEF IInv
  <1>6. CASE HandleAcceptCancelled(e)
    <2>1. Head(wire[p]) \in Frames /\ Head(wire[p]).kind = "accept" /\ Frame(e) = Head(wire[p])
      BY <1>1, <1>6, NumberedTail DEF HandleAcceptCancelled, Received, Frame, Numbering
    <2>2. /\ Frame(e).receiver \in Ids
          /\ Gone(Frame(e).sender) \in Frames /\ Gone(Frame(e).sender).kind # "request"
      BY <2>1 DEF Frames, Gone
    <2>3. /\ conn' \in [Endpoints -> Statuses] /\ wire' \in [Endpoints -> Seq(Frames)]
          /\ Numbering'
      <3>1. TakeSend(e, <<Gone(Frame(e).sender)>>, "failed") \/ Violation(e)
        BY <1>6 DEF HandleAcceptCancelled
      <3>2. CASE TakeSend(e, <<Gone(Frame(e).sender)>>, "failed")
        BY <1>1, <2>2, <3>2, TakeSendKeeps DEF Statuses
      <3> QED
        BY <1>4, <3>1, <3>2
    <2>4. /\ tombs' \in [Endpoints -> Seq(Ids)]
          /\ \A x \in Endpoints : Len(tombs'[x]) <= MaxTombs
      <3>1. Bury(e, <<Frame(e).receiver>>) \/ UNCHANGED tombs
        BY <1>6 DEF HandleAcceptCancelled
      <3>2. <<Frame(e).receiver>> \in Seq(Ids)
        BY <2>2
      <3> QED
        BY <1>1, <3>1, <3>2, BuryTypes DEF Types
    <2>5. Types'
      BY <1>1, <1>3, <2>3, <2>4 DEF Types, acceptVars, Statuses
    <2> QED
      BY <1>2, <2>3, <2>5 DEF IInv
  <1> QED
    BY <1>5, <1>6

LEMMA CloseStep ==
  ASSUME IInv, NEW e \in Endpoints, CloseState(e)
  PROVE  IInv'
  <1>1. /\ Types /\ Reservations /\ Numbering /\ Quiet /\ CloseTables(e)
        /\ UNCHANGED <<nextId, incoming>>
    BY NothingHeld DEF IInv, CloseState, CloseTables
  <1>2. /\ slots[e] \in Nat /\ cmds[e] \in Seq(Commands) /\ Accepting(e) = Accepts(cmds[e])
        /\ Reserved(slots[e], incoming[e], cmds[e], channels[e], requests[e])
    BY <1>1 DEF Types, Reservations, Accepting, Accepts
  <1>3. /\ slots[e] - Cardinality(Accepting(e)) \in Nat
        /\ Reserved(slots[e] - Cardinality(Accepting(e)), incoming[e], <<>>, {}, {})
    BY <1>2, TablesClosed
  <1>4. /\ slots' \in [Endpoints -> Nat] /\ slots'[e] = slots[e] - Cardinality(Accepting(e))
        /\ \A x \in Endpoints \ {e} : slots'[x] = slots[x]
    BY <1>1, <1>3 DEF CloseTables, Types
  <1>5. /\ cmds' \in [Endpoints -> Seq(Commands)] /\ cmds'[e] = <<>>
        /\ \A x \in Endpoints \ {e} : cmds'[x] = cmds[x]
        /\ tombs' \in [Endpoints -> Seq(Ids)] /\ tombs'[e] = <<>>
        /\ \A x \in Endpoints \ {e} : tombs'[x] = tombs[x]
        /\ Len(<<>>) = 0
    BY <1>1 DEF CloseTables, Types
  <1>6. /\ channels' \in [Endpoints -> SUBSET Pairs] /\ channels'[e] = {}
        /\ requests' \in [Endpoints -> SUBSET [id : Ids, call : Calls]] /\ requests'[e] = {}
        /\ dropped' \in [Endpoints -> SUBSET Pairs] /\ dropped'[e] = {}
        /\ cancelled' \in [Endpoints -> SUBSET Ids]
        /\ \A x \in Endpoints \ {e} :
              channels'[x] = channels[x] /\ requests'[x] = requests[x] /\ dropped'[x] = dropped[x]
    BY <1>1 DEF CloseTables, Types
  <1>7. Reservations'
    BY <1>1, <1>3, <1>4, <1>5, <1>6, ReservedHere
  <1>8. /\ wire' \in [Endpoints -> Seq(Frames)] /\ Numbering'
    <2>1. PICK n \in 0..Len(wire[e]) : wire' = [wire EXCEPT ![e] = SubSeq(@, 1, n)]
      BY <1>1 DEF CloseTables
    <2>2. /\ SubSeq(wire[e], 1, n) \in Seq(Frames)
          /\ Numbered(SubSeq(wire[e], 1, n), incoming[Peer(e)], nextId[e])
      BY <1>1, NumberedPrefix DEF Types, Numbering
    <2>3. /\ wire' \in [Endpoints -> Seq(Frames)] /\ wire'[e] = SubSeq(wire[e], 1, n)
          /\ \A x \in Endpoints \ {e} : wire'[x] = wire[x]
      BY <1>1, <2>1, <2>2 DEF Types
    <2> QED
      BY <1>1, <2>2, <2>3 DEF Numbering
  <1>9. conn' \in [Endpoints -> Statuses] /\ result' \in [Calls -> Results]
    BY <1>1 DEF CloseTables, Types, Statuses, Results
  <1>10. Types'
    <2>1. \A x \in Endpoints : Len(tombs'[x]) <= MaxTombs /\ Len(cmds'[x]) <= MaxCommands
      <3>1. 0 <= MaxTombs /\ 0 <= MaxCommands
        BY Limits
      <3>2. \A x \in Endpoints : Len(tombs[x]) <= MaxTombs /\ Len(cmds[x]) <= MaxCommands
        BY <1>1 DEF Types
      <3> QED
        BY <1>5, <3>1, <3>2
    <2>2. \A x \in Endpoints : dropped'[x] \subseteq channels'[x]
      BY <1>1, <1>6 DEF Types
    <2> QED
      BY <1>1, <1>4, <1>5, <1>6, <1>8, <1>9, <2>1, <2>2 DEF Types, Statuses, Results
  <1> QED
    BY <1>7, <1>8, <1>10 DEF IInv

-----------------------------------------------------------------------------
LEMMA Initially == Init => IInv
  <1> SUFFICES ASSUME Init PROVE IInv
    OBVIOUS
  <1>1. /\ 1 \in Ids /\ <<>> \in Seq(Ids) /\ <<>> \in Seq(Commands) /\ <<>> \in Seq(Frames)
        /\ Len(<<>>) = 0 /\ \A x \in {MaxTombs, MaxCommands} : 0 <= x
    BY Limits DEF Ids
  <1>2. Types
    BY <1>1 DEF Init, Types
  <1>3. Reservations
    <2>1. IsFiniteSet({}) /\ Cardinality({}) = 0
      BY FS_EmptySet
    <2>2. Reserved(0, {}, <<>>, {}, {})
      BY <2>1, AcceptsEmpty, Limits DEF Reserved
    <2> QED
      BY <2>2 DEF Init, Reservations
  <1>4. Numbering
    <2>1. Numbered(<<>>, {}, 1)
      BY DEF Numbered
    <2> QED
      BY <2>1, Peers DEF Init, Numbering
  <1> QED
    BY <1>2, <1>3, <1>4 DEF IInv

LEMMA InvarianceStep == IInv /\ [Next]_vars => IInv'
  <1> SUFFICES ASSUME IInv, [Next]_vars PROVE IInv'
    OBVIOUS
  <1>1. CASE UNCHANGED vars
    BY <1>1 DEF vars, callVars, acceptVars, tombVars, IInv, Types, Reservations, Numbering
  <1>2. ASSUME NEW e \in Endpoints, Loop(e) PROVE IInv'
    BY <1>2, CleanupSteps, HandleOpenStep, HandleAcceptStep, HandleRequestStep, AnswerSteps,
       CancelledSteps, OtherSteps, CloseStep DEF Loop
  <1>3. ASSUME NEW e \in Endpoints, Holder(e) PROVE IInv'
    BY <1>3, HolderSteps DEF Holder
  <1> QED
    BY <1>1, <1>2, <1>3, OpenSteps, OtherSteps DEF Next

LEMMA Invariance == Spec => []IInv
  BY Initially, InvarianceStep, PTL DEF Spec

(* A slot is reserved for exactly the requests that a task holds or that   *)
(* were accepted and wait for the event loop, whoever opens, cancels,      *)
(* rejects or drops what and whenever a connection ends; so the limits of  *)
(* pending requests and of channels hold, and the assertion of             *)
(* make_channel is never met.                                              *)
THEOREM SlotsKept == Spec => []SlotsExact
  <1>1. IInv => SlotsExact
    <2> SUFFICES ASSUME IInv PROVE SlotsExact
      OBVIOUS
    <2>1. \A e \in Endpoints :
            /\ slots[e] \in 0..MaxPending
            /\ slots[e] = Cardinality(incoming[e]) + Cardinality(Accepting(e))
            /\ Cardinality(channels[e]) + Cardinality(requests[e]) + slots[e] <= MaxChannels
      <3> TAKE e \in Endpoints
      <3>1. slots[e] \in Nat /\ Reserved(slots[e], incoming[e], cmds[e], channels[e], requests[e])
        BY DEF IInv, Types, Reservations
      <3>2. Accepting(e) = Accepts(cmds[e])
        BY DEF Accepting, Accepts
      <3> QED
        BY <3>1, <3>2, Limits DEF Reserved
    <2>2. TypeOK
      BY <2>1 DEF IInv, Types, TypeOK
    <2> QED
      BY <2>1, <2>2 DEF SlotsExact, SlotBound
  <1> QED
    BY <1>1, Invariance, PTL

-----------------------------------------------------------------------------
(* Where each request is, as numbers.                                      *)

(* The elements of the sequence q that are in S. *)
Hits(q, S) == Cardinality({i \in DOMAIN q : q[i] \in S})

LEMMA HitsType ==
  ASSUME NEW T, NEW q \in Seq(T), NEW S
  PROVE  /\ IsFiniteSet({i \in DOMAIN q : q[i] \in S}) /\ Hits(q, S) \in Nat
         /\ Hits(q, S) > 0 <=> \E i \in DOMAIN q : q[i] \in S
         /\ q = <<>> => Hits(q, S) = 0
  <1> DEFINE at == {i \in DOMAIN q : q[i] \in S}
  <1>1. at \in SUBSET (1..Len(q)) /\ IsFiniteSet(1..Len(q))
    BY FS_Interval
  <1>2. IsFiniteSet(at) /\ Cardinality(at) \in Nat
    BY <1>1, FS_Subset, FS_CardinalityType
  <1>3. Cardinality(at) = 0 <=> at = {}
    BY <1>2, FS_EmptySet
  <1> QED
    BY <1>2, <1>3 DEF Hits

LEMMA HitsNone == \A S : Hits(<<>>, S) = 0
  <1>1. <<>> \in Seq({})
    OBVIOUS
  <1> QED
    BY <1>1, HitsType

LEMMA HitsMore ==
  ASSUME NEW T, NEW q \in Seq(T), NEW x \in T, NEW S
  PROVE  Hits(q \o <<x>>, S) = Hits(q, S) + (IF x \in S THEN 1 ELSE 0)
  <1> DEFINE v == q \o <<x>>
             at == {i \in DOMAIN q : q[i] \in S}
  <1>1. /\ Len(q) \in Nat /\ DOMAIN q = 1..Len(q) /\ DOMAIN v = 1..(Len(q) + 1)
        /\ v[Len(q) + 1] = x /\ \A i \in DOMAIN q : v[i] = q[i]
    OBVIOUS
  <1>2. {i \in DOMAIN v : v[i] \in S} = at \union (IF x \in S THEN {Len(q) + 1} ELSE {})
    <2> HIDE DEF v
    <2>1. DOMAIN v = DOMAIN q \union {Len(q) + 1}
      BY <1>1
    <2> QED
      BY <1>1, <2>1
  <1>3. Len(q) + 1 \notin at
    BY <1>1
  <1>4. IsFiniteSet(at) /\ Cardinality(at) \in Nat
    BY HitsType DEF Hits
  <1> HIDE DEF at, v
  <1>5. Cardinality(at \union (IF x \in S THEN {Len(q) + 1} ELSE {}))
          = Cardinality(at) + (IF x \in S THEN 1 ELSE 0)
    <2>1. CASE x \in S
      BY <1>3, <1>4, <2>1, FS_AddElement
    <2>2. CASE x \notin S
      BY <1>4, <2>2
    <2> QED
      BY <2>1, <2>2
  <1> QED
    BY <1>2, <1>5 DEF Hits, at, v

LEMMA HitsTail ==
  ASSUME NEW T, NEW q \in Seq(T), q # <<>>, NEW S
  PROVE  Hits(q, S) = Hits(Tail(q), S) + (IF Head(q) \in S THEN 1 ELSE 0)
  <1> DEFINE t == Tail(q)
             at == {i \in DOMAIN q : q[i] \in S}
             late == {i \in DOMAIN t : t[i] \in S}
             up == [i \in late |-> i + 1]
  <1>1. /\ t \in Seq(T) /\ Len(t) = Len(q) - 1 /\ DOMAIN t = 1..Len(t) /\ DOMAIN q = 1..Len(q)
        /\ Len(q) \in Nat /\ Len(q) > 0 /\ Head(q) = q[1]
        /\ \A i \in 1..Len(t) : t[i] = q[i + 1]
    OBVIOUS
  <1>2. at \ {1} = {i + 1 : i \in late}
    <2>1. \A i \in late : i + 1 \in at \ {1}
      BY <1>1
    <2>2. \A j \in at \ {1} : j - 1 \in late /\ j = (j - 1) + 1
      BY <1>1
    <2> HIDE DEF at, late
    <2> QED
      BY <2>1, <2>2
  <1>3. up \in Bijection(late, at \ {1})
    <2>1. up \in [late -> at \ {1}]
      BY <1>2
    <2>2. \A i, j \in late : up[i] = up[j] => i = j
      BY <1>1
    <2>3. \A j \in at \ {1} : \E i \in late : up[i] = j
      BY <1>2
    <2> QED
      BY <2>1, <2>2, <2>3, Fun_IsBij
  <1>4. IsFiniteSet(late) /\ IsFiniteSet(at) /\ Cardinality(at) \in Nat
    BY <1>1, HitsType DEF Hits
  <1> HIDE DEF up, late, at
  <1>5. Cardinality(at \ {1}) = Cardinality(late)
    BY <1>3, <1>4, FS_Bijection DEF ExistsBijection
  <1>6. Cardinality(at) = Cardinality(at \ {1}) + (IF 1 \in at THEN 1 ELSE 0)
    <2>1. CASE 1 \in at
      <3>1. Cardinality(at \ {1}) = Cardinality(at) - 1
        BY <1>4, <2>1, FS_RemoveElement
      <3> QED
        BY <1>4, <2>1, <3>1
    <2>2. CASE 1 \notin at
      <3>1. Cardinality(at \ {1}) = Cardinality(at)
        BY <1>4, <2>2, FS_RemoveElement
      <3> QED
        BY <1>4, <2>2, <3>1
    <2> QED
      BY <2>1, <2>2
  <1>7. 1 \in at <=> Head(q) \in S
    BY <1>1 DEF at
  <1> QED
    BY <1>5, <1>6, <1>7 DEF Hits, at, late

LEMMA HitsPrefix ==
  ASSUME NEW T, NEW q \in Seq(T), NEW n \in 0..Len(q), NEW S
  PROVE  Hits(SubSeq(q, 1, n), S) <= Hits(q, S)
  <1> DEFINE v == SubSeq(q, 1, n)
  <1>1. DOMAIN v \subseteq DOMAIN q /\ \A i \in DOMAIN v : v[i] = q[i]
    BY SubSeqProperties
  <1>2. {i \in DOMAIN v : v[i] \in S} \in SUBSET {i \in DOMAIN q : q[i] \in S}
    BY <1>1
  <1> QED
    BY <1>2, HitsType, FS_Subset DEF Hits

(* The frames about request id. *)
RequestsOf(id) == [kind : {"request"}, sender : {id}]
AcceptsOf(id) == [kind : {"accept"}, receiver : {id}, sender : Ids]
RejectsOf(id) == [kind : {"reject"}, receiver : {id}]

(* Where request id of endpoint x is: on its way to the peer, in the hands *)
(* of a task there, in the peer's command queue, or on its way back.       *)
Asked(x, id) == Hits(wire[x], RequestsOf(id))
Kept(p, id) == IF id \in incoming[p] THEN 1 ELSE 0
Granted(p, id) == Hits(cmds[p], {AcceptChannel(id)})
Accepted(p, id) == Hits(wire[p], AcceptsOf(id))
Rejected(p, id) == Hits(wire[p], RejectsOf(id))
Here(p, id) == Kept(p, id) + Granted(p, id) + Accepted(p, id) + Rejected(p, id)
Underway(x, id) == Asked(x, id) + Here(Peer(x), id)

(* How often a callback of p got a channel for request id of its peer. *)
Called(p, id) == Hits(callbacks[p], {id})

(* The requests whose answer endpoint x can understand. *)
Live(x) == cancelled[x] \union {q.id : q \in requests[x]}

Listening(x) == conn[x] \in {"up", "closing"}
BothUp(x) == conn[x] = "up" /\ conn[Peer(x)] = "up"

(* A request is under way at most once (u), a of it being an accept on its *)
(* way back, and n callbacks ran for it.                                   *)
Journey(u, a, n, live, listening, bothUp, fresh) ==
    /\ u <= 1
    /\ a > 0 => n = 1
    /\ u > a => n = 0
    /\ listening /\ u > 0 => live
    /\ bothUp /\ live => u = 1
    /\ fresh => u = 0 /\ n = 0 /\ ~live

Traced(x, id) ==
    Journey(Underway(x, id), Accepted(Peer(x), id), Called(Peer(x), id),
            id \in Live(x), Listening(x), BothUp(x), id >= nextId[x])

(* Each endpoint waits for an answer under one title. *)
Titles ==
    \A x \in Endpoints : \A q \in requests[x] :
        q.id \notin cancelled[x] /\ \A r \in requests[x] : q.id = r.id => q = r

Callbacks == callbacks \in [Endpoints -> Seq(Ids)]

Answers == Callbacks /\ Titles /\ \A x \in Endpoints : \A id \in Ids : Traced(x, id)

LEMMA FrameKinds ==
  ASSUME NEW f \in Frames, NEW id \in Ids
  PROVE  /\ f \in RequestsOf(id) <=> f.kind = "request" /\ f.sender = id
         /\ f \in AcceptsOf(id) <=> f.kind = "accept" /\ f.receiver = id
         /\ f \in RejectsOf(id) <=> f.kind = "reject" /\ f.receiver = id
  BY DEF Frames, RequestsOf, AcceptsOf, RejectsOf

LEMMA FrameFields ==
  ASSUME NEW r \in Ids, NEW s \in Ids
  PROVE  /\ Request(r) \in Frames /\ Request(r).kind = "request" /\ Request(r).sender = r
         /\ Accept(r, s) \in Frames /\ Accept(r, s).kind = "accept"
         /\ Accept(r, s).receiver = r /\ Accept(r, s).sender = s
         /\ Reject(r) \in Frames /\ Reject(r).kind = "reject" /\ Reject(r).receiver = r
         /\ Gone(r) \in Frames /\ Gone(r).kind = "gone" /\ Gone(r).receiver = r
  BY DEF Request, Accept, Reject, Gone, Frames

LEMMA Counts ==
  ASSUME Types, Callbacks, NEW p \in Endpoints, NEW id \in Ids
  PROVE  /\ Asked(p, id) \in Nat /\ Kept(p, id) \in Nat /\ Granted(p, id) \in Nat
         /\ Accepted(p, id) \in Nat /\ Rejected(p, id) \in Nat /\ Here(p, id) \in Nat
         /\ Called(p, id) \in Nat
  <1>1. wire[p] \in Seq(Frames) /\ cmds[p] \in Seq(Commands) /\ callbacks[p] \in Seq(Ids)
    BY DEF Types, Callbacks
  <1>2. /\ Asked(p, id) \in Nat /\ Granted(p, id) \in Nat /\ Accepted(p, id) \in Nat
        /\ Rejected(p, id) \in Nat /\ Called(p, id) \in Nat
    BY <1>1, HitsType DEF Asked, Granted, Accepted, Rejected, Called
  <1>3. Kept(p, id) \in Nat
    BY DEF Kept
  <1> QED
    BY <1>2, <1>3 DEF Here

CountsTyped ==
    \A x \in Endpoints, id \in Ids :
        /\ Underway(x, id) \in Nat /\ Accepted(Peer(x), id) \in Nat
        /\ Accepted(Peer(x), id) <= Underway(x, id) /\ Called(Peer(x), id) \in Nat
        /\ Granted(Peer(x), id) \in Nat
        /\ Granted(Peer(x), id) + Accepted(Peer(x), id) <= Underway(x, id)

LEMMA UnderwayType == Types /\ Callbacks => CountsTyped
  <1> SUFFICES ASSUME Types, Callbacks, NEW x \in Endpoints, NEW id \in Ids
               PROVE  /\ Underway(x, id) \in Nat /\ Accepted(Peer(x), id) \in Nat
                      /\ Accepted(Peer(x), id) <= Underway(x, id) /\ Called(Peer(x), id) \in Nat
                      /\ Granted(Peer(x), id) \in Nat
                      /\ Granted(Peer(x), id) + Accepted(Peer(x), id) <= Underway(x, id)
    BY DEF CountsTyped
  <1>1. Peer(x) \in Endpoints
    BY Peers
  <1>2. /\ Asked(x, id) \in Nat /\ Kept(Peer(x), id) \in Nat /\ Granted(Peer(x), id) \in Nat
        /\ Accepted(Peer(x), id) \in Nat /\ Rejected(Peer(x), id) \in Nat
        /\ Called(Peer(x), id) \in Nat
    BY <1>1, Counts
  <1> QED
    BY <1>2 DEF Underway, Here

(* The status of an endpoint only gets worse. *)
Worse ==
    \A x \in Endpoints :
        /\ conn'[x] = "up" => conn[x] = "up"
        /\ conn'[x] \in {"up", "closing"} => conn[x] \in {"up", "closing"}

LEMMA StatusWorse ==
  ASSUME Types, Next
  PROVE  Worse
  <1>0. conn \in [Endpoints -> {"up", "closing", "failed", "closed"}]
    BY DEF Types
  <1>1. ASSUME NEW e \in Endpoints, NotSent(e) \/ UNCHANGED conn PROVE Worse
    BY <1>0, <1>1 DEF NotSent, Worse
  <1>2. ASSUME NEW e \in Endpoints, NEW fs, NEW s \in {"closing", "failed"}, TakeSend(e, fs, s),
               Listening(e)
        PROVE Worse
    BY <1>0, <1>2 DEF TakeSend, Worse, Listening
  <1>3. ASSUME NEW c \in Calls, Open(c) \/ Cancel(c) PROVE Worse
    BY <1>0, <1>3 DEF Open, Cancel, SendCmd, CmdNotSent, Worse
  <1>4. ASSUME NEW e \in Endpoints, Holder(e) PROVE Worse
    BY <1>0, <1>1, <1>4
       DEF Holder, AcceptRequest, RejectRequest, SendCmd, CmdNotSent, SendFrame, Sent, Worse
  <1>5. ASSUME NEW e \in Endpoints, GoDown(e) \/ (\E ch \in channels[e] : DropChannel(e, ch))
        PROVE  Worse
    <2>1. CASE GoDown(e)
      BY <1>0, <2>1 DEF GoDown, Up, Worse
    <2>2. ASSUME NEW ch \in channels[e], DropChannel(e, ch) PROVE Worse
      <3>1. NotSent(e) \/ UNCHANGED conn
        BY <2>2 DEF DropChannel, SendFrame, Sent
      <3> QED
        BY <1>1, <3>1
    <2> QED
      BY <1>5, <2>1, <2>2
  <1>6. ASSUME NEW e \in Endpoints, Loop(e) PROVE Worse
    <2>1. CASE CleanupChannels(e) \/ CleanupCancelledOpens(e)
      BY <1>0, <2>1 DEF CleanupChannels, CleanupCancelledOpens, Worse
    <2>2. CASE HandleOpen(e) \/ HandleAccept(e)
      <3>1. NotSent(e) \/ UNCHANGED conn
        BY <2>2 DEF HandleOpen, HandleAccept, SendFrame, Sent
      <3> QED
        BY <3>1, <1>1
    <2>3. CASE HandleRequest(e)
      BY <1>0, <1>2, <2>3 DEF HandleRequest, Received, Listening, Worse
    <2>4. CASE \E q \in requests[e] : HandleAcceptFrame(e, q) \/ HandleReject(e, q)
      BY <1>0, <1>2, <2>4 DEF HandleAcceptFrame, HandleReject, Received, Listening, Worse
    <2>5. CASE HandleAcceptCancelled(e) \/ HandleRejectCancelled(e)
      BY <1>0, <1>2, <2>5
         DEF HandleAcceptCancelled, HandleRejectCancelled, Received, Listening, Violation, Worse
    <2>6. CASE HandleGone(e) \/ CloseState(e)
      BY <1>0, <2>6 DEF HandleGone, CloseState, CloseTables, Worse
    <2> QED
      BY <1>6, <2>1, <2>2, <2>3, <2>4, <2>5, <2>6 DEF Loop
  <1> QED
    BY <1>3, <1>4, <1>5, <1>6 DEF Next
-----------------------------------------------------------------------------
(* What a step may do to a request.                                        *)

Untouched(x, id) ==
    /\ Underway(x, id)' = Underway(x, id)
    /\ Accepted(Peer(x), id)' = Accepted(Peer(x), id)
    /\ Called(Peer(x), id)' = Called(Peer(x), id)
    /\ id \in Live(x)' <=> id \in Live(x)

(* With an endpoint that goes down, or with what its peer can understand. *)
Lost(x, id) ==
    /\ ~BothUp(x)'
    /\ Accepted(Peer(x), id)' <= Accepted(Peer(x), id)
    /\ Underway(x, id)' - Accepted(Peer(x), id)' <= Underway(x, id) - Accepted(Peer(x), id)
    /\ Called(Peer(x), id)' = Called(Peer(x), id)
    /\ id \in Live(x)' => id \in Live(x)
    /\ Listening(x)' => (id \in Live(x)' <=> id \in Live(x))

(* The peer makes a channel of it, and sends the accept. *)
Made(x, id) ==
    /\ Granted(Peer(x), id) > 0
    /\ Underway(x, id)' = Underway(x, id)
    /\ Accepted(Peer(x), id)' = Accepted(Peer(x), id) + 1
    /\ Called(Peer(x), id)' = Called(Peer(x), id) + 1
    /\ id \in Live(x)' <=> id \in Live(x)

(* Its answer is taken. *)
Resolved(x, id) ==
    /\ Underway(x, id)' = Underway(x, id) - 1
    /\ Accepted(Peer(x), id)' <= Accepted(Peer(x), id)
    /\ Called(Peer(x), id)' = Called(Peer(x), id)
    /\ id \notin Live(x)'

(* It is sent. *)
Sends(x, id) ==
    /\ id = nextId[x] /\ nextId'[x] = id + 1
    /\ Underway(x, id)' = Underway(x, id) + 1
    /\ Accepted(Peer(x), id)' = Accepted(Peer(x), id)
    /\ Called(Peer(x), id)' = Called(Peer(x), id)
    /\ id \in Live(x)'

LEMMA TraceStep ==
  ASSUME Types, Callbacks, Types', Callbacks', Worse,
         NEW x \in Endpoints, NEW id \in Ids, Traced(x, id), nextId[x] <= nextId'[x],
         \/ Untouched(x, id) \/ Lost(x, id) \/ Made(x, id) \/ Resolved(x, id) \/ Sends(x, id)
  PROVE  Traced(x, id)'
  <1> DEFINE u == Underway(x, id)
             a == Accepted(Peer(x), id)
             n == Called(Peer(x), id)
             g == Granted(Peer(x), id)
             live == id \in Live(x)
             listens == Listening(x)
             both == BothUp(x)
             fresh == id >= nextId[x]
  <1>1. u \in Nat /\ a \in Nat /\ n \in Nat /\ a <= u /\ g \in Nat /\ g + a <= u
    BY UnderwayType DEF CountsTyped
  <1>2. u' \in Nat /\ a' \in Nat /\ n' \in Nat /\ a' <= u'
    <2>1. (Types /\ Callbacks)' => CountsTyped'
      BY UnderwayType, PTL
    <2> QED
      BY <2>1 DEF CountsTyped
  <1>3. (listens' => listens) /\ (both' => both)
    BY Peers DEF Worse, Listening, BothUp
  <1>4. fresh' => fresh
    BY DEF Types, Ids
  <1>5. Journey(u, a, n, live, listens, both, fresh)
    BY DEF Traced
  <1>6. Sends(x, id) => fresh /\ ~fresh'
    BY DEF Sends, Types, Ids
  <1>7. \/ u' = u /\ a' = a /\ n' = n /\ (live' <=> live)
        \/ /\ ~both' /\ a' <= a /\ u' - a' <= u - a /\ n' = n
           /\ live' => live
           /\ listens' => (live' <=> live)
        \/ g > 0 /\ u' = u /\ a' = a + 1 /\ n' = n + 1 /\ (live' <=> live)
        \/ u' = u - 1 /\ a' <= a /\ n' = n /\ ~live'
        \/ fresh /\ ~fresh' /\ u' = u + 1 /\ a' = a /\ n' = n /\ live'
    BY <1>6 DEF Untouched, Lost, Made, Resolved, Sends
  <1> HIDE DEF u, a, n, g, live, listens, both, fresh
  <1>8. Journey(u, a, n, live, listens, both, fresh)'
    BY <1>1, <1>2, <1>3, <1>4, <1>5, <1>7 DEF Journey
  <1> QED
    BY <1>8 DEF Traced, u, a, n, live, listens, both, fresh
-----------------------------------------------------------------------------
(* How the counts change with the queues. *)

LEMMA Sending ==
  ASSUME Types, NEW e \in Endpoints, NEW f \in Frames, wire'[e] = wire[e] \o <<f>>, NEW id \in Ids
  PROVE  /\ Asked(e, id)' = Asked(e, id) + (IF f.kind = "request" /\ f.sender = id THEN 1 ELSE 0)
         /\ Accepted(e, id)'
              = Accepted(e, id) + (IF f.kind = "accept" /\ f.receiver = id THEN 1 ELSE 0)
         /\ Rejected(e, id)'
              = Rejected(e, id) + (IF f.kind = "reject" /\ f.receiver = id THEN 1 ELSE 0)
  <1>1. wire[e] \in Seq(Frames)
    BY DEF Types
  <1>2. \A S : Hits(wire'[e], S) = Hits(wire[e], S) + (IF f \in S THEN 1 ELSE 0)
    BY <1>1, HitsMore
  <1> QED
    BY <1>2, FrameKinds DEF Asked, Accepted, Rejected

LEMMA Taking ==
  ASSUME Types, NEW p \in Endpoints, wire[p] # <<>>, wire'[p] = Tail(wire[p]), NEW id \in Ids
  PROVE  /\ Head(wire[p]) \in Frames
         /\ Asked(p, id)' \in Nat /\ Accepted(p, id)' \in Nat /\ Rejected(p, id)' \in Nat
         /\ Asked(p, id) = Asked(p, id)'
              + (IF Head(wire[p]).kind = "request" /\ Head(wire[p]).sender = id THEN 1 ELSE 0)
         /\ Accepted(p, id) = Accepted(p, id)'
              + (IF Head(wire[p]).kind = "accept" /\ Head(wire[p]).receiver = id THEN 1 ELSE 0)
         /\ Rejected(p, id) = Rejected(p, id)'
              + (IF Head(wire[p]).kind = "reject" /\ Head(wire[p]).receiver = id THEN 1 ELSE 0)
  <1>1. wire[p] \in Seq(Frames) /\ Head(wire[p]) \in Frames /\ wire'[p] \in Seq(Frames)
    BY DEF Types
  <1>2. \A S : Hits(wire[p], S) = Hits(wire'[p], S) + (IF Head(wire[p]) \in S THEN 1 ELSE 0)
    BY <1>1, HitsTail
  <1>3. \A S : Hits(wire'[p], S) \in Nat
    BY <1>1, HitsType
  <1> QED
    BY <1>1, <1>2, <1>3, FrameKinds DEF Asked, Accepted, Rejected

LEMMA SendingReject ==
  ASSUME Types, Callbacks, NEW e \in Endpoints, NEW r \in Ids, wire'[e] = wire[e] \o <<Reject(r)>>,
         NEW id \in Ids
  PROVE  /\ Asked(e, id)' = Asked(e, id) /\ Accepted(e, id)' = Accepted(e, id)
         /\ Rejected(e, id)' = Rejected(e, id) + (IF r = id THEN 1 ELSE 0)
  <1>1. Reject(r) \in Frames /\ Reject(r).kind = "reject" /\ Reject(r).receiver = r
    BY FrameFields
  <1>2. /\ Asked(e, id)'
            = Asked(e, id) + (IF Reject(r).kind = "request" /\ Reject(r).sender = id THEN 1 ELSE 0)
        /\ Accepted(e, id)'
            = Accepted(e, id) + (IF Reject(r).kind = "accept" /\ Reject(r).receiver = id THEN 1 ELSE 0)
        /\ Rejected(e, id)'
            = Rejected(e, id) + (IF Reject(r).kind = "reject" /\ Reject(r).receiver = id THEN 1 ELSE 0)
    BY <1>1, Sending
  <1>3. Asked(e, id) \in Nat /\ Accepted(e, id) \in Nat
    BY Counts
  <1> QED
    BY <1>1, <1>2, <1>3

LEMMA SameWire ==
  ASSUME NEW e \in Endpoints, wire'[e] = wire[e], NEW id \in Ids
  PROVE  /\ Asked(e, id)' = Asked(e, id) /\ Accepted(e, id)' = Accepted(e, id)
         /\ Rejected(e, id)' = Rejected(e, id)
  BY DEF Asked, Accepted, Rejected

LEMMA Queueing ==
  ASSUME Types, NEW e \in Endpoints, NEW c \in Commands, cmds'[e] = Append(cmds[e], c),
         NEW id \in Ids
  PROVE  Granted(e, id)' = Granted(e, id) + (IF c = AcceptChannel(id) THEN 1 ELSE 0)
  <1>1. cmds[e] \in Seq(Commands) /\ Append(cmds[e], c) = cmds[e] \o <<c>>
    BY AppendIsConcat DEF Types
  <1>2. Hits(cmds'[e], {AcceptChannel(id)})
          = Hits(cmds[e], {AcceptChannel(id)}) + (IF c \in {AcceptChannel(id)} THEN 1 ELSE 0)
    BY <1>1, HitsMore
  <1> QED
    BY <1>2 DEF Granted

LEMMA Serving ==
  ASSUME Types, NEW e \in Endpoints, cmds[e] # <<>>, cmds'[e] = Tail(cmds[e]), NEW id \in Ids
  PROVE  /\ Granted(e, id)' \in Nat
         /\ Granted(e, id) = Granted(e, id)' + (IF Head(cmds[e]) = AcceptChannel(id) THEN 1 ELSE 0)
  <1>1. cmds[e] \in Seq(Commands) /\ cmds'[e] \in Seq(Commands)
    BY DEF Types
  <1>0. Hits(cmds'[e], {AcceptChannel(id)}) \in Nat
    BY <1>1, HitsType
  <1>2. Hits(cmds[e], {AcceptChannel(id)})
          = Hits(cmds'[e], {AcceptChannel(id)}) + (IF Head(cmds[e]) \in {AcceptChannel(id)} THEN 1 ELSE 0)
    BY <1>1, HitsTail
  <1> QED
    BY <1>0, <1>2 DEF Granted

(* Nothing changes for request id at endpoint x. *)
Alike(x, id) ==
    /\ Asked(x, id)' = Asked(x, id) /\ Here(x, id)' = Here(x, id)
    /\ Accepted(x, id)' = Accepted(x, id) /\ Called(x, id)' = Called(x, id)

LEMMA Aside ==
  ASSUME NEW x \in Endpoints, NEW id \in Ids, wire'[x] = wire[x], incoming'[x] = incoming[x],
         cmds'[x] = cmds[x], callbacks'[x] = callbacks[x]
  PROVE  Alike(x, id)
  BY DEF Alike, Asked, Here, Kept, Granted, Accepted, Rejected, Called

LEMMA AllAlike ==
  ASSUME NEW id \in Ids, UNCHANGED <<requests, cancelled>>,
         \A x \in Endpoints : Alike(x, id), NEW x \in Endpoints
  PROVE  Untouched(x, id)
  <1>1. Peer(x) \in Endpoints
    BY Peers
  <1>2. Live(x)' = Live(x)
    BY DEF Live
  <1> QED
    BY <1>1, <1>2 DEF Alike, Untouched, Underway

Moves(x, id) ==
    Untouched(x, id) \/ Lost(x, id) \/ Made(x, id) \/ Resolved(x, id) \/ Sends(x, id)

(* Endpoint e loses what it has of request id. *)
LEMMA LostHere ==
  ASSUME Types, Callbacks, NEW e \in Endpoints, NEW id \in Ids, UNCHANGED <<requests, cancelled>>,
         Alike(Peer(e), id), conn'[e] # "up",
         Asked(e, id)' = Asked(e, id), Called(e, id)' = Called(e, id),
         Accepted(e, id)' = Accepted(e, id), Here(e, id)' <= Here(e, id), Here(e, id)' \in Nat
  PROVE  \A x \in Endpoints : Moves(x, id)
  <1> DEFINE p == Peer(e)
  <1>1. p \in Endpoints /\ Peer(p) = e /\ Endpoints = {e, p}
    BY Peers
  <1>2. \A x \in Endpoints : Live(x)' = Live(x)
    BY DEF Live
  <1>3. Untouched(e, id)
    BY <1>1, <1>2 DEF Alike, Untouched, Underway
  <1>4. /\ Asked(p, id) \in Nat /\ Here(e, id) \in Nat /\ Accepted(e, id) \in Nat
        /\ Asked(p, id)' = Asked(p, id)
    BY <1>1, Counts DEF Alike
  <1>5. Lost(p, id)
    BY <1>1, <1>2, <1>4 DEF Lost, BothUp, Underway
  <1> QED
    BY <1>1, <1>3, <1>5 DEF Moves

LEMMA HolderMoves ==
  ASSUME IInv, Callbacks, NEW e \in Endpoints, NEW r \in incoming[e],
         AcceptRequest(e, r) \/ RejectRequest(e, r), NEW id \in Ids
  PROVE  \A x \in Endpoints : Moves(x, id)
  <1> DEFINE p == Peer(e)
  <1>1. /\ Types /\ r \in Ids /\ p \in Endpoints /\ p # e /\ Endpoints = {e, p}
        /\ AcceptChannel(r) \in Commands /\ Reject(r) \in Frames
    BY Peers DEF IInv, Types, AcceptChannel, Commands, Reject, Frames
  <1>2. /\ incoming'[e] = incoming[e] \ {r} /\ incoming'[p] = incoming[p]
        /\ UNCHANGED <<requests, cancelled, callbacks>>
    BY <1>1 DEF AcceptRequest, RejectRequest, callVars, Types
  <1>3. /\ Called(e, id)' = Called(e, id)
        /\ Kept(e, id) = Kept(e, id)' + (IF r = id THEN 1 ELSE 0)
        /\ Kept(e, id)' \in Nat /\ Kept(e, id) \in Nat /\ Granted(e, id) \in Nat
        /\ Accepted(e, id) \in Nat /\ Rejected(e, id) \in Nat /\ Asked(e, id) \in Nat
    <2>1. Called(e, id)' = Called(e, id)
      BY <1>2 DEF Called
    <2>2. /\ Kept(e, id) = Kept(e, id)' + (IF r = id THEN 1 ELSE 0)
          /\ Kept(e, id)' \in Nat
      BY <1>2 DEF Kept
    <2> QED
      BY <1>1, <2>1, <2>2, Counts
  <1>4. CASE AcceptRequest(e, r)
    <2>1. wire' = wire /\ cmds'[p] = cmds[p]
      BY <1>1, <1>4 DEF AcceptRequest, SendCmd, CmdNotSent, Types
    <2>2. Alike(p, id)
      BY <1>1, <1>2, <2>1, Aside
    <2>3. /\ Asked(e, id)' = Asked(e, id) /\ Accepted(e, id)' = Accepted(e, id)
          /\ Rejected(e, id)' = Rejected(e, id)
      BY <2>1, SameWire
    <2>4. CASE SendCmd(e, AcceptChannel(r))
      <3>1. Granted(e, id)' = Granted(e, id) + (IF AcceptChannel(r) = AcceptChannel(id) THEN 1 ELSE 0)
        BY <1>1, <2>4, CommandSent, Queueing
      <3>2. AcceptChannel(r) = AcceptChannel(id) <=> r = id
        BY DEF AcceptChannel
      <3>3. Here(e, id)' = Here(e, id)
        BY <1>3, <2>3, <3>1, <3>2 DEF Here
      <3>4. Alike(e, id)
        BY <1>3, <2>3, <3>3 DEF Alike
      <3> QED
        BY <1>1, <1>2, <2>2, <3>4, AllAlike DEF Moves
    <2>5. CASE CmdNotSent(e)
      <3>1. cmds' = cmds /\ conn'[e] # "up"
        BY <1>1, <2>5 DEF CmdNotSent, Types
      <3>2. Granted(e, id)' = Granted(e, id)
        BY <3>1 DEF Granted
      <3>3. Here(e, id)' <= Here(e, id) /\ Here(e, id)' \in Nat
        BY <1>3, <2>3, <3>2 DEF Here
      <3> QED
        BY <1>1, <1>2, <1>3, <2>2, <2>3, <3>1, <3>3, LostHere
    <2> QED
      BY <1>4, <2>4, <2>5 DEF AcceptRequest
  <1>5. CASE RejectRequest(e, r)
    <2>1. cmds' = cmds /\ wire'[p] = wire[p]
      BY <1>1, <1>5 DEF RejectRequest, SendFrame, Sent, NotSent, Types
    <2>2. Alike(p, id) /\ Granted(e, id)' = Granted(e, id)
      BY <1>1, <1>2, <2>1, Aside DEF Granted
    <2>3. CASE Sent(e, <<Reject(r)>>)
      <3>1. wire'[e] = wire[e] \o <<Reject(r)>>
        BY <1>1, <2>3 DEF Sent, Types
      <3>2. /\ Asked(e, id)' = Asked(e, id) /\ Accepted(e, id)' = Accepted(e, id)
            /\ Rejected(e, id)' = Rejected(e, id) + (IF r = id THEN 1 ELSE 0)
        BY <1>1, <3>1, SendingReject
      <3>3. Here(e, id)' = Here(e, id)
        BY <1>3, <2>2, <3>2 DEF Here
      <3>4. Alike(e, id)
        BY <1>3, <3>2, <3>3 DEF Alike
      <3> QED
        BY <1>1, <1>2, <2>2, <3>4, AllAlike DEF Moves
    <2>4. CASE NotSent(e)
      <3>1. wire' = wire /\ conn'[e] # "up"
        BY <1>1, <2>4 DEF NotSent, Types
      <3>2. /\ Asked(e, id)' = Asked(e, id) /\ Accepted(e, id)' = Accepted(e, id)
            /\ Rejected(e, id)' = Rejected(e, id)
        BY <3>1, SameWire
      <3>3. Here(e, id)' <= Here(e, id) /\ Here(e, id)' \in Nat
        BY <1>3, <2>2, <3>2 DEF Here
      <3> QED
        BY <1>1, <1>2, <1>3, <2>2, <3>1, <3>2, <3>3, LostHere
    <2> QED
      BY <1>5, <2>3, <2>4 DEF RejectRequest, SendFrame
  <1> QED
    BY <1>4, <1>5

(* Opening, cancelling, dropping, forgetting and going down leave the      *)
(* requests where they are.                                                *)
LEMMA OtherMoves ==
  ASSUME IInv, Callbacks, NEW id \in Ids,
         \/ \E c \in Calls : Open(c) \/ Cancel(c)
         \/ \E e \in Endpoints :
               \/ CleanupChannels(e) \/ GoDown(e) \/ HandleGone(e)
               \/ \E ch \in channels[e] : DropChannel(e, ch)
  PROVE  \A x \in Endpoints : Moves(x, id)
  <1>1. Types
    BY DEF IInv
  <1>2. CASE \E c \in Calls : Open(c) \/ Cancel(c)
    <2>1. PICK c \in Calls : Open(c) \/ Cancel(c)
      BY <1>2
    <2>2. UNCHANGED <<wire, incoming, callbacks, requests, cancelled>>
      BY <2>1 DEF Open, Cancel, acceptVars
    <2>3. ASSUME NEW x \in Endpoints PROVE Alike(x, id)
      <3>1. CASE cmds'[x] = cmds[x]
        BY <2>2, <3>1, Aside
      <3>2. CASE cmds'[x] # cmds[x]
        <4>1. x = Caller[c] /\ SendCmd(x, OpenChannel(c)) /\ OpenChannel(c) \in Commands
          <5>1. cmds' # cmds
            BY <3>2
          <5>2. SendCmd(Caller[c], OpenChannel(c))
            BY <2>1, <5>1 DEF Open, Cancel, CmdNotSent
          <5>3. Caller[c] \in Endpoints /\ OpenChannel(c) \in Commands
            BY LifecycleAssumption DEF OpenChannel, Commands
          <5>4. x = Caller[c]
            BY <1>1, <3>2, <5>2, <5>3, CommandSent
          <5> QED
            BY <5>2, <5>3, <5>4
        <4>2. Granted(x, id)'
                = Granted(x, id) + (IF OpenChannel(c) = AcceptChannel(id) THEN 1 ELSE 0)
          BY <1>1, <4>1, CommandSent, Queueing
        <4>3. OpenChannel(c) # AcceptChannel(id) /\ Granted(x, id) \in Nat
          BY <1>1, Counts DEF OpenChannel, AcceptChannel
        <4>4. Granted(x, id)' = Granted(x, id)
          BY <4>2, <4>3
        <4> QED
          BY <2>2, <4>4 DEF Alike, Asked, Here, Kept, Accepted, Rejected, Called
      <3> QED
        BY <3>1, <3>2
    <2> QED
      BY <2>2, <2>3, AllAlike DEF Moves
  <1>3. ASSUME NEW e \in Endpoints, CleanupChannels(e) \/ GoDown(e)
        PROVE  \A x \in Endpoints : Moves(x, id)
    <2>1. UNCHANGED <<wire, incoming, cmds, callbacks, requests, cancelled>>
      BY <1>3 DEF CleanupChannels, GoDown, acceptVars, callVars
    <2>2. \A x \in Endpoints : Alike(x, id)
      BY <2>1, Aside
    <2> QED
      BY <2>1, <2>2, AllAlike DEF Moves
  <1>4. ASSUME NEW e \in Endpoints, HandleGone(e)
        PROVE  \A x \in Endpoints : Moves(x, id)
    <2> DEFINE p == Peer(e)
    <2>1. /\ p \in Endpoints /\ p # e /\ Endpoints = {e, p}
          /\ wire[p] # <<>> /\ Head(wire[p]).kind = "gone"
          /\ UNCHANGED <<incoming, cmds, callbacks, requests, cancelled>>
      BY <1>4, Peers DEF HandleGone, Received, acceptVars, callVars
    <2>2. wire'[p] = Tail(wire[p]) /\ wire'[e] = wire[e]
      BY <1>1, <1>4, <2>1 DEF HandleGone, Take, Types
    <2>3. Alike(e, id)
      BY <2>1, <2>2, Aside
    <2>4. /\ Asked(p, id)' = Asked(p, id) /\ Accepted(p, id)' = Accepted(p, id)
          /\ Rejected(p, id)' = Rejected(p, id)
      BY <1>1, <2>1, <2>2, Taking
    <2>5. Alike(p, id)
      BY <2>1, <2>4 DEF Alike, Here, Kept, Granted, Called
    <2> QED
      BY <2>1, <2>3, <2>5, AllAlike DEF Moves
  <1>5. ASSUME NEW e \in Endpoints, NEW ch \in channels[e], DropChannel(e, ch)
        PROVE  \A x \in Endpoints : Moves(x, id)
    <2>1. /\ Gone(ch.remote) \in Frames /\ Gone(ch.remote).kind = "gone"
          /\ UNCHANGED <<incoming, cmds, callbacks, requests, cancelled>>
      BY <1>1, <1>5 DEF DropChannel, acceptVars, callVars, Types, Pairs, Gone, Frames
    <2>2. \A x \in Endpoints \ {e} : wire'[x] = wire[x]
      BY <1>1, <1>5 DEF DropChannel, SendFrame, Sent, NotSent, Types
    <2>3. wire'[e] = wire[e] \/ wire'[e] = wire[e] \o <<Gone(ch.remote)>>
      BY <1>1, <1>5 DEF DropChannel, SendFrame, Sent, NotSent, Types
    <2>4. /\ Asked(e, id)' = Asked(e, id) /\ Accepted(e, id)' = Accepted(e, id)
          /\ Rejected(e, id)' = Rejected(e, id)
      <3>1. Asked(e, id) \in Nat /\ Accepted(e, id) \in Nat /\ Rejected(e, id) \in Nat
        BY <1>1, Counts
      <3>2. CASE wire'[e] = wire[e]
        BY <3>2, SameWire
      <3>3. CASE wire'[e] = wire[e] \o <<Gone(ch.remote)>>
        BY <1>1, <2>1, <3>1, <3>3, Sending
      <3> QED
        BY <2>3, <3>2, <3>3
    <2>5. Alike(e, id)
      BY <2>1, <2>4 DEF Alike, Here, Kept, Granted, Called
    <2>6. \A x \in Endpoints : Alike(x, id)
      BY <2>1, <2>2, <2>5, Aside
    <2> QED
      BY <2>1, <2>6, AllAlike DEF Moves
  <1> QED
    BY <1>2, <1>3, <1>4, <1>5

(* The cleanup moves requests to the tombstones of cancelled opens, unless *)
(* the connection fails.                                                   *)
LEMMA CleanupMoves ==
  ASSUME IInv, Callbacks, NEW e \in Endpoints, CleanupCancelledOpens(e), NEW id \in Ids
  PROVE  \A x \in Endpoints : Moves(x, id)
  <1> DEFINE p == Peer(e)
             gone == Cancellations(e)
             ids == cancelled[e] \union {q.id : q \in gone}
  <1>1. /\ Types /\ p \in Endpoints /\ p # e /\ Endpoints = {e, p} /\ Peer(p) = e
        /\ UNCHANGED <<wire, incoming, cmds, callbacks>>
        /\ gone \subseteq requests[e] /\ requests'[e] = requests[e] \ gone
        /\ requests'[p] = requests[p] /\ cancelled'[p] = cancelled[p]
    BY Peers DEF IInv, CleanupCancelledOpens, acceptVars, Cancellations, Types
  <1>2. Alike(e, id) /\ Alike(p, id)
    BY <1>1, Aside
  <1>3. /\ Underway(e, id)' = Underway(e, id) /\ Underway(p, id)' = Underway(p, id)
    BY <1>1, <1>2 DEF Alike, Underway
  <1>4. Live(p)' = Live(p)
    BY <1>1 DEF Live
  <1>5. Untouched(p, id)
    BY <1>1, <1>2, <1>3, <1>4 DEF Untouched, Alike
  <1>6. CASE Cardinality(ids) <= MaxTombs
    <2>1. cancelled'[e] = ids
      BY <1>1, <1>6 DEF CleanupCancelledOpens, Types
    <2>2. Live(e)' = Live(e)
      BY <1>1, <2>1 DEF Live
    <2> QED
      BY <1>1, <1>2, <1>3, <1>5, <2>2 DEF Untouched, Alike, Moves
  <1>7. CASE ~(Cardinality(ids) <= MaxTombs)
    <2>1. cancelled'[e] = cancelled[e] /\ conn'[e] = "failed"
      BY <1>1, <1>7 DEF CleanupCancelledOpens, Types
    <2>2. id \in Live(e)' => id \in Live(e)
      BY <1>1, <2>1 DEF Live
    <2>3. ~BothUp(e)' /\ ~Listening(e)'
      BY <2>1 DEF BothUp, Listening
    <2>4. Accepted(p, id) \in Nat /\ Underway(e, id) \in Nat
      BY <1>1, UnderwayType DEF CountsTyped
    <2> QED
      BY <1>1, <1>2, <1>3, <1>5, <2>2, <2>3, <2>4 DEF Lost, Alike, Moves
  <1> QED
    BY <1>6, <1>7

LEMMA TakeSendWire ==
  ASSUME Types, NEW e \in Endpoints, NEW fs, NEW s, TakeSend(e, fs, s)
  PROVE  /\ wire'[Peer(e)] = Tail(wire[Peer(e)])
         /\ \/ wire'[e] = wire[e] \o fs /\ conn' = conn /\ conn[e] = "up"
            \/ wire'[e] = wire[e] /\ conn'[e] = s /\ conn'[Peer(e)] = conn[Peer(e)]
  BY Peers DEF TakeSend, Types

LEMMA HandleRequestMoves ==
  ASSUME IInv, Callbacks, NEW e \in Endpoints, HandleRequest(e), NEW id \in Ids
  PROVE  \A x \in Endpoints : Moves(x, id)
  <1> DEFINE p == Peer(e)
             r == Frame(e).sender
  <1>1. /\ Types /\ p \in Endpoints /\ p # e /\ Endpoints = {e, p} /\ Peer(p) = e
        /\ wire[p] # <<>> /\ Head(wire[p]).kind = "request" /\ r = Head(wire[p]).sender
        /\ UNCHANGED <<requests, cancelled, cmds, callbacks>>
    BY Peers DEF IInv, HandleRequest, Received, Frame, callVars
  <1>2. r \in Ids /\ r \notin incoming[e] /\ Reject(r) \in Frames
    <2>1. wire[p] \in Seq(Frames) /\ Numbered(wire[p], incoming[e], nextId[p])
      BY <1>1 DEF IInv, Types, Numbering
    <2>2. Head(wire[p]) \in Frames /\ r \notin incoming[e]
      BY <1>1, <2>1, NumberedTail
    <2> QED
      BY <1>1, <2>2 DEF Frames, Reject
  <1>3. wire'[p] = Tail(wire[p])
    <2>1. wire[p] \in Seq(Frames) /\ wire \in [Endpoints -> Seq(Frames)]
      BY <1>1 DEF Types
    <2>2. CASE Take(e)
      BY <1>1, <2>1, <2>2 DEF Take
    <2> QED
      BY <1>1, <2>2, TakeSendWire DEF HandleRequest
  <1>4. /\ Asked(p, id) = Asked(p, id)' + (IF r = id THEN 1 ELSE 0)
        /\ Accepted(p, id)' = Accepted(p, id) /\ Rejected(p, id)' = Rejected(p, id)
        /\ Asked(p, id)' \in Nat
    BY <1>1, <1>3, Taking
  <1>5. /\ Called(p, id)' = Called(p, id) /\ Called(e, id)' = Called(e, id)
        /\ Granted(p, id)' = Granted(p, id) /\ Granted(e, id)' = Granted(e, id)
    BY <1>1 DEF Called, Granted
  <1>6. \A x \in Endpoints : Live(x)' = Live(x)
    BY <1>1 DEF Live
  <1>7. /\ Asked(e, id) \in Nat /\ Kept(e, id) \in Nat /\ Granted(e, id) \in Nat
        /\ Accepted(e, id) \in Nat /\ Rejected(e, id) \in Nat
    BY <1>1, Counts
  <1>8. /\ Asked(e, id)' = Asked(e, id) /\ Accepted(e, id)' = Accepted(e, id)
        /\ Kept(p, id)' = Kept(p, id)
        /\ \/ Here(e, id)' = Here(e, id) + (IF r = id THEN 1 ELSE 0)
           \/ Here(e, id)' = Here(e, id) /\ conn'[e] = "failed"
    <2>1. CASE TakeSend(e, <<Reject(r)>>, "failed") /\ UNCHANGED <<incoming, slots>>
      <3>1. /\ Kept(p, id)' = Kept(p, id) /\ Kept(e, id)' = Kept(e, id)
        BY <2>1 DEF Kept
      <3>2. CASE wire'[e] = wire[e] \o <<Reject(r)>>
        <4>1. /\ Asked(e, id)' = Asked(e, id) /\ Accepted(e, id)' = Accepted(e, id)
              /\ Rejected(e, id)' = Rejected(e, id) + (IF r = id THEN 1 ELSE 0)
          BY <1>1, <1>2, <3>2, SendingReject
        <4> QED
          BY <1>5, <1>7, <3>1, <4>1 DEF Here
      <3>3. CASE wire'[e] = wire[e] /\ conn'[e] = "failed"
        BY <1>5, <3>1, <3>3, SameWire DEF Here
      <3> QED
        BY <1>1, <2>1, <3>2, <3>3, TakeSendWire
    <2>2. CASE ~(TakeSend(e, <<Reject(r)>>, "failed") /\ UNCHANGED <<incoming, slots>>)
      <3>1. /\ Take(e)
            /\ incoming' = [incoming EXCEPT ![e] = @ \union {r}]
        BY <2>2 DEF HandleRequest
      <3>2. /\ wire'[e] = wire[e]
            /\ incoming'[e] = incoming[e] \union {r} /\ incoming'[p] = incoming[p]
        BY <1>1, <3>1 DEF Take, Types
      <3>3. /\ Asked(e, id)' = Asked(e, id) /\ Accepted(e, id)' = Accepted(e, id)
            /\ Rejected(e, id)' = Rejected(e, id)
        BY <3>2, SameWire
      <3>4. /\ Kept(p, id)' = Kept(p, id)
            /\ Kept(e, id)' = Kept(e, id) + (IF r = id THEN 1 ELSE 0)
        BY <1>2, <3>2 DEF Kept
      <3> QED
        BY <1>5, <1>7, <3>3, <3>4 DEF Here
    <2> QED
      BY <2>1, <2>2
  <1>9. Here(p, id)' = Here(p, id)
    BY <1>4, <1>5, <1>8 DEF Here
  <1>10. Untouched(e, id)
    BY <1>1, <1>4, <1>5, <1>6, <1>8, <1>9 DEF Untouched, Underway
  <1>11. Untouched(p, id) \/ Lost(p, id)
    <2>1. /\ Underway(p, id) = Asked(p, id) + Here(e, id)
          /\ Underway(p, id)' = Asked(p, id)' + Here(e, id)'
      BY <1>1 DEF Underway
    <2>2. Here(e, id) \in Nat /\ Accepted(Peer(p), id)' = Accepted(Peer(p), id)
      BY <1>1, <1>8, Counts
    <2>3. CASE Here(e, id)' = Here(e, id) + (IF r = id THEN 1 ELSE 0)
      <3>1. Underway(p, id)' = Underway(p, id)
        BY <1>4, <2>1, <2>2, <2>3
      <3> QED
        BY <1>1, <1>5, <1>6, <2>2, <3>1 DEF Untouched
    <2>4. CASE Here(e, id)' = Here(e, id) /\ conn'[e] = "failed"
      <3>1. Underway(p, id)' <= Underway(p, id) /\ Underway(p, id)' \in Nat /\ Underway(p, id) \in Nat
        BY <1>4, <2>1, <2>2, <2>4
      <3>2. ~BothUp(p)'
        BY <1>1, <2>4 DEF BothUp
      <3> QED
        BY <1>1, <1>5, <1>6, <1>7, <2>2, <3>1, <3>2 DEF Lost
    <2> QED
      BY <1>8, <2>3, <2>4
  <1> QED
    BY <1>1, <1>10, <1>11 DEF Moves

LEMMA HandleAcceptMoves ==
  ASSUME IInv, Callbacks, NEW e \in Endpoints, HandleAccept(e), NEW id \in Ids
  PROVE  \A x \in Endpoints : Moves(x, id)
  <1> DEFINE p == Peer(e)
             r == Head(cmds[e]).remote
             next == nextId[e]
  <1>1. /\ Types /\ p \in Endpoints /\ p # e /\ Endpoints = {e, p} /\ Peer(p) = e
        /\ cmds[e] # <<>> /\ Head(cmds[e]).kind = "accept"
        /\ cmds' = [cmds EXCEPT ![e] = Tail(@)]
        /\ UNCHANGED <<requests, cancelled, incoming>>
    BY Peers DEF IInv, HandleAccept, callVars
  <1>2. /\ r \in Ids /\ next \in Ids /\ Reject(r) \in Frames /\ Accept(r, next) \in Frames
        /\ Head(cmds[e]) = AcceptChannel(r)
        /\ cmds'[e] = Tail(cmds[e]) /\ cmds'[p] = cmds[p]
    <2>1. Head(cmds[e]) \in Commands /\ cmds'[e] = Tail(cmds[e]) /\ cmds'[p] = cmds[p]
      BY <1>1, CommandTaken
    <2>2. r \in Ids /\ Head(cmds[e]) = AcceptChannel(r)
      BY <1>1, <2>1 DEF Commands, AcceptChannel
    <2>3. next \in Ids
      BY <1>1 DEF Types
    <2> QED
      BY <2>1, <2>2, <2>3 DEF Reject, Accept, Frames
  <1>3. /\ Granted(e, id) = Granted(e, id)' + (IF r = id THEN 1 ELSE 0)
        /\ Granted(e, id)' \in Nat /\ Kept(e, id)' = Kept(e, id)
    <2>1. AcceptChannel(r) = AcceptChannel(id) <=> r = id
      BY DEF AcceptChannel
    <2>2. /\ Granted(e, id)' \in Nat
          /\ Granted(e, id) = Granted(e, id)' + (IF AcceptChannel(r) = AcceptChannel(id) THEN 1 ELSE 0)
      BY <1>1, <1>2, Serving
    <2>3. Kept(e, id)' = Kept(e, id)
      BY <1>1 DEF Kept
    <2> QED
      BY <2>1, <2>2, <2>3
  <1>4. \A x \in Endpoints : Live(x)' = Live(x)
    BY <1>1 DEF Live
  <1>5. /\ Asked(e, id) \in Nat /\ Kept(e, id) \in Nat /\ Granted(e, id) \in Nat
        /\ Accepted(e, id) \in Nat /\ Rejected(e, id) \in Nat /\ Called(e, id) \in Nat
        /\ Here(e, id) \in Nat /\ Asked(p, id) \in Nat
    BY <1>1, Counts
  <1>6. CASE Sent(e, <<Reject(r)>>) /\ UNCHANGED callbacks
    <2>1. wire'[e] = wire[e] \o <<Reject(r)>> /\ wire'[p] = wire[p]
      BY <1>1, <1>6 DEF Sent, Types
    <2>2. /\ Asked(e, id)' = Asked(e, id) /\ Accepted(e, id)' = Accepted(e, id)
          /\ Rejected(e, id)' = Rejected(e, id) + (IF r = id THEN 1 ELSE 0)
      BY <1>1, <1>2, <2>1, SendingReject
    <2>3. Here(e, id)' = Here(e, id)
      BY <1>3, <1>5, <2>2 DEF Here
    <2>4. Alike(e, id)
      BY <1>6, <2>2, <2>3 DEF Alike, Called
    <2>5. Alike(p, id)
      BY <1>1, <1>2, <1>6, <2>1, Aside
    <2> QED
      BY <1>1, <2>4, <2>5, AllAlike DEF Moves
  <1>7. CASE NotSent(e) /\ UNCHANGED callbacks
    <2>1. wire' = wire /\ conn'[e] # "up"
      BY <1>1, <1>7 DEF NotSent, Types
    <2>2. /\ Asked(e, id)' = Asked(e, id) /\ Accepted(e, id)' = Accepted(e, id)
          /\ Rejected(e, id)' = Rejected(e, id)
      BY <2>1, SameWire
    <2>3. Here(e, id)' <= Here(e, id) /\ Here(e, id)' \in Nat
      BY <1>3, <1>5, <2>2 DEF Here
    <2>4. Alike(p, id) /\ Called(e, id)' = Called(e, id)
      BY <1>1, <1>2, <1>7, <2>1, Aside DEF Called
    <2> QED
      BY <1>1, <2>1, <2>2, <2>3, <2>4, LostHere
  <1>8. CASE /\ Sent(e, <<Accept(r, next)>>)
             /\ callbacks' = [callbacks EXCEPT ![e] = Append(@, r)]
    <2>1. /\ wire'[e] = wire[e] \o <<Accept(r, next)>> /\ wire'[p] = wire[p]
          /\ callbacks'[e] = callbacks[e] \o <<r>> /\ callbacks'[p] = callbacks[p]
      <3>1. /\ wire'[e] = wire[e] \o <<Accept(r, next)>> /\ wire'[p] = wire[p]
        BY <1>1, <1>8 DEF Sent, Types
      <3>2. /\ callbacks[e] \in Seq(Ids) /\ callbacks'[p] = callbacks[p]
            /\ callbacks'[e] = Append(callbacks[e], r)
        BY <1>1, <1>8 DEF Callbacks
      <3> QED
        BY <1>2, <3>1, <3>2, AppendIsConcat
    <2>2. /\ Asked(e, id)' = Asked(e, id) /\ Rejected(e, id)' = Rejected(e, id)
          /\ Accepted(e, id)' = Accepted(e, id) + (IF r = id THEN 1 ELSE 0)
      <3>1. Accept(r, next) \in Frames /\ Accept(r, next).kind = "accept" /\ Accept(r, next).receiver = r
        BY <1>2, FrameFields
      <3>2. /\ Asked(e, id)'
                = Asked(e, id) + (IF Accept(r, next).kind = "request" /\ Accept(r, next).sender = id THEN 1 ELSE 0)
            /\ Accepted(e, id)'
                = Accepted(e, id) + (IF Accept(r, next).kind = "accept" /\ Accept(r, next).receiver = id THEN 1 ELSE 0)
            /\ Rejected(e, id)'
                = Rejected(e, id) + (IF Accept(r, next).kind = "reject" /\ Accept(r, next).receiver = id THEN 1 ELSE 0)
        BY <1>1, <2>1, <3>1, Sending
      <3> QED
        BY <1>5, <3>1, <3>2
    <2>3. Called(e, id)' = Called(e, id) + (IF r = id THEN 1 ELSE 0)
      <3>1. callbacks[e] \in Seq(Ids)
        BY DEF Callbacks
      <3>2. Hits(callbacks'[e], {id}) = Hits(callbacks[e], {id}) + (IF r \in {id} THEN 1 ELSE 0)
        BY <1>2, <2>1, <3>1, HitsMore
      <3> QED
        BY <3>2 DEF Called
    <2>4. Here(e, id)' = Here(e, id)
      BY <1>3, <1>5, <2>2 DEF Here
    <2>5. Alike(p, id)
      BY <1>1, <1>2, <2>1, Aside
    <2>6. Untouched(e, id)
      BY <1>1, <1>4, <2>2, <2>5 DEF Alike, Untouched, Underway
    <2>7. Underway(p, id)' = Underway(p, id)
      BY <1>1, <2>4, <2>5 DEF Alike, Underway
    <2>8. CASE r = id
      BY <1>1, <1>3, <1>4, <2>2, <2>3, <2>6, <2>7, <2>8 DEF Made, Moves
    <2>9. CASE r # id
      BY <1>1, <1>4, <1>5, <2>2, <2>3, <2>6, <2>7, <2>9 DEF Untouched, Moves
    <2> QED
      BY <2>8, <2>9
  <1> QED
    BY <1>6, <1>7, <1>8 DEF HandleAccept, SendFrame

LEMMA HandleOpenMoves ==
  ASSUME IInv, Callbacks, NEW e \in Endpoints, HandleOpen(e), NEW id \in Ids
  PROVE  \A x \in Endpoints : Moves(x, id)
  <1> DEFINE p == Peer(e)
             c == Head(cmds[e]).call
             next == nextId[e]
  <1>1. /\ Types /\ p \in Endpoints /\ p # e /\ Endpoints = {e, p} /\ Peer(p) = e
        /\ cmds[e] # <<>> /\ Head(cmds[e]).kind = "open"
        /\ cmds' = [cmds EXCEPT ![e] = Tail(@)]
        /\ UNCHANGED <<cancelled, incoming, callbacks>>
    BY Peers DEF IInv, HandleOpen, acceptVars
  <1>2. /\ next \in Ids /\ Request(next) \in Frames /\ Request(next).kind = "request"
        /\ Request(next).sender = next
        /\ cmds'[e] = Tail(cmds[e]) /\ cmds'[p] = cmds[p]
    <2>1. cmds'[e] = Tail(cmds[e]) /\ cmds'[p] = cmds[p]
      BY <1>1, CommandTaken
    <2>2. next \in Ids
      BY <1>1 DEF Types
    <2> QED
      BY <2>1, <2>2, FrameFields
  <1>3. /\ Granted(e, id)' = Granted(e, id) /\ Kept(e, id)' = Kept(e, id)
        /\ Called(e, id)' = Called(e, id)
    <2>1. Head(cmds[e]) # AcceptChannel(id)
      BY <1>1 DEF AcceptChannel
    <2>2. Granted(e, id)' \in Nat /\ Granted(e, id) = Granted(e, id)' + 0
      BY <1>1, <1>2, <2>1, Serving
    <2>3. Kept(e, id)' = Kept(e, id) /\ Called(e, id)' = Called(e, id)
      BY <1>1 DEF Kept, Called
    <2> QED
      BY <2>2, <2>3
  <1>4. /\ Asked(e, id) \in Nat /\ Accepted(e, id) \in Nat /\ Rejected(e, id) \in Nat
        /\ Here(p, id) \in Nat
    BY <1>1, Counts
  <1>5. CASE UNCHANGED <<requests, wire>>
    <2>1. /\ Asked(e, id)' = Asked(e, id) /\ Accepted(e, id)' = Accepted(e, id)
          /\ Rejected(e, id)' = Rejected(e, id)
      BY <1>5, SameWire
    <2>2. Alike(e, id)
      BY <1>3, <2>1 DEF Alike, Here
    <2>3. Alike(p, id)
      BY <1>1, <1>2, <1>5, Aside
    <2> QED
      BY <1>1, <1>5, <2>2, <2>3, AllAlike DEF Moves
  <1>6. CASE /\ nextId' = [nextId EXCEPT ![e] = @ + 1] /\ Sent(e, <<Request(next)>>)
             /\ requests' = [requests EXCEPT ![e] = @ \union {[id |-> next, call |-> c]}]
    <2>1. /\ nextId'[e] = next + 1
          /\ wire'[e] = wire[e] \o <<Request(next)>> /\ wire'[p] = wire[p]
          /\ requests'[e] = requests[e] \union {[id |-> next, call |-> c]}
          /\ requests'[p] = requests[p]
      BY <1>1, <1>6 DEF Sent, Types
    <2>2. /\ Accepted(e, id)' = Accepted(e, id) /\ Rejected(e, id)' = Rejected(e, id)
          /\ Asked(e, id)' = Asked(e, id) + (IF next = id THEN 1 ELSE 0)
      <3>1. /\ Asked(e, id)' = Asked(e, id)
                 + (IF Request(next).kind = "request" /\ Request(next).sender = id THEN 1 ELSE 0)
            /\ Accepted(e, id)' = Accepted(e, id)
                 + (IF Request(next).kind = "accept" /\ Request(next).receiver = id THEN 1 ELSE 0)
            /\ Rejected(e, id)' = Rejected(e, id)
                 + (IF Request(next).kind = "reject" /\ Request(next).receiver = id THEN 1 ELSE 0)
        BY <1>1, <1>2, <2>1, Sending
      <3> QED
        BY <1>2, <1>4, <3>1
    <2>3. Here(e, id)' = Here(e, id)
      BY <1>3, <2>2 DEF Here
    <2>4. Alike(p, id)
      BY <1>1, <1>2, <2>1, Aside
    <2>5. /\ Live(p)' = Live(p)
          /\ id \in Live(e)' <=> id = next \/ id \in Live(e)
      <3>1. Live(p)' = Live(p)
        BY <1>1, <2>1 DEF Live
      <3>2. /\ id \in Live(e) <=> id \in cancelled[e] \/ \E q \in requests[e] : q.id = id
            /\ id \in Live(e)' <=> id \in cancelled[e] \/ \E q \in requests'[e] : q.id = id
        BY <1>1 DEF Live
      <3>3. (\E q \in requests'[e] : q.id = id) <=> (id = next \/ \E q \in requests[e] : q.id = id)
        <4> DEFINE new == [id |-> next, call |-> c]
        <4>1. new.id = next /\ requests'[e] = requests[e] \union {new}
          BY <2>1
        <4> HIDE DEF new
        <4> QED
          BY <4>1
      <3> QED
        BY <3>1, <3>2, <3>3
    <2>6. Untouched(p, id)
      BY <1>1, <1>3, <2>2, <2>3, <2>4, <2>5 DEF Untouched, Underway, Alike
    <2>7. Underway(e, id)' = Underway(e, id) + (IF next = id THEN 1 ELSE 0)
      BY <1>4, <2>2, <2>4 DEF Underway, Alike
    <2>8. Untouched(e, id) \/ Sends(e, id)
      <3>1. CASE next = id
        BY <2>1, <2>4, <2>5, <2>7, <3>1 DEF Sends, Alike
      <3>2. CASE next # id
        <4>1. Underway(e, id)' = Underway(e, id)
          BY <1>4, <2>2, <2>4, <3>2 DEF Underway, Alike
        <4> QED
          BY <2>4, <2>5, <3>2, <4>1 DEF Untouched, Alike
      <3> QED
        BY <3>1, <3>2
    <2> QED
      BY <1>1, <2>6, <2>8 DEF Moves
  <1> QED
    BY <1>5, <1>6 DEF HandleOpen, NotSent

(* An answer is taken, for a request or for a cancelled one. *)
LEMMA AnswerMoves ==
  ASSUME IInv, Callbacks, NEW e \in Endpoints, wire[Peer(e)] # <<>>,
         NEW r \in Ids, Frame(e).kind \in {"accept", "reject"}, Frame(e).receiver = r,
         wire'[Peer(e)] = Tail(wire[Peer(e)]),
         wire'[e] = wire[e] \/ \E s \in Ids : wire'[e] = wire[e] \o <<Gone(s)>>,
         UNCHANGED <<incoming, cmds, callbacks>>,
         Live(e)' = Live(e) \ {r}, Live(Peer(e))' = Live(Peer(e)), NEW id \in Ids
  PROVE  \A x \in Endpoints : Moves(x, id)
  <1> DEFINE p == Peer(e)
  <1>1. /\ Types /\ p \in Endpoints /\ p # e /\ Endpoints = {e, p} /\ Peer(p) = e
    BY Peers DEF IInv
  <1>2. /\ Asked(e, id)' = Asked(e, id) /\ Accepted(e, id)' = Accepted(e, id)
        /\ Rejected(e, id)' = Rejected(e, id)
    <2>1. CASE wire'[e] = wire[e]
      BY <2>1, SameWire
    <2>2. ASSUME NEW s \in Ids, wire'[e] = wire[e] \o <<Gone(s)>>
          PROVE  /\ Asked(e, id)' = Asked(e, id) /\ Accepted(e, id)' = Accepted(e, id)
                 /\ Rejected(e, id)' = Rejected(e, id)
      <3>1. Gone(s) \in Frames /\ Gone(s).kind = "gone"
        BY FrameFields
      <3>2. Asked(e, id) \in Nat /\ Accepted(e, id) \in Nat /\ Rejected(e, id) \in Nat
        BY <1>1, Counts
      <3> QED
        BY <1>1, <2>2, <3>1, <3>2, Sending
    <2> QED
      BY <2>1, <2>2
  <1>3. Alike(e, id)
    BY <1>2 DEF Alike, Here, Kept, Granted, Called
  <1>4. /\ Asked(p, id)' = Asked(p, id)
        /\ Accepted(p, id)' <= Accepted(p, id)
        /\ Accepted(p, id) + Rejected(p, id)
             = Accepted(p, id)' + Rejected(p, id)' + (IF r = id THEN 1 ELSE 0)
        /\ r # id => Accepted(p, id)' = Accepted(p, id)
        /\ Accepted(p, id)' \in Nat /\ Rejected(p, id)' \in Nat
    BY <1>1, Taking DEF Frame
  <1>5. /\ Kept(p, id) \in Nat /\ Granted(p, id) \in Nat /\ Accepted(p, id) \in Nat
        /\ Rejected(p, id) \in Nat /\ Kept(p, id)' = Kept(p, id) /\ Granted(p, id)' = Granted(p, id)
        /\ Called(p, id)' = Called(p, id) /\ Asked(e, id) \in Nat
    <2>1. /\ Kept(p, id)' = Kept(p, id) /\ Granted(p, id)' = Granted(p, id)
          /\ Called(p, id)' = Called(p, id)
      BY DEF Kept, Granted, Called
    <2> QED
      BY <1>1, <2>1, Counts
  <1>6. Here(p, id) = Here(p, id)' + (IF r = id THEN 1 ELSE 0) /\ Here(p, id)' \in Nat
    <2>1. /\ Here(p, id) = Kept(p, id) + Granted(p, id) + Accepted(p, id) + Rejected(p, id)
          /\ Here(p, id)' = Kept(p, id) + Granted(p, id) + Accepted(p, id)' + Rejected(p, id)'
      BY <1>5 DEF Here
    <2>2. CASE r = id
      BY <1>4, <1>5, <2>1, <2>2
    <2>3. CASE r # id
      BY <1>4, <1>5, <2>1, <2>3
    <2> QED
      BY <2>2, <2>3
  <1>7. Untouched(p, id)
    BY <1>1, <1>3, <1>4, <1>5 DEF Alike, Untouched, Underway
  <1>8. CASE r = id
    <2>1. Underway(e, id)' = Underway(e, id) - 1
      BY <1>3, <1>5, <1>6, <1>8 DEF Alike, Underway
    <2>2. Resolved(e, id)
      BY <1>4, <1>5, <1>8, <2>1 DEF Resolved
    <2> QED
      BY <1>1, <1>7, <2>2 DEF Moves
  <1>9. CASE r # id
    <2>1. Underway(e, id)' = Underway(e, id)
      BY <1>3, <1>5, <1>6, <1>9 DEF Alike, Underway
    <2>2. Untouched(e, id)
      BY <1>4, <1>5, <1>9, <2>1 DEF Untouched
    <2> QED
      BY <1>1, <1>7, <2>2 DEF Moves
  <1> QED
    BY <1>8, <1>9

LEMMA AnsweredMoves ==
  ASSUME IInv, Callbacks, Titles, NEW e \in Endpoints,
         \/ \E q \in requests[e] : HandleAcceptFrame(e, q) \/ HandleReject(e, q)
         \/ HandleAcceptCancelled(e) \/ HandleRejectCancelled(e),
         NEW id \in Ids
  PROVE  \A x \in Endpoints : Moves(x, id)
  <1> DEFINE p == Peer(e)
             f == Frame(e)
             r == Frame(e).receiver
  <1>1. /\ Types /\ p \in Endpoints /\ p # e /\ Endpoints = {e, p} /\ Peer(p) = e
        /\ wire[p] # <<>> /\ f = Head(wire[p]) /\ f.kind \in {"accept", "reject"}
        /\ UNCHANGED <<cmds, incoming, callbacks>>
    BY Peers DEF IInv, HandleAcceptFrame, HandleReject, HandleAcceptCancelled,
                 HandleRejectCancelled, Received, Frame, acceptVars
  <1>2. r \in Ids /\ (f.kind = "accept" => f.sender \in Ids)
    <2>1. wire[p] \in Seq(Frames)
      BY <1>1 DEF Types
    <2>2. f \in Frames
      BY <1>1, <2>1
    <2> QED
      BY <1>1, <2>2 DEF Frames
  <1>3. ASSUME Take(e) PROVE wire'[p] = Tail(wire[p]) /\ wire'[e] = wire[e]
    BY <1>1, <1>3 DEF Take, Types
  <1>4. /\ wire'[p] = Tail(wire[p])
        /\ wire'[e] = wire[e] \/ \E s \in Ids : wire'[e] = wire[e] \o <<Gone(s)>>
    <2>1. \/ Take(e)
          \/ f.kind = "accept" /\ \E t : TakeSend(e, <<Gone(f.sender)>>, t)
      BY DEF HandleAcceptFrame, HandleReject, HandleAcceptCancelled, HandleRejectCancelled,
             Violation, Received, Frame
    <2>2. ASSUME NEW t, TakeSend(e, <<Gone(f.sender)>>, t), f.kind = "accept"
          PROVE  /\ wire'[p] = Tail(wire[p])
                 /\ wire'[e] = wire[e] \/ \E s \in Ids : wire'[e] = wire[e] \o <<Gone(s)>>
      <3>1. /\ wire'[p] = Tail(wire[p])
            /\ wire'[e] = wire[e] \/ wire'[e] = wire[e] \o <<Gone(f.sender)>>
        BY <1>1, <2>2, TakeSendWire
      <3> QED
        BY <1>2, <2>2, <3>1
    <2> QED
      BY <1>3, <2>1, <2>2
  <1>5. Live(e)' = Live(e) \ {r} /\ Live(p)' = Live(p)
    <2>1. ASSUME NEW q \in requests[e], HandleAcceptFrame(e, q) \/ HandleReject(e, q)
          PROVE  Live(e)' = Live(e) \ {r} /\ Live(p)' = Live(p)
      <3>1. /\ requests'[e] = requests[e] \ {q} /\ requests'[p] = requests[p] /\ q.id = r
            /\ cancelled' = cancelled
        BY <1>1, <2>1 DEF HandleAcceptFrame, HandleReject, Types
      <3>2. r \notin cancelled[e] /\ \A u \in requests[e] : u.id = r => u = q
        BY <3>1 DEF Titles
      <3> QED
        BY <3>1, <3>2 DEF Live
    <2>2. CASE HandleAcceptCancelled(e) \/ HandleRejectCancelled(e)
      <3>1. /\ requests' = requests /\ cancelled'[e] = cancelled[e] \ {r}
            /\ cancelled'[p] = cancelled[p] /\ r \notin {q.id : q \in requests[e]}
        BY <1>1, <2>2 DEF HandleAcceptCancelled, HandleRejectCancelled, Unrequested, Types
      <3> QED
        BY <3>1 DEF Live
    <2> QED
      BY <2>1, <2>2
  <1> HIDE DEF f, r
  <1> QED
    BY <1>1, <1>2, <1>4, <1>5, AnswerMoves DEF f, r

LEMMA CloseMoves ==
  ASSUME IInv, Callbacks, NEW e \in Endpoints, CloseState(e), NEW id \in Ids
  PROVE  \A x \in Endpoints : Moves(x, id)
  <1> DEFINE p == Peer(e)
  <1>1. /\ Types /\ p \in Endpoints /\ p # e /\ Endpoints = {e, p} /\ Peer(p) = e
        /\ CloseTables(e) /\ UNCHANGED <<incoming, callbacks>>
    BY Peers DEF IInv, CloseState, CloseTables
  <1>2. /\ wire'[p] = wire[p] /\ cmds'[e] = <<>> /\ cmds'[p] = cmds[p]
        /\ requests'[e] = {} /\ requests'[p] = requests[p]
        /\ cancelled'[e] = {} /\ cancelled'[p] = cancelled[p] /\ conn'[e] = "closed"
    BY <1>1 DEF CloseTables, Types
  <1>3. Live(e)' = {} /\ Live(p)' = Live(p)
    BY <1>2 DEF Live
  <1>4. /\ Asked(e, id) \in Nat /\ Kept(e, id) \in Nat /\ Granted(e, id) \in Nat
        /\ Accepted(e, id) \in Nat /\ Rejected(e, id) \in Nat /\ Asked(p, id) \in Nat
        /\ Accepted(p, id) \in Nat /\ Here(p, id) \in Nat
    BY <1>1, Counts
  <1>5. /\ Asked(e, id)' <= Asked(e, id) /\ Accepted(e, id)' <= Accepted(e, id)
        /\ Rejected(e, id)' <= Rejected(e, id)
        /\ Asked(e, id)' \in Nat /\ Accepted(e, id)' \in Nat /\ Rejected(e, id)' \in Nat
    <2>1. PICK n \in 0..Len(wire[e]) : wire' = [wire EXCEPT ![e] = SubSeq(@, 1, n)]
      BY <1>1 DEF CloseTables
    <2>2. wire[e] \in Seq(Frames) /\ wire'[e] = SubSeq(wire[e], 1, n)
      BY <1>1, <2>1 DEF Types
    <2>3. wire'[e] \in Seq(Frames)
      BY <2>2, SubSeqProperties
    <2>4. \A S : Hits(wire'[e], S) <= Hits(wire[e], S) /\ Hits(wire'[e], S) \in Nat
      BY <2>2, <2>3, HitsPrefix, HitsType
    <2> QED
      BY <2>4 DEF Asked, Accepted, Rejected
  <1>6. /\ Granted(e, id)' = 0 /\ Kept(e, id)' = Kept(e, id) /\ Called(e, id)' = Called(e, id)
    BY <1>1, <1>2, HitsNone DEF Granted, Kept, Called
  <1>7. Alike(p, id)
    BY <1>1, <1>2, Aside
  <1>8. ~BothUp(e)' /\ ~BothUp(p)' /\ ~Listening(e)'
    BY <1>1, <1>2 DEF BothUp, Listening
  <1>9. Lost(e, id)
    <2>1. /\ Underway(e, id) = Asked(e, id) + Here(p, id)
          /\ Underway(e, id)' = Asked(e, id)' + Here(p, id)
          /\ Accepted(p, id)' = Accepted(p, id) /\ Called(p, id)' = Called(p, id)
      BY <1>7 DEF Underway, Alike
    <2>2. Underway(e, id)' - Accepted(p, id)' <= Underway(e, id) - Accepted(p, id)
      BY <1>4, <1>5, <2>1
    <2> QED
      BY <1>3, <1>4, <1>8, <2>1, <2>2 DEF Lost
  <1>10. Lost(p, id)
    <2>1. /\ Underway(p, id)
               = Asked(p, id) + (Kept(e, id) + Granted(e, id) + Accepted(e, id) + Rejected(e, id))
          /\ Underway(p, id)'
               = Asked(p, id) + (Kept(e, id) + 0 + Accepted(e, id)' + Rejected(e, id)')
      BY <1>1, <1>6, <1>7 DEF Underway, Here, Alike
    <2>2. Underway(p, id)' - Accepted(e, id)' <= Underway(p, id) - Accepted(e, id)
      BY <1>4, <1>5, <2>1
    <2> QED
      BY <1>1, <1>3, <1>5, <1>6, <1>8, <2>2 DEF Lost
  <1> QED
    BY <1>1, <1>9, <1>10 DEF Moves

LEMMA EveryMove ==
  ASSUME IInv, Callbacks, Titles, Next, NEW id \in Ids
  PROVE  \A x \in Endpoints : Moves(x, id)
  <1>1. ASSUME NEW e \in Endpoints, Loop(e) PROVE \A x \in Endpoints : Moves(x, id)
    <2>1. CASE CleanupChannels(e) \/ HandleGone(e)
      BY <2>1, OtherMoves
    <2>2. CASE CleanupCancelledOpens(e)
      BY <2>2, CleanupMoves
    <2>3. CASE HandleOpen(e)
      BY <2>3, HandleOpenMoves
    <2>4. CASE HandleAccept(e)
      BY <2>4, HandleAcceptMoves
    <2>5. CASE HandleRequest(e)
      BY <2>5, HandleRequestMoves
    <2>6. CASE \/ \E q \in requests[e] : HandleAcceptFrame(e, q) \/ HandleReject(e, q)
               \/ HandleAcceptCancelled(e) \/ HandleRejectCancelled(e)
      BY <2>6, AnsweredMoves
    <2>7. CASE CloseState(e)
      BY <2>7, CloseMoves
    <2> QED
      BY <1>1, <2>1, <2>2, <2>3, <2>4, <2>5, <2>6, <2>7 DEF Loop
  <1>2. ASSUME NEW e \in Endpoints, Holder(e) PROVE \A x \in Endpoints : Moves(x, id)
    BY <1>2, HolderMoves DEF Holder
  <1> QED
    BY <1>1, <1>2, OtherMoves DEF Next

LEMMA IdsGrow ==
  ASSUME Types, Next
  PROVE  \A x \in Endpoints : nextId[x] <= nextId'[x]
  <1>1. nextId \in [Endpoints -> Nat]
    BY DEF Types, Ids
  <1>2. ASSUME NEW e \in Endpoints, HandleOpen(e) \/ HandleAccept(e)
        PROVE  \A x \in Endpoints : nextId[x] <= nextId'[x]
    <2>1. nextId' = nextId \/ nextId' = [nextId EXCEPT ![e] = @ + 1]
      BY <1>2 DEF HandleOpen, HandleAccept
    <2> QED
      BY <1>1, <2>1
  <1>3. CASE nextId' = nextId
    BY <1>1, <1>3
  <1>4. ASSUME NEW e \in Endpoints, Loop(e), ~HandleOpen(e), ~HandleAccept(e)
        PROVE  nextId' = nextId
    <2>1. CASE \/ CleanupChannels(e) \/ CleanupCancelledOpens(e) \/ HandleRequest(e)
               \/ HandleGone(e) \/ CloseState(e)
      BY <2>1 DEF CleanupChannels, CleanupCancelledOpens, HandleRequest, HandleGone, CloseState,
                  CloseTables
    <2>2. CASE \/ HandleAcceptCancelled(e) \/ HandleRejectCancelled(e)
               \/ \E q \in requests[e] : HandleAcceptFrame(e, q) \/ HandleReject(e, q)
      BY <2>2 DEF HandleAcceptFrame, HandleReject, HandleAcceptCancelled, HandleRejectCancelled
    <2> QED
      BY <1>4, <2>1, <2>2 DEF Loop
  <1>5. ASSUME \A e \in Endpoints : ~Loop(e) PROVE nextId' = nextId
    BY <1>5 DEF Next, Open, Cancel, Holder, AcceptRequest, RejectRequest, DropChannel, GoDown
  <1> QED
    BY <1>2, <1>3, <1>4, <1>5

LEMMA CallbacksKept ==
  ASSUME Types, Callbacks, Next
  PROVE  Callbacks'
  <1>1. ASSUME NEW e \in Endpoints, HandleAccept(e) PROVE Callbacks'
    <2>1. cmds[e] # <<>> /\ Head(cmds[e]).kind = "accept" /\ cmds' = [cmds EXCEPT ![e] = Tail(@)]
      BY <1>1 DEF HandleAccept
    <2>2. Head(cmds[e]).remote \in Ids
      BY <2>1, CommandTaken DEF Commands
    <2>3. \/ callbacks' = callbacks
          \/ callbacks' = [callbacks EXCEPT ![e] = Append(@, Head(cmds[e]).remote)]
      BY <1>1 DEF HandleAccept
    <2> QED
      BY <2>2, <2>3 DEF Callbacks
  <1>2. CASE callbacks' = callbacks
    BY <1>2 DEF Callbacks
  <1>3. ASSUME \A e \in Endpoints : ~HandleAccept(e) PROVE callbacks' = callbacks
    <2>1. ASSUME NEW e \in Endpoints, Loop(e) PROVE callbacks' = callbacks
      <3>1. CASE \/ HandleAcceptCancelled(e) \/ HandleRejectCancelled(e)
                 \/ \E q \in requests[e] : HandleAcceptFrame(e, q) \/ HandleReject(e, q)
        BY <3>1 DEF HandleAcceptCancelled, HandleRejectCancelled, HandleAcceptFrame, HandleReject,
                    acceptVars
      <3>2. CASE \/ CleanupChannels(e) \/ CleanupCancelledOpens(e) \/ HandleOpen(e)
                 \/ HandleRequest(e) \/ HandleGone(e) \/ CloseState(e)
        BY <3>2 DEF CleanupChannels, CleanupCancelledOpens, HandleOpen, HandleRequest, HandleGone,
                    CloseState, CloseTables, acceptVars
      <3> QED
        BY <1>3, <2>1, <3>1, <3>2 DEF Loop
    <2>2. ASSUME NEW e \in Endpoints,
                 Holder(e) \/ GoDown(e) \/ \E ch \in channels[e] : DropChannel(e, ch)
          PROVE  callbacks' = callbacks
      BY <2>2 DEF Holder, AcceptRequest, RejectRequest, GoDown, DropChannel, acceptVars
    <2>3. ASSUME NEW c \in Calls, Open(c) \/ Cancel(c) PROVE callbacks' = callbacks
      BY <2>3 DEF Open, Cancel, acceptVars
    <2> QED
      BY <2>1, <2>2, <2>3 DEF Next
  <1> QED
    BY <1>1, <1>2, <1>3

LEMMA TitlesKept ==
  ASSUME IInv, Answers, Next
  PROVE  Titles'
  <1>1. Types /\ Titles
    BY DEF IInv, Answers
  <1>2. CASE \A x \in Endpoints : requests'[x] \subseteq requests[x] /\ cancelled'[x] \subseteq cancelled[x]
    BY <1>1, <1>2 DEF Titles
  <1>3. ASSUME NEW e \in Endpoints, HandleOpen(e)
        PROVE  Titles'
    <2> DEFINE new == [id |-> nextId[e], call |-> Head(cmds[e]).call]
    <2>1. /\ cancelled' = cancelled /\ new.id = nextId[e]
          /\ requests' = requests \/ requests' = [requests EXCEPT ![e] = @ \union {new}]
      BY <1>3 DEF HandleOpen
    <2>2. nextId[e] \notin Live(e)
      <3>1. nextId[e] \in Ids /\ nextId[e] >= nextId[e]
        BY <1>1 DEF Types, Ids
      <3>2. Traced(e, nextId[e])
        BY <3>1 DEF Answers
      <3> QED
        BY <3>1, <3>2 DEF Traced, Journey
    <2> HIDE DEF new
    <2>3. CASE requests' = [requests EXCEPT ![e] = @ \union {new}]
      <3>1. /\ requests'[e] = requests[e] \union {new}
            /\ \A x \in Endpoints \ {e} : requests'[x] = requests[x]
        BY <1>1, <2>3 DEF Types
      <3>2. new.id \notin cancelled[e] /\ \A q \in requests[e] : q.id # new.id
        BY <2>1, <2>2 DEF Live
      <3> QED
        BY <1>1, <2>1, <3>1, <3>2 DEF Titles
    <2> QED
      BY <1>1, <2>1, <2>3 DEF Titles
  <1>4. ASSUME NEW e \in Endpoints, CleanupCancelledOpens(e)
        PROVE  Titles'
    <2>1. /\ requests'[e] = requests[e] \ Cancellations(e) /\ Cancellations(e) \subseteq requests[e]
          /\ \A x \in Endpoints \ {e} : requests'[x] = requests[x] /\ cancelled'[x] = cancelled[x]
      BY <1>1, <1>4 DEF CleanupCancelledOpens, Cancellations, Types
    <2>2. \A i \in cancelled'[e] : i \in cancelled[e] \/ \E q \in Cancellations(e) : q.id = i
      <3> DEFINE ids == cancelled[e] \union {q.id : q \in Cancellations(e)}
      <3>1. cancelled' = cancelled \/ cancelled' = [cancelled EXCEPT ![e] = ids]
        BY <1>4 DEF CleanupCancelledOpens
      <3>2. cancelled'[e] = cancelled[e] \/ cancelled'[e] = ids
        BY <1>1, <3>1 DEF Types
      <3> QED
        BY <3>2
    <2> QED
      BY <1>1, <2>1, <2>2 DEF Titles
  <1>5. (\A e \in Endpoints : ~HandleOpen(e) /\ ~CleanupCancelledOpens(e)) =>
            \A x \in Endpoints : requests'[x] \subseteq requests[x] /\ cancelled'[x] \subseteq cancelled[x]
    <2> SUFFICES ASSUME \A e \in Endpoints : ~HandleOpen(e) /\ ~CleanupCancelledOpens(e)
                 PROVE  \A x \in Endpoints : requests'[x] \subseteq requests[x]
                                               /\ cancelled'[x] \subseteq cancelled[x]
      OBVIOUS
    <2>1. \/ UNCHANGED <<requests, cancelled>>
          \/ \E e \in Endpoints : \E q : requests' = [requests EXCEPT ![e] = @ \ {q}] /\ cancelled' = cancelled
          \/ \E e \in Endpoints : \E r : cancelled' = [cancelled EXCEPT ![e] = @ \ {r}] /\ requests' = requests
          \/ \E e \in Endpoints : /\ requests' = [requests EXCEPT ![e] = {}]
                                  /\ cancelled' = [cancelled EXCEPT ![e] = {}]
      <3>1. ASSUME NEW e \in Endpoints, NEW q \in requests[e], HandleAcceptFrame(e, q) \/ HandleReject(e, q)
            PROVE  requests' = [requests EXCEPT ![e] = @ \ {q}] /\ cancelled' = cancelled
        BY <3>1 DEF HandleAcceptFrame, HandleReject
      <3>2. ASSUME NEW e \in Endpoints, HandleAcceptCancelled(e) \/ HandleRejectCancelled(e)
            PROVE  cancelled' = [cancelled EXCEPT ![e] = @ \ {Frame(e).receiver}] /\ requests' = requests
        BY <3>2 DEF HandleAcceptCancelled, HandleRejectCancelled
      <3>3. ASSUME NEW e \in Endpoints, CloseState(e)
            PROVE  /\ requests' = [requests EXCEPT ![e] = {}]
                   /\ cancelled' = [cancelled EXCEPT ![e] = {}]
        BY <3>3 DEF CloseState, CloseTables
      <3>4. ASSUME NEW e \in Endpoints,
                   \/ CleanupChannels(e) \/ HandleAccept(e) \/ HandleRequest(e) \/ HandleGone(e)
                   \/ Holder(e) \/ GoDown(e)
                   \/ \E ch \in channels[e] : DropChannel(e, ch)
            PROVE  UNCHANGED <<requests, cancelled>>
        BY <3>4 DEF CleanupChannels, HandleAccept, HandleRequest, HandleGone, Holder, GoDown,
                    DropChannel, AcceptRequest, RejectRequest, callVars
      <3>5. ASSUME NEW c \in Calls, Open(c) \/ Cancel(c) PROVE UNCHANGED <<requests, cancelled>>
        BY <3>5 DEF Open, Cancel
      <3>6. ASSUME NEW e \in Endpoints, Loop(e)
            PROVE  \/ CleanupChannels(e) \/ HandleAccept(e) \/ HandleRequest(e) \/ HandleGone(e)
                   \/ CloseState(e) \/ HandleAcceptCancelled(e) \/ HandleRejectCancelled(e)
                   \/ \E q \in requests[e] : HandleAcceptFrame(e, q) \/ HandleReject(e, q)
        BY <3>6 DEF Loop
      <3> QED
        BY <3>1, <3>2, <3>3, <3>4, <3>5, <3>6 DEF Next
    <2> QED
      BY <1>1, <2>1 DEF Types
  <1> QED
    BY <1>2, <1>3, <1>4, <1>5

AInv == IInv /\ Answers

LEMMA AnswersKept == AInv /\ [Next]_vars => AInv'
  <1> SUFFICES ASSUME AInv, [Next]_vars PROVE AInv'
    OBVIOUS
  <1>1. IInv /\ Answers /\ IInv' /\ Types /\ Types' /\ Callbacks /\ Titles
    BY InvarianceStep DEF AInv, IInv, Answers
  <1>2. CASE UNCHANGED vars
    BY <1>1, <1>2 DEF vars, callVars, acceptVars, AInv, Answers, Callbacks, Titles, Traced, Underway,
          Here, Asked, Kept, Granted, Accepted, Rejected, Called, Live, Listening, BothUp
  <1>3. CASE Next
    <2>1. Callbacks' /\ Titles' /\ Worse /\ \A x \in Endpoints : nextId[x] <= nextId'[x]
      BY <1>1, <1>3, CallbacksKept, TitlesKept, StatusWorse, IdsGrow
    <2>2. ASSUME NEW x \in Endpoints, NEW id \in Ids PROVE Traced(x, id)'
      <3>1. Moves(x, id) /\ Traced(x, id)
        BY <1>1, <1>3, EveryMove DEF Answers
      <3> QED
        BY <1>1, <2>1, <3>1, TraceStep DEF Moves
    <2> QED
      BY <1>1, <2>1, <2>2 DEF AInv, Answers
  <1> QED
    BY <1>2, <1>3

LEMMA AnswersInitially == Init => Answers
  <1> SUFFICES ASSUME Init PROVE Answers
    OBVIOUS
  <1>1. Callbacks /\ Titles
    BY DEF Init, Callbacks, Titles
  <1>2. ASSUME NEW x \in Endpoints, NEW id \in Ids PROVE Traced(x, id)
    <2>1. Peer(x) \in Endpoints
      BY Peers
    <2>2. \A p \in Endpoints :
            /\ Asked(p, id) = 0 /\ Kept(p, id) = 0 /\ Granted(p, id) = 0 /\ Accepted(p, id) = 0
            /\ Rejected(p, id) = 0 /\ Called(p, id) = 0
      BY HitsNone DEF Init, Asked, Kept, Granted, Accepted, Rejected, Called
    <2>3. id \notin Live(x)
      BY DEF Init, Live
    <2>4. Underway(x, id) = 0
      BY <2>1, <2>2 DEF Underway, Here
    <2> QED
      BY <2>1, <2>2, <2>3, <2>4 DEF Traced, Journey
  <1> QED
    BY <1>1, <1>2 DEF Answers

LEMMA AnswersInvariance == Spec => []AInv
  <1>1. Init => AInv
    BY Initially, AnswersInitially DEF AInv
  <1> QED
    BY <1>1, AnswersKept, PTL DEF Spec

(* The places of a request are those of the property. *)
LEMMA UnderIsUnderway ==
  ASSUME Types, NEW e \in Endpoints, NEW id \in Ids
  PROVE  Under(e, id) = Underway(e, id)
  <1> DEFINE p == Peer(e)
             there == {i \in DOMAIN wire[p] : wire[p][i] \in AcceptsOf(id)}
             back == {i \in DOMAIN wire[p] : wire[p][i] \in RejectsOf(id)}
  <1>1. p \in Endpoints
    BY Peers
  <1>2. /\ wire[e] \in Seq(Frames) /\ wire[p] \in Seq(Frames) /\ cmds[p] \in Seq(Commands)
    BY <1>1 DEF Types
  <1>3. Cardinality(OnWire(e, {"request"}, "sender", id)) = Asked(e, id)
    <2>1. OnWire(e, {"request"}, "sender", id) = {i \in DOMAIN wire[e] : wire[e][i] \in RequestsOf(id)}
      <3>1. \A i \in DOMAIN wire[e] : wire[e][i] \in Frames
        BY <1>2
      <3>2. \A i \in DOMAIN wire[e] : wire[e][i].kind \in {"request"} /\ wire[e][i]["sender"] = id
                                        <=> wire[e][i] \in RequestsOf(id)
        BY <3>1, FrameKinds
      <3> QED
        BY <3>2 DEF OnWire
    <2> QED
      BY <2>1 DEF Asked, Hits
  <1>4. Cardinality(incoming[p] \intersect {id}) = Kept(p, id)
    <2>1. CASE id \in incoming[p]
      <3>1. incoming[p] \intersect {id} = {id}
        BY <2>1
      <3> QED
        BY <2>1, <3>1, FS_Singleton DEF Kept
    <2>2. CASE id \notin incoming[p]
      <3>1. incoming[p] \intersect {id} = {}
        BY <2>2
      <3> QED
        BY <2>2, <3>1, FS_EmptySet DEF Kept
    <2> QED
      BY <2>1, <2>2
  <1>5. Cardinality({i \in Accepting(p) : cmds[p][i].remote = id}) = Granted(p, id)
    <2>1. \A i \in DOMAIN cmds[p] : cmds[p][i] \in Commands
      BY <1>2
    <2>2. \A c \in Commands : c.kind = "accept" /\ c.remote = id <=> c \in {AcceptChannel(id)}
      BY DEF Commands, AcceptChannel
    <2>3. {i \in Accepting(p) : cmds[p][i].remote = id}
            = {i \in DOMAIN cmds[p] : cmds[p][i] \in {AcceptChannel(id)}}
      BY <2>1, <2>2 DEF Accepting
    <2> QED
      BY <2>3 DEF Granted, Hits
  <1>6. Cardinality(OnWire(p, {"accept", "reject"}, "receiver", id)) = Accepted(p, id) + Rejected(p, id)
    <2>1. \A i \in DOMAIN wire[p] : wire[p][i] \in Frames
      BY <1>2
    <2>2. \A i \in DOMAIN wire[p] :
            wire[p][i].kind \in {"accept", "reject"} /\ wire[p][i]["receiver"] = id
              <=> wire[p][i] \in AcceptsOf(id) \/ wire[p][i] \in RejectsOf(id)
      BY <2>1, FrameKinds
    <2>3. OnWire(p, {"accept", "reject"}, "receiver", id) = there \union back
      BY <2>2 DEF OnWire
    <2>4. there \intersect back = {}
      BY DEF AcceptsOf, RejectsOf
    <2>5. IsFiniteSet(there) /\ IsFiniteSet(back)
      BY <1>2, HitsType
    <2>6. Cardinality(there) = Accepted(p, id) /\ Cardinality(back) = Rejected(p, id)
      BY DEF Accepted, Rejected, Hits
    <2>7. Accepted(p, id) \in Nat /\ Rejected(p, id) \in Nat
      BY <1>2, HitsType DEF Accepted, Rejected
    <2> HIDE DEF there, back
    <2>8. Cardinality(there \union back)
            = Cardinality(there) + Cardinality(back) - Cardinality(there \intersect back)
      BY <2>5, FS_Union
    <2>9. Cardinality(there \intersect back) = 0
      BY <2>4, FS_EmptySet
    <2>10. Cardinality(there \union back) = Accepted(p, id) + Rejected(p, id)
      BY <2>6, <2>7, <2>8, <2>9
    <2> QED
      BY <2>3, <2>10
  <1>7. /\ Asked(e, id) \in Nat /\ Granted(p, id) \in Nat /\ Accepted(p, id) \in Nat
        /\ Rejected(p, id) \in Nat /\ Kept(p, id) \in Nat
    BY <1>2, HitsType DEF Asked, Granted, Accepted, Rejected, Kept
  <1>8. Under(e, id) = Asked(e, id) + Kept(p, id) + Granted(p, id) + (Accepted(p, id) + Rejected(p, id))
    BY <1>3, <1>4, <1>5, <1>6 DEF Under
  <1> QED
    BY <1>7, <1>8 DEF Underway, Here

(* While both ends are up, every request that an endpoint still waits for, *)
(* or has a tombstone of, is under way in exactly one place - a frame, a   *)
(* task of the peer, a command there, an answer - and every other one in   *)
(* none: no answer is lost and none comes twice, whatever is cancelled,    *)
(* rejected, dropped or refused for a limit meanwhile.                     *)
THEOREM OneAnswer == Spec => []AnsweredOnce
  <1>1. AInv => AnsweredOnce
    <2> SUFFICES ASSUME AInv, \A e \in Endpoints : conn[e] = "up",
                        NEW e \in Endpoints, NEW id \in 1..(nextId[e] - 1)
                 PROVE  Under(e, id)
                          = IF id \in cancelled[e] \union {q.id : q \in requests[e]} THEN 1 ELSE 0
      BY DEF AnsweredOnce
    <2>1. Types /\ Callbacks /\ id \in Ids
      BY DEF AInv, IInv, Answers, Ids
    <2>2. Under(e, id) = Underway(e, id) /\ Underway(e, id) \in Nat
      BY <2>1, UnderIsUnderway, UnderwayType DEF CountsTyped
    <2>3. Traced(e, id) /\ BothUp(e) /\ Listening(e)
      BY <2>1, Peers DEF AInv, Answers, BothUp, Listening
    <2> QED
      BY <2>2, <2>3 DEF Traced, Journey, Live
  <1> QED
    BY <1>1, AnswersInvariance, PTL

(* An answer finds the request or the tombstone it belongs to. *)
LEMMA AnswersExpected ==
  ASSUME AInv, NEW e \in Endpoints, Listening(e), wire[Peer(e)] # <<>>,
         Frame(e).kind \in {"accept", "reject"}
  PROVE  Frame(e).receiver \in Ids /\ Frame(e).receiver \in Live(e)
  <1> DEFINE p == Peer(e)
             r == Frame(e).receiver
  <1>1. p \in Endpoints /\ Types /\ Callbacks
    BY Peers DEF AInv, IInv, Answers
  <1>2. wire[p] \in Seq(Frames) /\ Frame(e) = wire[p][1] /\ 1 \in DOMAIN wire[p]
    BY <1>1 DEF Types, Frame
  <1>3. r \in Ids /\ (wire[p][1] \in AcceptsOf(r) \/ wire[p][1] \in RejectsOf(r))
    BY <1>2, FrameParts, FrameKinds
  <1>4. Accepted(p, r) > 0 \/ Rejected(p, r) > 0
    BY <1>2, <1>3, HitsType DEF Accepted, Rejected
  <1>5. /\ Asked(e, r) \in Nat /\ Kept(p, r) \in Nat /\ Granted(p, r) \in Nat
        /\ Accepted(p, r) \in Nat /\ Rejected(p, r) \in Nat
    BY <1>1, <1>3, Counts
  <1>6. Underway(e, r) > 0
    BY <1>4, <1>5 DEF Underway, Here
  <1>7. Traced(e, r)
    BY <1>3 DEF AInv, Answers
  <1> QED
    BY <1>3, <1>6, <1>7 DEF Traced, Journey

LEMMA NoFault == AInv /\ NoViolation /\ [Next]_vars => NoViolation'
  <1> SUFFICES ASSUME AInv, NoViolation, [Next]_vars PROVE violations' = violations
    BY DEF NoViolation
  <1>1. ASSUME NEW e \in Endpoints, HandleAcceptCancelled(e) \/ HandleRejectCancelled(e)
        PROVE  violations' = violations
    <2>1. /\ Listening(e) /\ wire[Peer(e)] # <<>> /\ Frame(e).kind \in {"accept", "reject"}
          /\ Unrequested(e)
      BY <1>1 DEF HandleAcceptCancelled, HandleRejectCancelled, Received, Frame, Listening
    <2>2. Frame(e).receiver \in cancelled[e]
      BY <2>1, AnswersExpected DEF Live, Unrequested
    <2> QED
      BY <1>1, <2>2 DEF HandleAcceptCancelled, HandleRejectCancelled
  <1>2. ASSUME NEW e \in Endpoints, Loop(e) PROVE violations' = violations
    BY <1>1, <1>2 DEF Loop, CleanupChannels, CleanupCancelledOpens, HandleOpen, HandleAccept,
       HandleRequest, HandleAcceptFrame, HandleReject, HandleGone, CloseState
  <1>3. ASSUME NEW e \in Endpoints, Holder(e) PROVE violations' = violations
    BY <1>3 DEF Holder, AcceptRequest, RejectRequest
  <1>4. CASE UNCHANGED vars
    BY <1>4 DEF vars
  <1> QED
    BY <1>2, <1>3, <1>4 DEF Next, Open, Cancel, GoDown, DropChannel

-----------------------------------------------------------------------------
(* The ends of a channel, and what is left of them.                        *)

OnIt(w, f) == \E i \in DOMAIN w : w[i] = f

(* An endpoint has the channel of these ids, or had one of its id. *)
Met(p, id, remote) == [id |-> id, remote |-> remote] \in channels[p] \/ id \in Buried(p)

KnownTo(p) == {ch.id : ch \in channels[p]} \union Buried(p)

(* The peer of each end of a channel knows it or is about to learn of it.  *)
Facing(x) ==
    Listening(Peer(x)) =>
        \A ch \in channels[x] : Met(Peer(x), ch.remote, ch.id) \/ OnIt(wire[x], Accept(ch.remote, ch.id))

(* Who sent an accept has the channel, or had it. *)
Announced(x) ==
    Listening(x) =>
        \A i \in DOMAIN wire[x] : wire[x][i].kind = "accept" =>
            Met(x, wire[x][i].sender, wire[x][i].receiver)

(* The last frames of a channel are for one that is known, or come after   *)
(* its accept.                                                             *)
Preceded(w, known) ==
    \A i \in DOMAIN w : w[i].kind = "gone" =>
        \/ w[i].receiver \in known
        \/ \E j \in 1..(i - 1) : w[j].kind = "accept" /\ w[j].receiver = w[i].receiver

Expected(x) == Listening(x) => Preceded(wire[Peer(x)], KnownTo(x))

Histories ==
    evicted \in [Endpoints -> SUBSET Ids] /\ unknown \in [Endpoints -> SUBSET Ids]

Meeting == Histories /\ \A x \in Endpoints : Facing(x) /\ Announced(x) /\ Expected(x)

LEMMA PrecededTail ==
  ASSUME NEW w \in Seq(Frames), w # <<>>, NEW known, Preceded(w, known),
         NEW more, known \subseteq more, Head(w).kind = "accept" => Head(w).receiver \in more
  PROVE  Preceded(Tail(w), more)
  <1> DEFINE t == Tail(w)
  <1>1. /\ Len(t) = Len(w) - 1 /\ DOMAIN t = 1..Len(t) /\ DOMAIN w = 1..Len(w)
        /\ Len(w) \in Nat /\ Len(w) > 0 /\ Head(w) = w[1]
        /\ \A i \in 1..Len(t) : t[i] = w[i + 1]
    OBVIOUS
  <1> HIDE DEF t
  <1> SUFFICES ASSUME NEW i \in DOMAIN t, t[i].kind = "gone", t[i].receiver \notin more
               PROVE  \E j \in 1..(i - 1) : t[j].kind = "accept" /\ t[j].receiver = t[i].receiver
    BY DEF Preceded, t
  <1>2. i + 1 \in DOMAIN w /\ t[i] = w[i + 1]
    BY <1>1
  <1>3. PICK j \in 1..((i + 1) - 1) : w[j].kind = "accept" /\ w[j].receiver = t[i].receiver
    BY <1>2 DEF Preceded
  <1>4. j # 1
    BY <1>1, <1>3
  <1>5. j - 1 \in 1..(i - 1) /\ j - 1 \in 1..Len(t) /\ (j - 1) + 1 = j
    BY <1>1, <1>3, <1>4
  <1>6. t[j - 1] = w[j]
    BY <1>1, <1>5
  <1> QED
    BY <1>3, <1>5, <1>6

LEMMA PrecededMore ==
  ASSUME NEW w \in Seq(Frames), NEW known, Preceded(w, known), NEW more, known \subseteq more,
         NEW f \in Frames,
         f.kind = "gone" =>
            \/ f.receiver \in more
            \/ \E j \in DOMAIN w : w[j].kind = "accept" /\ w[j].receiver = f.receiver
  PROVE  Preceded(w \o <<f>>, more) /\ Preceded(w, more)
  <1> DEFINE v == w \o <<f>>
  <1>1. /\ v[Len(w) + 1] = f
        /\ \A j \in DOMAIN w : v[j] = w[j]
        /\ DOMAIN v = 1..(Len(w) + 1) /\ DOMAIN w = 1..Len(w) /\ Len(w) \in Nat
    OBVIOUS
  <1>2. Preceded(w, more)
    BY DEF Preceded
  <1> HIDE DEF v
  <1>3. ASSUME NEW i \in DOMAIN v, v[i].kind = "gone", v[i].receiver \notin more
        PROVE  \E j \in 1..(i - 1) : v[j].kind = "accept" /\ v[j].receiver = v[i].receiver
    <2>1. CASE i \in DOMAIN w
      <3>1. PICK j \in 1..(i - 1) : w[j].kind = "accept" /\ w[j].receiver = w[i].receiver
        BY <1>1, <1>3, <2>1 DEF Preceded
      <3>2. j \in DOMAIN w
        BY <1>1, <2>1
      <3> QED
        BY <1>1, <2>1, <3>1, <3>2
    <2>2. CASE i \notin DOMAIN w
      <3>1. i = Len(w) + 1 /\ v[i] = f
        BY <1>1, <2>2
      <3>2. PICK j \in DOMAIN w : w[j].kind = "accept" /\ w[j].receiver = f.receiver
        BY <1>3, <3>1
      <3>3. j \in 1..(i - 1)
        BY <1>1, <3>1
      <3> QED
        BY <1>1, <3>1, <3>2, <3>3
    <2> QED
      BY <2>1, <2>2
  <1> QED
    BY <1>2, <1>3 DEF Preceded, v

LEMMA PrecededPrefix ==
  ASSUME NEW w \in Seq(Frames), NEW known, Preceded(w, known), NEW more, known \subseteq more,
         NEW n \in 0..Len(w)
  PROVE  Preceded(SubSeq(w, 1, n), more)
  <1> DEFINE v == SubSeq(w, 1, n)
  <1>1. /\ DOMAIN v \subseteq DOMAIN w /\ \A i \in DOMAIN v : v[i] = w[i]
        /\ DOMAIN v = 1..n
    BY SubSeqProperties
  <1>2. \A i \in DOMAIN v : \A j \in 1..(i - 1) : j \in DOMAIN v
    BY <1>1
  <1> HIDE DEF v
  <1>3. Preceded(v, more)
    BY <1>1, <1>2 DEF Preceded
  <1> QED
    BY <1>3 DEF v

-----------------------------------------------------------------------------
(* What a step may do to the channels.                                     *)

(* An endpoint that goes on remembers its channels. *)
Remembers(x) ==
    Listening(x)' =>
        /\ \A ch \in channels[x] : Met(x, ch.id, ch.remote)'
        /\ Buried(x) \subseteq Buried(x)'

(* A frame that is sent or taken is explained by the tables. *)
SendsKnown(x) ==
    \E f \in Frames :
        /\ wire'[x] = wire[x] \o <<f>>
        /\ f.kind = "accept" => Met(x, f.sender, f.receiver)'
        /\ f.kind = "gone" /\ Listening(Peer(x))' =>
              \/ f.receiver \in KnownTo(Peer(x))'
              \/ \E j \in DOMAIN wire[x] : wire[x][j].kind = "accept" /\ wire[x][j].receiver = f.receiver

LosesKnown(x) ==
    /\ wire[x] # <<>> /\ wire'[x] = Tail(wire[x])
    /\ \E f \in Frames :
          /\ f = Head(wire[x])
          /\ f.kind = "accept" /\ Listening(Peer(x))' => Met(Peer(x), f.receiver, f.sender)'

Ends(x) ==
    /\ \E n \in 0..Len(wire[x]) : wire'[x] = SubSeq(wire[x], 1, n)
    /\ ~Listening(x)' /\ channels'[x] = {}

WireKnown(x) == wire'[x] = wire[x] \/ SendsKnown(x) \/ LosesKnown(x) \/ Ends(x)

ChannelsKnown(x) ==
    \A ch \in channels'[x] :
        \/ ch \in channels[x]
        \/ OnIt(wire'[x], Accept(ch.remote, ch.id))
        \/ Listening(Peer(x))' => Met(Peer(x), ch.remote, ch.id)'

LEMMA MeetingStep ==
  ASSUME Types, Types', Worse, NEW x \in Endpoints, Facing(x), Announced(x), Expected(Peer(x)),
         Remembers(x), Remembers(Peer(x)), WireKnown(x), ChannelsKnown(x)
  PROVE  Facing(x)' /\ Announced(x)' /\ Expected(Peer(x))'
  <1> DEFINE p == Peer(x)
  <1>1. p \in Endpoints /\ Peer(p) = x /\ wire[x] \in Seq(Frames)
    BY Peers DEF Types
  <1>2. (Listening(x)' => Listening(x)) /\ (Listening(p)' => Listening(p))
    BY <1>1 DEF Worse, Listening
  <1>3. ASSUME Listening(p)' PROVE KnownTo(p) \subseteq KnownTo(p)'
    <2>1. ASSUME NEW ch \in channels[p] PROVE ch.id \in KnownTo(p)'
      <3>1. [id |-> ch.id, remote |-> ch.remote].id = ch.id
        OBVIOUS
      <3> QED
        BY <1>3, <2>1, <3>1 DEF Remembers, KnownTo, Met
    <2> QED
      BY <1>3, <2>1 DEF Remembers, KnownTo
  <1>4. ASSUME NEW y \in {x, p}, Listening(y)', NEW id, NEW r, Met(y, id, r)
        PROVE  Met(y, id, r)'
    <2>1. Remembers(y)
      BY <1>4
    <2>2. CASE id \in Buried(y)
      BY <1>4, <2>1, <2>2 DEF Remembers, Met
    <2>3. CASE [id |-> id, remote |-> r] \in channels[y]
      <3>1. [id |-> id, remote |-> r].id = id /\ [id |-> id, remote |-> r].remote = r
        OBVIOUS
      <3> QED
        BY <1>4, <2>1, <2>3, <3>1 DEF Remembers
    <2> QED
      BY <1>4, <2>2, <2>3 DEF Met
  <1>6. ASSUME Listening(p)', Listening(p)
        PROVE  Preceded(wire'[x], KnownTo(p)')
    <2>1. Preceded(wire[x], KnownTo(p)) /\ KnownTo(p) \subseteq KnownTo(p)'
      BY <1>1, <1>3, <1>6 DEF Expected
    <2>2. CASE wire'[x] = wire[x]
      BY <2>1, <2>2 DEF Preceded
    <2>3. CASE SendsKnown(x)
      BY <1>1, <1>6, <2>1, <2>3, PrecededMore DEF SendsKnown
    <2>4. CASE LosesKnown(x)
      <3>1. Head(wire[x]).kind = "accept" => Head(wire[x]).receiver \in KnownTo(p)'
        <4>1. ASSUME NEW id, NEW r, Met(p, id, r)' PROVE id \in KnownTo(p)'
          <5>1. [id |-> id, remote |-> r].id = id
            OBVIOUS
          <5> QED
            BY <4>1, <5>1 DEF Met, KnownTo
        <4> QED
          BY <1>6, <2>4, <4>1 DEF LosesKnown
      <3> QED
        BY <1>1, <2>1, <2>4, <3>1, PrecededTail DEF LosesKnown
    <2>5. CASE Ends(x)
      BY <1>1, <2>1, <2>5, PrecededPrefix DEF Ends
    <2> QED
      BY <2>2, <2>3, <2>4, <2>5 DEF WireKnown
  <1>7. ASSUME Listening(x)', NEW i \in DOMAIN wire'[x], wire'[x][i].kind = "accept"
        PROVE  Met(x, wire[x][i].sender, wire[x][i].receiver)'
    <2>0. PICK f : f = wire'[x][i]
      OBVIOUS
    <2>1. \/ \E j \in DOMAIN wire[x] : wire[x][j] = f
          \/ SendsKnown(x) /\ Met(x, f.sender, f.receiver)'
      <3>1. CASE wire'[x] = wire[x]
        BY <1>7, <2>0, <3>1
      <3>2. CASE SendsKnown(x)
        <4>1. PICK g \in Frames :
                /\ wire'[x] = wire[x] \o <<g>>
                /\ g.kind = "accept" => Met(x, g.sender, g.receiver)'
          BY <3>2 DEF SendsKnown
        <4>2. (i \in DOMAIN wire[x] /\ f = wire[x][i]) \/ f = g
          BY <1>1, <1>7, <2>0, <4>1
        <4>3. f.kind = "accept"
          BY <1>7, <2>0
        <4> QED
          BY <3>2, <4>1, <4>2, <4>3
      <3>3. CASE LosesKnown(x)
        <4>1. wire'[x] = Tail(wire[x]) /\ wire[x] # <<>>
          BY <3>3 DEF LosesKnown
        <4>2. i + 1 \in DOMAIN wire[x] /\ f = wire[x][i + 1]
          BY <1>1, <1>7, <2>0, <4>1
        <4> QED
          BY <4>2
      <3>4. CASE Ends(x)
        BY <1>7, <3>4 DEF Ends
      <3> QED
        BY <3>1, <3>2, <3>3, <3>4 DEF WireKnown
    <2>2. ASSUME NEW j \in DOMAIN wire[x], wire[x][j] = f
          PROVE  Met(x, f.sender, f.receiver)'
      <3>1. Met(x, f.sender, f.receiver)
        BY <1>2, <1>7, <2>0, <2>2 DEF Announced
      <3> QED
        BY <1>4, <1>7, <3>1
    <2>3. Met(x, f.sender, f.receiver)'
      BY <2>1, <2>2
    <2> QED
      BY <2>0, <2>3
  <1>8. ASSUME Listening(p)', NEW ch \in channels'[x]
        PROVE  Met(p, ch.remote, ch.id)' \/ OnIt(wire'[x], Accept(ch.remote, ch.id))
    <2> DEFINE f == Accept(ch.remote, ch.id)
    <2>1. CASE ch \in channels[x]
      <3>2. CASE Met(p, ch.remote, ch.id)
        BY <1>4, <1>8, <3>2
      <3>3. CASE OnIt(wire[x], f)
        <4>1. PICK i \in DOMAIN wire[x] : wire[x][i] = f
          BY <3>3 DEF OnIt
        <4>2. CASE wire'[x] = wire[x]
          BY <4>1, <4>2 DEF OnIt
        <4>3. CASE SendsKnown(x)
          <5>1. PICK g \in Frames : wire'[x] = wire[x] \o <<g>>
            BY <4>3 DEF SendsKnown
          <5>2. i \in DOMAIN wire'[x] /\ wire'[x][i] = f
            BY <1>1, <4>1, <5>1
          <5> QED
            BY <5>2 DEF OnIt
        <4>4. CASE LosesKnown(x)
          <5>1. wire'[x] = Tail(wire[x]) /\ wire[x] # <<>>
            BY <4>4 DEF LosesKnown
          <5>2. CASE i = 1
            <6>1. Head(wire[x]) = f
              BY <1>1, <4>1, <5>1, <5>2
            <6>2. /\ f.kind = "accept"
                  /\ f.receiver = ch.remote /\ f.sender = ch.id
              BY DEF Accept
            <6> QED
              BY <1>8, <4>4, <6>1, <6>2 DEF LosesKnown
          <5>3. CASE i # 1
            <6>1. i - 1 \in DOMAIN wire'[x] /\ wire'[x][i - 1] = f
              BY <1>1, <4>1, <5>1, <5>3
            <6> QED
              BY <6>1 DEF OnIt
          <5> QED
            BY <5>2, <5>3
        <4>5. CASE Ends(x)
          BY <4>5 DEF Ends
        <4> QED
          BY <4>2, <4>3, <4>4, <4>5 DEF WireKnown
      <3> QED
        BY <1>2, <1>8, <2>1, <3>2, <3>3 DEF Facing
    <2>2. CASE ch \notin channels[x]
      BY <1>8, <2>2 DEF ChannelsKnown
    <2> QED
      BY <2>1, <2>2
  <1>9. Facing(x)'
    BY <1>8 DEF Facing
  <1>10. Announced(x)'
    BY <1>7 DEF Announced
  <1>11. Expected(p)'
    BY <1>1, <1>2, <1>6 DEF Expected
  <1> QED
    BY <1>9, <1>10, <1>11

-----------------------------------------------------------------------------
(* Every step keeps to this.                                               *)

Acquainted(x) == Remembers(x) /\ WireKnown(x) /\ ChannelsKnown(x)

(* Endpoint x has the channels and the tombstones it had. *)
SameEnds(x) == channels'[x] = channels[x] /\ tombs'[x] = tombs[x] /\ evicted'[x] = evicted[x]

LEMMA EndsKept ==
  ASSUME Types, NEW x \in Endpoints, SameEnds(x)
  PROVE  /\ Remembers(x) /\ ChannelsKnown(x) /\ Buried(x)' = Buried(x) /\ KnownTo(x)' = KnownTo(x)
         /\ \A i, r : Met(x, i, r) => Met(x, i, r)'
  <1>1. Buried(x)' = Buried(x)
    BY DEF SameEnds, Buried
  <1>2. ASSUME NEW ch \in channels[x] PROVE Met(x, ch.id, ch.remote)'
    <2>1. ch \in Pairs
      BY DEF Types
    <2>2. ch = [id |-> ch.id, remote |-> ch.remote]
      BY <2>1 DEF Pairs
    <2> QED
      BY <2>2 DEF Met, SameEnds
  <1> QED
    BY <1>1, <1>2 DEF Remembers, ChannelsKnown, SameEnds, KnownTo, Met

(* Frames that name no channel. *)
LEMMA PlainSend ==
  ASSUME NEW x \in Endpoints, NEW f \in Frames, f.kind \in {"request", "reject"},
         wire'[x] = wire[x] \o <<f>>
  PROVE  WireKnown(x)
  BY DEF WireKnown, SendsKnown

LEMMA PlainTake ==
  ASSUME Types, NEW x \in Endpoints, wire[x] # <<>>, Head(wire[x]).kind # "accept",
         wire'[x] = Tail(wire[x])
  PROVE  WireKnown(x)
  <1>1. Head(wire[x]) \in Frames
    BY DEF Types
  <1> QED
    BY <1>1 DEF WireKnown, LosesKnown

(* The step leaves the channels alone, and sends no frame that names one. *)
LEMMA NothingNew ==
  ASSUME Types, NEW e \in Endpoints, UNCHANGED <<channels, tombs, evicted>>,
         \A x \in Endpoints \ {e} : wire'[x] = wire[x],
         \/ wire'[e] = wire[e]
         \/ \E f \in Frames : f.kind \in {"request", "reject"} /\ wire'[e] = wire[e] \o <<f>>
         \/ wire[e] # <<>> /\ Head(wire[e]).kind # "accept" /\ wire'[e] = Tail(wire[e])
  PROVE  \A x \in Endpoints : Acquainted(x)
  <1>1. ASSUME NEW x \in Endpoints PROVE Remembers(x) /\ ChannelsKnown(x)
    <2>1. SameEnds(x)
      BY DEF SameEnds
    <2> QED
      BY <2>1, EndsKept
  <1>2. WireKnown(e)
    BY PlainSend, PlainTake DEF WireKnown
  <1>3. \A x \in Endpoints \ {e} : WireKnown(x)
    BY DEF WireKnown
  <1> QED
    BY <1>1, <1>2, <1>3 DEF Acquainted

LEMMA TaskSteps ==
  ASSUME Types, \/ \E c \in Calls : Open(c) \/ Cancel(c)
                \/ \E e \in Endpoints : Holder(e) \/ GoDown(e) \/ CleanupCancelledOpens(e)
                                          \/ HandleOpen(e)
  PROVE  \A x \in Endpoints : Acquainted(x)
  <1>1. CASE \/ \E c \in Calls : Open(c) \/ Cancel(c)
             \/ \E e \in Endpoints : GoDown(e) \/ CleanupCancelledOpens(e)
    <2>1. UNCHANGED <<channels, tombs, evicted, wire>>
      BY <1>1 DEF Open, Cancel, GoDown, CleanupCancelledOpens, tombVars
    <2>2. PICK e : e \in Endpoints
      BY LifecycleAssumption
    <2> QED
      BY <2>1, <2>2, NothingNew
  <1>2. ASSUME NEW e \in Endpoints, NEW r \in incoming[e], AcceptRequest(e, r) \/ RejectRequest(e, r)
        PROVE  \A x \in Endpoints : Acquainted(x)
    <2>1. UNCHANGED <<channels, tombs, evicted>>
      BY <1>2 DEF AcceptRequest, RejectRequest, tombVars
    <2>2. Reject(r) \in Frames /\ Reject(r).kind = "reject"
      BY FrameFields DEF Types
    <2>3. wire' = wire \/ wire' = [wire EXCEPT ![e] = @ \o <<Reject(r)>>]
      BY <1>2 DEF AcceptRequest, RejectRequest, SendFrame, Sent, NotSent
    <2>4. /\ \A x \in Endpoints \ {e} : wire'[x] = wire[x]
          /\ wire'[e] = wire[e] \/ wire'[e] = wire[e] \o <<Reject(r)>>
      BY <2>3 DEF Types
    <2> QED
      BY <2>1, <2>2, <2>4, NothingNew
  <1>3. ASSUME NEW e \in Endpoints, HandleOpen(e) PROVE \A x \in Endpoints : Acquainted(x)
    <2>1. UNCHANGED <<channels, tombs, evicted>>
      BY <1>3 DEF HandleOpen, tombVars
    <2>2. Request(nextId[e]) \in Frames /\ Request(nextId[e]).kind = "request"
      BY FrameFields DEF Types
    <2>3. wire' = wire \/ wire' = [wire EXCEPT ![e] = @ \o <<Request(nextId[e])>>]
      BY <1>3 DEF HandleOpen, Sent, NotSent
    <2>4. /\ \A x \in Endpoints \ {e} : wire'[x] = wire[x]
          /\ wire'[e] = wire[e] \/ wire'[e] = wire[e] \o <<Request(nextId[e])>>
      BY <2>3 DEF Types
    <2> QED
      BY <2>1, <2>2, <2>4, NothingNew
  <1> QED
    BY <1>1, <1>2, <1>3 DEF Holder

LEMMA DropStep ==
  ASSUME Types, Meeting, NEW e \in Endpoints, NEW ch \in channels[e], DropChannel(e, ch), Worse
  PROVE  \A x \in Endpoints : Acquainted(x)
  <1> DEFINE p == Peer(e)
  <1>1. /\ p \in Endpoints /\ p # e /\ Endpoints = {e, p} /\ Facing(e)
        /\ UNCHANGED <<channels, tombs, evicted>> /\ SameEnds(e) /\ SameEnds(p)
    BY Peers DEF DropChannel, tombVars, Meeting, SameEnds
  <1>2. /\ Remembers(e) /\ ChannelsKnown(e) /\ Remembers(p) /\ ChannelsKnown(p)
        /\ KnownTo(p)' = KnownTo(p)
    BY <1>1, EndsKept
  <1>3. /\ Gone(ch.remote) \in Frames /\ Gone(ch.remote).kind = "gone"
        /\ Gone(ch.remote).receiver = ch.remote
    BY FrameFields DEF Types, Pairs
  <1>4. wire' = wire \/ wire' = [wire EXCEPT ![e] = @ \o <<Gone(ch.remote)>>]
    BY DEF DropChannel, SendFrame, Sent, NotSent
  <1>5. wire'[p] = wire[p] /\ (wire'[e] = wire[e] \/ wire'[e] = wire[e] \o <<Gone(ch.remote)>>)
    BY <1>1, <1>4 DEF Types
  <1>6. ASSUME Listening(p)'
        PROVE  \/ ch.remote \in KnownTo(p)'
               \/ \E j \in DOMAIN wire[e] : wire[e][j].kind = "accept" /\ wire[e][j].receiver = ch.remote
    <2>1. Listening(p)
      BY <1>1, <1>6 DEF Worse, Listening
    <2>2. CASE Met(p, ch.remote, ch.id)
      <3>1. [id |-> ch.remote, remote |-> ch.id].id = ch.remote
        OBVIOUS
      <3> QED
        BY <1>2, <2>2, <3>1 DEF Met, KnownTo
    <2>3. CASE OnIt(wire[e], Accept(ch.remote, ch.id))
      <3>1. Accept(ch.remote, ch.id).kind = "accept" /\ Accept(ch.remote, ch.id).receiver = ch.remote
        BY DEF Accept
      <3> QED
        BY <2>3, <3>1 DEF OnIt
    <2> QED
      BY <1>1, <2>1, <2>2, <2>3 DEF Facing
  <1>7. WireKnown(e)
    <2>1. CASE wire'[e] = wire[e] \o <<Gone(ch.remote)>>
      BY <1>3, <1>6, <2>1 DEF WireKnown, SendsKnown
    <2> QED
      BY <1>5, <2>1 DEF WireKnown
  <1>8. WireKnown(p)
    BY <1>5 DEF WireKnown
  <1> QED
    BY <1>1, <1>2, <1>7, <1>8 DEF Acquainted

(* What is buried stays buried. *)
LEMMA BuryKeeps ==
  ASSUME Types, Histories, NEW e \in Endpoints, NEW ids \in Seq(Ids), Bury(e, ids)
  PROVE  /\ Buried(e) \union {ids[i] : i \in DOMAIN ids} \subseteq Buried(e)'
         /\ \A x \in Endpoints \ {e} : tombs'[x] = tombs[x] /\ evicted'[x] = evicted[x]
         /\ evicted'[e] \in SUBSET Ids /\ evicted[e] \subseteq evicted'[e]
         /\ evicted' \in [Endpoints -> SUBSET Ids]
  <1> DEFINE all == tombs[e] \o ids
             over == IF Len(all) > MaxTombs THEN Len(all) - MaxTombs ELSE 0
             kept == SubSeq(all, over + 1, Len(all))
             out == {all[i] : i \in 1..over}
  <1>1. /\ tombs[e] \in Seq(Ids) /\ all \in Seq(Ids) /\ Len(all) \in Nat /\ DOMAIN all = 1..Len(all)
        /\ Len(all) = Len(tombs[e]) + Len(ids)
    BY DEF Types
  <1>2. /\ \A i \in DOMAIN tombs[e] : i \in DOMAIN all /\ all[i] = tombs[e][i]
        /\ \A i \in DOMAIN ids : Len(tombs[e]) + i \in DOMAIN all /\ all[Len(tombs[e]) + i] = ids[i]
    BY <1>1
  <1>3. tombs'[e] = kept /\ evicted'[e] = evicted[e] \union out
    BY DEF Bury, all, Types, Histories
  <1> HIDE DEF all
  <1>4. over \in Nat /\ over <= Len(all)
    BY <1>1, Limits
  <1>5. DOMAIN kept = 1..(Len(all) - over) /\ \A i \in 1..(Len(all) - over) : kept[i] = all[over + i]
    BY <1>1, <1>4
  <1>6. out \subseteq Ids
    BY <1>1, <1>4
  <1> HIDE DEF over, kept
  <1>7. ASSUME NEW i \in DOMAIN all PROVE all[i] \in Buried(e)'
    <2>1. CASE i <= over
      <3>1. i \in 1..over
        BY <1>1, <1>4, <2>1
      <3>2. all[i] \in evicted'[e]
        BY <1>3, <3>1
      <3> QED
        BY <3>2 DEF Buried
    <2>2. CASE ~(i <= over)
      <3>1. i - over \in 1..(Len(all) - over) /\ over + (i - over) = i
        BY <1>1, <1>4, <2>2
      <3>2. i - over \in DOMAIN tombs'[e] /\ tombs'[e][i - over] = all[i]
        BY <1>3, <1>5, <3>1
      <3> QED
        BY <3>2 DEF Buried
    <2> QED
      BY <2>1, <2>2
  <1>8. evicted[e] \subseteq Buried(e)'
    BY <1>3 DEF Buried
  <1>9. Buried(e) \union {ids[i] : i \in DOMAIN ids} \subseteq Buried(e)'
    <2>1. \A i \in DOMAIN tombs[e] : tombs[e][i] \in Buried(e)'
      BY <1>2, <1>7
    <2>2. \A i \in DOMAIN ids : ids[i] \in Buried(e)'
      BY <1>2, <1>7
    <2> QED
      BY <1>8, <2>1, <2>2 DEF Buried
  <1>10. \A x \in Endpoints \ {e} : tombs'[x] = tombs[x] /\ evicted'[x] = evicted[x]
    BY DEF Bury, Types, Histories
  <1>11. evicted' \in [Endpoints -> SUBSET Ids]
    <2>1. evicted' = [evicted EXCEPT ![e] = @ \union out]
      BY DEF Bury, out, over, all
    <2> QED
      BY <1>6, <2>1 DEF Histories
  <1> QED
    BY <1>3, <1>6, <1>9, <1>10, <1>11 DEF Histories

LEMMA CleanupChannelsStep ==
  ASSUME IInv, Histories, NEW e \in Endpoints, CleanupChannels(e)
  PROVE  (\A x \in Endpoints : Acquainted(x)) /\ evicted' \in [Endpoints -> SUBSET Ids]
  <1> DEFINE n == Cardinality(dropped[e])
             names == {ch.id : ch \in dropped[e]}
  <1>1. /\ Types /\ UNCHANGED wire /\ names \subseteq Ids
        /\ channels'[e] = channels[e] \ dropped[e]
        /\ \A x \in Endpoints \ {e} : channels'[x] = channels[x]
    BY DEF IInv, CleanupChannels, Types, Pairs
  <1>2. PICK ids \in [1..n -> names] :
           (\A i, j \in DOMAIN ids : ids[i] = ids[j] => i = j) /\ Bury(e, ids)
    BY DEF CleanupChannels
  <1>3. IsFiniteSet(dropped[e]) /\ n \in Nat
    BY <1>1, FS_Subset, FS_CardinalityType DEF IInv, Reservations, Reserved, Types
  <1>4. IsFiniteSet(names) /\ Cardinality(names) <= n /\ Cardinality(names) \in Nat
    <2>1. IsFiniteSet(names) /\ Cardinality(names) <= n
      <3> DEFINE name == [ch \in dropped[e] |-> ch.id]
      <3>1. name \in Surjection(dropped[e], names)
        BY DEF Surjection
      <3> QED
        BY <1>3, <3>1, FS_Surjection
    <2> QED
      BY <2>1, FS_CardinalityType
  <1>5. \A id \in names : \E i \in DOMAIN ids : ids[i] = id
    <2>1. ids \in Injection(1..n, names)
      BY <1>2 DEF Injection, IsInjective
    <2>2. IsFiniteSet(1..n) /\ Cardinality(1..n) = n
      BY <1>3, FS_Interval
    <2>3. n <= Cardinality(names)
      BY <1>4, <2>1, <2>2, FS_Injection
    <2>4. n = Cardinality(names)
      BY <1>3, <1>4, <2>3
    <2>5. ids \in Surjection(1..n, names)
      BY <1>4, <2>1, <2>2, <2>4, FS_Injection
    <2> QED
      BY <2>5 DEF Surjection
  <1>6. ids \in Seq(Ids)
    BY <1>1, <1>2, <1>3
  <1> HIDE DEF names, n
  <1>7. /\ Buried(e) \union {ids[i] : i \in DOMAIN ids} \subseteq Buried(e)'
        /\ \A x \in Endpoints \ {e} : tombs'[x] = tombs[x] /\ evicted'[x] = evicted[x]
        /\ evicted' \in [Endpoints -> SUBSET Ids]
    BY <1>1, <1>2, <1>6, BuryKeeps
  <1>8. Acquainted(e)
    <2>1. ASSUME NEW ch \in channels[e] PROVE Met(e, ch.id, ch.remote)'
      <3>1. CASE ch \in dropped[e]
        <4>1. ch.id \in names
          BY <3>1 DEF names
        <4> QED
          BY <1>5, <1>7, <4>1 DEF Met
      <3>2. CASE ch \notin dropped[e]
        <4>1. ch \in channels'[e]
          BY <1>1, <3>2
        <4>2. ch = [id |-> ch.id, remote |-> ch.remote]
          BY <1>1 DEF Types, Pairs
        <4> QED
          BY <4>1, <4>2 DEF Met
      <3> QED
        BY <3>1, <3>2
    <2> QED
      BY <1>1, <1>7, <2>1 DEF Acquainted, Remembers, WireKnown, ChannelsKnown
  <1>9. ASSUME NEW x \in Endpoints \ {e} PROVE Acquainted(x)
    <2>1. SameEnds(x)
      BY <1>1, <1>7 DEF SameEnds
    <2> QED
      BY <1>1, <2>1, EndsKept DEF Acquainted, WireKnown
  <1> QED
    BY <1>7, <1>8, <1>9

(* The endpoint that accepts tells the peer which channel it made. *)
LEMMA AcceptStep ==
  ASSUME Types, NEW e \in Endpoints, HandleAccept(e)
  PROVE  \A x \in Endpoints : Acquainted(x)
  <1>0. PICK r, id : r = Head(cmds[e]).remote /\ id = nextId[e]
    OBVIOUS
  <1> DEFINE ch == [id |-> id, remote |-> r]
  <1>1. /\ Head(cmds[e]) \in Commands /\ Head(cmds[e]).kind = "accept"
        /\ UNCHANGED <<tombs, evicted>>
    BY CommandTaken DEF HandleAccept, tombVars
  <1>2. r \in Ids /\ id \in Ids
    BY <1>0, <1>1 DEF Commands, Types
  <1>3. /\ Reject(r) \in Frames /\ Reject(r).kind = "reject"
        /\ Accept(r, id) \in Frames /\ Accept(r, id).kind = "accept"
        /\ Accept(r, id).receiver = r /\ Accept(r, id).sender = id
    BY <1>2, FrameFields
  <1>4. \/ /\ wire' = wire \/ wire' = [wire EXCEPT ![e] = @ \o <<Reject(r)>>]
           /\ channels' = channels
        \/ /\ wire' = [wire EXCEPT ![e] = @ \o <<Accept(r, id)>>]
           /\ channels' = [channels EXCEPT ![e] = @ \union {ch}]
    BY <1>0 DEF HandleAccept, SendFrame, Sent, NotSent
  <1>5. CASE /\ wire' = wire \/ wire' = [wire EXCEPT ![e] = @ \o <<Reject(r)>>]
             /\ channels' = channels
    <2>1. /\ \A x \in Endpoints \ {e} : wire'[x] = wire[x]
          /\ wire'[e] = wire[e] \/ wire'[e] = wire[e] \o <<Reject(r)>>
      BY <1>5 DEF Types
    <2> QED
      BY <1>1, <1>3, <1>5, <2>1, NothingNew
  <1>6. CASE /\ wire' = [wire EXCEPT ![e] = @ \o <<Accept(r, id)>>]
             /\ channels' = [channels EXCEPT ![e] = @ \union {ch}]
    <2>1. /\ wire'[e] = wire[e] \o <<Accept(r, id)>> /\ channels'[e] = channels[e] \union {ch}
          /\ \A x \in Endpoints \ {e} : wire'[x] = wire[x] /\ channels'[x] = channels[x]
      BY <1>6 DEF Types
    <2>2. Buried(e)' = Buried(e)
      BY <1>1 DEF Buried
    <2>3. Remembers(e)
      <3>1. ASSUME NEW c \in channels[e] PROVE Met(e, c.id, c.remote)'
        <4>1. c = [id |-> c.id, remote |-> c.remote]
          BY DEF Types, Pairs
        <4> QED
          BY <2>1, <4>1 DEF Met
      <3> QED
        BY <2>2, <3>1 DEF Remembers
    <2>4. WireKnown(e)
      <3>1. Met(e, id, r)'
        BY <2>1 DEF Met
      <3> QED
        BY <1>3, <2>1, <3>1 DEF WireKnown, SendsKnown
    <2>5. ChannelsKnown(e)
      <3>1. OnIt(wire'[e], Accept(r, id))
        <4>1. Len(wire[e]) + 1 \in DOMAIN wire'[e] /\ wire'[e][Len(wire[e]) + 1] = Accept(r, id)
          BY <2>1 DEF Types
        <4> QED
          BY <4>1 DEF OnIt
      <3>2. ch.id = id /\ ch.remote = r
        OBVIOUS
      <3> QED
        BY <2>1, <3>1, <3>2 DEF ChannelsKnown
    <2>6. ASSUME NEW x \in Endpoints \ {e} PROVE Acquainted(x)
      <3>1. SameEnds(x)
        BY <1>1, <2>1 DEF SameEnds
      <3> QED
        BY <2>1, <3>1, EndsKept DEF Acquainted, WireKnown
    <2> QED
      BY <2>3, <2>4, <2>5, <2>6 DEF Acquainted
  <1> QED
    BY <1>4, <1>5, <1>6

(* A request, a rejection or a last frame is taken. *)
LEMMA PlainFrameStep ==
  ASSUME Types, NEW e \in Endpoints,
         \/ HandleRequest(e) \/ HandleRejectCancelled(e) \/ HandleGone(e)
         \/ \E q \in requests[e] : HandleReject(e, q)
  PROVE  \A x \in Endpoints : Acquainted(x)
  <1> DEFINE p == Peer(e)
  <1>1. /\ p \in Endpoints /\ p # e /\ Endpoints = {e, p}
        /\ wire[p] # <<>> /\ Head(wire[p]).kind \in {"request", "reject", "gone"}
        /\ UNCHANGED <<channels, tombs, evicted>>
    BY Peers DEF HandleRequest, HandleRejectCancelled, HandleGone, HandleReject, Received, tombVars
  <1>2. Head(wire[p]) \in Frames
    BY <1>1 DEF Types
  <1>3. /\ wire'[p] = Tail(wire[p])
        /\ \/ wire'[e] = wire[e]
           \/ \E f \in Frames : f.kind = "reject" /\ wire'[e] = wire[e] \o <<f>>
    <2>1. CASE Take(e)
      BY <1>1, <2>1 DEF Take, Types
    <2>2. ASSUME Head(wire[p]).kind = "request", TakeSend(e, <<Reject(Frame(e).sender)>>, "failed")
          PROVE  /\ wire'[p] = Tail(wire[p])
                 /\ \/ wire'[e] = wire[e]
                    \/ \E f \in Frames : f.kind = "reject" /\ wire'[e] = wire[e] \o <<f>>
      <3>1. PICK r : r = Frame(e).sender
        OBVIOUS
      <3>2. r \in Ids
        BY <1>2, <2>2, <3>1 DEF Frame, Frames
      <3>3. TakeSend(e, <<Reject(r)>>, "failed")
        BY <2>2, <3>1
      <3>4. /\ wire'[p] = Tail(wire[p])
            /\ wire'[e] = wire[e] \/ wire'[e] = wire[e] \o <<Reject(r)>>
        BY <3>3, TakeSendWire
      <3> QED
        BY <3>2, <3>4, FrameFields
    <2>3. Take(e) \/ (HandleRequest(e) /\ TakeSend(e, <<Reject(Frame(e).sender)>>, "failed"))
      BY DEF HandleRequest, HandleRejectCancelled, HandleGone, HandleReject, Violation
    <2> QED
      BY <2>1, <2>2, <2>3 DEF HandleRequest, Received
  <1>4. WireKnown(p) /\ WireKnown(e)
    BY <1>1, <1>3, PlainSend, PlainTake DEF WireKnown
  <1>5. ASSUME NEW x \in Endpoints PROVE Remembers(x) /\ ChannelsKnown(x)
    <2>1. SameEnds(x)
      BY <1>1 DEF SameEnds
    <2> QED
      BY <2>1, EndsKept
  <1> QED
    BY <1>1, <1>4, <1>5 DEF Acquainted

(* The endpoint whose request was accepted finds the channel at the peer. *)
LEMMA AcceptFrameStep ==
  ASSUME Types, Meeting, Worse, NEW e \in Endpoints, NEW q \in requests[e], HandleAcceptFrame(e, q)
  PROVE  \A x \in Endpoints : Acquainted(x)
  <1>0. PICK s : s = Frame(e).sender
    OBVIOUS
  <1> DEFINE p == Peer(e)
             ch == [id |-> q.id, remote |-> s]
  <1>1. /\ p \in Endpoints /\ p # e /\ Endpoints = {e, p} /\ Peer(p) = e
        /\ wire[p] # <<>> /\ Frame(e) = Head(wire[p]) /\ Head(wire[p]).kind = "accept"
        /\ q.id = Frame(e).receiver
        /\ UNCHANGED <<tombs, evicted>>
    BY Peers DEF HandleAcceptFrame, Received, Frame, tombVars
  <1>2. /\ wire[p] \in Seq(Frames) /\ Head(wire[p]) \in Frames /\ Head(wire[p]) = wire[p][1]
        /\ 1 \in DOMAIN wire[p]
    BY <1>1 DEF Types
  <1>3. q.id \in Ids /\ s \in Ids
    BY <1>0, <1>1, <1>2 DEF Frames
  <1>4. /\ channels'[e] = channels[e] \union {ch} /\ channels'[p] = channels[p]
    BY <1>0, <1>1 DEF HandleAcceptFrame, Types
  <1>5. SameEnds(p)
    BY <1>1, <1>4 DEF SameEnds
  <1>6. Remembers(p) /\ ChannelsKnown(p) /\ KnownTo(p)' = KnownTo(p)
        /\ \A i, r : Met(p, i, r) => Met(p, i, r)'
    BY <1>1, <1>5, EndsKept
  <1>7. ASSUME Listening(p)' PROVE Met(p, s, q.id)' /\ s \in KnownTo(p)'
    <2>1. Listening(p)
      BY <1>1, <1>7 DEF Worse, Listening
    <2>2. Met(p, wire[p][1].sender, wire[p][1].receiver)
      BY <1>1, <1>2, <2>1 DEF Meeting, Announced
    <2>3. Met(p, s, q.id)
      BY <1>0, <1>1, <1>2, <2>2
    <2>4. [id |-> s, remote |-> q.id].id = s
      OBVIOUS
    <2> QED
      BY <1>6, <2>3, <2>4 DEF Met, KnownTo
  <1>8. /\ wire'[p] = Tail(wire[p]) /\ (wire'[e] = wire[e] \/ wire'[e] = wire[e] \o <<Gone(s)>>)
    <2>1. CASE Take(e)
      BY <1>1, <2>1 DEF Take, Types
    <2>2. TakeSend(e, <<Gone(s)>>, "closing") \/ Take(e)
      BY <1>0 DEF HandleAcceptFrame
    <2> QED
      BY <2>1, <2>2, TakeSendWire
  <1>9. Met(e, q.id, s)'
    BY <1>4 DEF Met
  <1>10. WireKnown(p)
    <2>1. Head(wire[p]).receiver = q.id /\ Head(wire[p]).sender = s
      BY <1>0, <1>1
    <2> QED
      BY <1>1, <1>2, <1>8, <1>9, <2>1 DEF WireKnown, LosesKnown
  <1>11. WireKnown(e)
    <2>1. Gone(s) \in Frames /\ Gone(s).kind = "gone" /\ Gone(s).receiver = s
      BY <1>3, FrameFields
    <2> QED
      BY <1>1, <1>7, <1>8, <2>1 DEF WireKnown, SendsKnown
  <1>12. Remembers(e)
    <2>1. Buried(e)' = Buried(e)
      BY <1>1 DEF Buried
    <2>2. ASSUME NEW c \in channels[e] PROVE Met(e, c.id, c.remote)'
      <3>1. c = [id |-> c.id, remote |-> c.remote]
        BY DEF Types, Pairs
      <3> QED
        BY <1>4, <3>1 DEF Met
    <2> QED
      BY <2>1, <2>2 DEF Remembers
  <1>13. ChannelsKnown(e)
    <2>1. ch.id = q.id /\ ch.remote = s
      OBVIOUS
    <2> QED
      BY <1>1, <1>4, <1>7, <2>1 DEF ChannelsKnown
  <1> QED
    BY <1>1, <1>6, <1>10, <1>11, <1>12, <1>13 DEF Acquainted

(* A channel that comes too late is known as closed. *)
LEMMA AcceptCancelledStep ==
  ASSUME Types, Meeting, Worse, NEW e \in Endpoints, HandleAcceptCancelled(e)
  PROVE  (\A x \in Endpoints : Acquainted(x)) /\ evicted' \in [Endpoints -> SUBSET Ids]
  <1>0. PICK s, r : s = Frame(e).sender /\ r = Frame(e).receiver
    OBVIOUS
  <1> DEFINE p == Peer(e)
  <1>1. /\ p \in Endpoints /\ p # e /\ Endpoints = {e, p} /\ Peer(p) = e
        /\ wire[p] # <<>> /\ Frame(e) = Head(wire[p]) /\ Head(wire[p]).kind = "accept"
        /\ channels' = channels /\ Histories
    BY Peers DEF HandleAcceptCancelled, Received, Frame, Meeting
  <1>2. /\ wire[p] \in Seq(Frames) /\ Head(wire[p]) \in Frames /\ Head(wire[p]) = wire[p][1]
        /\ 1 \in DOMAIN wire[p]
    BY <1>1 DEF Types
  <1>3. r \in Ids /\ s \in Ids
    BY <1>0, <1>1, <1>2 DEF Frames
  <1>4. \/ /\ conn'[e] = "failed" /\ UNCHANGED <<tombs, evicted>>
           /\ wire'[p] = Tail(wire[p]) /\ wire'[e] = wire[e]
        \/ /\ Bury(e, <<r>>)
           /\ wire'[p] = Tail(wire[p]) /\ wire'[e] = wire[e] \o <<Gone(s)>>
    <2>1. CASE r \in cancelled[e]
      <3>1. /\ TakeSend(e, <<Gone(s)>>, "failed")
            /\ IF conn'[e] = "up" THEN Bury(e, <<r>>) ELSE UNCHANGED <<tombs, evicted>>
        BY <1>0, <2>1 DEF HandleAcceptCancelled
      <3> QED
        BY <3>1, TakeSendWire
    <2>2. CASE r \notin cancelled[e]
      <3>1. /\ wire' = [wire EXCEPT ![p] = Tail(@)] /\ conn' = [conn EXCEPT ![e] = "failed"]
            /\ UNCHANGED <<tombs, evicted>>
        BY <1>0, <2>2 DEF HandleAcceptCancelled, Violation, Take
      <3> QED
        BY <1>1, <3>1 DEF Types
    <2> QED
      BY <2>1, <2>2
  <1>5. <<r>> \in Seq(Ids) /\ DOMAIN <<r>> = {1} /\ <<r>>[1] = r
    BY <1>3
  <1>6. /\ Listening(e)' => Bury(e, <<r>>) /\ r \in Buried(e)'
        /\ Listening(e)' => Buried(e) \subseteq Buried(e)'
        /\ tombs'[p] = tombs[p] /\ evicted'[p] = evicted[p]
        /\ evicted' \in [Endpoints -> SUBSET Ids]
    <2>1. CASE conn'[e] = "failed" /\ UNCHANGED <<tombs, evicted>>
      BY <1>1, <2>1 DEF Listening, Histories
    <2>2. CASE Bury(e, <<r>>)
      BY <1>1, <1>5, <2>2, BuryKeeps
    <2> QED
      BY <1>4, <2>1, <2>2
  <1>7. SameEnds(p)
    BY <1>1, <1>6 DEF SameEnds
  <1>8. Remembers(p) /\ ChannelsKnown(p) /\ KnownTo(p)' = KnownTo(p)
        /\ \A i, j : Met(p, i, j) => Met(p, i, j)'
    BY <1>1, <1>7, EndsKept
  <1>9. ASSUME Listening(p)' PROVE s \in KnownTo(p)'
    <2>1. Listening(p)
      BY <1>1, <1>9 DEF Worse, Listening
    <2>2. Met(p, wire[p][1].sender, wire[p][1].receiver)
      BY <1>1, <1>2, <2>1 DEF Meeting, Announced
    <2>3. Met(p, s, r)
      BY <1>0, <1>1, <1>2, <2>2
    <2>4. [id |-> s, remote |-> r].id = s
      OBVIOUS
    <2> QED
      BY <1>8, <2>3, <2>4 DEF Met, KnownTo
  <1>10. Remembers(e) /\ ChannelsKnown(e)
    <2>1. ASSUME NEW c \in channels[e] PROVE Met(e, c.id, c.remote)'
      <3>1. c = [id |-> c.id, remote |-> c.remote]
        BY DEF Types, Pairs
      <3> QED
        BY <1>1, <3>1 DEF Met
    <2> QED
      BY <1>1, <1>6, <2>1 DEF Remembers, ChannelsKnown
  <1>11. WireKnown(p)
    <2>1. Head(wire[p]).receiver = r /\ Head(wire[p]).sender = s
      BY <1>0, <1>1
    <2>2. Listening(e)' => Met(e, r, s)'
      BY <1>6 DEF Met
    <2> QED
      BY <1>1, <1>2, <1>4, <2>1, <2>2 DEF WireKnown, LosesKnown
  <1>12. WireKnown(e)
    <2>1. Gone(s) \in Frames /\ Gone(s).kind = "gone" /\ Gone(s).receiver = s
      BY <1>3, FrameFields
    <2> QED
      BY <1>1, <1>4, <1>9, <2>1 DEF WireKnown, SendsKnown
  <1> QED
    BY <1>1, <1>6, <1>8, <1>10, <1>11, <1>12 DEF Acquainted

LEMMA EndStep ==
  ASSUME Types, NEW e \in Endpoints, CloseState(e)
  PROVE  \A x \in Endpoints : Acquainted(x)
  <1>1. /\ CloseTables(e) /\ conn'[e] = "closed" /\ channels'[e] = {}
        /\ \A x \in Endpoints \ {e} : SameEnds(x)
    BY DEF CloseState, CloseTables, Types, SameEnds
  <1>2. PICK n \in 0..Len(wire[e]) : wire' = [wire EXCEPT ![e] = SubSeq(@, 1, n)]
    BY <1>1 DEF CloseTables
  <1>3. wire'[e] = SubSeq(wire[e], 1, n) /\ \A x \in Endpoints \ {e} : wire'[x] = wire[x]
    BY <1>2 DEF Types
  <1>4. Acquainted(e)
    <2>1. ~Listening(e)'
      BY <1>1 DEF Listening
    <2> QED
      BY <1>1, <1>3, <2>1 DEF Acquainted, Remembers, WireKnown, Ends, ChannelsKnown
  <1>5. \A x \in Endpoints \ {e} : Acquainted(x)
    BY <1>1, <1>3, EndsKept DEF Acquainted, WireKnown
  <1> QED
    BY <1>4, <1>5

-----------------------------------------------------------------------------
MInv == AInv /\ Meeting

LEMMA MeetingKept == MInv /\ [Next]_vars => MInv'
  <1> SUFFICES ASSUME MInv, [Next]_vars PROVE MInv'
    OBVIOUS
  <1>1. AInv /\ AInv' /\ IInv /\ Types /\ Types' /\ Meeting /\ Histories
    BY AnswersKept DEF MInv, AInv, IInv, Meeting
  <1>2. CASE UNCHANGED vars
    <2>1. UNCHANGED <<conn, channels, wire, tombs, evicted, unknown>>
      BY <1>2 DEF vars, tombVars
    <2>2. Histories'
      BY <1>1, <2>1 DEF Histories
    <2>3. ASSUME NEW x \in Endpoints PROVE Facing(x)' /\ Announced(x)' /\ Expected(x)'
      <3>1. Facing(x)'
        BY <1>1, <2>1 DEF Meeting, Facing, Listening, Met, Buried
      <3>2. Announced(x)'
        BY <1>1, <2>1 DEF Meeting, Announced, Listening, Met, Buried
      <3>3. Expected(x)'
        BY <1>1, <2>1 DEF Meeting, Expected, Listening, KnownTo, Buried
      <3> QED
        BY <3>1, <3>2, <3>3
    <2> QED
      BY <1>1, <2>2, <2>3 DEF MInv, Meeting
  <1>3. CASE Next
    <2>1. Worse
      BY <1>1, <1>3, StatusWorse
    <2>2. \A x \in Endpoints : Acquainted(x)
      <3>1. ASSUME NEW e \in Endpoints, Loop(e) PROVE \A x \in Endpoints : Acquainted(x)
        BY <1>1, <2>1, <3>1, TaskSteps, CleanupChannelsStep, AcceptStep, PlainFrameStep,
           AcceptFrameStep, AcceptCancelledStep, EndStep DEF Loop
      <3>2. ASSUME NEW e \in Endpoints, NEW ch \in channels[e], DropChannel(e, ch)
            PROVE  \A x \in Endpoints : Acquainted(x)
        BY <1>1, <2>1, <3>2, DropStep
      <3> QED
        BY <1>1, <1>3, <3>1, <3>2, TaskSteps DEF Next
    <2>3. evicted' \in [Endpoints -> SUBSET Ids]
      <3>1. ASSUME NEW e \in Endpoints, CleanupChannels(e) \/ HandleAcceptCancelled(e)
            PROVE  evicted' \in [Endpoints -> SUBSET Ids]
        BY <1>1, <2>1, <3>1, CleanupChannelsStep, AcceptCancelledStep
      <3>2. ASSUME NEW e \in Endpoints, Loop(e), ~CleanupChannels(e), ~HandleAcceptCancelled(e)
            PROVE  evicted' = evicted
        BY <3>2 DEF Loop, CleanupCancelledOpens, HandleOpen, HandleAccept, HandleRequest, HandleAcceptFrame,
                    HandleReject, HandleRejectCancelled, HandleGone, CloseState, CloseTables, tombVars
      <3>3. ASSUME \A e \in Endpoints : ~Loop(e) PROVE evicted' = evicted
        BY <1>3, <3>3 DEF Next, Open, Cancel, Holder, GoDown, DropChannel, AcceptRequest, RejectRequest, tombVars
      <3> QED
        BY <1>1, <3>1, <3>2, <3>3 DEF Histories
    <2>4. unknown' \in [Endpoints -> SUBSET Ids]
      <3>1. ASSUME NEW e \in Endpoints, HandleGone(e) PROVE unknown' \in [Endpoints -> SUBSET Ids]
        <4>1. Frame(e) \in Frames /\ Frame(e).kind = "gone"
          BY <1>1, <3>1, Peers DEF HandleGone, Received, Frame, Types
        <4>2. Frame(e).receiver \in Ids
          BY <4>1 DEF Frames
        <4>3. unknown' = unknown \/ unknown' = [unknown EXCEPT ![e] = @ \union {Frame(e).receiver}]
          BY <1>1, <3>1 DEF HandleGone, Histories
        <4> QED
          BY <1>1, <4>2, <4>3 DEF Histories
      <3>2. ASSUME NEW e \in Endpoints, Loop(e), ~HandleGone(e) PROVE unknown' = unknown
        BY <3>2 DEF Loop, CleanupCancelledOpens, HandleOpen, HandleAccept, HandleRequest, HandleAcceptFrame,
                    HandleReject, HandleRejectCancelled, CloseState, CloseTables, tombVars,
                    CleanupChannels, HandleAcceptCancelled
      <3>3. ASSUME \A e \in Endpoints : ~Loop(e) PROVE unknown' = unknown
        BY <1>3, <3>3 DEF Next, Open, Cancel, Holder, GoDown, DropChannel, AcceptRequest, RejectRequest, tombVars
      <3> QED
        BY <1>1, <3>1, <3>2, <3>3 DEF Histories
    <2>5. ASSUME NEW x \in Endpoints PROVE Facing(x)' /\ Announced(x)' /\ Expected(x)'
      <3>1. Peer(x) \in Endpoints /\ Peer(Peer(x)) = x
        BY Peers
      <3>2. Facing(x)' /\ Announced(x)'
        BY <1>1, <2>1, <2>2, <3>1, MeetingStep DEF Meeting, Acquainted
      <3>3. Facing(Peer(x)) /\ Announced(Peer(x)) /\ Expected(Peer(Peer(x)))
        BY <3>1, <1>1 DEF Meeting
      <3>4. Expected(Peer(Peer(x)))'
        BY <1>1, <2>1, <2>2, <3>1, <3>3, MeetingStep DEF Acquainted
      <3> QED
        BY <3>1, <3>2, <3>4
    <2> QED
      BY <1>1, <2>3, <2>4, <2>5 DEF MInv, Meeting, Histories
  <1> QED
    BY <1>2, <1>3

LEMMA MeetingInvariance == Spec => []MInv
  <1>1. Init => MInv
    <2> SUFFICES ASSUME Init PROVE Meeting
      BY Initially, AnswersInitially DEF MInv, AInv
    <2>1. Histories
      BY DEF Init, Histories
    <2>2. \A x \in Endpoints : wire[x] = <<>> /\ channels[x] = {}
      BY DEF Init
    <2>3. \A x \in Endpoints : wire[Peer(x)] = <<>>
      BY <2>2, Peers
    <2> QED
      BY <2>1, <2>2, <2>3 DEF Meeting, Facing, Announced, Expected, Preceded
  <1> QED
    BY <1>1, MeetingKept, PTL DEF Spec

-----------------------------------------------------------------------------
LEMMA LateFramesStep == MInv /\ LateFramesKnown /\ [Next]_vars => LateFramesKnown'
  <1> SUFFICES ASSUME MInv, LateFramesKnown, [Next]_vars PROVE LateFramesKnown'
    OBVIOUS
  <1>1. IInv /\ Types /\ Meeting /\ Histories
    BY DEF MInv, AInv, IInv, Meeting
  <1>2. ASSUME NEW e \in Endpoints, HandleGone(e) PROVE LateFramesKnown'
    <2> DEFINE p == Peer(e)
               id == Frame(e).receiver
    <2>1. /\ Listening(e) /\ p \in Endpoints /\ wire[p] \in Seq(Frames) /\ 1 \in DOMAIN wire[p]
          /\ wire[p][1].kind = "gone" /\ id = wire[p][1].receiver /\ evicted' = evicted
      BY <1>1, <1>2, Peers DEF HandleGone, Received, Frame, Listening, Types
    <2>2. id \in KnownTo(e)
      BY <1>1, <2>1 DEF Meeting, Expected, Preceded
    <2>3. /\ unknown' = [unknown EXCEPT ![e] =
                IF id \in {ch.id : ch \in channels[e]} \union {tombs[e][i] : i \in DOMAIN tombs[e]}
                THEN @ ELSE @ \union {id}]
      BY <1>2 DEF HandleGone
    <2> HIDE DEF id
    <2>4. unknown'[e] \subseteq unknown[e] \union evicted[e]
      BY <1>1, <2>2, <2>3 DEF Histories, KnownTo, Buried
    <2>5. \A x \in Endpoints \ {e} : unknown'[x] = unknown[x]
      BY <1>1, <2>3 DEF Histories
    <2> QED
      BY <2>1, <2>4, <2>5 DEF LateFramesKnown
  <1>3. ASSUME NEW e \in Endpoints, NEW ids \in Seq(Ids), Bury(e, ids), unknown' = unknown
        PROVE  LateFramesKnown'
    BY <1>1, <1>3, BuryKeeps DEF LateFramesKnown
  <1>4. ASSUME NEW e \in Endpoints, CleanupChannels(e) PROVE LateFramesKnown'
    <2>1. PICK ids \in [1..Cardinality(dropped[e]) -> {ch.id : ch \in dropped[e]}] : Bury(e, ids)
      BY <1>4 DEF CleanupChannels
    <2>2. {ch.id : ch \in dropped[e]} \subseteq Ids /\ Cardinality(dropped[e]) \in Nat
      BY <1>1, FS_Subset, FS_CardinalityType DEF IInv, Reservations, Reserved, Types, Pairs
    <2>3. ids \in Seq(Ids)
      BY <2>2
    <2> QED
      BY <1>3, <1>4, <2>1, <2>3 DEF CleanupChannels
  <1>5. ASSUME NEW e \in Endpoints, HandleAcceptCancelled(e) PROVE LateFramesKnown'
    <2>1. Frame(e) \in Frames /\ Frame(e).kind = "accept"
      BY <1>1, <1>5, Peers DEF HandleAcceptCancelled, Received, Frame, Types
    <2>2. <<Frame(e).receiver>> \in Seq(Ids)
      BY <2>1 DEF Frames
    <2>3. Bury(e, <<Frame(e).receiver>>) \/ evicted' = evicted
      BY <1>5 DEF HandleAcceptCancelled
    <2>4. unknown' = unknown
      BY <1>5 DEF HandleAcceptCancelled
    <2> QED
      BY <1>3, <2>2, <2>3, <2>4 DEF LateFramesKnown
  <1>6. CASE UNCHANGED <<evicted, unknown>>
    BY <1>6 DEF LateFramesKnown
  <1>7. ASSUME NEW e \in Endpoints, Loop(e), ~HandleGone(e), ~CleanupChannels(e), ~HandleAcceptCancelled(e)
        PROVE  UNCHANGED <<evicted, unknown>>
    BY <1>7 DEF Loop, CleanupCancelledOpens, HandleOpen, HandleAccept, HandleRequest, HandleAcceptFrame,
                HandleReject, HandleRejectCancelled, CloseState, CloseTables, tombVars
  <1>8. ASSUME \A e \in Endpoints : ~Loop(e) PROVE UNCHANGED <<evicted, unknown>>
    BY <1>8 DEF Next, Open, Cancel, Holder, GoDown, DropChannel, AcceptRequest, RejectRequest, tombVars, vars
  <1> QED
    BY <1>2, <1>4, <1>5, <1>6, <1>7, <1>8

(* Whatever is cancelled, refused, dropped or forgotten, no endpoint ever  *)
(* takes a frame of a correct peer for a protocol violation, and the last  *)
(* frames of a channel are recognised until its tombstone had to make room.*)
THEOREM PeersUnderstand == Spec => []PeerUnderstood
  <1>1. Init => NoViolation /\ LateFramesKnown
    BY DEF Init, NoViolation, LateFramesKnown
  <1>2. MInv => AInv
    BY DEF MInv
  <1>3. NoViolation /\ LateFramesKnown => PeerUnderstood
    BY DEF PeerUnderstood
  <1> QED
    BY <1>1, <1>2, <1>3, MeetingInvariance, NoFault, LateFramesStep, PTL DEF Spec

-----------------------------------------------------------------------------
(* Which request answers which call.                                       *)

Undecided(e) == {c \in Calls : Caller[c] = e /\ result[c] \in {"waiting", "cancelled"}}

Free(e) == Undecided(e) \ CallsRequested(e)

(* Each command to open in w is the only one of its call, one in free. *)
Placed(w, free) ==
    /\ \A i \in DOMAIN w : w[i].kind = "open" => w[i].call \in free
    /\ \A i, j \in DOMAIN w : w[i].kind = "open" /\ w[i] = w[j] => i = j

(* A call waits in its own endpoint, as a command or as a request. *)
CallsPlaced ==
    \A e \in Endpoints :
        /\ Placed(cmds[e], Free(e))
        /\ \A q \in requests[e] : q.call \in Undecided(e) /\ idOf[q.call] = q.id

(* Request id of endpoint x is over, and made n channels. *)
Settled(x, id, n) ==
    id \in Ids /\ id < nextId[x] /\ Underway(x, id) = 0 /\ Called(Peer(x), id) = n

Outcomes ==
    \A c \in Calls :
        /\ result[c] = "ok" => Settled(Caller[c], idOf[c], 1)
        /\ result[c] = "rejected" => Settled(Caller[c], idOf[c], 0)

CallsTyped == idOf \in [Calls -> Nat]

CInv == AInv /\ CallsTyped /\ CallsPlaced /\ Outcomes

LEMMA PlacedTail ==
  ASSUME NEW w \in Seq(Commands), w # <<>>, NEW free, Placed(w, free), NEW more,
         \A c \in free : c \in more \/ Head(w) = OpenChannel(c)
  PROVE  Placed(Tail(w), more)
  <1> DEFINE t == Tail(w)
  <1>1. /\ DOMAIN t = 1..Len(t) /\ DOMAIN w = 1..Len(w) /\ Len(t) = Len(w) - 1 /\ Len(w) \in Nat
        /\ Len(w) > 0 /\ Head(w) = w[1] /\ \A i \in DOMAIN t : t[i] = w[i + 1]
    OBVIOUS
  <1> HIDE DEF t
  <1>2. \A i \in DOMAIN t : i + 1 \in DOMAIN w /\ 1 \in DOMAIN w /\ i + 1 # 1
    BY <1>1
  <1>3. ASSUME NEW i \in DOMAIN t, t[i].kind = "open" PROVE t[i].call \in more
    <2>1. w[i + 1].call \in free /\ w[i + 1] # w[1] /\ w[i + 1] = t[i]
      BY <1>1, <1>2, <1>3 DEF Placed
    <2>2. t[i] \in Commands
      BY <1>2, <2>1
    <2>3. t[i] = OpenChannel(t[i].call)
      BY <1>3, <2>2 DEF Commands, OpenChannel
    <2> QED
      BY <1>1, <2>1, <2>3
  <1>4. ASSUME NEW i \in DOMAIN t, NEW j \in DOMAIN t, t[i].kind = "open", t[i] = t[j] PROVE i = j
    <2>1. i + 1 = j + 1
      BY <1>1, <1>2, <1>4 DEF Placed
    <2> QED
      BY <1>1, <2>1
  <1> QED
    BY <1>3, <1>4 DEF Placed, t

LEMMA PlacedMore ==
  ASSUME NEW w \in Seq(Commands), NEW free, Placed(w, free), NEW more, free \subseteq more,
         NEW f \in Commands, f.kind = "open" => f.call \in more \ free
  PROVE  Placed(Append(w, f), more)
  <1> DEFINE v == Append(w, f)
  <1>1. /\ v[Len(w) + 1] = f /\ \A j \in DOMAIN w : v[j] = w[j]
        /\ DOMAIN v = DOMAIN w \union {Len(w) + 1} /\ Len(w) + 1 \notin DOMAIN w
    OBVIOUS
  <1> HIDE DEF v
  <1> QED
    BY <1>1 DEF Placed, v

LEMMA PlacedWider ==
  ASSUME NEW w, NEW free, Placed(w, free), NEW more, free \subseteq more
  PROVE  Placed(w, more)
  BY DEF Placed

(* Nothing about the calls of x changes, or what does leaves them in place.*)
LEMMA StaysPlaced ==
  ASSUME NEW x \in Endpoints, Placed(cmds[x], Free(x)), cmds'[x] = cmds[x], Free(x) \subseteq Free(x)'
  PROVE  Placed(cmds'[x], Free(x)')
  BY PlacedWider

LEMMA SameCalls ==
  ASSUME CallsPlaced, UNCHANGED <<result, idOf>>, NEW x \in Endpoints, requests'[x] \subseteq requests[x]
  PROVE  /\ Free(x) \subseteq Free(x)'
         /\ \A q \in requests'[x] : q.call \in Undecided(x)' /\ idOf'[q.call] = q.id
  BY DEF CallsPlaced, Free, Undecided, CallsRequested

LEMMA TasksPlaced ==
  ASSUME Types, CallsTyped, CallsPlaced, NEW c \in Calls, Open(c) \/ Cancel(c)
  PROVE  CallsPlaced'
  <1> DEFINE e == Caller[c]
  <1>1. e \in Endpoints /\ OpenChannel(c) \in Commands /\ OpenChannel(c).call = c
    BY LifecycleAssumption DEF OpenChannel, Commands
  <1>2. UNCHANGED <<requests, idOf>> /\ \A d \in Calls \ {c} : result'[d] = result[d]
    BY DEF Open, Cancel, Types
  <1>3. \A x \in Endpoints : CallsRequested(x)' = CallsRequested(x)
    BY <1>2 DEF CallsRequested
  <1>4. \A x \in Endpoints \ {e} : Undecided(x)' = Undecided(x)
    BY <1>2 DEF Undecided
  <1>5. Undecided(e) \subseteq Undecided(e)'
    <2>1. result[c] = "idle" \/ (result[c] = "waiting" /\ result'[c] = "cancelled")
      BY DEF Open, Cancel, Types
    <2> QED
      BY <1>2, <2>1 DEF Undecided
  <1>6. ASSUME NEW x \in Endpoints PROVE Placed(cmds'[x], Free(x)')
    <2>1. Placed(cmds[x], Free(x)) /\ Free(x) \subseteq Free(x)'
      BY <1>3, <1>4, <1>5 DEF CallsPlaced, Free
    <2>2. CASE cmds'[x] = cmds[x]
      BY <2>1, <2>2, StaysPlaced
    <2>3. CASE cmds'[x] # cmds[x]
      <3>1. SendCmd(e, OpenChannel(c)) /\ result' = [result EXCEPT ![c] = "waiting"] /\ result[c] = "idle"
        BY <2>3 DEF Open, Cancel, CmdNotSent
      <3>2. x = e /\ cmds'[x] = Append(cmds[x], OpenChannel(c)) /\ cmds[x] \in Seq(Commands)
        BY <1>1, <2>3, <3>1 DEF SendCmd, Types
      <3>3. c \notin Free(x)
        BY <3>1 DEF Free, Undecided
      <3>4. c \in Free(x)'
        <4>1. result'[c] = "waiting"
          BY <3>1 DEF Types
        <4>2. c \notin CallsRequested(x)
          BY <3>1 DEF CallsPlaced, CallsRequested, Undecided
        <4> QED
          BY <1>3, <3>2, <4>1, <4>2 DEF Free, Undecided
      <3> QED
        BY <1>1, <2>1, <3>2, <3>3, <3>4, PlacedMore
    <2> QED
      BY <2>2, <2>3
  <1> QED
    BY <1>2, <1>4, <1>5, <1>6 DEF CallsPlaced

LEMMA HandleOpenPlaced ==
  ASSUME Types, CallsTyped, CallsPlaced, NEW e \in Endpoints, HandleOpen(e)
  PROVE  CallsPlaced'
  <1>0. PICK c, id : c = Head(cmds[e]).call /\ id = nextId[e]
    OBVIOUS
  <1>1. /\ cmds[e] # <<>> /\ Head(cmds[e]).kind = "open" /\ Head(cmds[e]) \in Commands
        /\ cmds'[e] = Tail(cmds[e]) /\ \A x \in Endpoints \ {e} : cmds'[x] = cmds[x]
        /\ cmds[e] \in Seq(Commands)
    BY CommandTaken DEF HandleOpen, Types
  <1>2. c \in Calls /\ Head(cmds[e]) = OpenChannel(c)
    BY <1>0, <1>1 DEF Commands, OpenChannel
  <1>3. Caller[c] = e /\ result[c] \in {"waiting", "cancelled"} /\ c \notin CallsRequested(e)
    <2>1. 1 \in DOMAIN cmds[e] /\ cmds[e][1] = Head(cmds[e])
      BY <1>1
    <2>2. c \in Free(e)
      BY <1>0, <1>1, <2>1 DEF CallsPlaced, Placed
    <2> QED
      BY <2>2 DEF Free, Undecided
  <1>4. \A d \in Calls \ {c} : result'[d] = result[d] /\ idOf'[d] = idOf[d]
    BY <1>0 DEF HandleOpen, Types, CallsTyped
  <1>5. \/ requests' = requests
        \/ /\ requests' = [requests EXCEPT ![e] = @ \union {[id |-> id, call |-> c]}]
           /\ result' = result /\ idOf' = [idOf EXCEPT ![c] = id]
    BY <1>0 DEF HandleOpen
  <1>6. ASSUME NEW x \in Endpoints \ {e}
        PROVE  /\ Placed(cmds'[x], Free(x)')
               /\ \A q \in requests'[x] : q.call \in Undecided(x)' /\ idOf'[q.call] = q.id
    <2>1. requests'[x] = requests[x]
      BY <1>5 DEF Types
    <2>2. Undecided(x)' = Undecided(x)
      BY <1>3, <1>4 DEF Undecided
    <2>3. Free(x)' = Free(x)
      BY <2>1, <2>2 DEF Free, CallsRequested
    <2>4. \A q \in requests[x] : q.call \in Undecided(x) /\ idOf'[q.call] = idOf[q.call]
      BY <1>3, <1>4 DEF CallsPlaced, Undecided
    <2> QED
      BY <1>1, <2>1, <2>2, <2>3, <2>4 DEF CallsPlaced
  <1>7. \A q \in requests[e] : q.call # c /\ q.call \in Undecided(e)' /\ idOf'[q.call] = q.id
    BY <1>3, <1>4 DEF CallsRequested, CallsPlaced, Undecided
  <1>8. \A q \in requests'[e] : q.call \in Undecided(e)' /\ idOf'[q.call] = q.id
    <2>1. CASE requests' = requests
      BY <1>7, <2>1
    <2>2. CASE /\ requests' = [requests EXCEPT ![e] = @ \union {[id |-> id, call |-> c]}]
               /\ result' = result /\ idOf' = [idOf EXCEPT ![c] = id]
      <3>1. requests'[e] = requests[e] \union {[id |-> id, call |-> c]} /\ idOf'[c] = id
        BY <1>2, <2>2 DEF Types, CallsTyped
      <3>2. c \in Undecided(e)'
        BY <1>2, <1>3, <2>2 DEF Undecided
      <3> QED
        BY <1>7, <3>1, <3>2
    <2> QED
      BY <1>5, <2>1, <2>2
  <1>9. ASSUME NEW d \in Free(e), d # c PROVE d \in Free(e)'
    <2>1. d \in Undecided(e)'
      BY <1>4, <1>9 DEF Free, Undecided
    <2>2. d \notin CallsRequested(e)'
      <3>1. \A q \in requests'[e] : q \in requests[e] \/ q.call = c
        BY <1>5 DEF Types
      <3> QED
        BY <1>9, <3>1 DEF Free, CallsRequested
    <2> QED
      BY <2>1, <2>2 DEF Free
  <1>10. Placed(cmds'[e], Free(e)')
    <2>1. Placed(cmds[e], Free(e))
      BY DEF CallsPlaced
    <2> QED
      BY <1>1, <1>2, <1>9, <2>1, PlacedTail
  <1> QED
    BY <1>6, <1>8, <1>10 DEF CallsPlaced

(* The answer to a request decides its call, and no other. *)
LEMMA AnswerPlaced ==
  ASSUME Types, Titles, CallsTyped, CallsPlaced, NEW e \in Endpoints, NEW q \in requests[e],
         HandleAcceptFrame(e, q) \/ HandleReject(e, q)
  PROVE  CallsPlaced'
  <1>1. /\ cmds' = cmds /\ idOf' = idOf /\ requests'[e] = requests[e] \ {q}
        /\ \A x \in Endpoints \ {e} : requests'[x] = requests[x]
        /\ \A d \in Calls \ {q.call} : result'[d] = result[d]
    BY DEF HandleAcceptFrame, HandleReject, Types
  <1>2. q.call \in Calls /\ Caller[q.call] = e
    BY DEF CallsPlaced, Undecided
  <1>3. ASSUME NEW x \in Endpoints \ {e} PROVE Undecided(x)' = Undecided(x) /\ Free(x)' = Free(x)
    BY <1>1, <1>2 DEF Undecided, Free, CallsRequested
  <1>4. \A r \in requests'[e] : r.call # q.call /\ r \in requests[e]
    BY <1>1 DEF CallsPlaced, Titles
  <1>5. \A r \in requests'[e] : r.call \in Undecided(e)' /\ idOf'[r.call] = r.id
    BY <1>1, <1>4 DEF CallsPlaced, Undecided
  <1>6. Free(e) \subseteq Free(e)'
    <2>1. ASSUME NEW d \in Free(e) PROVE d \in Free(e)'
      <3>1. d # q.call /\ d \in Undecided(e)'
        BY <1>1, <2>1 DEF Free, Undecided, CallsRequested
      <3>2. d \notin CallsRequested(e)'
        BY <1>1, <2>1 DEF Free, CallsRequested
      <3> QED
        BY <3>1, <3>2 DEF Free
    <2> QED
      BY <2>1
  <1> QED
    BY <1>1, <1>3, <1>5, <1>6, PlacedWider DEF CallsPlaced

LEMMA ClosePlaced ==
  ASSUME Types, CallsTyped, CallsPlaced, NEW e \in Endpoints, CloseState(e)
  PROVE  CallsPlaced'
  <1>1. /\ cmds'[e] = <<>> /\ requests'[e] = {} /\ idOf' = idOf
        /\ \A x \in Endpoints \ {e} : cmds'[x] = cmds[x] /\ requests'[x] = requests[x]
    BY DEF CloseState, CloseTables, Types
  <1>2. \A d \in Calls : result'[d] # result[d] => d \in CallsAt(e)
    BY DEF CloseState, CloseTables
  <1>3. \A d \in CallsAt(e) : Caller[d] = e
    BY DEF CallsAt, CallsPlaced, Placed, Free, Undecided
  <1>4. ASSUME NEW x \in Endpoints \ {e} PROVE Undecided(x)' = Undecided(x) /\ Free(x)' = Free(x)
    BY <1>1, <1>2, <1>3 DEF Undecided, Free, CallsRequested
  <1>5. Placed(cmds'[e], Free(e)')
    BY <1>1 DEF Placed
  <1> QED
    BY <1>1, <1>4, <1>5 DEF CallsPlaced

LEMMA OthersPlaced ==
  ASSUME Types, CallsTyped, CallsPlaced, NEW e \in Endpoints,
         \/ Holder(e) \/ GoDown(e) \/ (\E ch \in channels[e] : DropChannel(e, ch))
         \/ CleanupChannels(e) \/ CleanupCancelledOpens(e) \/ HandleAccept(e) \/ HandleRequest(e)
         \/ HandleAcceptCancelled(e) \/ HandleRejectCancelled(e) \/ HandleGone(e)
  PROVE  CallsPlaced' /\ UNCHANGED <<result, idOf>>
  <1>1. UNCHANGED <<result, idOf>> /\ \A x \in Endpoints : requests'[x] \subseteq requests[x]
    <2>1. CASE \/ Holder(e) \/ GoDown(e) \/ (\E ch \in channels[e] : DropChannel(e, ch))
               \/ CleanupChannels(e) \/ HandleAccept(e)
      BY <2>1 DEF Holder, AcceptRequest, RejectRequest, GoDown, DropChannel, CleanupChannels, HandleAccept,
                  callVars
    <2>2. CASE HandleRequest(e) \/ HandleAcceptCancelled(e) \/ HandleRejectCancelled(e) \/ HandleGone(e)
      BY <2>2 DEF HandleRequest, HandleAcceptCancelled, HandleRejectCancelled, HandleGone, callVars
    <2>3. CASE CleanupCancelledOpens(e)
      BY <2>3 DEF CleanupCancelledOpens, Types
    <2> QED
      BY <2>1, <2>2, <2>3
  <1>2. ASSUME NEW x \in Endpoints
        PROVE  /\ Placed(cmds[x], Free(x)) /\ cmds[x] \in Seq(Commands) /\ Free(x) \subseteq Free(x)'
               /\ \A q \in requests'[x] : q.call \in Undecided(x)' /\ idOf'[q.call] = q.id
    BY <1>1, SameCalls DEF CallsPlaced, Types
  <1>3. ASSUME NEW x \in Endpoints PROVE Placed(cmds'[x], Free(x)')
    <2>1. CASE cmds'[x] = cmds[x]
      BY <1>2, <2>1, StaysPlaced
    <2>2. ASSUME NEW r \in incoming[e], AcceptRequest(e, r), cmds'[x] # cmds[x]
          PROVE  Placed(cmds'[x], Free(x)')
      <3>1. SendCmd(e, AcceptChannel(r))
        BY <2>2 DEF AcceptRequest, CmdNotSent
      <3>2. x = e /\ cmds'[x] = Append(cmds[x], AcceptChannel(r))
        BY <2>2, <3>1 DEF SendCmd, Types
      <3>3. AcceptChannel(r) \in Commands /\ AcceptChannel(r).kind # "open"
        BY DEF Types, AcceptChannel, Commands
      <3> QED
        BY <1>2, <3>2, <3>3, PlacedMore
    <2>3. ASSUME HandleAccept(e), cmds'[x] # cmds[x] PROVE Placed(cmds'[x], Free(x)')
      <3>1. /\ cmds[e] # <<>> /\ Head(cmds[e]).kind = "accept"
            /\ x = e /\ cmds'[x] = Tail(cmds[x])
        BY <2>3 DEF HandleAccept, Types
      <3>2. \A c : OpenChannel(c).kind # "accept"
        BY DEF OpenChannel
      <3> QED
        BY <1>2, <3>1, <3>2, PlacedTail
    <2>4. \/ cmds' = cmds \/ HandleAccept(e) \/ \E r \in incoming[e] : AcceptRequest(e, r)
      <3>1. CASE \/ Holder(e) \/ GoDown(e) \/ (\E ch \in channels[e] : DropChannel(e, ch))
                 \/ CleanupChannels(e) \/ HandleAccept(e) \/ CleanupCancelledOpens(e)
        BY <3>1 DEF Holder, RejectRequest, GoDown, DropChannel, CleanupChannels, CleanupCancelledOpens
      <3>2. CASE HandleRequest(e) \/ HandleAcceptCancelled(e) \/ HandleRejectCancelled(e) \/ HandleGone(e)
        BY <3>2 DEF HandleRequest, HandleAcceptCancelled, HandleRejectCancelled, HandleGone
      <3> QED
        BY <3>1, <3>2
    <2> QED
      BY <2>1, <2>2, <2>3, <2>4
  <1> QED
    BY <1>1, <1>2, <1>3 DEF CallsPlaced

-----------------------------------------------------------------------------
(* What became of a request stays so.                                      *)

LEMMA SettledStays ==
  ASSUME AInv, Next, NEW x \in Endpoints, NEW id, NEW n, Settled(x, id, n)
  PROVE  Settled(x, id, n)'
  <1>1. IInv /\ Types /\ Callbacks /\ Titles /\ id \in Ids /\ Peer(x) \in Endpoints
    BY Peers DEF AInv, IInv, Answers, Settled
  <1>2. Moves(x, id) /\ nextId[x] <= nextId'[x]
    BY <1>1, EveryMove, IdsGrow
  <1>3. /\ Underway(x, id) = 0 /\ Accepted(Peer(x), id) = 0 /\ Granted(Peer(x), id) = 0
        /\ id < nextId[x] /\ Called(Peer(x), id) = n
    <2>1. /\ Accepted(Peer(x), id) \in Nat /\ Granted(Peer(x), id) \in Nat
          /\ Granted(Peer(x), id) + Accepted(Peer(x), id) <= Underway(x, id)
      BY <1>1, UnderwayType DEF CountsTyped
    <2> QED
      BY <2>1 DEF Settled
  <1>4. Types' /\ Callbacks'
    BY <1>1, AnswersKept DEF AInv, IInv, Answers
  <1>5. /\ Underway(x, id)' \in Nat /\ Accepted(Peer(x), id)' \in Nat
        /\ Accepted(Peer(x), id)' <= Underway(x, id)'
    <2>1. (Types /\ Callbacks)' => CountsTyped'
      BY UnderwayType, PTL
    <2> QED
      BY <1>1, <1>4, <2>1 DEF CountsTyped
  <1>6. nextId[x] \in Nat /\ nextId'[x] \in Nat /\ id \in Nat
    BY <1>1, <1>4 DEF Types, Ids
  <1>7. Underway(x, id)' = 0 /\ Called(Peer(x), id)' = n
    <2>1. CASE Untouched(x, id)
      BY <1>3, <2>1 DEF Untouched
    <2>2. CASE Lost(x, id)
      BY <1>3, <1>5, <2>2 DEF Lost
    <2>3. CASE Made(x, id)
      BY <1>3, <2>3 DEF Made
    <2>4. CASE Resolved(x, id)
      BY <1>3, <1>5, <2>4 DEF Resolved
    <2>5. CASE Sends(x, id)
      BY <1>3, <1>6, <2>5 DEF Sends
    <2> QED
      BY <1>2, <2>1, <2>2, <2>3, <2>4, <2>5 DEF Moves
  <1>8. id < nextId'[x]
    BY <1>2, <1>3, <1>6
  <1> QED
    BY <1>1, <1>7, <1>8 DEF Settled

(* The answer that is taken settles the request. *)
LEMMA AnswerSettles ==
  ASSUME AInv, CallsTyped, CallsPlaced, NEW e \in Endpoints, NEW q \in requests[e],
         HandleAcceptFrame(e, q) \/ HandleReject(e, q),
         NEW id, id = q.id, NEW n, n = IF HandleAcceptFrame(e, q) THEN 1 ELSE 0
  PROVE  Settled(e, id, n)'
  <1> DEFINE p == Peer(e)
  <1>1. /\ IInv /\ Types /\ Callbacks /\ Titles /\ p \in Endpoints /\ Peer(p) = e
        /\ AInv' /\ Types' /\ Callbacks'
    <2>1. AInv'
      BY AnswersKept DEF Next, Loop
    <2> QED
      BY <2>1, Peers DEF AInv, IInv, Answers
  <1>2. /\ wire[p] \in Seq(Frames) /\ 1 \in DOMAIN wire[p] /\ Frame(e) = wire[p][1]
        /\ wire[p][1] \in Frames /\ wire[p][1].receiver = id /\ id \in Ids /\ Listening(e)
        /\ wire[p][1].kind = IF HandleAcceptFrame(e, q) THEN "accept" ELSE "reject"
    <2>1. /\ wire[p] # <<>> /\ Frame(e) = Head(wire[p]) /\ Frame(e).receiver = id /\ Listening(e)
          /\ Head(wire[p]).kind = IF HandleAcceptFrame(e, q) THEN "accept" ELSE "reject"
      BY DEF HandleAcceptFrame, HandleReject, Received, Frame, Listening
    <2>2. q \in [id : Ids, call : Calls]
      BY <1>1 DEF Types
    <2> QED
      BY <1>1, <2>1, <2>2 DEF Types
  <1>3. /\ Asked(e, id) \in Nat /\ Kept(p, id) \in Nat /\ Granted(p, id) \in Nat
        /\ Accepted(p, id) \in Nat /\ Rejected(p, id) \in Nat /\ Called(p, id) \in Nat
    BY <1>1, <1>2, Counts
  <1>4. IF HandleAcceptFrame(e, q) THEN Accepted(p, id) > 0 ELSE Rejected(p, id) > 0
    <2>2. HandleAcceptFrame(e, q) => wire[p][1] \in AcceptsOf(id)
      BY <1>2, FrameKinds
    <2>3. ~HandleAcceptFrame(e, q) => wire[p][1] \in RejectsOf(id)
      BY <1>2, FrameKinds
    <2>4. wire[p][1] \in AcceptsOf(id) => Accepted(p, id) > 0
      BY <1>2, HitsType DEF Accepted
    <2>5. wire[p][1] \in RejectsOf(id) => Rejected(p, id) > 0
      BY <1>2, HitsType DEF Rejected
    <2> QED
      BY <2>2, <2>3, <2>4, <2>5
  <1>5. Traced(e, id) /\ Traced(e, id)'
    BY <1>1, <1>2 DEF AInv, Answers
  <1>6. /\ Called(p, id) = (IF HandleAcceptFrame(e, q) THEN 1 ELSE 0)
        /\ id < nextId[e]
    <2>1. nextId[e] \in Nat /\ id \in Nat
      BY <1>1, <1>2 DEF Types, Ids
    <2>2. /\ Underway(e, id) > 0
          /\ HandleAcceptFrame(e, q) => Accepted(p, id) > 0
          /\ ~HandleAcceptFrame(e, q) /\ Underway(e, id) <= 1 => Underway(e, id) > Accepted(p, id)
      BY <1>3, <1>4 DEF Underway, Here
    <2> QED
      BY <1>5, <2>1, <2>2 DEF Traced, Journey
  <1>7. nextId' = nextId /\ callbacks' = callbacks
    BY DEF HandleAcceptFrame, HandleReject, acceptVars
  <1>8. Listening(e)' /\ id \notin Live(e)'
    <2>1. Listening(e)'
      BY <1>1, <1>2 DEF HandleAcceptFrame, HandleReject, TakeSend, Listening, Types
    <2>2. cancelled' = cancelled /\ requests'[e] = requests[e] \ {q}
      BY <1>1 DEF HandleAcceptFrame, HandleReject, Types
    <2> QED
      BY <1>1, <2>1, <2>2 DEF Live, Titles
  <1>9. Underway(e, id)' = 0
    <2>1. Underway(e, id)' \in Nat
      <3>1. (Types /\ Callbacks)' => CountsTyped'
        BY UnderwayType, PTL
      <3> QED
        BY <1>1, <1>2, <3>1 DEF CountsTyped
    <2> QED
      BY <1>5, <1>8, <2>1 DEF Traced, Journey
  <1>10. Called(p, id)' = (IF HandleAcceptFrame(e, q) THEN 1 ELSE 0)
    BY <1>6, <1>7 DEF Called
  <1> QED
    BY <1>2, <1>6, <1>7, <1>9, <1>10 DEF Settled

LEMMA CallsKept == CInv /\ [Next]_vars => CInv'
  <1> SUFFICES ASSUME CInv, [Next]_vars PROVE CInv'
    OBVIOUS
  <1>1. AInv /\ AInv' /\ IInv /\ Types /\ Types' /\ Titles /\ CallsTyped /\ CallsPlaced /\ Outcomes
    BY AnswersKept DEF CInv, AInv, IInv, Answers
  <1>2. CASE UNCHANGED vars
    <2>1. UNCHANGED <<wire, incoming, cmds, callbacks, requests, result, idOf, nextId>>
      BY <1>2 DEF vars, callVars, acceptVars
    <2>2. CallsPlaced' /\ CallsTyped'
      BY <1>1, <2>1 DEF CallsTyped, CallsPlaced, Placed, Free, Undecided, CallsRequested
    <2>3. Outcomes'
      BY <1>1, <2>1 DEF Outcomes, Settled, Underway, Here, Asked, Kept, Granted, Accepted, Rejected,
         Called
    <2> QED
      BY <1>1, <2>2, <2>3 DEF CInv
  <1>3. CASE Next
    <2>1. CallsPlaced'
      <3>1. ASSUME NEW e \in Endpoints, Loop(e) PROVE CallsPlaced'
        BY <1>1, <3>1, OthersPlaced, HandleOpenPlaced, AnswerPlaced, ClosePlaced DEF Loop
      <3>2. ASSUME NEW e \in Endpoints,
                   Holder(e) \/ GoDown(e) \/ \E ch \in channels[e] : DropChannel(e, ch)
            PROVE  CallsPlaced'
        BY <1>1, <3>2, OthersPlaced
      <3> QED
        BY <1>1, <1>3, <3>1, <3>2, TasksPlaced DEF Next
    <2>2. CallsTyped'
      <3>1. ASSUME NEW e \in Endpoints, HandleOpen(e) PROVE CallsTyped'
        <4>1. idOf' = idOf \/ idOf' = [idOf EXCEPT ![Head(cmds[e]).call] = nextId[e]]
          BY <3>1 DEF HandleOpen
        <4>2. nextId[e] \in Nat
          BY <1>1 DEF Types, Ids
        <4> QED
          BY <1>1, <4>1, <4>2 DEF CallsTyped
      <3>2. ASSUME NEW e \in Endpoints, Loop(e), ~HandleOpen(e) PROVE idOf' = idOf
        BY <3>2 DEF Loop, CleanupChannels, CleanupCancelledOpens, HandleAccept, HandleRequest,
           HandleAcceptFrame, HandleReject, HandleAcceptCancelled, HandleRejectCancelled, HandleGone,
           CloseState, CloseTables, callVars
      <3>3. ASSUME \A e \in Endpoints : ~Loop(e) PROVE idOf' = idOf
        BY <1>3, <3>3 DEF Next, Open, Cancel, Holder, GoDown, DropChannel, AcceptRequest, RejectRequest,
           callVars
      <3> QED
        BY <1>1, <3>1, <3>2, <3>3 DEF CallsTyped
    <2>3. ASSUME NEW c \in Calls, result[c] \in {"ok", "rejected"},
                 result'[c] = result[c], idOf'[c] = idOf[c]
          PROVE  /\ result'[c] = "ok" => Settled(Caller[c], idOf[c], 1)'
                 /\ result'[c] = "rejected" => Settled(Caller[c], idOf[c], 0)'
      <3>1. PICK id : id = idOf[c]
        OBVIOUS
      <3>2. Caller[c] \in Endpoints
        BY LifecycleAssumption
      <3>3. \A n : Settled(Caller[c], id, n) => Settled(Caller[c], id, n)'
        BY <1>1, <1>3, <3>2, SettledStays
      <3>4. /\ result'[c] = "ok" => Settled(Caller[c], id, 1)'
            /\ result'[c] = "rejected" => Settled(Caller[c], id, 0)'
        BY <1>1, <2>3, <3>1, <3>3 DEF Outcomes
      <3> QED
        BY <2>3, <3>1, <3>4 DEF Settled
    <2>4. ASSUME NEW e \in Endpoints, NEW q \in requests[e], HandleAcceptFrame(e, q) \/ HandleReject(e, q),
                 NEW c \in Calls, c = q.call
          PROVE  /\ result'[c] = "ok" => Settled(Caller[c], idOf[c], 1)'
                 /\ result'[c] = "rejected" => Settled(Caller[c], idOf[c], 0)'
      <3>1. PICK id : id = q.id
        OBVIOUS
      <3>2. Caller[c] = e /\ idOf[c] = id /\ idOf' = idOf /\ result[c] \in {"waiting", "cancelled"}
        BY <1>1, <2>4, <3>1 DEF CallsPlaced, Undecided, HandleAcceptFrame, HandleReject
      <3>3. PICK n : n = IF HandleAcceptFrame(e, q) THEN 1 ELSE 0
        OBVIOUS
      <3>5. Settled(e, id, n)'
        BY <1>1, <2>4, <3>1, <3>3, AnswerSettles
      <3>6. (result'[c] = "ok" => n = 1) /\ (result'[c] = "rejected" => n = 0)
        <4>1. CASE HandleAcceptFrame(e, q)
          <5>1. result'[c] \in {"ok", "cancelled"}
            BY <1>1, <2>4, <3>2, <4>1 DEF HandleAcceptFrame, Types
          <5> QED
            BY <3>3, <4>1, <5>1
        <4>2. CASE ~HandleAcceptFrame(e, q)
          <5>1. HandleReject(e, q)
            BY <2>4, <4>2
          <5>2. result'[c] # "ok"
            BY <1>1, <2>4, <3>2, <5>1 DEF HandleReject, Types
          <5> QED
            BY <3>3, <4>2, <5>2
        <4> QED
          BY <4>1, <4>2
      <3> QED
        BY <3>2, <3>5, <3>6 DEF Settled
    <2>5. ASSUME NEW c \in Calls
          PROVE  \/ result'[c] \notin {"ok", "rejected"}
                 \/ result[c] \in {"ok", "rejected"} /\ result'[c] = result[c] /\ idOf'[c] = idOf[c]
                 \/ \E e \in Endpoints : \E q \in requests[e] :
                        q.call = c /\ (HandleAcceptFrame(e, q) \/ HandleReject(e, q))
      <3>1. CASE UNCHANGED <<result, idOf>>
        BY <3>1
      <3>2. ASSUME NEW d \in Calls, Open(d) \/ Cancel(d)
            PROVE  \/ result'[c] \notin {"ok", "rejected"}
                   \/ result[c] \in {"ok", "rejected"} /\ result'[c] = result[c] /\ idOf'[c] = idOf[c]
        BY <1>1, <3>2 DEF Open, Cancel, Types
      <3>3. ASSUME NEW e \in Endpoints, HandleOpen(e)
            PROVE  \/ result'[c] \notin {"ok", "rejected"}
                   \/ result[c] \in {"ok", "rejected"} /\ result'[c] = result[c] /\ idOf'[c] = idOf[c]
        <4>1. PICK d : d = Head(cmds[e]).call
          OBVIOUS
        <4>2. result[d] \in {"waiting", "cancelled"} /\ d \in Calls
          <5>1. /\ cmds[e] # <<>> /\ Head(cmds[e]).kind = "open" /\ cmds[e] \in Seq(Commands)
            BY <1>1, <3>3 DEF HandleOpen, Types
          <5>2. 1 \in DOMAIN cmds[e] /\ cmds[e][1] = Head(cmds[e])
            BY <5>1
          <5> QED
            BY <1>1, <4>1, <5>1, <5>2 DEF CallsPlaced, Placed, Free, Undecided
        <4>3. \/ result' = result
              \/ \E r \in {"limit", "closed"} :
                    result' = [result EXCEPT ![d] = IF @ = "waiting" THEN r ELSE @]
          BY <3>3, <4>1 DEF HandleOpen
        <4>4. idOf' = idOf \/ idOf' = [idOf EXCEPT ![d] = nextId[e]]
          BY <3>3, <4>1 DEF HandleOpen
        <4>5. c # d => result'[c] = result[c] /\ idOf'[c] = idOf[c]
          BY <1>1, <4>3, <4>4 DEF Types, CallsTyped
        <4>6. result'[d] \notin {"ok", "rejected"}
          BY <1>1, <4>2, <4>3 DEF Types
        <4> QED
          BY <4>5, <4>6
      <3>4. ASSUME NEW e \in Endpoints, NEW q \in requests[e], HandleAcceptFrame(e, q) \/ HandleReject(e, q),
                   q.call # c
            PROVE  result'[c] = result[c] /\ idOf'[c] = idOf[c]
        BY <1>1, <3>4 DEF HandleAcceptFrame, HandleReject, Types
      <3>5. ASSUME NEW e \in Endpoints, CloseState(e)
            PROVE  \/ result'[c] \notin {"ok", "rejected"}
                   \/ result[c] \in {"ok", "rejected"} /\ result'[c] = result[c] /\ idOf'[c] = idOf[c]
        BY <3>5 DEF CloseState, CloseTables
      <3>6. ASSUME NEW e \in Endpoints,
                   \/ Loop(e) \/ Holder(e) \/ GoDown(e)
                   \/ \E ch \in channels[e] : DropChannel(e, ch)
            PROVE  \/ UNCHANGED <<result, idOf>> \/ HandleOpen(e) \/ CloseState(e)
                   \/ \E q \in requests[e] : HandleAcceptFrame(e, q) \/ HandleReject(e, q)
        BY <1>1, <3>6, OthersPlaced DEF Loop
      <3> QED
        BY <1>3, <3>1, <3>2, <3>3, <3>4, <3>5, <3>6 DEF Next
    <2>6. Outcomes'
      <3>1. ASSUME NEW c \in Calls
            PROVE  /\ result'[c] = "ok" => Settled(Caller[c], idOf[c], 1)'
                   /\ result'[c] = "rejected" => Settled(Caller[c], idOf[c], 0)'
        BY <2>3, <2>4, <2>5
      <3> QED
        BY <3>1 DEF Outcomes
    <2> QED
      BY <1>1, <2>1, <2>2, <2>6 DEF CInv
  <1> QED
    BY <1>2, <1>3

LEMMA CallsInvariance == Spec => []CInv
  <1>1. Init => CInv
    <2> SUFFICES ASSUME Init PROVE CallsTyped /\ CallsPlaced /\ Outcomes
      BY Initially, AnswersInitially DEF CInv, AInv
    <2> QED
      BY DEF Init, CallsTyped, CallsPlaced, Placed, Outcomes
  <1> QED
    BY <1>1, CallsKept, PTL DEF Spec

(* The two ends of a channel match as long as its peer is up, a caller     *)
(* gets a channel exactly of a request that one accept callback answered,  *)
(* and a rejection of one that none did.                                   *)
THEOREM EndsPaired == Spec => []Paired
  <1>1. MInv /\ CInv => Paired
    <2> SUFFICES ASSUME MInv, CInv PROVE Paired
      OBVIOUS
    <2>1. ASSUME NEW e \in Endpoints, NEW ch \in channels[e], conn[Peer(e)] = "up"
          PROVE  \/ [id |-> ch.remote, remote |-> ch.id] \in channels[Peer(e)]
                 \/ ch.remote \in Buried(Peer(e))
                 \/ OnWire(e, {"accept"}, "sender", ch.id) # {}
      <3>1. Met(Peer(e), ch.remote, ch.id) \/ OnIt(wire[e], Accept(ch.remote, ch.id))
        BY <2>1 DEF MInv, Meeting, Facing, Listening
      <3>2. CASE OnIt(wire[e], Accept(ch.remote, ch.id))
        <4>1. PICK i \in DOMAIN wire[e] : wire[e][i] = Accept(ch.remote, ch.id)
          BY <3>2 DEF OnIt
        <4>2. i \in OnWire(e, {"accept"}, "sender", ch.id)
          BY <4>1 DEF OnWire, Accept
        <4> QED
          BY <4>2
      <3> QED
        BY <3>1, <3>2 DEF Met
    <2>2. ASSUME NEW c \in Calls
          PROVE  LET p == Peer(Caller[c])
                     n == Cardinality({i \in DOMAIN callbacks[p] : callbacks[p][i] = idOf[c]})
                 IN  (result[c] = "ok" => n = 1) /\ (result[c] = "rejected" => n = 0)
      <3> DEFINE p == Peer(Caller[c])
      <3>1. {i \in DOMAIN callbacks[p] : callbacks[p][i] = idOf[c]}
              = {i \in DOMAIN callbacks[p] : callbacks[p][i] \in {idOf[c]}}
        OBVIOUS
      <3>2. Cardinality({i \in DOMAIN callbacks[p] : callbacks[p][i] = idOf[c]}) = Called(p, idOf[c])
        BY <3>1 DEF Called, Hits
      <3> QED
        BY <3>2 DEF CInv, Outcomes, Settled
    <2> QED
      BY <2>1, <2>2 DEF Paired
  <1> QED
    BY <1>1, MeetingInvariance, CallsInvariance, PTL

=============================================================================
