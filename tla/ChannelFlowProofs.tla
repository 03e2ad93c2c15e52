-------------------------- MODULE ChannelFlowProofs --------------------------
(***************************************************************************)
(* Proofs about ChannelFlow for every window size, limit, chunk size and   *)
(* stream length: the inductive invariant IInv and the safety properties   *)
(* and the refinement that follow from it.                                 *)
(***************************************************************************)
EXTENDS ChannelFlow, SenderWake, SequenceTheorems, TLAPS

Frames == Intervals \cup {Closed}
BackFrames == Adjusts \cup {Close}

(* The frames in w are the next bytes after r, up to s at most, and nothing *)
(* follows a closed frame.                                                 *)
WireOK(w, r, s) ==
    /\ \A i \in 1 .. Len(w) : w[i] = Closed => i = Len(w)
    /\ \A i \in 1 .. Len(w) : w[i] # Closed => w[i].to <= s
    /\ \A i \in 1 .. Len(w) : i < Len(w) /\ w[i+1] # Closed => w[i].to = w[i+1].from
    /\ w # <<>> /\ w[1] # Closed => w[1].from = r

(* All bytes up to s are in w or before it. *)
WireEnd(w, r, s) ==
    /\ w = <<>> => r = s
    /\ w # <<>> /\ w[Len(w)] # Closed => w[Len(w)].to = s
    /\ Len(w) = 1 /\ w[1] = Closed => r = s
    /\ Len(w) > 1 /\ w[Len(w)] = Closed => w[Len(w) - 1].to = s

HasClosed(w) == \E i \in 1 .. Len(w) : w[i] = Closed

(* The adjust frames in k carry on from the totals (f, b) the sender took. *)
BackOK(k, f, b) ==
    /\ \A i \in 1 .. Len(k) : i < Len(k) /\ k[i+1] # Close =>
          /\ k[i] # Close
          /\ k[i+1].upF - k[i+1].frames = k[i].upF
          /\ k[i+1].upB - k[i+1].bytes = k[i].upB
    /\ k # <<>> /\ k[1] # Close =>
          k[1].upF - k[1].frames = f /\ k[1].upB - k[1].bytes = b

(* No frame in k grants more than the totals (f, b) so far. *)
BackBound(k, f, b) ==
    \A i \in 1 .. Len(k) : k[i] # Close =>
        k[i].frames >= 1 /\ k[i].upF <= f /\ k[i].upB <= b

(* The last adjust frame of k, or else the totals (f, b), is at (fe, be). *)
BackEnd(k, f, b, fe, be) ==
    /\ k = <<>> => f = fe /\ b = be
    /\ k # <<>> => k[Len(k)] # Close /\ k[Len(k)].upF = fe /\ k[Len(k)].upB = be

NoClose(k) == \A i \in 1 .. Len(k) : k[i] # Close

BufferOK(q, r, s) ==
    /\ \A i \in 1 .. Len(q) : i < Len(q) => q[i].to = q[i+1].from
    /\ q # <<>> => q[1].from = r /\ q[Len(q)].to = s
    /\ q = <<>> => r = s
    /\ r <= s
    /\ \A i \in 1 .. Len(q) : q[i].to <= s

SenderInv ==
    /\ sent <= written /\ written - sent <= sByte
    /\ wpc = "flushed" => sent = written /\ ~closedSent /\ ~sDropped
    /\ closedSent => sent = written
    /\ closedSent \/ sDropped => sClosed
    /\ HasClosed(wire) => closedSent \/ sDropped
    /\ aHandle = "tombstone" => sDropped
    /\ aHandle = "none" => aConn = "closed"

WireInv ==
    /\ WireOK(wire, received, sent)
    /\ received <= sent
    /\ aConn = "up" => WireEnd(wire, received, sent)

CreditInv ==
    /\ sFrame + DataFrames(wire) + (gFrame - tFrame) <= rFrame
    /\ aConn = "up" => sFrame + DataFrames(wire) + (gFrame - tFrame) = rFrame
    /\ sByte + (sent - received) + (gByte - tByte) = rByte
    /\ tFrame <= gFrame /\ tByte <= gByte

BackInv ==
    /\ BackBound(back, gFrame, gByte)
    /\ ~rDropped => NoClose(back)
    /\ aHandle = "active" => BackOK(back, tFrame, tByte)
    /\ aHandle = "active" /\ bConn = "up" /\ ~rDropped =>
          BackEnd(back, tFrame, tByte, gFrame, gByte)

ReceiverInv ==
    /\ ~rDropped => BufferOK(buffer, read, received)
    /\ rDropped => buffer = <<>> /\ rClosed
    /\ read <= received
    /\ bHandle = "tombstone" => rDropped
    /\ bHandle = "none" => bConn = "closed"
    /\ rClosed /\ ~rDropped /\ bConn # "closed" => wire = <<>> /\ (closedSent \/ sDropped)
    /\ eof => rClosed /\ buffer = <<>>
    /\ eof /\ aConn = "up" /\ bConn = "up" => read = sent /\ (closedSent \/ sDropped)

(* The window in terms of the bytes between the reader and the transport. *)
Buffered == IF rDropped THEN 0 ELSE received - read

WindowInv ==
    /\ rFrame + Len(buffer) + pFrame <= maxFrame /\ maxFrame <= LimitFrames
    /\ rByte + Buffered + pByte <= maxByte /\ maxByte <= LimitBytes
    /\ bConn = "up" /\ ~rDropped =>
          /\ rFrame + Len(buffer) + pFrame = maxFrame
          /\ rByte + Buffered + pByte = maxByte

IInv ==
    /\ TypeOK
    /\ SenderInv /\ WireInv /\ CreditInv /\ BackInv /\ ReceiverInv /\ WindowInv
    /\ violations = {}

-----------------------------------------------------------------------------
(* Sequences *)

(* A sequence is empty exactly when its length is zero. *)
LEMMA EmptyLen ==
    ASSUME NEW S, NEW q \in Seq(S)
    PROVE  /\ Len(q) \in Nat
           /\ (q = <<>>) <=> (Len(q) = 0)
           /\ (q # <<>>) <=> (Len(q) >= 1)
  BY EmptySeq, LenProperties

(* Elements and length of the tail of a sequence. *)
LEMMA TailFacts ==
    ASSUME NEW S, NEW q \in Seq(S), q # <<>>
    PROVE  /\ Tail(q) \in Seq(S) /\ Len(Tail(q)) = Len(q) - 1 /\ Head(q) = q[1]
           /\ Len(q) \in Nat /\ Len(q) >= 1 /\ Len(Tail(q)) \in Nat
           /\ \A i \in 1 .. Len(q) : q[i] \in S
           /\ \A i \in 1 .. Len(q) - 1 : Tail(q)[i] = q[i+1]
           /\ (Tail(q) = <<>>) <=> (Len(q) = 1)
  <1>1. Len(q) \in Nat /\ Len(q) >= 1
    BY EmptyLen
  <1>2. Tail(q) \in Seq(S) /\ Len(Tail(q)) = Len(q) - 1 /\ Head(q) = q[1]
    BY <1>1
  <1>3. \A i \in 1 .. Len(q) : q[i] \in S
    BY <1>1
  <1>4. \A i \in 1 .. Len(q) - 1 : Tail(q)[i] = q[i+1]
    BY <1>1
  <1>5. (Tail(q) = <<>>) <=> (Len(q) = 1)
    <2>1. (Tail(q) = <<>>) <=> (Len(Tail(q)) = 0)
      BY <1>2, EmptyLen
    <2> QED BY <2>1, <1>1, <1>2
  <1> QED BY <1>1, <1>2, <1>3, <1>4, <1>5

-----------------------------------------------------------------------------
(* Frames *)

(* Data and closed frames, and adjust and close frames, are told apart by   *)
(* their kind.                                                             *)
LEMMA FrameKinds ==
    /\ \A d \in Intervals : /\ d # Closed /\ d.kind = "data"
                            /\ d.from \in Nat /\ d.to \in Nat /\ d.from < d.to
    /\ \A d \in Adjusts : /\ d # Close /\ d.kind = "adjust"
                          /\ d.frames \in Nat /\ d.bytes \in Nat
                          /\ d.upF \in Nat /\ d.upB \in Nat
    /\ Closed.kind = "closed" /\ Close.kind = "close"
  BY DEF Intervals, Adjusts, Closed, Close

(* A data frame appended by poll_send_chunk continues the wire. *)
LEMMA WireAppendData ==
    ASSUME NEW w \in Seq(Frames), NEW r \in Nat, NEW s \in Nat, NEW t \in Nat,
           s < t, WireOK(w, r, s), WireEnd(w, r, s), ~HasClosed(w)
    PROVE  /\ Append(w, Data(s, t)) \in Seq(Frames)
           /\ WireOK(Append(w, Data(s, t)), r, t)
           /\ WireEnd(Append(w, Data(s, t)), r, t)
           /\ ~HasClosed(Append(w, Data(s, t)))
           /\ DataFrames(Append(w, Data(s, t))) = DataFrames(w) + 1
  <1> DEFINE d == Data(s, t)
             v == Append(w, d)
  <1>1. d \in Intervals /\ d.from = s /\ d.to = t
    BY DEF Data, Intervals
  <1>2. d # Closed /\ d \in Frames
    BY <1>1, FrameKinds DEF Frames
  <1>3. /\ v \in Seq(Frames) /\ Len(v) = Len(w) + 1 /\ Len(w) \in Nat
        /\ v[Len(v)] = d /\ v # <<>>
        /\ \A i \in 1 .. Len(w) : v[i] = w[i]
    BY <1>2
  <1>4. \A i \in 1 .. Len(w) : w[i] \in Intervals
    BY FrameKinds DEF HasClosed, Frames
  <1>5. ~HasClosed(v)
    BY <1>2, <1>3, <1>4, FrameKinds DEF HasClosed
  <1>6. WireEnd(v, r, t)
    BY <1>1, <1>2, <1>3 DEF WireEnd
  <1>7. DataFrames(v) = DataFrames(w) + 1
    <2>1. DataFrames(v) = Len(v)
      BY <1>2, <1>3 DEF DataFrames
    <2>2. DataFrames(w) = Len(w)
      <3>1. CASE w = <<>>
        BY <3>1 DEF DataFrames
      <3>2. CASE w # <<>>
        <4>1. Len(w) \in 1 .. Len(w)
          BY <3>2
        <4> QED BY <3>2, <4>1, <1>4, FrameKinds DEF DataFrames
      <3> QED BY <3>1, <3>2
    <2> QED BY <2>1, <2>2, <1>3
  <1>8. WireOK(v, r, t)
    <2>1. \A i \in 1 .. Len(v) : v[i] # Closed => v[i].to <= t
      <3> SUFFICES ASSUME NEW i \in 1 .. Len(v) PROVE v[i].to <= t
        OBVIOUS
      <3>1. CASE i = Len(v)
        BY <3>1, <1>1, <1>3
      <3>2. CASE i # Len(v)
        <4>1. i \in 1 .. Len(w)
          BY <3>2, <1>3
        <4> QED BY <4>1, <1>3, <1>4, FrameKinds DEF WireOK
      <3> QED BY <3>1, <3>2
    <2>2. \A i \in 1 .. Len(v) : i < Len(v) /\ v[i+1] # Closed => v[i].to = v[i+1].from
      <3> SUFFICES ASSUME NEW i \in 1 .. Len(v), i < Len(v) PROVE v[i].to = v[i+1].from
        OBVIOUS
      <3>1. i \in 1 .. Len(w)
        BY <1>3
      <3>2. CASE i = Len(w)
        <4>1. v[i+1] = d /\ v[i] = w[Len(w)] /\ w # <<>>
          BY <3>1, <3>2, <1>3
        <4> QED BY <4>1, <3>1, <3>2, <1>1, <1>4, FrameKinds DEF WireEnd
      <3>3. CASE i # Len(w)
        <4>1. i + 1 \in 1 .. Len(w) /\ i < Len(w)
          BY <3>1, <3>3, <1>3
        <4> QED BY <4>1, <3>1, <1>3, <1>4, FrameKinds DEF WireOK
      <3> QED BY <3>2, <3>3
    <2>3. v[1].from = r
      <3>1. CASE w = <<>>
        BY <3>1, <1>1, <1>3 DEF WireEnd
      <3>2. CASE w # <<>>
        BY <3>2, <1>3, <1>4, FrameKinds DEF WireOK
      <3> QED BY <3>1, <3>2
    <2> QED BY <2>1, <2>2, <2>3, <1>5, <1>3 DEF WireOK, HasClosed
  <1> QED BY <1>3, <1>5, <1>6, <1>7, <1>8

(* A closed frame ends the wire and is not a data frame. *)
LEMMA WireAppendClosed ==
    ASSUME NEW w \in Seq(Frames), NEW r \in Nat, NEW s \in Nat,
           WireOK(w, r, s), ~HasClosed(w)
    PROVE  /\ Append(w, Closed) \in Seq(Frames)
           /\ WireOK(Append(w, Closed), r, s)
           /\ WireEnd(w, r, s) => WireEnd(Append(w, Closed), r, s)
           /\ DataFrames(Append(w, Closed)) = DataFrames(w)
  <1> DEFINE v == Append(w, Closed)
  <1>1. Closed \in Frames
    BY DEF Frames
  <1>2. /\ v \in Seq(Frames) /\ Len(v) = Len(w) + 1 /\ Len(w) \in Nat
        /\ v[Len(v)] = Closed /\ v # <<>>
        /\ \A i \in 1 .. Len(w) : v[i] = w[i]
    BY <1>1
  <1>3. \A i \in 1 .. Len(w) : w[i] # Closed
    BY DEF HasClosed
  <1>4. WireOK(v, r, s)
    <2>1. \A i \in 1 .. Len(v) : v[i] # Closed => i \in 1 .. Len(w)
      BY <1>2
    <2>2. \A i \in 1 .. Len(v) : i < Len(v) /\ v[i+1] # Closed =>
             i \in 1 .. Len(w) /\ i + 1 \in 1 .. Len(w) /\ i < Len(w)
      BY <1>2
    <2>3. v[1] # Closed => 1 \in 1 .. Len(w) /\ w # <<>>
      BY <1>2
    <2>4. \A i \in 1 .. Len(v) : v[i] = Closed => i = Len(v)
      BY <1>2, <1>3
    <2> QED BY <2>1, <2>2, <2>3, <2>4, <1>2, <1>3 DEF WireOK
  <1>5. WireEnd(w, r, s) => WireEnd(v, r, s)
    <2>1. CASE w = <<>>
      BY <2>1, <1>2 DEF WireEnd
    <2>2. CASE w # <<>>
      <3>1. Len(w) \in 1 .. Len(w) /\ Len(v) - 1 = Len(w)
        BY <2>2, <1>2
      <3> QED BY <2>2, <3>1, <1>2, <1>3 DEF WireEnd
    <2> QED BY <2>1, <2>2
  <1>6. DataFrames(v) = DataFrames(w)
    <2>1. w # <<>> => Len(w) \in 1 .. Len(w)
      BY <1>2
    <2> QED BY <2>1, <1>2, <1>3 DEF DataFrames
  <1> QED BY <1>2, <1>4, <1>5, <1>6

(* Taking a data frame off the wire. *)
LEMMA WireTailData ==
    ASSUME NEW w \in Seq(Frames), NEW r \in Nat, NEW s \in Nat,
           w # <<>>, Head(w).kind = "data", WireOK(w, r, s)
    PROVE  /\ Head(w) \in Intervals /\ Head(w).from = r /\ Head(w).to <= s
           /\ Tail(w) \in Seq(Frames)
           /\ WireOK(Tail(w), Head(w).to, s)
           /\ WireEnd(w, r, s) => WireEnd(Tail(w), Head(w).to, s)
           /\ HasClosed(Tail(w)) => HasClosed(w)
           /\ DataFrames(Tail(w)) = DataFrames(w) - 1 /\ DataFrames(w) >= 1
           /\ DataFrames(Tail(w)) >= 0
  <1> DEFINE v == Tail(w)
  <1>1. /\ v \in Seq(Frames) /\ Len(w) \in Nat /\ Len(w) >= 1 /\ Len(v) = Len(w) - 1
        /\ Head(w) = w[1] /\ w[1] \in Frames /\ 1 \in 1 .. Len(w) /\ Len(v) \in Nat
        /\ \A i \in 1 .. Len(v) : v[i] = w[i+1] /\ i + 1 \in 1 .. Len(w)
        /\ (v = <<>>) <=> (Len(w) = 1)
    BY TailFacts
  <1> HIDE DEF v
  <1>2. w[1] \in Intervals /\ w[1] # Closed
    BY <1>1, FrameKinds DEF Frames
  <1>3. w[1].from = r /\ w[1].to <= s
    BY <1>1, <1>2 DEF WireOK
  <1>4. WireOK(v, w[1].to, s)
    <2>1. \A i \in 1 .. Len(v) : v[i] = Closed => i = Len(v)
      <3>1. \A i \in 1 .. Len(v) : w[i+1] = Closed => i + 1 = Len(w)
        BY <1>1 DEF WireOK
      <3> QED BY <3>1, <1>1
    <2>2. \A i \in 1 .. Len(v) : v[i] # Closed => v[i].to <= s
      BY <1>1 DEF WireOK
    <2>3. \A i \in 1 .. Len(v) : i < Len(v) /\ v[i+1] # Closed => v[i].to = v[i+1].from
      <3> SUFFICES ASSUME NEW i \in 1 .. Len(v), i < Len(v), v[i+1] # Closed
                   PROVE  v[i].to = v[i+1].from
        OBVIOUS
      <3>1. /\ i + 1 \in 1 .. Len(v) /\ v[i] = w[i+1] /\ v[i+1] = w[(i+1)+1]
            /\ i + 1 \in 1 .. Len(w) /\ i + 1 < Len(w)
        BY <1>1
      <3> QED BY <3>1 DEF WireOK
    <2>4. v # <<>> /\ v[1] # Closed => v[1].from = w[1].to
      <3> SUFFICES ASSUME v # <<>>, v[1] # Closed PROVE v[1].from = w[1].to
        OBVIOUS
      <3>1. 1 \in 1 .. Len(v) /\ v[1] = w[1+1] /\ 1 \in 1 .. Len(w) /\ 1 < Len(w)
        BY <1>1
      <3> QED BY <3>1 DEF WireOK
    <2> QED BY <2>1, <2>2, <2>3, <2>4 DEF WireOK
  <1>5. ASSUME WireEnd(w, r, s) PROVE WireEnd(v, w[1].to, s)
    <2>1. CASE Len(w) = 1
      BY <2>1, <1>1, <1>2, <1>5 DEF WireEnd
    <2>2. CASE Len(w) > 1
      <3>1. v # <<>> /\ Len(v) \in 1 .. Len(v) /\ v[Len(v)] = w[Len(w)]
        BY <2>2, <1>1
      <3>2. Len(v) > 1 => v[Len(v) - 1] = w[Len(w) - 1]
        BY <2>2, <1>1
      <3>3. Len(v) = 1 => Len(w) - 1 = 1 /\ v[1] = w[2]
        <4> SUFFICES ASSUME Len(v) = 1 PROVE Len(w) - 1 = 1 /\ v[1] = w[2]
          OBVIOUS
        <4>1. 1 \in 1 .. Len(v) /\ 1 + 1 = 2
          OBVIOUS
        <4>2. v[1] = w[1 + 1]
          BY <4>1, <1>1
        <4> QED BY <4>1, <4>2, <1>1
      <3> QED BY <2>2, <3>1, <3>2, <3>3, <1>1, <1>2, <1>5 DEF WireEnd
    <2> QED BY <2>1, <2>2, <1>1
  <1>6. HasClosed(v) => HasClosed(w)
    BY <1>1 DEF HasClosed
  <1>7. DataFrames(v) = DataFrames(w) - 1 /\ DataFrames(w) >= 1 /\ DataFrames(v) >= 0
    <2>1. CASE Len(w) = 1
      BY <2>1, <1>1, <1>2 DEF DataFrames
    <2>2. CASE Len(w) > 1
      <3>1. v # <<>> /\ v[Len(v)] = w[Len(w)]
        BY <2>2, <1>1
      <3> QED BY <2>2, <3>1, <1>1, <1>2 DEF DataFrames
    <2> QED BY <2>1, <2>2, <1>1
  <1> QED BY <1>1, <1>2, <1>3, <1>4, <1>5, <1>6, <1>7 DEF v

(* A closed frame at the head is the only frame left. *)
LEMMA WireTailClosed ==
    ASSUME NEW w \in Seq(Frames), NEW r \in Nat, NEW s \in Nat,
           w # <<>>, Head(w).kind = "closed", WireOK(w, r, s)
    PROVE  /\ Tail(w) = <<>> /\ HasClosed(w)
           /\ WireOK(Tail(w), r, s)
           /\ WireEnd(w, r, s) => WireEnd(Tail(w), r, s)
           /\ DataFrames(Tail(w)) = DataFrames(w)
  <1>1. Len(w) \in Nat /\ Len(w) >= 1 /\ Head(w) = w[1] /\ w[1] \in Frames /\ 1 \in 1 .. Len(w)
    BY TailFacts
  <1>2. w[1] = Closed
    BY <1>1, FrameKinds DEF Frames
  <1>3. Len(w) = 1
    BY <1>1, <1>2 DEF WireOK
  <1>4. Tail(w) = <<>> /\ Len(Tail(w)) = 0
    BY <1>3, TailFacts
  <1> QED BY <1>1, <1>2, <1>3, <1>4 DEF WireOK, WireEnd, DataFrames, HasClosed

(* What is left of the wire when the outgoing queue is cleared. *)
LEMMA WirePrefix ==
    ASSUME NEW w \in Seq(Frames), NEW r \in Nat, NEW s \in Nat,
           WireOK(w, r, s), NEW k \in 0 .. Len(w)
    PROVE  /\ SubSeq(w, 1, k) \in Seq(Frames)
           /\ WireOK(SubSeq(w, 1, k), r, s)
           /\ HasClosed(SubSeq(w, 1, k)) => HasClosed(w)
           /\ DataFrames(SubSeq(w, 1, k)) <= DataFrames(w)
           /\ DataFrames(SubSeq(w, 1, k)) \in Int
           /\ w = <<>> => SubSeq(w, 1, k) = <<>>
  <1> DEFINE v == SubSeq(w, 1, k)
  <1>1. /\ v \in Seq(Frames) /\ Len(v) = k /\ k \in Nat /\ Len(w) \in Nat /\ k <= Len(w)
        /\ \A i \in 1 .. k : v[i] = w[i] /\ i \in 1 .. Len(w)
    OBVIOUS
  <1> HIDE DEF v
  <1>2. WireOK(v, r, s)
    <2>1. \A i \in 1 .. Len(v) : v[i] = Closed => i = Len(v)
      BY <1>1 DEF WireOK
    <2>2. \A i \in 1 .. Len(v) : v[i] # Closed => v[i].to <= s
      BY <1>1 DEF WireOK
    <2>3. \A i \in 1 .. Len(v) : i < Len(v) /\ v[i+1] # Closed => v[i].to = v[i+1].from
      <3> SUFFICES ASSUME NEW i \in 1 .. Len(v), i < Len(v), v[i+1] # Closed
                   PROVE  v[i].to = v[i+1].from
        OBVIOUS
      <3>1. i + 1 \in 1 .. k /\ v[i] = w[i] /\ v[i+1] = w[i+1] /\ i \in 1 .. Len(w) /\ i < Len(w)
        BY <1>1
      <3> QED BY <3>1 DEF WireOK
    <2>4. v # <<>> /\ v[1] # Closed => v[1].from = r
      <3>1. v # <<>> => 1 \in 1 .. k /\ w # <<>>
        BY <1>1
      <3> QED BY <3>1, <1>1 DEF WireOK
    <2> QED BY <2>1, <2>2, <2>3, <2>4 DEF WireOK
  <1>3. HasClosed(v) => HasClosed(w)
    BY <1>1 DEF HasClosed
  <1>4. DataFrames(v) <= DataFrames(w) /\ DataFrames(v) \in Int
    <2>1. CASE k = Len(w)
      <3>0. w # <<>> => Len(w) \in 1 .. k /\ v # <<>>
        BY <2>1, <1>1, EmptyLen
      <3>1. w # <<>> => v # <<>> /\ v[Len(v)] = w[Len(w)]
        BY <2>1, <3>0, <1>1
      <3>2. w = <<>> => v = <<>>
        BY <2>1, <1>1, EmptyLen
      <3>3. CASE w = <<>>
        BY <2>1, <3>2, <3>3, <1>1 DEF DataFrames
      <3>4. CASE w # <<>>
        BY <2>1, <3>1, <3>4, <1>1 DEF DataFrames
      <3> QED BY <3>3, <3>4
    <2>2. CASE k < Len(w)
      BY <2>2, <1>1 DEF DataFrames
    <2> QED BY <2>1, <2>2, <1>1
  <1>5. w = <<>> => v = <<>>
    BY <1>1, EmptyLen
  <1> QED BY <1>1, <1>2, <1>3, <1>4, <1>5 DEF v

-----------------------------------------------------------------------------
(* Credit on its way back *)

(* An adjust frame appended by poll_next_chunk carries on from the totals. *)
LEMMA BackAppendAdjust ==
    ASSUME NEW k \in Seq(BackFrames), NEW f \in Nat, NEW b \in Nat,
           NEW fe \in Nat, NEW be \in Nat, NEW df \in Nat, NEW db \in Nat, df >= 1,
           BackBound(k, fe, be)
    PROVE  LET v == Append(k, Adjust(df, db, fe + df, be + db)) IN
           /\ v \in Seq(BackFrames)
           /\ BackBound(v, fe + df, be + db)
           /\ NoClose(k) => NoClose(v)
           /\ BackOK(k, f, b) /\ BackEnd(k, f, b, fe, be) =>
                 BackOK(v, f, b) /\ BackEnd(v, f, b, fe + df, be + db)
  <1> DEFINE d == Adjust(df, db, fe + df, be + db)
             v == Append(k, d)
  <1>1. /\ d \in Adjusts /\ d.frames = df /\ d.bytes = db
        /\ d.upF = fe + df /\ d.upB = be + db
    BY DEF Adjust, Adjusts
  <1>2. d # Close /\ d \in BackFrames
    BY <1>1, FrameKinds DEF BackFrames
  <1> HIDE DEF d
  <1>3. /\ v \in Seq(BackFrames) /\ Len(v) = Len(k) + 1 /\ Len(k) \in Nat
        /\ v[Len(k) + 1] = d /\ v # <<>>
        /\ \A i \in 1 .. Len(k) : v[i] = k[i] /\ k[i] \in BackFrames
        /\ (k = <<>>) <=> (Len(k) = 0)
    BY <1>2, EmptyLen
  <1> HIDE DEF v
  <1>4. BackBound(v, fe + df, be + db)
    <2> SUFFICES ASSUME NEW i \in 1 .. Len(v), v[i] # Close
                 PROVE  v[i].frames >= 1 /\ v[i].upF <= fe + df /\ v[i].upB <= be + db
      BY DEF BackBound
    <2>1. CASE i = Len(k) + 1
      BY <2>1, <1>1, <1>3
    <2>2. CASE i # Len(k) + 1
      <3>1. i \in 1 .. Len(k) /\ v[i] = k[i] /\ k[i] \in Adjusts
        BY <2>2, <1>3 DEF BackFrames
      <3>2. k[i].frames \in Nat /\ k[i].upF \in Nat /\ k[i].upB \in Nat
        BY <3>1, FrameKinds
      <3> QED BY <3>1, <3>2 DEF BackBound
    <2> QED BY <2>1, <2>2
  <1>5. ASSUME BackOK(k, f, b), BackEnd(k, f, b, fe, be)
        PROVE  BackOK(v, f, b) /\ BackEnd(v, f, b, fe + df, be + db)
    <2>1. BackEnd(v, f, b, fe + df, be + db)
      BY <1>1, <1>2, <1>3 DEF BackEnd
    <2>2. ASSUME NEW i \in 1 .. Len(v), i < Len(v), v[i+1] # Close
          PROVE  /\ v[i] # Close
                 /\ v[i+1].upF - v[i+1].frames = v[i].upF
                 /\ v[i+1].upB - v[i+1].bytes = v[i].upB
      <3>1. i \in 1 .. Len(k) /\ v[i] = k[i]
        BY <2>2, <1>3
      <3>2. CASE i = Len(k)
        <4>1. v[i+1] = d /\ k # <<>>
          BY <3>1, <3>2, <1>3
        <4>2. k[i] # Close /\ k[i].upF = fe /\ k[i].upB = be
          BY <4>1, <3>2, <1>5 DEF BackEnd
        <4> QED BY <3>1, <4>1, <4>2, <1>1
      <3>3. CASE i # Len(k)
        <4>1. i + 1 \in 1 .. Len(k) /\ v[i+1] = k[i+1] /\ i < Len(k)
          BY <3>1, <3>3, <1>3
        <4> QED BY <2>2, <3>1, <4>1, <1>5 DEF BackOK
      <3> QED BY <3>2, <3>3
    <2>3. v[1] # Close => v[1].upF - v[1].frames = f /\ v[1].upB - v[1].bytes = b
      <3>1. CASE k = <<>>
        <4>1. v[1] = d /\ f = fe /\ b = be
          BY <3>1, <1>3, <1>5 DEF BackEnd
        <4> QED BY <4>1, <1>1
      <3>2. CASE k # <<>>
        <4>1. 1 \in 1 .. Len(k) /\ v[1] = k[1]
          BY <3>2, <1>3
        <4> QED BY <3>2, <4>1, <1>5 DEF BackOK
      <3> QED BY <3>1, <3>2
    <2> QED BY <2>1, <2>2, <2>3 DEF BackOK
  <1>6. NoClose(k) => NoClose(v)
    BY <1>2, <1>3 DEF NoClose
  <1> QED BY <1>3, <1>4, <1>5, <1>6 DEF v, d

(* A close frame appended when the receiver is dropped grants nothing. *)
LEMMA BackAppendClose ==
    ASSUME NEW k \in Seq(BackFrames), NEW f \in Nat, NEW b \in Nat,
           NEW fe \in Nat, NEW be \in Nat, BackBound(k, fe, be)
    PROVE  /\ Append(k, Close) \in Seq(BackFrames)
           /\ BackBound(Append(k, Close), fe, be)
           /\ BackOK(k, f, b) => BackOK(Append(k, Close), f, b)
  <1> DEFINE v == Append(k, Close)
  <1>1. Close \in BackFrames
    BY DEF BackFrames
  <1>2. /\ v \in Seq(BackFrames) /\ Len(v) = Len(k) + 1 /\ Len(k) \in Nat
        /\ v[Len(k) + 1] = Close
        /\ \A i \in 1 .. Len(k) : v[i] = k[i]
        /\ (k = <<>>) <=> (Len(k) = 0)
    BY <1>1, EmptyLen
  <1> HIDE DEF v
  <1>3. BackBound(v, fe, be)
    <2> SUFFICES ASSUME NEW i \in 1 .. Len(v), v[i] # Close
                 PROVE  v[i].frames >= 1 /\ v[i].upF <= fe /\ v[i].upB <= be
      BY DEF BackBound
    <2>1. i \in 1 .. Len(k) /\ v[i] = k[i]
      BY <1>2
    <2> QED BY <2>1 DEF BackBound
  <1>4. ASSUME BackOK(k, f, b) PROVE BackOK(v, f, b)
    <2>1. ASSUME NEW i \in 1 .. Len(v), i < Len(v), v[i+1] # Close
          PROVE  i \in 1 .. Len(k) /\ i < Len(k) /\ v[i] = k[i] /\ v[i+1] = k[i+1]
      BY <2>1, <1>2
    <2>2. v[1] # Close => k # <<>> /\ v[1] = k[1]
      BY <1>2
    <2> QED BY <2>1, <2>2, <1>4 DEF BackOK
  <1> QED BY <1>2, <1>3, <1>4 DEF v

(* Taking an adjust frame off: the sender has caught up with its totals. *)
LEMMA BackTailAdjust ==
    ASSUME NEW k \in Seq(BackFrames), NEW f \in Nat, NEW b \in Nat,
           NEW fe \in Nat, NEW be \in Nat, BackBound(k, fe, be),
           k # <<>>, Head(k).kind = "adjust"
    PROVE  LET d == Head(k) IN
           /\ d \in Adjusts /\ d.frames >= 1 /\ d.upF <= fe /\ d.upB <= be
           /\ Tail(k) \in Seq(BackFrames)
           /\ BackBound(Tail(k), fe, be)
           /\ NoClose(k) => NoClose(Tail(k))
           /\ BackOK(k, f, b) => /\ d.upF = f + d.frames /\ d.upB = b + d.bytes
                                 /\ BackOK(Tail(k), f + d.frames, b + d.bytes)
           /\ BackOK(k, f, b) /\ BackEnd(k, f, b, fe, be) =>
                 BackEnd(Tail(k), f + d.frames, b + d.bytes, fe, be)
  <1> DEFINE v == Tail(k)
  <1>1. /\ v \in Seq(BackFrames) /\ Len(k) \in Nat /\ Len(k) >= 1 /\ Len(v) = Len(k) - 1
        /\ Head(k) = k[1] /\ k[1] \in BackFrames /\ 1 \in 1 .. Len(k)
        /\ \A i \in 1 .. Len(v) : v[i] = k[i+1] /\ i + 1 \in 1 .. Len(k)
        /\ (v = <<>>) <=> (Len(k) = 1)
    BY TailFacts
  <1> HIDE DEF v
  <1>2. k[1] \in Adjusts /\ k[1] # Close
    BY <1>1, FrameKinds DEF BackFrames
  <1>3. /\ k[1].frames \in Nat /\ k[1].bytes \in Nat /\ k[1].upF \in Nat /\ k[1].upB \in Nat
        /\ k[1].frames >= 1 /\ k[1].upF <= fe /\ k[1].upB <= be
    BY <1>1, <1>2, FrameKinds DEF BackBound
  <1>4. BackBound(v, fe, be)
    BY <1>1 DEF BackBound
  <1>5. ASSUME BackOK(k, f, b)
        PROVE  /\ k[1].upF = f + k[1].frames /\ k[1].upB = b + k[1].bytes
               /\ BackOK(v, f + k[1].frames, b + k[1].bytes)
    <2>1. k[1].upF - k[1].frames = f /\ k[1].upB - k[1].bytes = b
      BY <1>2, <1>5 DEF BackOK
    <2>2. k[1].upF = f + k[1].frames /\ k[1].upB = b + k[1].bytes
      BY <2>1, <1>3
    <2>3. ASSUME NEW i \in 1 .. Len(v), i < Len(v), v[i+1] # Close
          PROVE  /\ v[i] # Close
                 /\ v[i+1].upF - v[i+1].frames = v[i].upF
                 /\ v[i+1].upB - v[i+1].bytes = v[i].upB
      <3>1. /\ i + 1 \in 1 .. Len(v) /\ v[i] = k[i+1] /\ v[i+1] = k[(i+1)+1]
            /\ i + 1 \in 1 .. Len(k) /\ i + 1 < Len(k)
        BY <2>3, <1>1
      <3> QED BY <2>3, <3>1, <1>5 DEF BackOK
    <2>4. v # <<>> /\ v[1] # Close =>
             v[1].upF - v[1].frames = k[1].upF /\ v[1].upB - v[1].bytes = k[1].upB
      <3> SUFFICES ASSUME v # <<>>, v[1] # Close
                   PROVE v[1].upF - v[1].frames = k[1].upF /\ v[1].upB - v[1].bytes = k[1].upB
        OBVIOUS
      <3>1. 1 \in 1 .. Len(v) /\ v[1] = k[1+1] /\ 1 < Len(k)
        BY <1>1
      <3> QED BY <3>1, <1>1, <1>5 DEF BackOK
    <2> QED BY <2>2, <2>3, <2>4 DEF BackOK
  <1>6. ASSUME BackOK(k, f, b), BackEnd(k, f, b, fe, be)
        PROVE  BackEnd(v, f + k[1].frames, b + k[1].bytes, fe, be)
    <2>1. CASE Len(k) = 1
      BY <2>1, <1>1, <1>2, <1>5, <1>6 DEF BackEnd
    <2>2. CASE Len(k) > 1
      <3>1. v # <<>> /\ Len(v) \in 1 .. Len(v) /\ v[Len(v)] = k[Len(k)]
        BY <2>2, <1>1
      <3> QED BY <3>1, <1>6 DEF BackEnd
    <2> QED BY <2>1, <2>2, <1>1
  <1>7. NoClose(k) => NoClose(v)
    BY <1>1 DEF NoClose
  <1> QED BY <1>1, <1>2, <1>3, <1>4, <1>5, <1>6, <1>7 DEF v

(* Taking the close frame off. *)
LEMMA BackTailClose ==
    ASSUME NEW k \in Seq(BackFrames), NEW f \in Nat, NEW b \in Nat,
           NEW fe \in Nat, NEW be \in Nat, BackBound(k, fe, be),
           k # <<>>, Head(k).kind = "close"
    PROVE  /\ Tail(k) \in Seq(BackFrames)
           /\ BackBound(Tail(k), fe, be)
           /\ BackOK(k, f, b) => BackOK(Tail(k), f, b)
           /\ ~NoClose(k)
  <1> DEFINE v == Tail(k)
  <1>1. /\ v \in Seq(BackFrames) /\ Len(k) \in Nat /\ Len(k) >= 1 /\ Len(v) = Len(k) - 1
        /\ Head(k) = k[1] /\ k[1] \in BackFrames /\ 1 \in 1 .. Len(k)
        /\ \A i \in 1 .. Len(v) : v[i] = k[i+1] /\ i + 1 \in 1 .. Len(k)
        /\ (v = <<>>) <=> (Len(k) = 1)
    BY TailFacts
  <1> HIDE DEF v
  <1>2. k[1] = Close
    BY <1>1, FrameKinds DEF BackFrames
  <1>3. BackBound(v, fe, be)
    BY <1>1 DEF BackBound
  <1>4. ASSUME BackOK(k, f, b) PROVE BackOK(v, f, b)
    <2>1. ASSUME NEW i \in 1 .. Len(v), i < Len(v), v[i+1] # Close
          PROVE  /\ v[i] # Close
                 /\ v[i+1].upF - v[i+1].frames = v[i].upF
                 /\ v[i+1].upB - v[i+1].bytes = v[i].upB
      <3>1. /\ i + 1 \in 1 .. Len(v) /\ v[i] = k[i+1] /\ v[i+1] = k[(i+1)+1]
            /\ i + 1 \in 1 .. Len(k) /\ i + 1 < Len(k)
        BY <2>1, <1>1
      <3> QED BY <2>1, <3>1, <1>4 DEF BackOK
    <2>2. v # <<>> => v[1] = Close
      <3> SUFFICES ASSUME v # <<>>, v[1] # Close PROVE FALSE
        OBVIOUS
      <3>1. 1 \in 1 .. Len(v) /\ v[1] = k[1+1] /\ 1 < Len(k)
        BY <1>1
      <3> QED BY <3>1, <1>1, <1>2, <1>4 DEF BackOK
    <2> QED BY <2>1, <2>2 DEF BackOK
  <1>5. ~NoClose(k)
    BY <1>1, <1>2 DEF NoClose
  <1> QED BY <1>1, <1>3, <1>4, <1>5 DEF v

(* What is left when B clears its outgoing queue. *)
LEMMA BackPrefix ==
    ASSUME NEW k \in Seq(BackFrames), NEW f \in Nat, NEW b \in Nat,
           NEW fe \in Nat, NEW be \in Nat, BackBound(k, fe, be), NEW n \in 0 .. Len(k)
    PROVE  /\ SubSeq(k, 1, n) \in Seq(BackFrames)
           /\ BackBound(SubSeq(k, 1, n), fe, be)
           /\ NoClose(k) => NoClose(SubSeq(k, 1, n))
           /\ BackOK(k, f, b) => BackOK(SubSeq(k, 1, n), f, b)
  <1> DEFINE v == SubSeq(k, 1, n)
  <1>1. /\ v \in Seq(BackFrames) /\ Len(v) = n /\ n \in Nat /\ Len(k) \in Nat /\ n <= Len(k)
        /\ \A i \in 1 .. n : v[i] = k[i] /\ i \in 1 .. Len(k)
    OBVIOUS
  <1>2. (v = <<>>) <=> (n = 0)
    BY <1>1, EmptyLen
  <1>3. (k = <<>>) <=> (Len(k) = 0)
    BY EmptyLen
  <1> HIDE DEF v
  <1>4. BackBound(v, fe, be) /\ (NoClose(k) => NoClose(v))
    BY <1>1 DEF BackBound, NoClose
  <1>5. ASSUME BackOK(k, f, b) PROVE BackOK(v, f, b)
    <2>1. ASSUME NEW i \in 1 .. Len(v), i < Len(v), v[i+1] # Close
          PROVE  i \in 1 .. Len(k) /\ i < Len(k) /\ v[i] = k[i] /\ v[i+1] = k[i+1]
      <3>1. i + 1 \in 1 .. n
        BY <2>1, <1>1
      <3> QED BY <2>1, <3>1, <1>1
    <2>2. v # <<>> /\ v[1] # Close => k # <<>> /\ v[1] = k[1]
      BY <1>1, <1>2, <1>3
    <2> QED BY <2>1, <2>2, <1>5 DEF BackOK
  <1> QED BY <1>1, <1>4, <1>5 DEF v

-----------------------------------------------------------------------------
(* The receive buffer *)

(* A chunk that continues what was received continues the buffer. *)
LEMMA BufferAppend ==
    ASSUME NEW q \in Seq(Intervals), NEW r \in Nat, NEW s \in Nat,
           NEW d \in Intervals, d.from = s, BufferOK(q, r, s)
    PROVE  /\ Append(q, d) \in Seq(Intervals) /\ Len(Append(q, d)) = Len(q) + 1
           /\ BufferOK(Append(q, d), r, d.to)
  <1> DEFINE v == Append(q, d)
  <1>1. /\ v \in Seq(Intervals) /\ Len(v) = Len(q) + 1 /\ Len(q) \in Nat
        /\ v[Len(q) + 1] = d /\ v # <<>>
        /\ \A i \in 1 .. Len(q) : v[i] = q[i]
        /\ (q = <<>>) <=> (Len(q) = 0)
    <2>1. Len(q) \in Nat /\ ((q = <<>>) <=> (Len(q) = 0))
      BY EmptyLen
    <2> QED BY <2>1, AppendProperties
  <1>2. d.to \in Nat /\ d.from < d.to
    BY FrameKinds
  <1> HIDE DEF v
  <1>3. ASSUME NEW i \in 1 .. Len(v), i < Len(v) PROVE v[i].to = v[i+1].from
    <2>1. i \in 1 .. Len(q) /\ v[i] = q[i]
      BY <1>1, <1>3
    <2>2. CASE i = Len(q)
      <3>1. v[i+1] = d /\ q # <<>>
        BY <2>1, <2>2, <1>1
      <3> QED BY <2>1, <2>2, <3>1 DEF BufferOK
    <2>3. CASE i # Len(q)
      <3>1. i + 1 \in 1 .. Len(q) /\ v[i+1] = q[i+1] /\ i < Len(q)
        BY <2>1, <2>3, <1>1
      <3> QED BY <2>1, <3>1 DEF BufferOK
    <2> QED BY <2>2, <2>3
  <1>4. v[1].from = r
    <2>1. CASE q = <<>>
      BY <2>1, <1>1 DEF BufferOK
    <2>2. CASE q # <<>>
      <3>1. 1 \in 1 .. Len(q) /\ v[1] = q[1]
        BY <2>2, <1>1
      <3> QED BY <2>2, <3>1 DEF BufferOK
    <2> QED BY <2>1, <2>2
  <1>5. r <= d.to
    <2>1. r <= s
      BY DEF BufferOK
    <2> QED BY <2>1, <1>2
  <1>7. ASSUME NEW i \in 1 .. Len(v) PROVE v[i].to <= d.to
    <2>1. CASE i = Len(q) + 1
      BY <2>1, <1>1, <1>2
    <2>2. CASE i # Len(q) + 1
      <3>1. i \in 1 .. Len(q) /\ v[i] = q[i] /\ q[i] \in Intervals
        BY <2>2, <1>1
      <3>2. q[i].to \in Nat /\ q[i].to <= s
        BY <3>1, FrameKinds DEF BufferOK
      <3> QED BY <3>1, <3>2, <1>2
    <2> QED BY <2>1, <2>2
  <1>6. BufferOK(v, r, d.to)
    BY <1>1, <1>3, <1>4, <1>5, <1>7 DEF BufferOK
  <1> QED BY <1>1, <1>6 DEF v

(* Reading the first chunk moves the reader forward by its payload. *)
LEMMA BufferTail ==
    ASSUME NEW q \in Seq(Intervals), NEW r \in Nat, NEW s \in Nat,
           q # <<>>, BufferOK(q, r, s)
    PROVE  /\ Head(q) \in Intervals /\ Head(q).from = r /\ Head(q).to <= s
           /\ Tail(q) \in Seq(Intervals) /\ Len(Tail(q)) = Len(q) - 1
           /\ BufferOK(Tail(q), Head(q).to, s)
  <1> DEFINE v == Tail(q)
  <1>1. /\ v \in Seq(Intervals) /\ Len(q) \in Nat /\ Len(q) >= 1 /\ Len(v) = Len(q) - 1
        /\ Head(q) = q[1] /\ q[1] \in Intervals /\ 1 \in 1 .. Len(q)
        /\ \A i \in 1 .. Len(v) : v[i] = q[i+1] /\ i + 1 \in 1 .. Len(q)
        /\ (v = <<>>) <=> (Len(q) = 1)
    BY TailFacts
  <1> HIDE DEF v
  <1>2. ASSUME NEW i \in 1 .. Len(v), i < Len(v) PROVE v[i].to = v[i+1].from
    <2>1. /\ i + 1 \in 1 .. Len(v) /\ v[i] = q[i+1] /\ v[i+1] = q[(i+1)+1]
          /\ i + 1 \in 1 .. Len(q) /\ i + 1 < Len(q)
      BY <1>1, <1>2
    <2> QED BY <2>1 DEF BufferOK
  <1>3. v # <<>> => v[1].from = q[1].to /\ v[Len(v)].to = s
    <2> SUFFICES ASSUME v # <<>> PROVE v[1].from = q[1].to /\ v[Len(v)].to = s
      OBVIOUS
    <2>1. 1 \in 1 .. Len(v) /\ v[1] = q[1+1] /\ 1 < Len(q) /\ v[Len(v)] = q[Len(q)]
      BY <1>1
    <2> QED BY <2>1, <1>1 DEF BufferOK
  <1>4. v = <<>> => q[1].to = s
    BY <1>1 DEF BufferOK
  <1>6. q[1].to <= s /\ \A i \in 1 .. Len(v) : v[i].to <= s
    BY <1>1 DEF BufferOK
  <1>5. BufferOK(v, q[1].to, s)
    BY <1>1, <1>2, <1>3, <1>4, <1>6 DEF BufferOK
  <1>7. q[1].from = r
    BY DEF BufferOK
  <1> QED BY <1>1, <1>5, <1>6, <1>7 DEF v

-----------------------------------------------------------------------------
(* The inductive invariant, one lemma per action that changes a frame       *)
(* sequence and one for the actions that leave all of them alone.           *)

LEMMA InitInv == Init => IInv
  <1> SUFFICES ASSUME Init PROVE IInv
    OBVIOUS
  <1>1. /\ wire = <<>> /\ back = <<>> /\ buffer = <<>>
        /\ Len(wire) = 0 /\ Len(back) = 0 /\ Len(buffer) = 0
    BY DEF Init
  <1>2. TypeOK
    <2>1. wire \in Seq(Intervals \cup {Closed}) /\ back \in Seq(Adjusts \cup {Close}) /\ buffer \in Seq(Intervals)
      BY <1>1
    <2> QED BY <2>1, FlowAssumption DEF Init, TypeOK, Handles, Conns
  <1>3. WireOK(wire, 0, 0) /\ WireEnd(wire, 0, 0) /\ ~HasClosed(wire) /\ DataFrames(wire) = 0
    BY <1>1 DEF WireOK, WireEnd, HasClosed, DataFrames
  <1>4. BackOK(back, 0, 0) /\ BackBound(back, 0, 0) /\ BackEnd(back, 0, 0, 0, 0) /\ NoClose(back)
    BY <1>1 DEF BackOK, BackBound, BackEnd, NoClose
  <1>5. BufferOK(buffer, 0, 0)
    BY <1>1 DEF BufferOK
  <1> QED
    BY <1>1, <1>2, <1>3, <1>4, <1>5, FlowAssumption
    DEF Init, IInv, SenderInv, WireInv, CreditInv, BackInv, ReceiverInv, WindowInv, Buffered

(* The numeric part of the type invariant, which most steps need. *)
Scalars ==
    /\ written \in Nat /\ sent \in Nat /\ sFrame \in Nat /\ sByte \in Nat
    /\ received \in Nat /\ read \in Nat
    /\ maxFrame \in Nat /\ maxByte \in Nat /\ rFrame \in Nat /\ rByte \in Nat
    /\ pFrame \in Nat /\ pByte \in Nat
    /\ gFrame \in Nat /\ gByte \in Nat /\ tFrame \in Nat /\ tByte \in Nat
    /\ Len(buffer) \in Nat /\ DataFrames(wire) \in Nat

LEMMA Numbers == IInv => Scalars
  <1> SUFFICES ASSUME IInv PROVE Scalars
    OBVIOUS
  <1>1. wire \in Seq(Frames) /\ buffer \in Seq(Intervals)
    BY DEF IInv, TypeOK, Frames
  <1>2. Len(buffer) \in Nat
    BY <1>1, EmptyLen
  <1>3. DataFrames(wire) \in Nat
    BY <1>1, EmptyLen DEF DataFrames
  <1> QED BY <1>2, <1>3 DEF IInv, TypeOK, Scalars

LEMMA PollFlushClosedInv == IInv /\ PollFlushClosed => IInv'
  BY DEF PollFlushClosed, IInv, TypeOK, SenderInv, WireInv, CreditInv, BackInv, ReceiverInv, WindowInv,
         Buffered, Handles, Conns, senderVars, aVars, windowVars, receiverVars, bVars, creditHist

LEMMA PollFlushReadyInv == IInv /\ PollFlushReady => IInv'
  BY DEF PollFlushReady, IInv, TypeOK, SenderInv, WireInv, CreditInv, BackInv, ReceiverInv, WindowInv,
         Buffered, Handles, Conns, senderVars, aVars, windowVars, receiverVars, bVars, creditHist

LEMMA DropOtherHalfAInv == IInv /\ DropOtherHalfA => IInv'
  BY DEF DropOtherHalfA, IInv, TypeOK, SenderInv, WireInv, CreditInv, BackInv, ReceiverInv, WindowInv,
         Buffered, Handles, Conns, senderVars, aVars, windowVars, receiverVars, bVars, creditHist

LEMMA CleanupChannelAInv == IInv /\ CleanupChannelA => IInv'
  BY DEF CleanupChannelA, IInv, TypeOK, SenderInv, WireInv, CreditInv, BackInv, ReceiverInv, WindowInv,
         Buffered, Handles, Conns, senderVars, aVars, windowVars, receiverVars, bVars, creditHist

LEMMA PollNextEofInv == IInv /\ PollNextEof => IInv'
  <1> SUFFICES ASSUME IInv, PollNextEof PROVE IInv'
    OBVIOUS
  <1>1. aConn = "up" /\ bConn = "up" => read = sent /\ (closedSent \/ sDropped)
    BY DEF PollNextEof, IInv, ReceiverInv, WireInv, WireEnd, BufferOK
  <1> QED
    BY <1>1 DEF PollNextEof, IInv, TypeOK, SenderInv, WireInv, CreditInv, BackInv, ReceiverInv, WindowInv, Buffered,
         Handles, Conns, senderVars, aVars, windowVars, receiverVars, bVars, creditHist

LEMMA DropOtherHalfBInv == IInv /\ DropOtherHalfB => IInv'
  BY DEF DropOtherHalfB, IInv, TypeOK, SenderInv, WireInv, CreditInv, BackInv, ReceiverInv, WindowInv,
         Buffered, Handles, Conns, senderVars, aVars, windowVars, receiverVars, bVars, creditHist

LEMMA CleanupChannelBInv == IInv /\ CleanupChannelB => IInv'
  BY DEF CleanupChannelB, IInv, TypeOK, SenderInv, WireInv, CreditInv, BackInv, ReceiverInv, WindowInv,
         Buffered, Handles, Conns, senderVars, aVars, windowVars, receiverVars, bVars, creditHist

LEMMA PollSendChunkInv == IInv /\ PollSendChunk => IInv'
  <1> SUFFICES ASSUME IInv, PollSendChunk PROVE IInv'
    OBVIOUS
  <1>num. Scalars
    BY Numbers
  <1>1. /\ wire \in Seq(Frames) /\ received \in Nat /\ sent \in Nat /\ written \in Nat
        /\ WireOK(wire, received, sent) /\ WireEnd(wire, received, sent) /\ ~HasClosed(wire)
        /\ sent < written
    BY DEF PollSendChunk, IInv, TypeOK, WireInv, SenderInv, Frames
  <1>2. /\ wire' \in Seq(Frames)
        /\ WireOK(wire', received, written) /\ WireEnd(wire', received, written)
        /\ ~HasClosed(wire') /\ DataFrames(wire') = DataFrames(wire) + 1
    BY <1>1, WireAppendData DEF PollSendChunk
  <1>3. DataFrames(wire) \in Int
    BY <1>1, EmptyLen DEF DataFrames
  <1>4. sByte - (written - sent) \in Nat /\ sFrame - 1 \in Nat
    BY DEF PollSendChunk, IInv, TypeOK, SenderInv
  <1>5. /\ sFrame' = sFrame - 1 /\ sByte' = sByte - (written - sent) /\ sent' = written
        /\ ~sDropped /\ wpc = "idle" /\ ~sClosed /\ aConn = "up" /\ violations' = {}
        /\ UNCHANGED <<wpc, written, sClosed, sDropped, closedSent, aVars, back,
                       windowVars, receiverVars, bVars, creditHist>>
    BY DEF PollSendChunk, IInv
  <1>6. ~closedSent
    BY <1>1, <1>num DEF IInv, SenderInv, Scalars
  <1>7. TypeOK'
    BY <1>1, <1>2, <1>3, <1>4, <1>5, <1>6 DEF IInv, TypeOK, Handles, Conns, Frames, BackFrames, senderVars, aVars, windowVars, receiverVars, bVars, creditHist
  <1>8. SenderInv'
    BY <1>1, <1>2, <1>3, <1>4, <1>5, <1>6, <1>num DEF IInv, SenderInv, senderVars, aVars, windowVars, receiverVars, bVars, creditHist, Scalars
  <1>9. WireInv'
    BY <1>1, <1>2, <1>3, <1>4, <1>5, <1>6, <1>num DEF IInv, WireInv, senderVars, aVars, windowVars, receiverVars, bVars, creditHist, Scalars
  <1>10. CreditInv'
    <2>1. CreditInv
      BY DEF IInv
    <2>2. UNCHANGED <<gFrame, gByte, tFrame, tByte, received, rFrame, rByte>>
      BY <1>5 DEF receiverVars, creditHist
    <2> QED BY <2>1, <2>2, <1>1, <1>2, <1>5, <1>num DEF CreditInv, Scalars
  <1>11. BackInv'
    BY <1>1, <1>2, <1>3, <1>4, <1>5, <1>6, <1>num DEF IInv, BackInv, senderVars, aVars, windowVars, receiverVars, bVars, creditHist, Scalars
  <1>12. ReceiverInv'
    BY <1>1, <1>2, <1>3, <1>4, <1>5, <1>6, <1>num DEF IInv, ReceiverInv, senderVars, aVars, windowVars, receiverVars, bVars, creditHist, Scalars
  <1>13. WindowInv'
    BY <1>1, <1>2, <1>3, <1>4, <1>5, <1>6, <1>num DEF IInv, WindowInv, Buffered, senderVars, aVars, windowVars, receiverVars, bVars, creditHist, Scalars
  <1> QED BY <1>7, <1>8, <1>9, <1>10, <1>11, <1>12, <1>13, <1>5 DEF IInv

LEMMA PollWriteInv ==
    ASSUME NEW n \in Nat, IInv, PollWrite(n)
    PROVE  IInv'
  <1> DEFINE c == Smaller(Smaller(sByte, n), MaxChunk)
  <1>1. c \in Nat /\ c <= sByte
    BY FlowAssumption DEF Smaller, IInv, TypeOK
  <1>2. written' = written + c
    BY DEF PollWrite
  <1> HIDE DEF c
  <1>3. TypeOK'
    BY <1>1, <1>2 DEF PollWrite, IInv, TypeOK, Handles, Conns, Frames, BackFrames, senderVars, aVars, windowVars, receiverVars, bVars, creditHist
  <1>4. SenderInv'
    BY <1>1, <1>2 DEF PollWrite, IInv, TypeOK, SenderInv, senderVars, aVars, windowVars, receiverVars, bVars, creditHist
  <1>5. WireInv'
    BY <1>1, <1>2 DEF PollWrite, IInv, TypeOK, WireInv, senderVars, aVars, windowVars, receiverVars, bVars, creditHist
  <1>6. CreditInv'
    BY <1>1, <1>2 DEF PollWrite, IInv, TypeOK, CreditInv, senderVars, aVars, windowVars, receiverVars, bVars, creditHist
  <1>7. BackInv'
    BY <1>1, <1>2 DEF PollWrite, IInv, TypeOK, BackInv, senderVars, aVars, windowVars, receiverVars, bVars, creditHist
  <1>8. ReceiverInv'
    BY <1>1, <1>2 DEF PollWrite, IInv, TypeOK, ReceiverInv, senderVars, aVars, windowVars, receiverVars, bVars, creditHist
  <1>9. WindowInv'
    BY <1>1, <1>2 DEF PollWrite, IInv, TypeOK, WindowInv, Buffered, senderVars, aVars, windowVars, receiverVars, bVars, creditHist
  <1>10. violations' = {}
    BY <1>1, <1>2 DEF PollWrite, IInv
  <1> QED BY <1>3, <1>4, <1>5, <1>6, <1>7, <1>8, <1>9, <1>10 DEF IInv

(* SendFrameA(Closed) in a state where no closed frame has been sent. *)
LEMMA SendClosed ==
    ASSUME IInv, SendFrameA(Closed), ~closedSent, ~sDropped
    PROVE  /\ wire' \in Seq(Frames) /\ aConn' \in Conns
           /\ WireOK(wire', received, sent)
           /\ DataFrames(wire') = DataFrames(wire) /\ DataFrames(wire) \in Int
           /\ aConn' = "up" => aConn = "up" /\ WireEnd(wire', received, sent)
           /\ (aConn' = "closed") <=> (aConn = "closed")
           /\ wire' # <<>> => wire # <<>> \/ aConn = "up"
  <1>1. /\ wire \in Seq(Frames) /\ received \in Nat /\ sent \in Nat
        /\ WireOK(wire, received, sent) /\ ~HasClosed(wire)
        /\ aConn = "up" => WireEnd(wire, received, sent)
        /\ aConn \in Conns
    BY DEF IInv, TypeOK, WireInv, SenderInv, Frames
  <1>2. /\ Append(wire, Closed) \in Seq(Frames)
        /\ WireOK(Append(wire, Closed), received, sent)
        /\ WireEnd(wire, received, sent) => WireEnd(Append(wire, Closed), received, sent)
        /\ DataFrames(Append(wire, Closed)) = DataFrames(wire)
    BY <1>1, WireAppendClosed
  <1>3. DataFrames(wire) \in Int
    BY <1>1, EmptyLen DEF DataFrames
  <1> QED BY <1>1, <1>2, <1>3 DEF SendFrameA, Conns

LEMMA PollCloseInv == IInv /\ PollClose => IInv'
  <1> SUFFICES ASSUME IInv, PollClose PROVE IInv'
    OBVIOUS
  <1>1. SendFrameA(Closed) /\ ~closedSent /\ ~sDropped /\ sent = written
    BY DEF PollClose, IInv, SenderInv
  <1> QED
    BY <1>1, SendClosed DEF PollClose, Frames, IInv, TypeOK, SenderInv, WireInv, CreditInv, BackInv, ReceiverInv, WindowInv, Buffered,
         Handles, Conns, senderVars, aVars, windowVars, receiverVars, bVars, creditHist

LEMMA DropSenderInv == IInv /\ DropSender => IInv'
  <1> SUFFICES ASSUME IInv, DropSender PROVE IInv'
    OBVIOUS
  <1>1. CASE closedSent
    BY <1>1 DEF DropSender, IInv, TypeOK, SenderInv, WireInv, CreditInv, BackInv, ReceiverInv, WindowInv, Buffered,
         Handles, Conns, senderVars, aVars, windowVars, receiverVars, bVars, creditHist
  <1>2. CASE ~closedSent
    <2>1. SendFrameA(Closed) /\ ~sDropped
      BY <1>2 DEF DropSender
    <2> QED
      BY <1>2, <2>1, SendClosed DEF DropSender, Frames, IInv, TypeOK, SenderInv, WireInv, CreditInv, BackInv, ReceiverInv, WindowInv, Buffered,
         Handles, Conns, senderVars, aVars, windowVars, receiverVars, bVars, creditHist
  <1> QED BY <1>1, <1>2

LEMMA HandleAdjustInv == IInv /\ HandleAdjust => IInv'
  <1> SUFFICES ASSUME IInv, HandleAdjust PROVE IInv'
    OBVIOUS
  <1>num. Scalars
    BY Numbers
  <1>0. PICK d : d = Head(back)
    OBVIOUS
  <1>1. /\ back \in Seq(BackFrames) /\ tFrame \in Nat /\ tByte \in Nat
        /\ gFrame \in Nat /\ gByte \in Nat
        /\ back # <<>> /\ d.kind = "adjust" /\ back' = Tail(back)
        /\ BackBound(back, gFrame, gByte)
    BY <1>0 DEF HandleAdjust, IInv, TypeOK, BackInv, BackFrames
  <1>2. /\ d \in Adjusts /\ d.frames >= 1 /\ d.upF <= gFrame /\ d.upB <= gByte
        /\ back' \in Seq(BackFrames)
        /\ BackBound(back', gFrame, gByte)
        /\ NoClose(back) => NoClose(back')
        /\ BackOK(back, tFrame, tByte) =>
              /\ d.upF = tFrame + d.frames /\ d.upB = tByte + d.bytes
              /\ BackOK(back', tFrame + d.frames, tByte + d.bytes)
        /\ BackOK(back, tFrame, tByte) /\ BackEnd(back, tFrame, tByte, gFrame, gByte) =>
              BackEnd(back', tFrame + d.frames, tByte + d.bytes, gFrame, gByte)
    BY <1>0, <1>1, BackTailAdjust
  <1>3. PICK n \in Nat, m \in Nat : n = d.frames /\ m = d.bytes
    BY <1>2, FrameKinds
  <1>13. d.upF \in Nat /\ d.upB \in Nat
    BY <1>2, FrameKinds
  <1>4. UNCHANGED <<wpc, written, sent, sClosed, sDropped, closedSent, aVars, wire,
                       windowVars, receiverVars, bVars, gFrame, gByte>>
    BY DEF HandleAdjust
  <1>5. /\ violations = {} /\ aConn # "closed"
        /\ violations' = violations \cup
             (IF n = 0 /\ m = 0 THEN {"empty channel credit adjustment"} ELSE {}) \cup
             (IF aHandle = "active" /\ (\/ sFrame + n > MaxCredit
                                       \/ sByte + m > MaxCredit)
              THEN {"credit overflow"} ELSE {})
        /\ aHandle = "active" =>
              /\ sFrame' = sFrame + n /\ sByte' = sByte + m
              /\ tFrame' = tFrame + n /\ tByte' = tByte + m
        /\ aHandle # "active" => UNCHANGED <<sFrame, sByte, tFrame, tByte>>
    BY <1>0, <1>3 DEF HandleAdjust, IInv
  <1>6. n >= 1
    BY <1>2, <1>3
  <1>7. ~(n = 0 /\ m = 0)
    BY <1>3, <1>6
  <1>8. CreditInv /\ SenderInv
    BY DEF IInv
  <1>9. UNCHANGED <<wpc, written, sent, sClosed, sDropped, closedSent, aConn, wire, received, rFrame, rByte, gFrame, gByte>>
    BY <1>4 DEF aVars, receiverVars
  <1>10. back' \in Seq(Adjusts \cup {Close})
    BY <1>2 DEF BackFrames
  <1>11. CASE aHandle = "active"
    <2>1. /\ tFrame + n <= gFrame /\ tByte + m <= gByte
          /\ BackOK(back', tFrame + n, tByte + m)
      <3>1. /\ tFrame + n <= gFrame /\ tByte + m <= gByte
            /\ BackOK(back', tFrame + d.frames, tByte + d.bytes)
        BY <1>2, <1>3, <1>11 DEF IInv, BackInv
      <3> QED BY <3>1, <1>3
    <2>2. /\ sFrame' = sFrame + n /\ sByte' = sByte + m
          /\ tFrame' = tFrame + n /\ tByte' = tByte + m
      BY <1>5, <1>11
    <2>3. sFrame + n <= MaxCredit /\ sByte + m <= MaxCredit
      <3>1. rFrame <= MaxCredit /\ rByte <= MaxCredit
        <4>1. Buffered \in Nat
          BY <1>num DEF IInv, ReceiverInv, Buffered, Scalars
        <4> QED BY <4>1, <1>num, FlowAssumption DEF IInv, WindowInv, Scalars
      <3>2. sFrame + n <= rFrame
        BY <1>8, <2>1, <1>num DEF CreditInv, Scalars
      <3>3. received <= sent
        BY DEF IInv, WireInv
      <3>4. sByte + m <= rByte
        BY <1>8, <2>1, <3>3, <1>num DEF CreditInv, Scalars
      <3>5. MaxCredit \in Nat
        BY FlowAssumption
      <3> QED BY <3>1, <3>2, <3>4, <3>5, <1>num DEF Scalars
    <2>4. violations' = {}
      <3>1. ~(sFrame + n > MaxCredit \/ sByte + m > MaxCredit)
        <4>1. MaxCredit \in Nat
          BY FlowAssumption
        <4> QED BY <4>1, <2>3, <1>num DEF Scalars
      <3> QED BY <3>1, <1>5, <1>7
    <2>5. sFrame' \in Nat /\ sByte' \in Nat /\ tFrame' \in Nat /\ tByte' \in Nat
      <3>1. /\ sFrame + n \in Nat /\ sByte + m \in Nat
            /\ tFrame + n \in Nat /\ tByte + m \in Nat
        BY <1>num DEF Scalars
      <3> QED BY <2>2, <3>1
    <2>6. TypeOK'
      BY <2>4, <2>5, <1>4, <1>10 DEF IInv, TypeOK, senderVars, aVars, windowVars, receiverVars, bVars, creditHist
    <2>7. SenderInv'
      BY <1>8, <1>9, <2>2, <1>4, <1>num DEF SenderInv, Scalars, aVars
    <2>8. WireInv'
      BY <1>9 DEF IInv, WireInv
    <2>9. CreditInv'
      <3>1. /\ sFrame' + DataFrames(wire) + (gFrame - tFrame') = sFrame + DataFrames(wire) + (gFrame - tFrame)
            /\ sByte' + (sent - received) + (gByte - tByte') = sByte + (sent - received) + (gByte - tByte)
        BY <2>2, <1>num DEF Scalars
      <3> QED BY <1>8, <1>9, <2>1, <2>2, <3>1 DEF CreditInv
    <2>10. BackInv'
      BY <1>2, <1>3, <1>4, <2>1, <2>2, <1>11 DEF IInv, BackInv, senderVars, aVars, windowVars, receiverVars, bVars, creditHist
    <2>11. ReceiverInv' /\ WindowInv'
      BY <1>4 DEF IInv, ReceiverInv, WindowInv, Buffered, senderVars, aVars, windowVars, receiverVars, bVars, creditHist
    <2> QED BY <2>4, <2>6, <2>7, <2>8, <2>9, <2>10, <2>11 DEF IInv
  <1>12. CASE aHandle # "active"
    <2>1. violations' = {}
      BY <1>5, <1>7, <1>12
    <2>2. UNCHANGED <<sFrame, sByte, tFrame, tByte>>
      BY <1>5, <1>12
    <2>3. TypeOK'
      BY <2>1, <2>2, <1>4, <1>10 DEF IInv, TypeOK, senderVars, aVars, windowVars, receiverVars, bVars, creditHist
    <2>4. SenderInv' /\ CreditInv'
      BY <1>8, <1>9, <2>2, <1>4 DEF SenderInv, CreditInv, aVars
    <2>5. WireInv'
      BY <1>9 DEF IInv, WireInv
    <2>6. BackInv'
      BY <1>2, <1>4, <1>12 DEF IInv, BackInv, senderVars, aVars, windowVars, receiverVars, bVars, creditHist
    <2>7. ReceiverInv' /\ WindowInv'
      BY <1>4 DEF IInv, ReceiverInv, WindowInv, Buffered, senderVars, aVars, windowVars, receiverVars, bVars, creditHist
    <2> QED BY <2>1, <2>3, <2>4, <2>5, <2>6, <2>7 DEF IInv
  <1> QED BY <1>11, <1>12

LEMMA HandleCloseInv == IInv /\ HandleClose => IInv'
  <1> SUFFICES ASSUME IInv, HandleClose PROVE IInv'
    OBVIOUS
  <1>1. /\ back \in Seq(BackFrames) /\ tFrame \in Nat /\ tByte \in Nat
        /\ gFrame \in Nat /\ gByte \in Nat
        /\ back # <<>> /\ Head(back).kind = "close" /\ back' = Tail(back)
        /\ BackBound(back, gFrame, gByte)
    BY DEF HandleClose, IInv, TypeOK, BackInv, BackFrames
  <1>2. /\ back' \in Seq(BackFrames)
        /\ BackBound(back', gFrame, gByte)
        /\ BackOK(back, tFrame, tByte) => BackOK(back', tFrame, tByte)
        /\ ~NoClose(back)
    BY <1>1, BackTailClose
  <1>3. rDropped
    BY <1>2 DEF IInv, BackInv
  <1> QED
    BY <1>2, <1>3 DEF HandleClose, BackFrames, IInv, TypeOK, SenderInv, WireInv, CreditInv, BackInv, ReceiverInv, WindowInv, Buffered,
         Handles, Conns, senderVars, aVars, windowVars, receiverVars, bVars, creditHist

(* The credit left for B covers every data frame on the wire, so taking one *)
(* is never a violation.                                                   *)
LEMMA HandleDataInv == IInv /\ HandleData => IInv'
  <1> SUFFICES ASSUME IInv, HandleData PROVE IInv'
    OBVIOUS
  <1>num. Scalars
    BY Numbers
  <1>0. PICK h : h = Head(wire)
    OBVIOUS
  <1>1. /\ wire \in Seq(Frames) /\ wire # <<>> /\ h.kind = "data"
        /\ WireOK(wire, received, sent) /\ received \in Nat /\ sent \in Nat
        /\ read <= received /\ received <= sent
        /\ aConn = "up" => WireEnd(wire, received, sent)
    BY <1>0, <1>num DEF HandleData, IInv, TypeOK, WireInv, ReceiverInv, Frames, Scalars
  <1>2. /\ h \in Intervals /\ h.from = received /\ h.to <= sent
        /\ Tail(wire) \in Seq(Frames)
        /\ WireOK(Tail(wire), h.to, sent)
        /\ WireEnd(wire, received, sent) => WireEnd(Tail(wire), h.to, sent)
        /\ HasClosed(Tail(wire)) => HasClosed(wire)
        /\ DataFrames(Tail(wire)) = DataFrames(wire) - 1 /\ DataFrames(wire) >= 1
    BY <1>0, <1>1, WireTailData
  <1>t. PICK to \in Nat : to = h.to
    BY <1>2, FrameKinds
  <1>3. received < to /\ to <= sent /\ DataFrames(wire') = DataFrames(wire) - 1
    BY <1>0, <1>1, <1>2, <1>t, FrameKinds DEF HandleData
  <1>4. /\ wire' = Tail(wire) /\ received' = to
        /\ rFrame' = rFrame - 1 /\ rByte' = rByte - (to - received)
        /\ violations = {} /\ bConn # "closed"
        /\ violations' = violations \cup
             (IF rFrame = 0 THEN {"no frame credit remaining"} ELSE {}) \cup
             (IF rByte < to - received THEN {"not enough byte credit"} ELSE {})
        /\ buffer' = IF bHandle = "active" /\ ~rClosed THEN Append(buffer, h) ELSE buffer
        /\ UNCHANGED <<senderVars, aVars, back, windowVars, read, eof, rClosed, rDropped,
                       bVars, creditHist>>
    BY <1>0, <1>2, <1>t DEF HandleData, IInv, Payload
  <1>e. received' = to /\ rFrame' = rFrame - 1 /\ rByte' = rByte - (to - received)
    BY <1>4
  <1>l. read <= received
    BY <1>1
  <1>5. CreditInv /\ SenderInv /\ WindowInv /\ ReceiverInv
    BY DEF IInv
  <1>6. UNCHANGED <<wpc, written, sent, sFrame, sByte, sClosed, sDropped, closedSent,
                    aOther, aHandle, aConn, maxFrame, maxByte, pFrame, pByte,
                    bOther, bHandle, bConn, gFrame, gByte, tFrame, tByte>>
    BY <1>4 DEF senderVars, aVars, windowVars, bVars, creditHist
  <1>7. rFrame >= 1
    BY <1>5, <1>2, <1>3, <1>num DEF CreditInv, Scalars
  <1>8. rByte >= to - received
    BY <1>5, <1>2, <1>3, <1>num DEF CreditInv, Scalars
  <1>9. violations' = {}
    <2>1. rFrame # 0 /\ ~(rByte < to - received)
      BY <1>7, <1>8, <1>3, <1>num DEF Scalars
    <2> QED BY <2>1, <1>4
  <1>10. rFrame' \in Nat /\ rByte' \in Nat /\ received' \in Nat
    <2>1. rFrame - 1 \in Nat /\ rByte - (to - received) \in Nat
      BY <1>7, <1>8, <1>3, <1>num DEF Scalars
    <2> QED BY <2>1, <1>3, <1>4
  <1>11. CreditInv'
    <2>1. /\ sFrame + DataFrames(wire') + (gFrame - tFrame) = sFrame + DataFrames(wire) + (gFrame - tFrame) - 1
          /\ sByte + (sent - received') + (gByte - tByte)
               = sByte + (sent - received) + (gByte - tByte) - (to - received)
      BY <1>3, <1>e, <1>num DEF Scalars
    <2>2. /\ sFrame + DataFrames(wire) + (gFrame - tFrame) \in Int
          /\ sByte + (sent - received) + (gByte - tByte) \in Int
          /\ to - received \in Int
      BY <1>3, <1>num DEF Scalars
    <2> QED BY <1>5, <1>6, <2>1, <2>2, <1>e, <1>num DEF CreditInv, Scalars
  <1>12. WireInv'
    BY <1>1, <1>2, <1>3, <1>4, <1>6, <1>t DEF WireInv
  <1>13. SenderInv'
    BY <1>2, <1>4, <1>5, <1>6 DEF SenderInv
  <1>14. BackInv'
    BY <1>4, <1>6 DEF IInv, BackInv
  <1>15. rClosed => rDropped
    BY <1>1, <1>4, <1>5 DEF ReceiverInv
  <1>16. CASE ~rDropped
    <2>1. buffer' = Append(buffer, h) /\ ~eof
      <3>1. bHandle = "active"
        BY <1>16, <1>4, <1>5 DEF ReceiverInv, IInv, TypeOK, Handles
      <3> QED BY <3>1, <1>15, <1>16, <1>4, <1>5 DEF ReceiverInv
    <2>2. buffer \in Seq(Intervals) /\ BufferOK(buffer, read, received) /\ read \in Nat
      BY <1>16, <1>5, <1>num DEF ReceiverInv, Scalars, IInv, TypeOK
    <2>3. /\ buffer' \in Seq(Intervals) /\ Len(buffer') = Len(buffer) + 1
          /\ BufferOK(buffer', read, to)
      BY <2>1, <2>2, <1>1, <1>2, <1>t, BufferAppend
    <2>4. TypeOK'
      BY <2>3, <1>2, <1>4, <1>9, <1>10 DEF IInv, TypeOK, Frames, senderVars, aVars, windowVars, bVars, creditHist
    <2>5. read <= received'
      BY <1>l, <1>3, <1>e, <1>num DEF Scalars
    <2>6. ReceiverInv'
      BY <2>1, <2>3, <2>5, <1>1, <1>4, <1>5, <1>6, <1>15, <1>16 DEF ReceiverInv
    <2>7. WindowInv'
      <3>1. /\ rFrame' + Len(buffer') + pFrame = rFrame + Len(buffer) + pFrame
            /\ rByte' + (received' - read) + pByte = rByte + (received - read) + pByte
        BY <2>3, <1>3, <1>e, <1>num DEF Scalars
      <3> QED BY <3>1, <1>4, <1>5, <1>6, <1>16 DEF WindowInv, Buffered
    <2> QED BY <2>4, <2>6, <2>7, <1>9, <1>11, <1>12, <1>13, <1>14 DEF IInv
  <1>17. CASE rDropped
    <2>1. buffer' = buffer /\ buffer = <<>> /\ rClosed
      BY <1>17, <1>4, <1>5 DEF ReceiverInv
    <2>2. TypeOK'
      BY <2>1, <1>2, <1>4, <1>9, <1>10 DEF IInv, TypeOK, Frames, senderVars, aVars, windowVars, bVars, creditHist
    <2>3. read <= received'
      BY <1>l, <1>3, <1>e, <1>num DEF Scalars
    <2>4. ReceiverInv'
      BY <2>1, <2>3, <1>4, <1>5, <1>6, <1>17 DEF ReceiverInv
    <2>5. WindowInv'
      <3>1. /\ rFrame' + Len(buffer) + pFrame <= rFrame + Len(buffer) + pFrame
            /\ rByte' + 0 + pByte <= rByte + 0 + pByte
        BY <1>3, <1>e, <1>num DEF Scalars
      <3>2. /\ rFrame' + Len(buffer) + pFrame <= maxFrame
            /\ rByte' + 0 + pByte <= maxByte
        <4>1. rFrame + Len(buffer) + pFrame <= maxFrame /\ rByte + 0 + pByte <= maxByte
          BY <1>5, <1>17 DEF WindowInv, Buffered
        <4> QED BY <4>1, <1>e, <1>3, <1>num DEF Scalars
      <3> QED BY <3>2, <2>1, <1>4, <1>5, <1>6, <1>17 DEF WindowInv, Buffered
    <2> QED BY <2>2, <2>4, <2>5, <1>9, <1>11, <1>12, <1>13, <1>14 DEF IInv
  <1> QED BY <1>16, <1>17

LEMMA HandleClosedInv == IInv /\ HandleClosed => IInv'
  <1> SUFFICES ASSUME IInv, HandleClosed PROVE IInv'
    OBVIOUS
  <1>1. /\ wire \in Seq(Frames) /\ wire # <<>> /\ Head(wire).kind = "closed"
        /\ WireOK(wire, received, sent) /\ received \in Nat /\ sent \in Nat
        /\ wire' = Tail(wire)
    BY DEF HandleClosed, IInv, TypeOK, WireInv, Frames
  <1>2. /\ wire' = <<>> /\ HasClosed(wire)
        /\ WireOK(wire', received, sent)
        /\ WireEnd(wire, received, sent) => WireEnd(wire', received, sent)
        /\ DataFrames(wire') = DataFrames(wire)
    BY <1>1, WireTailClosed
  <1>3. ~HasClosed(wire')
    BY <1>2 DEF HasClosed
  <1>4. /\ rClosed' = (rClosed \/ bHandle = "active")
        /\ UNCHANGED <<senderVars, aVars, back, windowVars, received, buffer, read, eof,
                       rFrame, rByte, rDropped, bVars, violations, creditHist>>
        /\ closedSent \/ sDropped
    BY <1>2 DEF HandleClosed, IInv, SenderInv
  <1>5. TypeOK'
    <2>1. wire' \in Seq(Intervals \cup {Closed})
      BY <1>2
    <2> QED BY <2>1, <1>4 DEF IInv, TypeOK, senderVars, aVars, windowVars, receiverVars, bVars, creditHist
  <1>6. SenderInv' /\ WireInv' /\ CreditInv' /\ BackInv'
    BY <1>2, <1>3, <1>4 DEF IInv, SenderInv, WireInv, CreditInv, BackInv, senderVars, aVars, windowVars, receiverVars, bVars, creditHist
  <1>7. ReceiverInv' /\ WindowInv'
    BY <1>2, <1>4 DEF IInv, ReceiverInv, WindowInv, Buffered, senderVars, aVars, windowVars, receiverVars, bVars, creditHist
  <1>8. violations' = {}
    BY <1>4 DEF IInv
  <1> QED BY <1>5, <1>6, <1>7, <1>8 DEF IInv

(* The windows only grow, and never beyond their limit. *)
LEMMA GrownBounds ==
    ASSUME NEW max \in Nat, NEW limit \in Nat, max <= limit,
           NEW low, NEW recent
    PROVE  /\ Grown(low, recent, max, limit) \in Nat
           /\ max <= Grown(low, recent, max, limit)
           /\ Grown(low, recent, max, limit) <= limit
  BY DEF Grown, Smaller

LEMMA DropReceiverInv == IInv /\ DropReceiver => IInv'
  <1> SUFFICES ASSUME IInv, DropReceiver PROVE IInv'
    OBVIOUS
  <1>num. Scalars
    BY Numbers
  <1>1. /\ back \in Seq(BackFrames) /\ BackBound(back, gFrame, gByte)
        /\ tFrame \in Nat /\ tByte \in Nat /\ gFrame \in Nat /\ gByte \in Nat
    BY DEF IInv, TypeOK, BackInv, BackFrames
  <1>2. /\ Append(back, Close) \in Seq(BackFrames)
        /\ BackBound(Append(back, Close), gFrame, gByte)
        /\ BackOK(back, tFrame, tByte) => BackOK(Append(back, Close), tFrame, tByte)
    BY <1>1, BackAppendClose
  <1>3. /\ ~rDropped /\ rDropped' = TRUE /\ rClosed' = TRUE /\ buffer' = <<>>
        /\ SendFrameB(Close)
        /\ UNCHANGED <<senderVars, aVars, wire, windowVars, received, read, eof, rFrame, rByte,
                       bOther, bHandle, violations, creditHist>>
    BY DEF DropReceiver
  <1>4. /\ back' \in Seq(BackFrames) /\ BackBound(back', gFrame, gByte)
        /\ BackOK(back, tFrame, tByte) => BackOK(back', tFrame, tByte)
        /\ bConn' \in Conns
        /\ bConn' = "up" => bConn = "up"
        /\ bConn = "closed" => bConn' = "closed"
    BY <1>1, <1>2, <1>3 DEF SendFrameB, Conns, IInv, TypeOK
  <1>5. TypeOK'
    <2>1. buffer' \in Seq(Intervals)
      BY <1>3
    <2> QED BY <2>1, <1>3, <1>4 DEF IInv, TypeOK, BackFrames, Conns, senderVars, aVars, windowVars, receiverVars, bVars, creditHist
  <1>6. SenderInv' /\ WireInv' /\ CreditInv'
    BY <1>3 DEF IInv, SenderInv, WireInv, CreditInv, senderVars, aVars, windowVars, receiverVars, bVars, creditHist
  <1>7. BackInv'
    BY <1>3, <1>4 DEF IInv, BackInv, senderVars, aVars, windowVars, receiverVars, bVars, creditHist
  <1>8. ReceiverInv'
    BY <1>3, <1>4 DEF IInv, ReceiverInv, senderVars, aVars, windowVars, receiverVars, bVars, creditHist
  <1>9. WindowInv'
    <2>1. Buffered \in Nat /\ Len(buffer') = 0
      BY <1>3, <1>num DEF IInv, ReceiverInv, Buffered, Scalars
    <2>2. rFrame + 0 + pFrame <= maxFrame /\ rByte + 0 + pByte <= maxByte
      BY <2>1, <1>num DEF IInv, WindowInv, Scalars
    <2>3. UNCHANGED <<maxFrame, maxByte, pFrame, pByte, rFrame, rByte>>
      BY <1>3 DEF windowVars
    <2> QED BY <2>1, <2>2, <2>3, <1>3 DEF IInv, WindowInv, Buffered
  <1>10. violations' = {}
    BY <1>3 DEF IInv
  <1> QED BY <1>5, <1>6, <1>7, <1>8, <1>9, <1>10 DEF IInv

(* What terminate() and close_state leave of A's frames. *)
LEMMA WireCut ==
    ASSUME IInv, \E k \in 0 .. Len(wire) : wire' = SubSeq(wire, 1, k),
           UNCHANGED <<received, sent>>
    PROVE  /\ wire' \in Seq(Frames) /\ WireOK(wire', received', sent')
           /\ HasClosed(wire') => HasClosed(wire)
           /\ DataFrames(wire') <= DataFrames(wire) /\ DataFrames(wire') \in Int
           /\ wire = <<>> => wire' = <<>>
  <1>1. /\ wire \in Seq(Frames) /\ received \in Nat /\ sent \in Nat
        /\ WireOK(wire, received, sent)
    BY DEF IInv, TypeOK, WireInv, Frames
  <1>2. PICK k \in 0 .. Len(wire) : wire' = SubSeq(wire, 1, k)
    OBVIOUS
  <1> QED BY <1>1, <1>2, WirePrefix

LEMMA BackCut ==
    ASSUME IInv, \E k \in 0 .. Len(back) : back' = SubSeq(back, 1, k),
           UNCHANGED creditHist
    PROVE  /\ back' \in Seq(BackFrames) /\ BackBound(back', gFrame', gByte')
           /\ NoClose(back) => NoClose(back')
           /\ BackOK(back, tFrame, tByte) => BackOK(back', tFrame', tByte')
  <1>1. /\ back \in Seq(BackFrames) /\ BackBound(back, gFrame, gByte)
        /\ tFrame \in Nat /\ tByte \in Nat /\ gFrame \in Nat /\ gByte \in Nat
    BY DEF IInv, TypeOK, BackInv, BackFrames
  <1>2. PICK k \in 0 .. Len(back) : back' = SubSeq(back, 1, k)
    OBVIOUS
  <1> QED BY <1>1, <1>2, BackPrefix DEF creditHist

LEMMA GoDownAInv == IInv /\ (GoDownA \/ CloseStateA) => IInv'
  <1> SUFFICES ASSUME IInv, GoDownA \/ CloseStateA PROVE IInv'
    OBVIOUS
  <1>num. Scalars
    BY Numbers
  <1>1. /\ \E k \in 0 .. Len(wire) : wire' = SubSeq(wire, 1, k)
        /\ \/ aConn = "up" /\ aConn' = "closing" /\ aHandle' = aHandle /\ sClosed' = sClosed
           \/ /\ aConn' = "closed" /\ aHandle' = "none"
              /\ sClosed' = (sClosed \/ aHandle = "active")
        /\ UNCHANGED <<wpc, written, sent, sFrame, sByte, sDropped, closedSent, aOther, back,
                       windowVars, receiverVars, bVars, violations, creditHist>>
    BY DEF GoDownA, CloseStateA, senderVars
  <1>2. /\ wire' \in Seq(Frames) /\ WireOK(wire', received', sent')
        /\ HasClosed(wire') => HasClosed(wire)
        /\ DataFrames(wire') <= DataFrames(wire) /\ DataFrames(wire') \in Int
        /\ wire = <<>> => wire' = <<>>
    BY <1>1, WireCut DEF receiverVars
  <1>8. UNCHANGED <<wpc, written, sent, sFrame, sByte, sDropped, closedSent, aOther, back,
                       windowVars, receiverVars, bVars, violations, creditHist>>
    BY <1>1
  <1>9. /\ aConn' \in Conns /\ aConn' # "up"
        /\ aHandle' = aHandle \/ aHandle' = "none"
        /\ aHandle' \in Handles
        /\ aHandle' = "none" => aConn' = "closed"
        /\ aHandle' = "active" => aHandle = "active"
        /\ aHandle' = "tombstone" => aHandle = "tombstone"
    BY <1>1 DEF Handles, Conns, IInv, TypeOK, SenderInv
  <1>10. sClosed' \in BOOLEAN /\ (sClosed => sClosed')
    <2>1. sClosed' = sClosed \/ sClosed' = (sClosed \/ aHandle = "active")
      BY <1>1
    <2>2. sClosed \in BOOLEAN
      BY DEF IInv, TypeOK
    <2>3. (sClosed \/ aHandle = "active") \in BOOLEAN
      OBVIOUS
    <2>4. sClosed' \in BOOLEAN
      BY <2>1, <2>2, <2>3
    <2>5. sClosed => sClosed'
      BY <2>1, Zenon
    <2> QED BY <2>4, <2>5
  <1>3. TypeOK'
    BY <1>8, <1>9, <1>10, <1>2 DEF IInv, TypeOK, Frames, senderVars, aVars, windowVars, receiverVars, bVars, creditHist
  <1>4. SenderInv' /\ WireInv' /\ BackInv'
    BY <1>8, <1>9, <1>10, <1>2 DEF IInv, SenderInv, WireInv, BackInv, senderVars, aVars, windowVars, receiverVars, bVars, creditHist
  <1>5. CreditInv'
    <2>1. sFrame + DataFrames(wire') + (gFrame - tFrame) <= sFrame + DataFrames(wire) + (gFrame - tFrame)
      BY <1>2, <1>num DEF Scalars
    <2>2. CreditInv /\ aConn' # "up"
      BY <1>1 DEF IInv
    <2>3. UNCHANGED <<sFrame, sByte, sent, received, rFrame, rByte, gFrame, gByte, tFrame, tByte>>
      BY <1>1 DEF receiverVars, creditHist
    <2>4. sFrame + DataFrames(wire') + (gFrame - tFrame) <= rFrame
      BY <2>1, <2>2, <1>2, <1>num DEF CreditInv, Scalars
    <2> QED BY <2>2, <2>3, <2>4 DEF CreditInv
  <1>6. ReceiverInv' /\ WindowInv'
    BY <1>1, <1>2 DEF IInv, ReceiverInv, WindowInv, Buffered, senderVars, aVars, windowVars, receiverVars, bVars, creditHist
  <1>7. violations' = {}
    BY <1>1 DEF IInv
  <1> QED BY <1>3, <1>4, <1>5, <1>6, <1>7 DEF IInv

LEMMA GoDownBInv == IInv /\ (GoDownB \/ CloseStateB) => IInv'
  <1> SUFFICES ASSUME IInv, GoDownB \/ CloseStateB PROVE IInv'
    OBVIOUS
  <1>1. /\ \E k \in 0 .. Len(back) : back' = SubSeq(back, 1, k)
        /\ \/ bConn = "up" /\ bConn' = "closing" /\ bHandle' = bHandle /\ rClosed' = rClosed
           \/ /\ bConn' = "closed" /\ bHandle' = "none"
              /\ rClosed' = (rClosed \/ bHandle = "active")
        /\ UNCHANGED <<senderVars, aVars, wire, windowVars, received, buffer, read, eof,
                       rFrame, rByte, rDropped, bOther, violations, creditHist>>
    BY DEF GoDownB, CloseStateB, receiverVars
  <1>2. /\ back' \in Seq(BackFrames) /\ BackBound(back', gFrame', gByte')
        /\ NoClose(back) => NoClose(back')
        /\ BackOK(back, tFrame, tByte) => BackOK(back', tFrame', tByte')
    BY <1>1, BackCut
  <1>8. UNCHANGED <<senderVars, aVars, wire, windowVars, received, buffer, read, eof,
                       rFrame, rByte, rDropped, bOther, violations, creditHist>>
    BY <1>1
  <1>9. /\ bConn' \in Conns /\ bConn' # "up"
        /\ bHandle' \in Handles
        /\ bHandle' = "none" => bConn' = "closed"
        /\ bHandle' = "tombstone" => bHandle = "tombstone"
        /\ bConn' # "closed" => bConn # "closed" /\ rClosed' = rClosed
    BY <1>1 DEF Handles, Conns, IInv, TypeOK, ReceiverInv
  <1>10. rClosed' \in BOOLEAN /\ (rClosed => rClosed')
    <2>1. rClosed' = rClosed \/ rClosed' = (rClosed \/ bHandle = "active")
      BY <1>1
    <2>2. rClosed \in BOOLEAN
      BY DEF IInv, TypeOK
    <2>3. (rClosed \/ bHandle = "active") \in BOOLEAN
      OBVIOUS
    <2>4. rClosed' \in BOOLEAN
      BY <2>1, <2>2, <2>3
    <2>5. rClosed => rClosed'
      BY <2>1, Zenon
    <2> QED BY <2>4, <2>5
  <1>3. TypeOK'
    BY <1>8, <1>9, <1>10, <1>2 DEF IInv, TypeOK, BackFrames, senderVars, aVars, windowVars, receiverVars, bVars, creditHist
  <1>4. SenderInv' /\ WireInv' /\ CreditInv'
    BY <1>1 DEF IInv, SenderInv, WireInv, CreditInv, senderVars, aVars, windowVars, receiverVars, bVars, creditHist
  <1>5. BackInv'
    BY <1>8, <1>9, <1>2 DEF IInv, BackInv, senderVars, aVars, windowVars, receiverVars, bVars, creditHist
  <1>6. ReceiverInv' /\ WindowInv'
    BY <1>8, <1>9, <1>10 DEF IInv, ReceiverInv, WindowInv, Buffered, senderVars, aVars, windowVars, receiverVars, bVars, creditHist
  <1>7. violations' = {}
    BY <1>1 DEF IInv
  <1> QED BY <1>3, <1>4, <1>5, <1>6, <1>7 DEF IInv

(* A read moves credit from the buffer to the credit to be returned, or     *)
(* returns it together with the growth of the window.                      *)
LEMMA PollNextChunkInv ==
    ASSUME NEW recentF, NEW recentB, IInv, PollNextChunk(recentF, recentB)
    PROVE  IInv'
  <1>num. Scalars
    BY Numbers
  <1>1. /\ ~rDropped /\ buffer # <<>> /\ buffer \in Seq(Intervals)
        /\ BufferOK(buffer, read, received) /\ violations = {}
    BY DEF PollNextChunk, IInv, TypeOK, ReceiverInv
  <1>2. /\ Head(buffer) \in Intervals /\ Head(buffer).from = read /\ Head(buffer).to <= received
        /\ Tail(buffer) \in Seq(Intervals) /\ Len(Tail(buffer)) = Len(buffer) - 1
        /\ BufferOK(Tail(buffer), Head(buffer).to, received)
    BY <1>1, <1>num, BufferTail DEF Scalars
  <1>3. PICK to \in Nat : to = Head(buffer).to
    BY <1>2, FrameKinds
  <1>4. read < to /\ to <= received /\ Payload(Head(buffer)) = to - read
    BY <1>2, <1>3, FrameKinds DEF Payload
  <1>5. PICK newF \in Nat :
            newF = Grown(rFrame < maxFrame \div 2, recentF, maxFrame, LimitFrames)
            /\ maxFrame <= newF /\ newF <= LimitFrames
    <2>1. maxFrame \in Nat /\ LimitFrames \in Nat /\ maxFrame <= LimitFrames
      BY <1>num, FlowAssumption DEF Scalars, IInv, WindowInv
    <2> QED BY <2>1, GrownBounds
  <1>6. PICK newB \in Nat :
            newB = Grown(rByte < maxByte \div 2, recentB, maxByte, LimitBytes)
            /\ maxByte <= newB /\ newB <= LimitBytes
    <2>1. maxByte \in Nat /\ LimitBytes \in Nat /\ maxByte <= LimitBytes
      BY <1>num, FlowAssumption DEF Scalars, IInv, WindowInv
    <2> QED BY <2>1, GrownBounds
  <1>7. PICK addF \in Nat, addB \in Nat :
            /\ addF = pFrame + 1 + (newF - maxFrame) /\ addF >= 1
            /\ addB = pByte + (to - read) + (newB - maxByte)
    BY <1>4, <1>5, <1>6, <1>num DEF Scalars
  <1>8. read + (to - read) = to
    BY <1>num DEF Scalars
  <1>9. /\ buffer' = Tail(buffer) /\ read' = to /\ maxFrame' = newF /\ maxByte' = newB
        /\ UNCHANGED <<senderVars, aVars, wire, received, eof, rClosed, rDropped,
                       bOther, bHandle, violations, tFrame, tByte>>
        /\ \/ /\ bConn = "up" /\ bConn' = bConn
              /\ back' = Append(back, Adjust(addF, addB, gFrame + addF, gByte + addB))
              /\ gFrame' = gFrame + addF /\ gByte' = gByte + addB
              /\ rFrame' = rFrame + addF /\ rByte' = rByte + addB
              /\ pFrame' = 0 /\ pByte' = 0
           \/ /\ \/ bConn' = bConn /\ (bConn = "up" => newF = maxFrame /\ newB = maxByte)
                 \/ bConn = "up" /\ bConn' = "closing"
              /\ pFrame' = pFrame + 1 /\ pByte' = pByte + (to - read)
              /\ UNCHANGED <<back, gFrame, gByte, rFrame, rByte>>
    BY <1>4, <1>5, <1>6, <1>7, <1>8 DEF PollNextChunk
  <1>10. /\ buffer' \in Seq(Intervals) /\ BufferOK(buffer', to, received)
         /\ Len(buffer') = Len(buffer) - 1
    BY <1>2, <1>3, <1>9
  <1>11. violations' = {} /\ ~eof
    BY <1>1, <1>9 DEF IInv, ReceiverInv
  <1>12. SenderInv' /\ WireInv'
    BY <1>9 DEF IInv, SenderInv, WireInv, senderVars, aVars
  <1>13. UNCHANGED <<sFrame, sByte, sent, received, aConn, aHandle, wire, tFrame, tByte, eof, rClosed, rDropped, bHandle>>
    BY <1>9 DEF senderVars, aVars
  <1>14. Buffered = received - read /\ Buffered' = received - to
    BY <1>1, <1>9 DEF Buffered
  <1>15. /\ rFrame + Len(buffer) + pFrame <= maxFrame
         /\ rByte + (received - read) + pByte <= maxByte
         /\ bConn = "up" => /\ rFrame + Len(buffer) + pFrame = maxFrame
                            /\ rByte + (received - read) + pByte = maxByte
    BY <1>1, <1>14 DEF IInv, WindowInv
  <1>16. CreditInv /\ BackInv /\ ReceiverInv
    BY DEF IInv
  <1>17. CASE /\ bConn = "up" /\ bConn' = bConn
              /\ back' = Append(back, Adjust(addF, addB, gFrame + addF, gByte + addB))
              /\ gFrame' = gFrame + addF /\ gByte' = gByte + addB
              /\ rFrame' = rFrame + addF /\ rByte' = rByte + addB
              /\ pFrame' = 0 /\ pByte' = 0
    <2>1. /\ back \in Seq(BackFrames) /\ BackBound(back, gFrame, gByte)
          /\ tFrame \in Nat /\ tByte \in Nat /\ gFrame \in Nat /\ gByte \in Nat
      BY DEF IInv, TypeOK, BackInv, BackFrames
    <2>2. /\ back' \in Seq(BackFrames)
          /\ BackBound(back', gFrame', gByte')
          /\ NoClose(back) => NoClose(back')
          /\ BackOK(back, tFrame, tByte) /\ BackEnd(back, tFrame, tByte, gFrame, gByte) =>
                BackOK(back', tFrame, tByte) /\ BackEnd(back', tFrame, tByte, gFrame', gByte')
      <3>1. addF >= 1
        BY <1>7
      <3> DEFINE v == Append(back, Adjust(addF, addB, gFrame + addF, gByte + addB))
      <3>2. /\ v \in Seq(BackFrames)
            /\ BackBound(v, gFrame + addF, gByte + addB)
            /\ NoClose(back) => NoClose(v)
            /\ BackOK(back, tFrame, tByte) /\ BackEnd(back, tFrame, tByte, gFrame, gByte) =>
                  BackOK(v, tFrame, tByte) /\ BackEnd(v, tFrame, tByte, gFrame + addF, gByte + addB)
        BY <2>1, <3>1, BackAppendAdjust
      <3>3. back' = v /\ gFrame' = gFrame + addF /\ gByte' = gByte + addB
        BY <1>17
      <3> HIDE DEF v
      <3> QED BY <3>2, <3>3
    <2>3. /\ gFrame' \in Nat /\ gByte' \in Nat /\ rFrame' \in Nat /\ rByte' \in Nat
          /\ pFrame' \in Nat /\ pByte' \in Nat
      <3>1. /\ gFrame + addF \in Nat /\ gByte + addB \in Nat
            /\ rFrame + addF \in Nat /\ rByte + addB \in Nat
        BY <1>num DEF Scalars
      <3> QED BY <3>1, <1>17
    <2>4. TypeOK'
      BY <2>2, <2>3, <1>9, <1>10, <1>11, <1>17 DEF IInv, TypeOK, BackFrames, senderVars, aVars
    <2>5. CreditInv'
      <3>1. /\ gFrame' = gFrame + addF /\ gByte' = gByte + addB
            /\ rFrame' = rFrame + addF /\ rByte' = rByte + addB
        BY <1>17
      <3>2. DataFrames(wire') = DataFrames(wire)
        BY <1>13
      <3> QED BY <3>1, <3>2, <1>13, <1>16, <1>num DEF CreditInv, Scalars
    <2>6. BackInv'
      BY <2>2, <1>1, <1>13, <1>16, <1>17 DEF BackInv
    <2>7. ReceiverInv'
      BY <1>4, <1>9, <1>10, <1>11, <1>12, <1>13, <1>16, <1>17 DEF ReceiverInv, senderVars
    <2>8. WindowInv'
      <3>1. /\ rFrame' = rFrame + addF /\ rByte' = rByte + addB
            /\ pFrame' = 0 /\ pByte' = 0 /\ maxFrame' = newF /\ maxByte' = newB /\ bConn = "up"
        BY <1>17, <1>9
      <3>2. rFrame' + Len(buffer') + pFrame' = maxFrame'
        BY <3>1, <1>15, <1>10, <1>7, <1>num DEF Scalars
      <3>3. rByte' + (received - to) + pByte' = maxByte'
        BY <3>1, <1>15, <1>7, <1>num DEF Scalars
      <3>4. maxFrame' \in Nat /\ maxByte' \in Nat
        BY <1>9
      <3> QED BY <3>2, <3>3, <3>4, <1>5, <1>6, <1>9, <1>14 DEF WindowInv
    <2> QED BY <2>4, <2>5, <2>6, <2>7, <2>8, <1>11, <1>12 DEF IInv
  <1>18. CASE /\ \/ bConn' = bConn /\ (bConn = "up" => newF = maxFrame /\ newB = maxByte)
                 \/ bConn = "up" /\ bConn' = "closing"
              /\ pFrame' = pFrame + 1 /\ pByte' = pByte + (to - read)
              /\ UNCHANGED <<back, gFrame, gByte, rFrame, rByte>>
    <2>1. pFrame' \in Nat /\ pByte' \in Nat
      <3>1. pFrame + 1 \in Nat /\ pByte + (to - read) \in Nat
        BY <1>4, <1>num DEF Scalars
      <3> QED BY <3>1, <1>18
    <2>2. TypeOK'
      BY <2>1, <1>9, <1>10, <1>11, <1>18 DEF IInv, TypeOK, Conns, senderVars, aVars
    <2>3. CreditInv' /\ BackInv'
      BY <1>13, <1>16, <1>18 DEF CreditInv, BackInv
    <2>4. ReceiverInv'
      BY <1>4, <1>9, <1>10, <1>11, <1>12, <1>13, <1>16, <1>18 DEF ReceiverInv, senderVars
    <2>5. WindowInv'
      <3>1. /\ pFrame' = pFrame + 1 /\ pByte' = pByte + (to - read)
            /\ rFrame' = rFrame /\ rByte' = rByte /\ maxFrame' = newF /\ maxByte' = newB
        BY <1>18, <1>9
      <3>2. /\ rFrame' + Len(buffer') + pFrame' = rFrame + Len(buffer) + pFrame
            /\ rByte' + (received - to) + pByte' = rByte + (received - read) + pByte
        BY <3>1, <1>10, <1>num DEF Scalars
      <3>3. rFrame' + Len(buffer') + pFrame' <= maxFrame'
        <4>1. rFrame + Len(buffer) + pFrame <= newF
          BY <1>15, <1>5, <1>num DEF Scalars
        <4> QED BY <4>1, <3>1, <3>2
      <3>4. rByte' + (received - to) + pByte' <= maxByte'
        <4>1. rByte + (received - read) + pByte <= newB
          BY <1>15, <1>6, <1>num DEF Scalars
        <4> QED BY <4>1, <3>1, <3>2
      <3>5. bConn' = "up" => bConn = "up" /\ newF = maxFrame /\ newB = maxByte
        BY <1>18
      <3>6. maxFrame' <= LimitFrames /\ maxByte' <= LimitBytes
        BY <3>1, <1>5, <1>6
      <3>7. bConn' = "up" => /\ rFrame' + Len(buffer') + pFrame' = maxFrame'
                             /\ rByte' + (received - to) + pByte' = maxByte'
        BY <3>1, <3>2, <3>5, <1>15
      <3>8. received' - to = received - to
        BY <1>13
      <3> QED BY <3>3, <3>4, <3>6, <3>7, <1>13, <1>14 DEF WindowInv
    <2> QED BY <2>2, <2>3, <2>4, <2>5, <1>11, <1>12 DEF IInv
  <1> QED BY <1>9, <1>17, <1>18

LEMMA StepInv == IInv /\ [Next]_vars => IInv'
  <1> SUFFICES ASSUME IInv, [Next]_vars PROVE IInv'
    OBVIOUS
  <1>1. CASE Writer
    <2>1. ASSUME NEW n \in 0 .. StreamLen - written, PollWrite(n) PROVE IInv'
      <3>1. n \in Nat
        OBVIOUS
      <3> QED BY <2>1, <3>1, PollWriteInv
    <2> QED BY <1>1, <2>1, PollFlushClosedInv, PollSendChunkInv, PollFlushReadyInv,
               PollCloseInv, DropSenderInv DEF Writer
  <1>2. CASE Reader
    BY <1>2, PollNextChunkInv, PollNextEofInv, DropReceiverInv DEF Reader, ReadChunk
  <1>3. CASE ConnectionA
    BY <1>3, DropOtherHalfAInv, CleanupChannelAInv, HandleAdjustInv, HandleCloseInv,
       GoDownAInv DEF ConnectionA
  <1>4. CASE ConnectionB
    BY <1>4, DropOtherHalfBInv, CleanupChannelBInv, HandleDataInv, HandleClosedInv,
       GoDownBInv DEF ConnectionB
  <1>5. CASE UNCHANGED vars
    BY <1>5 DEF vars, IInv, TypeOK, SenderInv, WireInv, CreditInv, BackInv, ReceiverInv,
       WindowInv, Buffered, senderVars, aVars, windowVars, receiverVars, bVars, creditHist
  <1> QED BY <1>1, <1>2, <1>3, <1>4, <1>5 DEF Next

(* The inductive invariant holds in every reachable state. *)
THEOREM Invariance == Spec => []IInv
  BY InitInv, StepInv, PTL DEF Spec

-----------------------------------------------------------------------------
(* The safety properties of ChannelFlow *)

(* The bytes in the buffer are the ones received and not read yet. *)
LEMMA BufferedIsBuffered == IInv => BufferedBytes = Buffered
  <1> SUFFICES ASSUME IInv PROVE BufferedBytes = Buffered
    OBVIOUS
  <1>1. CASE rDropped
    BY <1>1 DEF IInv, ReceiverInv, BufferedBytes, Buffered
  <1>2. CASE ~rDropped
    <2>1. BufferOK(buffer, read, received) /\ read \in Nat /\ received \in Nat
      BY <1>2 DEF IInv, ReceiverInv, TypeOK
    <2>2. CASE buffer = <<>>
      <3>1. read = received
        BY <2>1, <2>2 DEF BufferOK
      <3> QED BY <2>1, <2>2, <3>1, <1>2 DEF BufferedBytes, Buffered
    <2>3. CASE buffer # <<>>
      <3>1. buffer[1].from = read /\ buffer[Len(buffer)].to = received
        BY <2>1, <2>3 DEF BufferOK
      <3> QED BY <2>3, <3>1, <1>2 DEF BufferedBytes, Buffered
    <2> QED BY <2>2, <2>3
  <1> QED BY <1>1, <1>2

(* Type correctness, which says in particular that no credit counter on     *)
(* either side ever becomes negative (u32 underflow in the code).           *)
THEOREM TypeCorrect == Spec => []TypeOK
  <1>1. IInv => TypeOK
    BY DEF IInv
  <1> QED BY <1>1, Invariance, PTL

(* Neither endpoint ever finds the other one violating the flow control     *)
(* protocol, for every window size and limit and however frames, drops,    *)
(* clean-ups and the end of the connection interleave.                     *)
THEOREM ProtocolKept == Spec => []NoProtocolViolation
  <1>1. IInv => NoProtocolViolation
    BY DEF IInv, NoProtocolViolation
  <1> QED BY <1>1, Invariance, PTL

(* The two endpoints' views of the credit of a channel always add up. *)
THEOREM CreditConserved == Spec => []CreditConservation
  <1>1. IInv => CreditConservation
    BY DEF IInv, CreditInv, CreditConservation, FramesInFlight, BytesInFlight
  <1> QED BY <1>1, Invariance, PTL

(* A receiver never has to buffer more than its configured limit. *)
THEOREM WindowBounded == Spec => []ReceiveWindow
  <1>1. IInv => ReceiveWindow
    BY BufferedIsBuffered DEF IInv, WindowInv, ReceiveWindow
  <1> QED BY <1>1, Invariance, PTL

(* A receiver in use accounts for its whole window. *)
THEOREM NoLeak == Spec => []NoCreditLeak
  <1>1. IInv => NoCreditLeak
    BY BufferedIsBuffered DEF IInv, WindowInv, NoCreditLeak
  <1> QED BY <1>1, Invariance, PTL

(* poll_send_chunk's assertion on the byte credit never fails. *)
THEOREM AssertionHolds == Spec => []PendingCovered
  <1>1. IInv => PendingCovered
    BY DEF IInv, SenderInv, PendingCovered
  <1> QED BY <1>1, Invariance, PTL

(* Sender, receiver and both FIFOs agree on every frame and byte of credit, *)
(* whatever the window, its limit and the interleaving.                     *)
THEOREM CreditsAccounted == Spec => []CreditAccounting
  <1>1. TypeOK /\ CreditConservation /\ ReceiveWindow /\ NoCreditLeak /\ PendingCovered
          => CreditAccounting
    BY DEF CreditAccounting
  <1> QED
    BY <1>1, TypeCorrect, CreditConserved, WindowBounded, NoLeak, AssertionHolds, PTL

(* The receive buffer is a gap-free piece of the stream, right behind what  *)
(* the reader has got.                                                     *)
THEOREM Ordered == Spec => []InOrder
  <1>1. IInv => InOrder
    <2> SUFFICES ASSUME IInv, ~rDropped PROVE InOrder
      BY DEF InOrder
    <2>1. BufferOK(buffer, read, received) /\ buffer \in Seq(Intervals)
      BY DEF IInv, ReceiverInv, TypeOK
    <2>2. Len(buffer) \in Nat
      BY <2>1, EmptyLen
    <2>3. \A i \in 1 .. Len(buffer) - 1 : buffer[i].to = buffer[i+1].from
      <3>1. \A i \in 1 .. Len(buffer) - 1 : i \in 1 .. Len(buffer) /\ i < Len(buffer)
        BY <2>2
      <3> QED BY <3>1, <2>1 DEF BufferOK
    <2>4. buffer # <<>> => buffer[1].from = read /\ buffer[Len(buffer)].to = received
      BY <2>1 DEF BufferOK
    <2>5. buffer = <<>> => read = received
      BY <2>1 DEF BufferOK
    <2> QED BY <2>3, <2>4, <2>5 DEF InOrder
  <1> QED BY <1>1, Invariance, PTL

(* End of stream on a working connection means that everything was read. *)
THEOREM EofMeansAll == Spec => []EofComplete
  <1>1. IInv => EofComplete
    BY DEF IInv, SenderInv, ReceiverInv, EofComplete
  <1> QED BY <1>1, Invariance, PTL

-----------------------------------------------------------------------------
(* ChannelFlow implements ByteStream *)

(* A step that touches neither the bytes nor the reader's end of stream and *)
(* repairs no connection is a stuttering step or the Break of the stream.  *)
LEMMA Quiet ==
    ASSUME UNCHANGED <<written, sent, read, eof>>,
           aConn' = "up" => aConn = "up",
           bConn' = "up" => bConn = "up"
    PROVE  [Stream!Next]_(Stream!vars)
  <1>1. CASE (aConn' # "up" \/ bConn' # "up") = (aConn # "up" \/ bConn # "up")
    BY <1>1 DEF Stream!vars
  <1>2. CASE aConn' # "up" \/ bConn' # "up"
    BY <1>2 DEF Stream!Next, Stream!Break
  <1> QED BY <1>1, <1>2

LEMMA StreamStep == IInv /\ [Next]_vars => [Stream!Next]_(Stream!vars)
  <1> SUFFICES ASSUME IInv, [Next]_vars PROVE [Stream!Next]_(Stream!vars)
    OBVIOUS
  <1>num. Scalars
    BY Numbers
  <1>1. CASE PollFlushClosed \/ PollFlushReady \/ PollClose \/ DropSender
    <2>1. UNCHANGED <<written, sent, read, eof, bConn>>
      BY <1>1 DEF PollFlushClosed, PollFlushReady, PollClose, DropSender, receiverVars, bVars
    <2>2. aConn' = "up" => aConn = "up"
      BY <1>1 DEF PollFlushClosed, PollFlushReady, PollClose, DropSender, SendFrameA, aVars
    <2> QED BY <2>1, <2>2, Quiet
  <1>2. CASE PollSendChunk
    <2>1. sent' = written /\ UNCHANGED <<written, read, eof, aConn, bConn>>
      BY <1>2 DEF PollSendChunk, aVars, receiverVars, bVars
    <2> QED BY <2>1 DEF Stream!Next, Stream!Commit
  <1>3. ASSUME NEW n \in 0 .. StreamLen - written, PollWrite(n)
        PROVE  [Stream!Next]_(Stream!vars)
    <2>1. UNCHANGED <<sent, read, eof, aConn, bConn>>
      BY <1>3 DEF PollWrite, aVars, receiverVars, bVars
    <2>2. PICK c \in Nat : written' = written + c
      <3>1. Smaller(Smaller(sByte, n), MaxChunk) \in Nat
        BY <1>num, FlowAssumption DEF Smaller, Scalars
      <3> QED BY <1>3, <3>1 DEF PollWrite
    <2>3. CASE c = 0
      <3>1. written' = written
        BY <2>2, <2>3, <1>num DEF Scalars
      <3> QED BY <2>1, <3>1, Quiet
    <2>4. CASE c # 0
      <3>1. written + c \in Nat /\ written + c > written
        BY <2>4, <1>num DEF Scalars
      <3> QED BY <2>1, <2>2, <3>1 DEF Stream!Next, Stream!Accept
    <2> QED BY <2>3, <2>4
  <1>4. CASE ReadChunk
    <2>1. PICK recentF \in BOOLEAN, recentB \in BOOLEAN : PollNextChunk(recentF, recentB)
      BY <1>4 DEF ReadChunk
    <2>2. /\ ~rDropped /\ buffer # <<>> /\ buffer \in Seq(Intervals)
          /\ BufferOK(buffer, read, received) /\ ~eof
      BY <2>1 DEF PollNextChunk, IInv, TypeOK, ReceiverInv
    <2>3. Head(buffer) \in Intervals /\ Head(buffer).from = read /\ Head(buffer).to <= received
      BY <2>2, <1>num, BufferTail DEF Scalars
    <2>4. PICK to \in Nat : to = Head(buffer).to
      BY <2>3, FrameKinds
    <2>5. read < to /\ to <= received /\ Payload(Head(buffer)) = to - read
      BY <2>3, <2>4, FrameKinds DEF Payload
    <2>6. read + (to - read) = to
      BY <1>num DEF Scalars
    <2>7. read' = to
      BY <2>1, <2>5, <2>6 DEF PollNextChunk
    <2>8. received <= sent
      BY DEF IInv, WireInv
    <2>9. to <= sent
      BY <2>5, <2>8, <1>num DEF Scalars
    <2>10. UNCHANGED <<written, sent, eof, aConn>> /\ (bConn' = bConn \/ bConn' = "closing")
      BY <2>1 DEF PollNextChunk, senderVars, aVars
    <2> QED BY <2>2, <2>5, <2>7, <2>9, <2>10 DEF Stream!Next, Stream!Deliver
  <1>5. CASE PollNextEof
    <2>1. eof' = TRUE /\ UNCHANGED <<written, sent, read, aConn, bConn>>
      BY <1>5 DEF PollNextEof, senderVars, aVars, bVars
    <2>2. IInv'
      BY <1>5, PollNextEofInv
    <2>3. aConn = "up" /\ bConn = "up" => read = sent
      BY <2>1, <2>2 DEF IInv, ReceiverInv
    <2> QED BY <2>1, <2>3 DEF Stream!Next, Stream!EndOfStream
  <1>6. CASE DropReceiver
    <2>1. UNCHANGED <<written, sent, read, eof, aConn>>
      BY <1>6 DEF DropReceiver, senderVars, aVars
    <2>2. bConn' = "up" => bConn = "up"
      BY <1>6 DEF DropReceiver, SendFrameB
    <2> QED BY <2>1, <2>2, Quiet
  <1>7. CASE ConnectionA
    <2>1. UNCHANGED <<written, sent, read, eof, bConn>>
      BY <1>7 DEF ConnectionA, DropOtherHalfA, CleanupChannelA, HandleAdjust, HandleClose,
                  GoDownA, CloseStateA, senderVars, receiverVars, bVars
    <2>2. aConn' = "up" => aConn = "up"
      BY <1>7 DEF ConnectionA, DropOtherHalfA, CleanupChannelA, HandleAdjust, HandleClose,
                  GoDownA, CloseStateA, aVars
    <2> QED BY <2>1, <2>2, Quiet
  <1>8. CASE ConnectionB
    <2>1. UNCHANGED <<written, sent, read, eof, aConn>>
      BY <1>8 DEF ConnectionB, DropOtherHalfB, CleanupChannelB, HandleData, HandleClosed,
                  GoDownB, CloseStateB, senderVars, receiverVars, aVars
    <2>2. bConn' = "up" => bConn = "up"
      BY <1>8 DEF ConnectionB, DropOtherHalfB, CleanupChannelB, HandleData, HandleClosed,
                  GoDownB, CloseStateB, bVars
    <2> QED BY <2>1, <2>2, Quiet
  <1>9. CASE UNCHANGED vars
    BY <1>9, Quiet DEF vars, senderVars, aVars, receiverVars, bVars
  <1> QED BY <1>1, <1>2, <1>3, <1>4, <1>5, <1>6, <1>7, <1>8, <1>9
          DEF Next, Writer, Reader

(* One direction of a channel, with all its credit, queueing, closing and   *)
(* clean-up, implements the reliable byte stream.                          *)
THEOREM Refinement == Spec => StreamSpec
  <1>1. Init => Stream!Init
    BY DEF Init, Stream!Init
  <1> QED BY <1>1, StreamStep, Invariance, PTL DEF Spec, StreamSpec, Stream!Spec
-----------------------------------------------------------------------------
(***************************************************************************)
(* The same sender between its locks: SenderWake loses no wake-up, for any *)
(* credit and any length of the queue.                                     *)
(***************************************************************************)

(* A parked writer is not all there is to know: the chunk it wants to send *)
(* stays covered by its byte credit, and between the two locks of          *)
(* poll_write there is no such chunk.                                      *)
WakeInv ==
    /\ NoLostWake
    /\ pending <= byteCredit
    /\ pc = "reserve" => pending = 0

LEMMA WakeInitially == WakeInit => WakeInv
  <1> SUFFICES ASSUME WakeInit
               PROVE  WakeInv
    OBVIOUS
  <1>1. /\ closed \in BOOLEAN /\ waker \in BOOLEAN /\ waiting \in BOOLEAN
        /\ woken \in BOOLEAN
    BY Zenon DEF WakeInit
  <1>2. /\ pc = "idle" /\ pending = 0 /\ conn = "up" /\ queued = 0
        /\ frameCredit = MaxFrames /\ byteCredit = MaxBytes
    BY DEF WakeInit
  <1> QED
    BY <1>1, <1>2, WakeAssumption DEF WakeInv, NoLostWake, WakeTypeOK

LEMMA WakeWriterSteps ==
  ASSUME WakeInv, WritingTask
  PROVE  WakeInv'
  <1> USE WakeAssumption DEF WakeInv, NoLostWake, WakeTypeOK, credit
  <1>1. CASE StartWrite
    BY <1>1 DEF StartWrite
  <1>2. CASE Repoll
    BY <1>2 DEF Repoll
  <1>3. CASE FlushClosed
    BY <1>3 DEF FlushClosed
  <1>4. CASE FlushNothing
    BY <1>4 DEF FlushNothing
  <1>5. CASE FlushSend
    BY <1>5 DEF FlushSend, CanSend
  <1>6. CASE FlushFull
    BY <1>6 DEF FlushFull, CanSend
  <1>7. CASE FlushNoCredit
    BY <1>7 DEF FlushNoCredit, CanSend
  <1>8. CASE ReserveNoCredit
    BY <1>8 DEF ReserveNoCredit
  <1>9. ASSUME NEW n \in 1..MaxBytes, Reserve(n)
        PROVE  WakeInv'
    BY <1>9 DEF Reserve
  <1> QED
    BY <1>1, <1>2, <1>3, <1>4, <1>5, <1>6, <1>7, <1>8, <1>9 DEF WritingTask

(* What the event loop and other channels do wakes the writer when it ends *)
(* the writer's reason to wait.                                            *)
LEMMA WakeLoopSteps ==
  ASSUME WakeInv, EventLoop \/ OtherFrame
  PROVE  WakeInv'
  <1> USE WakeAssumption DEF WakeInv, NoLostWake, WakeTypeOK, credit,
          WakeSender, WakeWaiters
  <1>1. ASSUME NEW f \in 0..MaxFrames, NEW b \in 0..MaxBytes, AdjustWakes(f, b)
        PROVE  WakeInv'
    <2>1. waker' \in BOOLEAN /\ woken' \in BOOLEAN
      BY <1>1, Zenon DEF AdjustWakes
    <2>2. ~woken' => ~woken /\ ~waker
      BY <1>1, Zenon DEF AdjustWakes
    <2>3. frameCredit + f \in 0..MaxFrames /\ byteCredit + b \in 0..MaxBytes
      BY <1>1 DEF AdjustWakes
    <2>4. /\ frameCredit' = frameCredit + f /\ byteCredit' = byteCredit + b
          /\ UNCHANGED <<pc, pending, closed, conn, queued, waiting>>
      BY <1>1 DEF AdjustWakes
    <2> QED
      BY <2>1, <2>2, <2>3, <2>4
  <1>2. CASE CloseWakes
    BY <1>2 DEF CloseWakes
  <1>3. CASE PopFrame
    <2>1. waiting' = FALSE /\ woken' \in BOOLEAN
      BY <1>3, Zenon DEF PopFrame
    <2>2. ~woken' => ~woken /\ ~waiting
      BY <1>3, Zenon DEF PopFrame
    <2>3. /\ queued' \in 0..QueueLimit
          /\ UNCHANGED <<pc, pending, credit, closed, waker, conn>>
      BY <1>3 DEF PopFrame
    <2> QED
      BY <2>1, <2>2, <2>3
  <1>4. CASE GoDown
    <2>1. waiting' = FALSE /\ woken' \in BOOLEAN
      BY <1>4, Zenon DEF GoDown
    <2>2. ~woken' => ~woken /\ ~waiting
      BY <1>4, Zenon DEF GoDown
    <2>3. /\ queued' \in 0..QueueLimit /\ conn = "up" /\ conn' = "closing"
          /\ UNCHANGED <<pc, pending, credit, closed, waker>>
      BY <1>4 DEF GoDown
    <2> QED
      BY <2>1, <2>2, <2>3
  <1>5. CASE CloseState
    <2>1. /\ waiting' \in BOOLEAN /\ waker' \in BOOLEAN /\ woken' \in BOOLEAN
          /\ closed' \in BOOLEAN
      BY <1>5, Zenon DEF CloseState
    <2>2. conn' = "closed" /\ queued' = 0 /\ UNCHANGED <<pc, pending, credit>>
      BY <1>5 DEF CloseState
    <2> QED
      BY <2>1, <2>2
  <1>6. CASE OtherFrame
    BY <1>6 DEF OtherFrame
  <1> QED
    BY <1>1, <1>2, <1>3, <1>4, <1>5, <1>6 DEF EventLoop

LEMMA WakeInvariance == WakeSpec => []WakeInv
  <1>1. WakeInv /\ [WakeNext]_wakeVars => WakeInv'
    <2>1. WakeInv /\ UNCHANGED wakeVars => WakeInv'
      BY DEF WakeInv, NoLostWake, WakeTypeOK, wakeVars
    <2> QED
      BY <2>1, WakeWriterSteps, WakeLoopSteps DEF WakeNext
  <1> QED
    BY <1>1, WakeInitially, PTL DEF WakeSpec

(* A parked writer that nobody has woken still lacks what it waits for and *)
(* its waker is where the next change of it is announced, however          *)
(* poll_write, the handlers, pop_frame, terminate and close_state meet.    *)
THEOREM NothingLost == WakeSpec => []NoLostWake
  BY WakeInvariance, PTL DEF WakeInv
=============================================================================
