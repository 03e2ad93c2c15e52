------------------------ MODULE CommandSessionProofs ------------------------
(***************************************************************************)
(* The command handler.  One command invocation keeps its channel          *)
(* readable, cleans up after the command before it answers, and reports a  *)
(* success only if the command earned it - for any programs, limits, pipe  *)
(* and window sizes.  The registry has the first usable definition of each *)
(* name, and no validation exceeds its budget - for any directory, edits,  *)
(* schemas, values and limits.                                             *)
(***************************************************************************)
EXTENDS CommandSession, CommandRegistry, FunctionTheorems, FiniteSetTheorems,
        SequenceTheorems, TLAPS

Parts == {"Log", "Done"} \X {"length", "body"}

Types ==
    /\ call \in Calls /\ pc \in 1..Len(Steps) + 1
    /\ phase \in {"reading", "lookup", "running", "reaping", "checking", "answering",
                  "closing", "over"}
    /\ child \in {"none", "running", "exited", "reaped"}
    /\ kin \in {"none", "holding", "detached"}
    /\ killed \in BOOLEAN /\ partial \in BOOLEAN /\ cancelled \in BOOLEAN
    /\ io \in [todo : 0..InputLength, stdin : 0..PipeCapacity, stdout : Seq(Nat), stderr : Seq(Nat),
               lines : 0..MaxOutputLines, last : Nat, tail : Seq(Nat),
               outEnd : BOOLEAN, errEnd : BOOLEAN]
    /\ Len(io.stdout) <= PipeCapacity /\ Len(io.stderr) <= PipeCapacity
    /\ Len(io.tail) <= TailLength
    /\ reason \in {"none", "cancelled", "failed", "timeout"}
    /\ sent \in Seq(Parts) /\ writing \in Seq(Parts)
    /\ taken \in 0..Len(sent) /\ Len(sent) <= taken + WindowSize
    /\ hub \in {"open", "gone"}

(* What each phase says of the leader and its group. *)
Stages ==
    /\ phase \in {"reading", "lookup"} => child = "none" /\ pc = 1
    /\ child = "none" => kin = "none"
    /\ phase = "running" => child \in {"running", "exited"} /\ ~killed
    /\ phase = "reaping" => child = "exited" /\ kin = "none"
    /\ phase = "checking" => ~killed /\ io.outEnd /\ io.errEnd /\ child = "reaped"
    /\ child \in {"exited", "reaped"} /\ ~killed => pc = Len(Steps) + 1
    /\ io.outEnd => PipesClosed /\ io.stdout = <<>>
    /\ io.errEnd => PipesClosed /\ io.stderr = <<>>
    /\ child = "none" => ~killed /\ pc = 1
    /\ NoSurvivors

(* The lines of a pipe come in the order they were written, behind those   *)
(* that were read.                                                         *)
Increasing(q) == \A i, j \in 1..Len(q) : i < j => q[i] < q[j]
In(q) == {q[i] : i \in 1..Len(q)}
Behind(q, lines) == \A l \in lines : \A i \in 1..Len(q) : l < q[i]

Outputs == Written({"out"}) \ In(io.stdout)
Errors == Written({"err", "long"}) \ In(io.stderr)

OutStream ==
    /\ Increasing(io.stdout) /\ In(io.stdout) \subseteq Written({"out", "chat"})
    /\ Behind(io.stdout, Outputs) /\ IsLast(io.last, Outputs)

ErrStream ==
    /\ Increasing(io.stderr) /\ In(io.stderr) \subseteq Written({"err", "long"})
    /\ Behind(io.stderr, Errors) /\ Lists(io.tail, TailLength, Errors)

Streams == OutStream /\ ErrStream

Success ==
    result.status = "success" =>
        phase \in {"answering", "closing", "over"} /\ child = "reaped" /\ Earned

(* The parts on the channel, and of the frame that is being written. *)
Whole(s) ==
    /\ \A i \in 1..Len(s) : s[i][2] = IF i % 2 = 1 THEN "length" ELSE "body"
    /\ \A i \in 2..Len(s) : i % 2 = 0 => s[i][1] = s[i - 1][1]

Boundary == Len(sent) % 2 = 0

Begun(kind) ==
    \/ writing = Frame(kind) /\ Boundary
    \/ writing = << <<kind, "body">> >> /\ ~Boundary /\ sent[Len(sent)] = <<kind, "length">>

NoneDone(n) == \A i \in 1..n : sent[i][1] # "Done"

Frames ==
    /\ Whole(sent)
    /\ phase \in {"reading", "lookup", "checking"} => writing = <<>> /\ Boundary
    /\ phase \in {"reading", "lookup"} => ~partial
    /\ phase = "running" =>
          IF partial THEN Begun("Log") /\ ~io.errEnd ELSE writing = <<>> /\ Boundary
    /\ phase = "reaping" => writing = <<>> /\ (partial \/ Boundary)
    /\ phase = "answering" =>
          /\ Begun("Done")
          /\ Boundary => NoneDone(Len(sent))
          /\ ~Boundary => NoneDone(Len(sent) - 1)
    /\ phase \in {"closing", "over"} =>
          \A i \in 1..Len(sent) : sent[i][1] = "Done" => i > Len(sent) - 2
    /\ phase \notin {"answering", "closing", "over"} => NoneDone(Len(sent))

IInv == Types /\ Stages /\ Streams /\ Success /\ Frames

(***************************************************************************)
(* Queues of lines and the ring buffer.                                    *)
(***************************************************************************)
LEMMA QueueAppend ==
    ASSUME NEW q \in Seq(Nat), Increasing(q), NEW n \in Nat, \A l \in In(q) : l < n
    PROVE  /\ Append(q, n) \in Seq(Nat) /\ Len(Append(q, n)) = Len(q) + 1
           /\ Increasing(Append(q, n)) /\ In(Append(q, n)) = In(q) \cup {n}
<1> DEFINE a == Append(q, n)
<1>1. /\ a \in Seq(Nat) /\ Len(a) = Len(q) + 1 /\ Len(q) \in Nat
      /\ a[Len(q) + 1] = n /\ \A i \in 1..Len(q) : a[i] = q[i]
  OBVIOUS
<1>2. \A i \in 1..Len(q) : q[i] \in Nat
  OBVIOUS
<1> HIDE DEF a
<1>3. Increasing(a)
  <2> SUFFICES ASSUME NEW i \in 1..Len(a), NEW j \in 1..Len(a), i < j
               PROVE  a[i] < a[j]
    BY DEF Increasing
  <2>1. CASE j <= Len(q)
    BY <1>1, <1>2, <2>1 DEF Increasing
  <2>2. CASE j = Len(q) + 1
    <3>1. i \in 1..Len(q)
      BY <1>1, <2>2
    <3>2. q[i] \in In(q)
      BY <3>1 DEF In
    <3> QED  BY <1>1, <3>1, <3>2, <2>2
  <2>3. j \in 1..Len(q) + 1
    BY <1>1, Zenon
  <2>4. j <= Len(q) \/ j = Len(q) + 1
    <3>1. \A m \in Nat : \A p \in 1..m + 1 : p <= m \/ p = m + 1
      OBVIOUS
    <3>2. Len(q) \in Nat
      BY <1>1
    <3> QED  BY <2>3, <3>1, <3>2, Zenon
  <2> QED  BY <2>1, <2>2, <2>4
<1>4. In(a) = In(q) \cup {n}
  <2>1. \A i \in 1..Len(a) : i \in 1..Len(q) \/ i = Len(q) + 1
    BY <1>1
  <2>2. 1..Len(q) \subseteq 1..Len(a) /\ Len(q) + 1 \in 1..Len(a)
    BY <1>1
  <2> QED  BY <1>1, <2>1, <2>2 DEF In
<1> QED  BY <1>1, <1>3, <1>4 DEF a

LEMMA QueueTail ==
    ASSUME NEW q \in Seq(Nat), Increasing(q), q # << >>
    PROVE  /\ Tail(q) \in Seq(Nat) /\ Len(Tail(q)) = Len(q) - 1
           /\ Head(q) \in In(q) /\ Head(q) \in Nat
           /\ Increasing(Tail(q)) /\ In(Tail(q)) = In(q) \ {Head(q)}
           /\ \A i \in 1..Len(Tail(q)) : Head(q) < Tail(q)[i]
           /\ \A i \in 1..Len(Tail(q)) : \E j \in 1..Len(q) : Tail(q)[i] = q[j]
<1> DEFINE t == Tail(q)
<1>1. /\ t \in Seq(Nat) /\ Len(t) = Len(q) - 1 /\ Len(q) \in Nat \ {0} /\ Head(q) = q[1]
      /\ \A i \in 1..Len(t) : t[i] = q[i + 1]
  OBVIOUS
<1>2. /\ \A i \in 1..Len(q) : q[i] \in Nat
      /\ 1 \in 1..Len(q)
      /\ \A i \in 1..Len(t) : i + 1 \in 1..Len(q) /\ 1 < i + 1
      /\ \A j \in 1..Len(q) : j = 1 \/ (j - 1 \in 1..Len(t) /\ j = (j - 1) + 1)
  BY <1>1
<1> HIDE DEF t
<1>3. Increasing(t)
  <2> SUFFICES ASSUME NEW i \in 1..Len(t), NEW j \in 1..Len(t), i < j
               PROVE  t[i] < t[j]
    BY DEF Increasing
  <2>1. i + 1 < j + 1
    BY <1>1
  <2> QED  BY <1>1, <1>2, <2>1 DEF Increasing
<1>4. \A i \in 1..Len(t) : Head(q) < t[i]
  BY <1>1, <1>2 DEF Increasing
<1>5. In(t) = In(q) \ {Head(q)}
  <2>1. ASSUME NEW x \in In(t)
        PROVE  x \in In(q) /\ x # Head(q)
    <3>1. PICK i \in 1..Len(t) : x = t[i]
      BY DEF In
    <3>2. x = q[i + 1] /\ Head(q) < x /\ x \in Nat /\ Head(q) \in Nat
      BY <1>1, <1>2, <1>4, <3>1
    <3>3. x # Head(q)
      BY <3>2
    <3> QED  BY <1>2, <3>2, <3>3 DEF In
  <2>2. ASSUME NEW x \in In(q), x # Head(q)
        PROVE  x \in In(t)
    <3>1. PICK j \in 1..Len(q) : x = q[j]
      BY DEF In
    <3>2. j - 1 \in 1..Len(t) /\ j = (j - 1) + 1
      BY <1>1, <1>2, <2>2, <3>1
    <3>3. t[j - 1] = x
      BY <1>1, <3>1, <3>2
    <3> QED  BY <3>2, <3>3 DEF In
  <2> QED  BY <2>1, <2>2
<1>6. Head(q) \in In(q)
  BY <1>1, <1>2 DEF In
<1> QED  BY <1>1, <1>2, <1>3, <1>4, <1>5, <1>6 DEF t

(* A list that is not full grows by the line, a full one also drops its    *)
(* first line.                                                             *)
LEMMA ListsGrown ==
    ASSUME NEW n \in Nat, NEW s \in Seq(Nat), NEW h \in Nat, NEW lines \in SUBSET Nat,
           \A l \in lines : l < h, Lists(s, n, lines),
           NEW t \in Seq(Nat), Len(t) = Len(s) + 1, Len(t) <= n, t[Len(s) + 1] = h,
           \A i \in 1..Len(s) : t[i] = s[i]
    PROVE  Lists(t, n, lines \cup {h})
<1>1. /\ Len(s) \in Nat /\ Len(s) < n
      /\ \A i \in 1..Len(s) : i \in 1..Len(t)
      /\ \A i \in 1..Len(t) : i \in 1..Len(s) \/ i = Len(s) + 1
  OBVIOUS
<1>2. \A i \in 1..Len(t) : t[i] \in lines \cup {h}
  BY <1>1 DEF Lists
<1>3. \A i, j \in 1..Len(t) : i < j => t[i] < t[j]
  <2> SUFFICES ASSUME NEW i \in 1..Len(t), NEW j \in 1..Len(t), i < j
               PROVE  t[i] < t[j]
    OBVIOUS
  <2>1. i \in 1..Len(s)
    BY <1>1
  <2>2. CASE j \in 1..Len(s)
    BY <2>1, <2>2 DEF Lists
  <2>3. CASE j = Len(s) + 1
    BY <2>1, <2>3 DEF Lists
  <2> QED  BY <1>1, <2>2, <2>3
<1>4. \A l \in lines \cup {h} : \E i \in 1..Len(t) : t[i] = l
  <2>1. ASSUME NEW l \in lines  PROVE  \E i \in 1..Len(t) : t[i] = l
    <3>1. PICK i \in 1..Len(s) : s[i] = l
      BY <1>1 DEF Lists
    <3>2. i \in 1..Len(t) /\ t[i] = l
      BY <1>1, <3>1
    <3> QED  BY <3>2
  <2>2. Len(s) + 1 \in 1..Len(t)
    BY <1>1
  <2> QED  BY <2>1, <2>2
<1> QED  BY <1>2, <1>3, <1>4 DEF Lists

LEMMA ListsShifted ==
    ASSUME NEW n \in Nat, NEW s \in Seq(Nat), NEW h \in Nat, NEW lines \in SUBSET Nat,
           \A l \in lines : l < h, Lists(s, n, lines), Len(s) = n,
           NEW t \in Seq(Nat), Len(t) = n, n > 0 => t[n] = h,
           \A i \in 1..n : i < n => t[i] = s[i + 1]
    PROVE  Lists(t, n, lines \cup {h})
<1>1. \A i \in 1..n : i < n => /\ i + 1 \in 1..n /\ t[i] = s[i + 1] /\ t[i] \in lines
                               /\ t[i] < h
  BY DEF Lists
<1>2. \A i \in 1..n : i < n \/ (i = n /\ t[i] = h)
  OBVIOUS
<1>3. \A i \in 1..n : t[i] \in lines \cup {h}
  BY <1>1, <1>2
<1>4. \A i, j \in 1..n : i < j => t[i] < t[j]
  <2> SUFFICES ASSUME NEW i \in 1..n, NEW j \in 1..n, i < j
               PROVE  t[i] < t[j]
    OBVIOUS
  <2>1. i < n /\ i + 1 < j + 1
    OBVIOUS
  <2>2. CASE j < n
    BY <1>1, <2>1, <2>2 DEF Lists
  <2>3. CASE t[j] = h
    BY <1>1, <2>1, <2>3
  <2> QED  BY <1>2, <2>2, <2>3
<1>5. ASSUME NEW l \in lines
      PROVE  (\E i \in 1..n : t[i] = l) \/ (\A i \in 1..n : l < t[i])
  <2>1. CASE \A i \in 1..n : l < s[i]
    BY <1>1, <1>2, <2>1
  <2>2. ASSUME NEW i \in 1..n, s[i] = l
        PROVE  (\E m \in 1..n : t[m] = l) \/ (\A m \in 1..n : l < t[m])
    <3>1. CASE i = 1
      <4>1. \A m \in 1..n : m < n => 1 < m + 1 /\ s[1] < s[m + 1]
        BY <1>1, <3>1 DEF Lists
      <4> QED  BY <1>1, <1>2, <2>2, <3>1, <4>1
    <3>2. CASE i > 1
      <4>1. i - 1 \in 1..n /\ i - 1 < n /\ (i - 1) + 1 = i
        BY <3>2
      <4>2. t[i - 1] = l
        BY <1>1, <2>2, <4>1
      <4> QED  BY <4>1, <4>2
    <3> QED  BY <3>1, <3>2
  <2> QED  BY <2>1, <2>2 DEF Lists
<1>6. (\E i \in 1..n : t[i] = h) \/ (\A i \in 1..n : h < t[i])
  <2>1. CASE n = 0
    BY <2>1
  <2>2. CASE n > 0
    <3>1. n \in 1..n
      BY <2>2
    <3> QED  BY <2>2, <3>1
  <2> QED  BY <2>1, <2>2
<1> QED  BY <1>3, <1>4, <1>5, <1>6 DEF Lists

LEMMA Suffix ==
    ASSUME NEW k \in Seq(Nat), NEW f \in 1..Len(k) + 1
    PROVE  /\ SubSeq(k, f, Len(k)) \in Seq(Nat)
           /\ Len(SubSeq(k, f, Len(k))) = Len(k) + 1 - f
           /\ \A i \in 1..Len(k) + 1 - f : SubSeq(k, f, Len(k))[i] = k[f + i - 1]
<1>1. Len(k) \in Int /\ Len(k) \in Nat /\ f \in Int
  OBVIOUS
<1>2. \A i \in f..Len(k) : k[i] \in Nat
  OBVIOUS
<1>3. /\ SubSeq(k, f, Len(k)) \in Seq(Nat)
      /\ Len(SubSeq(k, f, Len(k))) = IF f <= Len(k) THEN Len(k) - f + 1 ELSE 0
      /\ \A i \in 1..Len(k) - f + 1 : SubSeq(k, f, Len(k))[i] = k[f + i - 1]
  BY <1>1, <1>2, SubSeqProperties
<1>4. Len(k) + 1 - f = Len(k) - f + 1
  BY <1>1
<1>5. (IF f <= Len(k) THEN Len(k) - f + 1 ELSE 0) = Len(k) + 1 - f
  BY <1>1
<1> QED  BY <1>3, <1>4, <1>5

(* t has the last n elements of k, or all of them.                         *)
Suffixed(t, k, n) ==
    /\ Len(t) = IF Len(k) > n THEN n ELSE Len(k)
    /\ \A i \in 1..Len(t) : t[i] = k[Len(k) - Len(t) + i]

Appended(k, s, h) ==
    /\ Len(k) = Len(s) + 1 /\ k[Len(s) + 1] = h
    /\ \A i \in 1..Len(s) : k[i] = s[i]

(* The ring buffer lists the last n lines again once a later one came.     *)
LEMMA ListsMore ==
    ASSUME NEW n \in Nat, NEW s \in Seq(Nat), NEW h \in Nat, NEW lines \in SUBSET Nat,
           \A l \in lines : l < h, Lists(s, n, lines), NEW k \in Seq(Nat),
           Appended(k, s, h), NEW t \in Seq(Nat), Suffixed(t, k, n)
    PROVE  Lists(t, n, lines \cup {h})
<1> USE DEF Appended, Suffixed
<1>1. Len(s) \in Nat /\ Len(s) <= n
  BY DEF Lists
<1>2. CASE Len(s) < n
  <2>1. Len(t) = Len(s) + 1 /\ Len(k) = Len(s) + 1
    BY <1>1, <1>2
  <2>2. \A i \in 1..Len(s) + 1 : (Len(s) + 1) - (Len(s) + 1) + i = i
    BY <1>1
  <2>3. \A i \in 1..Len(s) + 1 : t[i] = k[i]
    <3>1. \A i \in 1..Len(s) + 1 : t[i] = k[(Len(s) + 1) - (Len(s) + 1) + i]
      BY <2>1, Zenon
    <3> QED  BY <2>2, <3>1, Zenon
  <2>4. Len(s) + 1 \in 1..Len(s) + 1 /\ \A i \in 1..Len(s) : i \in 1..Len(s) + 1
    BY <1>1
  <2>5. t[Len(s) + 1] = h /\ \A i \in 1..Len(s) : t[i] = s[i]
    BY <2>3, <2>4
  <2>6. Len(t) = Len(s) + 1 /\ Len(t) <= n
    BY <1>1, <1>2, <2>1
  <2> QED  BY <2>5, <2>6, ListsGrown
<1>3. CASE Len(s) = n
  <2>1. Len(t) = n /\ Len(k) = n + 1
    BY <1>1, <1>3
  <2>2. \A i \in 1..n : (n + 1) - n + i = i + 1
    OBVIOUS
  <2>3. \A i \in 1..n : t[i] = k[i + 1]
    <3>1. \A i \in 1..n : t[i] = k[(n + 1) - n + i]
      BY <2>1, Zenon
    <3> QED  BY <2>2, <3>1, Zenon
  <2>4. n > 0 => t[n] = h
    <3>1. n > 0 => n \in 1..n
      OBVIOUS
    <3> QED  BY <1>3, <2>3, <3>1
  <2>5. \A i \in 1..n : i < n => t[i] = s[i + 1]
    <3>1. \A i \in 1..n : i < n => i + 1 \in 1..n
      OBVIOUS
    <3> QED  BY <1>3, <2>3, <3>1
  <2>6. Len(t) = n
    BY <2>1
  <2> QED  BY <1>3, <2>4, <2>5, <2>6, ListsShifted, Zenon
<1> QED  BY <1>1, <1>2, <1>3

(* The expression of ReadStderr yields such a list.                        *)
LEMMA Retained ==
    ASSUME NEW n \in Nat, NEW s \in Seq(Nat), NEW h \in Nat, NEW lines \in SUBSET Nat,
           \A l \in lines : l < h, Lists(s, n, lines), NEW k, k = Append(s, h),
           NEW t, t = SubSeq(k, 1 + Len(k) - (IF Len(k) > n THEN n ELSE Len(k)), Len(k))
    PROVE  t \in Seq(Nat) /\ Len(t) <= n /\ Lists(t, n, lines \cup {h})
<1>1. /\ k \in Seq(Nat) /\ Len(k) = Len(s) + 1 /\ Len(s) \in Nat /\ k[Len(s) + 1] = h
      /\ \A i \in 1..Len(s) : k[i] = s[i]
  OBVIOUS
<1> DEFINE m == IF Len(k) > n THEN n ELSE Len(k)
           f == 1 + Len(k) - m
<1>2. m \in Nat /\ m <= Len(k) /\ f \in 1..Len(k) + 1 /\ Len(k) + 1 - f = m
  <2>1. Len(k) \in Nat
    BY <1>1
  <2>2. m \in Nat /\ m <= Len(k)
    BY <2>1
  <2>3. \A a, b \in Nat : b <= a => 1 + a - b \in 1..a + 1 /\ a + 1 - (1 + a - b) = b
    OBVIOUS
  <2> HIDE DEF m
  <2> QED  BY <2>1, <2>2, <2>3
<1>3. t = SubSeq(k, f, Len(k))
  OBVIOUS
<1>4. \A i \in 1..m : f + i - 1 = Len(k) - m + i
  BY <1>1, <1>2
<1>5. m = IF Len(k) > n THEN n ELSE Len(k)
  OBVIOUS
<1> HIDE DEF m, f
<1>6. /\ t \in Seq(Nat) /\ Len(t) = m
      /\ \A i \in 1..m : t[i] = k[f + i - 1]
  <2>1. /\ SubSeq(k, f, Len(k)) \in Seq(Nat)
        /\ Len(SubSeq(k, f, Len(k))) = Len(k) + 1 - f
        /\ \A i \in 1..Len(k) + 1 - f : SubSeq(k, f, Len(k))[i] = k[f + i - 1]
    BY <1>1, <1>2, Suffix
  <2> QED  BY <1>2, <1>3, <2>1, Zenon
<1>7. \A i \in 1..m : t[i] = k[Len(k) - m + i]
  <2> SUFFICES ASSUME NEW i \in 1..m  PROVE  t[i] = k[Len(k) - m + i]
    OBVIOUS
  <2>1. t[i] = k[f + i - 1]
    BY <1>6, Zenon
  <2>2. f + i - 1 = Len(k) - m + i
    BY <1>4, Zenon
  <2> QED  BY <2>1, <2>2, Zenon
<1>8. Lists(t, n, lines \cup {h})
  <2>1. Len(t) = (IF Len(k) > n THEN n ELSE Len(k))
    BY <1>5, <1>6, Zenon
  <2>2. \A i \in 1..Len(t) : t[i] = k[Len(k) - Len(t) + i]
    BY <1>6, <1>7, Zenon
  <2>3. /\ k \in Seq(Nat) /\ t \in Seq(Nat) /\ Len(k) = Len(s) + 1 /\ k[Len(s) + 1] = h
        /\ \A i \in 1..Len(s) : k[i] = s[i]
    BY <1>1, <1>6, Zenon
  <2>4. Suffixed(t, k, n) /\ Appended(k, s, h)
    BY <2>1, <2>2, <2>3, Zenon DEF Suffixed, Appended
  <2> QED  BY <2>3, <2>4, ListsMore, Zenon
<1> QED  BY <1>6, <1>8, Zenon DEF Lists

(***************************************************************************)
(* Parts of frames.                                                        *)
(***************************************************************************)
LEMMA Parity ==
    ASSUME NEW n \in Nat
    PROVE  /\ n % 2 = 0 \/ n % 2 = 1
           /\ n % 2 = 0 => (n + 1) % 2 = 1
           /\ n % 2 = 1 => (n + 1) % 2 = 0
OBVIOUS

Continues(s, p) ==
    /\ p[2] = IF Len(s) % 2 = 0 THEN "length" ELSE "body"
    /\ Len(s) % 2 = 1 => p[1] = s[Len(s)][1]

LEMMA PartAppended ==
    ASSUME NEW p \in Parts, sent \in Seq(Parts), Whole(sent), Continues(sent, p),
           sent' = Append(sent, p)
    PROVE  /\ sent' \in Seq(Parts) /\ Len(sent') = Len(sent) + 1 /\ Whole(sent')
           /\ sent'[Len(sent')] = p
           /\ \A i \in 1..Len(sent) : sent'[i] = sent[i]
           /\ Len(sent') % 2 = 0 <=> Len(sent) % 2 = 1
<1> USE DEF Continues
<1>1. /\ sent' \in Seq(Parts) /\ Len(sent') = Len(sent) + 1 /\ Len(sent) \in Nat
      /\ sent'[Len(sent) + 1] = p /\ \A i \in 1..Len(sent) : sent'[i] = sent[i]
  OBVIOUS
<1>2. /\ Len(sent) % 2 = 0 \/ Len(sent) % 2 = 1
      /\ Len(sent) % 2 = 0 => (Len(sent) + 1) % 2 = 1
      /\ Len(sent) % 2 = 1 => (Len(sent) + 1) % 2 = 0
  BY <1>1, Parity
<1>3. \A i \in 1..Len(sent') : i \in 1..Len(sent) \/ i = Len(sent) + 1
  BY <1>1
<1>4. \A i \in 1..Len(sent') : sent'[i][2] = IF i % 2 = 1 THEN "length" ELSE "body"
  <2> SUFFICES ASSUME NEW i \in 1..Len(sent')
               PROVE  sent'[i][2] = IF i % 2 = 1 THEN "length" ELSE "body"
    OBVIOUS
  <2>1. CASE i \in 1..Len(sent)
    BY <1>1, <2>1 DEF Whole
  <2>2. CASE i = Len(sent) + 1
    BY <1>1, <1>2, <2>2
  <2> QED  BY <1>3, <2>1, <2>2
<1>5. \A i \in 2..Len(sent') : i % 2 = 0 => sent'[i][1] = sent'[i - 1][1]
  <2> SUFFICES ASSUME NEW i \in 2..Len(sent'), i % 2 = 0
               PROVE  sent'[i][1] = sent'[i - 1][1]
    OBVIOUS
  <2>1. CASE i \in 1..Len(sent)
    <3>1. i \in 2..Len(sent) /\ i - 1 \in 1..Len(sent)
      BY <1>1, <2>1
    <3> QED  BY <1>1, <3>1 DEF Whole
  <2>2. CASE i = Len(sent) + 1
    <3>1. Len(sent) \in 1..Len(sent) /\ i - 1 = Len(sent)
      BY <1>1, <2>2
    <3>2. Len(sent) % 2 = 1
      BY <1>2, <2>2
    <3> QED  BY <1>1, <2>2, <3>1, <3>2
  <2> QED  BY <1>1, <2>1, <2>2
<1>6. Len(sent') % 2 = 0 <=> Len(sent) % 2 = 1
  BY <1>1, <1>2
<1> QED  BY <1>1, <1>4, <1>5, <1>6 DEF Whole

(***************************************************************************)
(* What is left alone.                                                     *)
(***************************************************************************)
LEMMA ProgramShape ==
    ASSUME NEW c \in Calls
    PROVE  c.program.steps \in Seq(StepKinds) /\ Len(c.program.steps) \in Nat
BY SessionAssumption DEF Calls

LEMMA FrameShape ==
    /\ \A kind \in {"Log", "Done"} : Frame(kind) \in Seq(Parts)
    /\ << >> \in Seq(Parts)
BY DEF Frame, Parts

LEMMA TypesKept ==
    ASSUME Types, UNCHANGED <<call, pc, child, kin, killed, io, partial, cancelled, reason>>,
           UNCHANGED <<sent, taken, hub>>, writing' = writing \/ writing' \in Seq(Parts),
           phase' \in {"reading", "lookup", "running", "reaping", "checking", "answering",
                       "closing", "over"}
    PROVE  Types'
BY DEF Types, Steps

LEMMA OutStreamKept ==
    ASSUME OutStream, Written({"out"})' = Written({"out"}),
           Written({"out", "chat"})' = Written({"out", "chat"}),
           io'.stdout = io.stdout, io'.last = io.last
    PROVE  OutStream'
<1>1. Outputs' = Outputs /\ In(io.stdout)' = In(io.stdout)
  BY DEF Outputs, In
<1> QED  BY <1>1 DEF OutStream, Increasing, Behind, IsLast

LEMMA ErrStreamKept ==
    ASSUME ErrStream, Written({"err", "long"})' = Written({"err", "long"}),
           io'.stderr = io.stderr, io'.tail = io.tail
    PROVE  ErrStream'
<1>1. Errors' = Errors /\ In(io.stderr)' = In(io.stderr)
  BY DEF Errors, In
<1> QED  BY <1>1 DEF ErrStream, Increasing, Behind, Lists

LEMMA WrittenKept ==
    ASSUME NEW kinds, call' = call, pc' = pc
    PROVE  Written(kinds)' = Written(kinds)
BY DEF Written, Steps

LEMMA WrittenGrows ==
    ASSUME NEW kinds, call \in Calls, pc \in Nat \ {0}, call' = call, pc' = pc + 1
    PROVE  /\ Steps[pc] \in kinds => Written(kinds)' = Written(kinds) \cup {pc}
           /\ Steps[pc] \notin kinds => Written(kinds)' = Written(kinds)
           /\ \A l \in Written(kinds) : l \in Nat /\ l < pc
<1>1. 1..pc' - 1 = (1..pc - 1) \cup {pc} /\ Steps' = Steps
  BY DEF Steps
<1>2. Written(kinds)' = {i \in 1..pc' - 1 : Steps[i] \in kinds}
  BY <1>1 DEF Written
<1> QED  BY <1>1, <1>2 DEF Written

LEMMA StreamsKept ==
    ASSUME Streams, call' = call, pc' = pc, io'.stdout = io.stdout, io'.stderr = io.stderr,
           io'.last = io.last, io'.tail = io.tail
    PROVE  Streams'
BY WrittenKept, OutStreamKept, ErrStreamKept DEF Streams

LEMMA SuccessKept ==
    ASSUME Success, call' = call, result' = result, killed' = killed, pc' = pc,
           child = "reaped" => child' = child,
           phase \in {"answering", "closing", "over"} => phase' \in {"answering", "closing", "over"}
    PROVE  Success'
BY DEF Success, Earned, Written, Steps, IsLast, Lists

LEMMA FramesKept ==
    ASSUME Frames, sent' = sent, writing' = writing, partial' = partial,
           phase' = phase, io'.errEnd = io.errEnd
    PROVE  Frames'
BY DEF Frames, Whole, Begun, Boundary, NoneDone

LEMMA AlignedIfFrames ==
    ASSUME Types, Frames
    PROVE  FrameAligned
<1>1. Len(sent) \in Nat
  BY DEF Types
<1>2. \A i \in 1..Len(sent) : sent[i][1] = "Done" => i > Len(sent) - 2
  <2>1. CASE phase \in {"closing", "over"}
    BY <2>1 DEF Frames
  <2>2. CASE phase = "answering"
    <3>1. NoneDone(Len(sent)) \/ NoneDone(Len(sent) - 1)
      BY <2>2 DEF Frames
    <3>2. ASSUME NEW i \in 1..Len(sent), sent[i][1] = "Done"
          PROVE  i > Len(sent) - 2
      <4>1. i \notin 1..Len(sent) - 1
        BY <1>1, <3>1, <3>2 DEF NoneDone
      <4> QED  BY <1>1, <4>1
    <3> QED  BY <3>2
  <2>3. CASE phase \notin {"answering", "closing", "over"}
    BY <2>3 DEF Frames, NoneDone
  <2> QED  BY <2>1, <2>2, <2>3
<1> QED  BY <1>2 DEF FrameAligned, Frames, Whole

(* A channel that is given up keeps what was written to it.                *)
LEMMA Ended ==
    ASSUME Whole(sent)', phase' \in {"closing", "over"},
           \A i \in 1..Len(sent') : sent'[i][1] = "Done" => i > Len(sent') - 2
    PROVE  Frames'
BY DEF Frames

LEMMA FramesEnded ==
    ASSUME Types, Frames, sent' = sent, phase' \in {"closing", "over"}
    PROVE  Frames'
<1>1. FrameAligned
  BY AlignedIfFrames
<1> QED  BY <1>1 DEF FrameAligned, Frames, Whole

(* A Done frame is begun where the last frame ended.                       *)
LEMMA DoneBegun ==
    ASSUME Frames, Boundary, NoneDone(Len(sent)), sent' = sent,
           phase' = "answering", writing' = Frame("Done")
    PROVE  Frames'
BY DEF Frames, Whole, Begun, Boundary, NoneDone, Frame

LEMMA Answered ==
    ASSUME NEW r, Types, Frames, Boundary, NoneDone(Len(sent)), sent' = sent, Answer(r)
    PROVE  Frames' /\ phase' \in {"answering", "over"} /\ result' = r
<1>1. CASE call.entry = "channel"
  BY <1>1, DoneBegun DEF Answer
<1>2. CASE call.entry # "channel"
  BY <1>2, FramesEnded DEF Answer
<1> QED  BY <1>1, <1>2

LEMMA Abandoned ==
    ASSUME Types, Frames, sent' = sent, Abandon
    PROVE  /\ Frames' /\ phase' \in {"closing", "over"}
           /\ result' = result \/ result' = Failure(<< >>)
<1>1. phase' \in {"closing", "over"} /\ (result' = result \/ result' = Failure(<< >>))
  BY DEF Abandon, Answer
<1> QED  BY <1>1, FramesEnded

LEMMA FailureKeepsSuccess ==
    ASSUME NEW tail, result' = Failure(tail)
    PROVE  Success'
<1>1. result'.status # "success"
  BY DEF Failure
<1> QED  BY <1>1 DEF Success

(***************************************************************************)
(* The request.                                                            *)
(***************************************************************************)
LEMMA InitInv ==
    ASSUME Init  PROVE IInv
<1>1. call \in Calls /\ Len(Steps) \in Nat
  BY ProgramShape DEF Init, Steps
<1>2. Types
  <2>1. /\ 0 \in 0..InputLength /\ 0 \in 0..PipeCapacity /\ 0 \in 0..MaxOutputLines
        /\ 0 <= PipeCapacity /\ 0 <= TailLength /\ 0 <= WindowSize
    BY SessionAssumption
  <2>2. << >> \in Seq(Nat) /\ << >> \in Seq(Parts) /\ Len(<< >>) = 0
    OBVIOUS
  <2>3. io \in [todo : 0..InputLength, stdin : 0..PipeCapacity, stdout : Seq(Nat),
                stderr : Seq(Nat), lines : 0..MaxOutputLines, last : Nat, tail : Seq(Nat),
                outEnd : BOOLEAN, errEnd : BOOLEAN]
    BY <2>1, <2>2 DEF Init
  <2>4. taken \in 0..Len(sent) /\ Len(sent) <= taken + WindowSize
    BY <2>1, <2>2, SessionAssumption DEF Init
  <2>5. pc \in 1..Len(Steps) + 1
    BY <1>1 DEF Init
  <2>6. phase \in {"reading", "lookup"}
    BY DEF Init
  <2> QED  BY <1>1, <2>1, <2>2, <2>3, <2>4, <2>5, <2>6 DEF Init, Types
<1>3. Stages
  BY DEF Init, Stages, PipesClosed, NoSurvivors
<1>4. Streams
  <2>1. \A kinds : Written(kinds) = {}
    BY DEF Init, Written
  <2>2. In(<< >>) = {} /\ Increasing(<< >>) /\ Len(<< >>) = 0
    BY DEF In, Increasing
  <2>3. Outputs = {} /\ Errors = {}
    BY <2>1 DEF Outputs, Errors
  <2>4. IsLast(0, {}) /\ Lists(<< >>, TailLength, {})
    BY SessionAssumption DEF IsLast, Lists
  <2> QED  BY <2>1, <2>2, <2>3, <2>4 DEF Init, Streams, OutStream, ErrStream, Behind
<1>5. Success
  BY DEF Init, Success, Nothing
<1>6. Frames
  <2>1. Len(sent) = 0 /\ 1..0 = {} /\ 2..0 = {} /\ 0 % 2 = 0
    BY DEF Init
  <2> QED  BY <2>1 DEF Init, Frames, Whole, Boundary, NoneDone
<1> QED  BY <1>2, <1>3, <1>4, <1>5, <1>6 DEF IInv

LEMMA ReadInvokeKept ==
    ASSUME IInv, ReadInvoke \/ ReadInvokeFails \/ ReadInvokeCancelled  PROVE IInv'
<1> USE DEF IInv, ReadInvoke, ReadInvokeFails, ReadInvokeCancelled, process, wire
<1>1. Types'
  BY TypesKept
<1>2. Stages'
  BY DEF Stages, PipesClosed, NoSurvivors, Steps
<1>3. Streams'
  BY StreamsKept
<1>4. Success'
  BY SuccessKept
<1>5. Frames'
  <2>1. CASE phase' = "lookup"
    BY <2>1 DEF Frames, Whole, Boundary, NoneDone
  <2>2. CASE phase' \in {"closing", "over"}
    BY <2>2, FramesEnded
  <2> QED  BY <2>1, <2>2
<1> QED  BY <1>1, <1>2, <1>3, <1>4, <1>5

LEMMA RejectKept ==
    ASSUME IInv, Reject  PROVE IInv'
<1> USE DEF IInv, Reject, process
<1>1. Types'
  BY FrameShape, TypesKept DEF Answer
<1>2. Stages'
  BY DEF Stages, PipesClosed, NoSurvivors, Steps, Answer
<1>3. Streams'
  BY StreamsKept
<1>4. Success'
  BY FailureKeepsSuccess DEF Answer
<1>5. Frames'
  BY Answered DEF Frames
<1> QED  BY <1>1, <1>2, <1>3, <1>4, <1>5

LEMMA SpawnFailsKept ==
    ASSUME IInv, SpawnFails  PROVE IInv'
<1> USE DEF IInv, SpawnFails, process
<1>1. Types'
  BY FrameShape, TypesKept DEF Answer, Abandon
<1>2. Stages'
  BY DEF Stages, PipesClosed, NoSurvivors, Steps, Answer, Abandon
<1>3. Streams'
  BY StreamsKept
<1>4. Success'
  <2>1. CASE result' = result
    BY <2>1, SuccessKept
  <2>2. CASE result' = Failure(<< >>)
    BY <2>2, FailureKeepsSuccess
  <2> QED  BY <2>1, <2>2, Abandoned
<1>5. Frames'
  BY Abandoned
<1> QED  BY <1>1, <1>2, <1>3, <1>4, <1>5

LEMMA SpawnKept ==
    ASSUME IInv, Spawn  PROVE IInv'
<1> USE DEF IInv, Spawn, wire
<1>1. /\ io'.stdout = io.stdout /\ io'.stderr = io.stderr /\ io'.last = io.last
      /\ io'.tail = io.tail /\ io'.outEnd = io.outEnd /\ io'.errEnd = io.errEnd
      /\ io'.lines = io.lines /\ io'.stdin = io.stdin
  BY DEF Types
<1>2. Types'
  <2>1. (IF call.input = "null" THEN 0 ELSE InputLength) \in 0..InputLength
    BY SessionAssumption
  <2>2. io' \in [todo : 0..InputLength, stdin : 0..PipeCapacity, stdout : Seq(Nat),
                 stderr : Seq(Nat), lines : 0..MaxOutputLines, last : Nat, tail : Seq(Nat),
                 outEnd : BOOLEAN, errEnd : BOOLEAN]
    BY <2>1 DEF Types
  <2> QED  BY <1>1, <2>2 DEF Types, Steps
<1>3. Stages'
  BY <1>1 DEF Stages, PipesClosed, NoSurvivors, Steps
<1>4. Streams'
  BY <1>1, StreamsKept
<1>5. Success'
  BY DEF Success
<1>6. Frames'
  BY <1>1 DEF Frames, Whole, Boundary, NoneDone, Begun, Stages, PipesClosed
<1> QED  BY <1>2, <1>3, <1>4, <1>5, <1>6

(***************************************************************************)
(* The child and its descendants.                                          *)
(***************************************************************************)
LEMMA OutWritten ==
    ASSUME Types, OutStream, call' = call, pc' = pc + 1, Steps[pc] \in {"out", "chat"},
           io'.stdout = Append(io.stdout, pc), io'.last = io.last
    PROVE  OutStream' /\ io'.stdout \in Seq(Nat) /\ Len(io'.stdout) = Len(io.stdout) + 1
<1> DEFINE q == io.stdout
<1>1. q \in Seq(Nat) /\ pc \in Nat \ {0} /\ pc \in Nat /\ call \in Calls
  BY ProgramShape DEF Types, Steps
<1>2. /\ Written({"out", "chat"})' = Written({"out", "chat"}) \cup {pc}
      /\ \A l \in Written({"out", "chat"}) : l \in Nat /\ l < pc
  BY <1>1, WrittenGrows
<1>3. /\ Written({"out"})' = Written({"out"}) \cup {pc} \/ Written({"out"})' = Written({"out"})
      /\ \A l \in Written({"out"}) : l \in Nat /\ l < pc
  BY <1>1, WrittenGrows
<1>4. Increasing(q) /\ \A l \in In(q) : l < pc
  BY <1>2 DEF OutStream
<1>5. /\ Append(q, pc) \in Seq(Nat) /\ Len(Append(q, pc)) = Len(q) + 1
      /\ Increasing(Append(q, pc)) /\ In(Append(q, pc)) = In(q) \cup {pc}
  BY <1>1, <1>4, QueueAppend
<1>6. io'.stdout = Append(q, pc)
  OBVIOUS
<1>7. In(io.stdout)' = In(q) \cup {pc} /\ Increasing(io.stdout)'
  BY <1>5, <1>6 DEF In, Increasing
<1>8. Outputs' = Outputs
  <2>1. pc \notin Written({"out"})
    BY <1>1, <1>3
  <2> QED  BY <1>3, <1>7, <2>1 DEF Outputs
<1>9. Behind(io.stdout, Outputs)'
  <2>1. ASSUME NEW l \in Outputs, NEW i \in 1..Len(Append(q, pc))
        PROVE  l < Append(q, pc)[i]
    <3>1. i \in 1..Len(q) \/ i = Len(q) + 1
      BY <1>1, <1>5
    <3>2. CASE i \in 1..Len(q)
      <4>1. Append(q, pc)[i] = q[i]
        BY <1>1, <3>2
      <4> QED  BY <3>2, <4>1 DEF OutStream, Behind
    <3>3. CASE i = Len(q) + 1
      <4>1. Append(q, pc)[i] = pc
        BY <1>1, <3>3
      <4> QED  BY <1>3, <4>1 DEF Outputs
    <3> QED  BY <3>1, <3>2, <3>3
  <2> QED  BY <1>6, <1>8, <2>1 DEF Behind
<1>10. IsLast(io.last, Outputs)'
  BY <1>8 DEF OutStream, IsLast
<1>11. In(io.stdout)' \subseteq Written({"out", "chat"})'
  BY <1>2, <1>7 DEF OutStream
<1> QED  BY <1>5, <1>6, <1>7, <1>9, <1>10, <1>11 DEF OutStream

LEMMA ErrWritten ==
    ASSUME Types, ErrStream, call' = call, pc' = pc + 1, Steps[pc] \in {"err", "long"},
           io'.stderr = Append(io.stderr, pc), io'.tail = io.tail
    PROVE  ErrStream' /\ io'.stderr \in Seq(Nat) /\ Len(io'.stderr) = Len(io.stderr) + 1
<1> DEFINE q == io.stderr
<1>1. q \in Seq(Nat) /\ pc \in Nat \ {0} /\ pc \in Nat /\ call \in Calls
  BY ProgramShape DEF Types, Steps
<1>2. /\ Written({"err", "long"})' = Written({"err", "long"}) \cup {pc}
      /\ \A l \in Written({"err", "long"}) : l \in Nat /\ l < pc
  BY <1>1, WrittenGrows
<1>4. Increasing(q) /\ \A l \in In(q) : l < pc
  BY <1>2 DEF ErrStream
<1>5. /\ Append(q, pc) \in Seq(Nat) /\ Len(Append(q, pc)) = Len(q) + 1
      /\ Increasing(Append(q, pc)) /\ In(Append(q, pc)) = In(q) \cup {pc}
  BY <1>1, <1>4, QueueAppend
<1>6. io'.stderr = Append(q, pc)
  OBVIOUS
<1>7. In(io.stderr)' = In(q) \cup {pc} /\ Increasing(io.stderr)'
  BY <1>5, <1>6 DEF In, Increasing
<1>8. Errors' = Errors
  <2>1. pc \notin Written({"err", "long"})
    BY <1>1, <1>2
  <2> QED  BY <1>2, <1>7, <2>1 DEF Errors
<1>9. Behind(io.stderr, Errors)'
  <2>1. ASSUME NEW l \in Errors, NEW i \in 1..Len(Append(q, pc))
        PROVE  l < Append(q, pc)[i]
    <3>1. i \in 1..Len(q) \/ i = Len(q) + 1
      BY <1>1, <1>5
    <3>2. CASE i \in 1..Len(q)
      <4>1. Append(q, pc)[i] = q[i]
        BY <1>1, <3>2
      <4> QED  BY <3>2, <4>1 DEF ErrStream, Behind
    <3>3. CASE i = Len(q) + 1
      <4>1. Append(q, pc)[i] = pc
        BY <1>1, <3>3
      <4> QED  BY <1>2, <4>1 DEF Errors
    <3> QED  BY <3>1, <3>2, <3>3
  <2> QED  BY <1>6, <1>8, <2>1 DEF Behind
<1>10. Lists(io.tail, TailLength, Errors)'
  BY <1>8 DEF ErrStream, Lists
<1>11. In(io.stderr)' \subseteq Written({"err", "long"})'
  BY <1>2, <1>7 DEF ErrStream
<1> QED  BY <1>5, <1>6, <1>7, <1>9, <1>10, <1>11 DEF ErrStream

LEMMA ChildStepKept ==
    ASSUME IInv, ChildStep  PROVE IInv'
<1> USE DEF IInv
<1>1. /\ child = "running" /\ child' = child /\ pc' = pc + 1 /\ pc <= Len(Steps)
      /\ call' = call /\ Steps' = Steps /\ call \in Calls /\ pc \in Nat \ {0} /\ pc \in Nat
      /\ Len(Steps) \in Nat
  <2>1. /\ child = "running" /\ pc' = pc + 1 /\ pc <= Len(Steps)
        /\ UNCHANGED <<call, child>>
    BY DEF ChildStep, Running, session
  <2>2. call \in Calls /\ pc \in 1..Len(Steps) + 1
    BY DEF Types
  <2>3. Len(Steps) \in Nat
    BY <2>2, ProgramShape DEF Steps
  <2>4. Steps' = Steps
    BY <2>1 DEF Steps
  <2> QED
    BY <2>1, <2>2, <2>3, <2>4
<1>2. /\ Types /\ Stages /\ OutStream /\ ErrStream /\ Success /\ Frames
      /\ UNCHANGED <<phase, result, partial, reason, killed, cancelled, writing, sent, taken, hub>>
  BY DEF ChildStep, session, wire, Streams
<1>3. ~io.outEnd /\ ~io.errEnd
  BY <1>1, <1>2 DEF Stages, PipesClosed
<1>4. ASSUME NEW kinds, Steps[pc] \notin kinds
      PROVE  Written(kinds)' = Written(kinds)
  BY <1>1, <1>4, WrittenGrows
<1>5. /\ OutStream' /\ ErrStream' /\ io'.outEnd = io.outEnd /\ io'.errEnd = io.errEnd
      /\ io'.todo = io.todo /\ io'.stdin \in 0..PipeCapacity /\ io'.lines = io.lines
      /\ io'.last = io.last /\ io'.tail = io.tail
      /\ io'.stdout \in Seq(Nat) /\ io'.stderr \in Seq(Nat)
      /\ Len(io'.stdout) <= PipeCapacity /\ Len(io'.stderr) <= PipeCapacity
      /\ io' \in [todo : 0..InputLength, stdin : 0..PipeCapacity, stdout : Seq(Nat),
                 stderr : Seq(Nat), lines : 0..MaxOutputLines, last : Nat, tail : Seq(Nat),
                 outEnd : BOOLEAN, errEnd : BOOLEAN]
      /\ kin' \in {"none", "holding", "detached"}
  <2>1. CASE /\ Steps[pc] \in {"out", "chat"} /\ Len(io.stdout) < PipeCapacity
             /\ io' = [io EXCEPT !.stdout = Append(@, pc)] /\ kin' = kin
    <3>1. /\ io'.stdout = Append(io.stdout, pc) /\ io'.stderr = io.stderr /\ io'.todo = io.todo
          /\ io'.stdin = io.stdin /\ io'.lines = io.lines /\ io'.last = io.last
          /\ io'.tail = io.tail /\ io'.outEnd = io.outEnd /\ io'.errEnd = io.errEnd
      BY <1>2, <2>1 DEF Types
    <3>2. OutStream' /\ io'.stdout \in Seq(Nat) /\ Len(io'.stdout) = Len(io.stdout) + 1
      BY <1>1, <1>2, <2>1, <3>1, OutWritten
    <3>3. ErrStream'
      BY <1>2, <1>4, <2>1, <3>1, ErrStreamKept
    <3>4. Len(io'.stdout) <= PipeCapacity
      <4>1. Len(io.stdout) \in Nat /\ PipeCapacity \in Nat
        BY <1>2, SessionAssumption DEF Types
      <4> QED  BY <2>1, <3>2, <4>1
    <3>5. io' \in [todo : 0..InputLength, stdin : 0..PipeCapacity, stdout : Seq(Nat),
                  stderr : Seq(Nat), lines : 0..MaxOutputLines, last : Nat, tail : Seq(Nat),
                  outEnd : BOOLEAN, errEnd : BOOLEAN]
      <4>1. Append(io.stdout, pc) \in Seq(Nat)
        BY <3>1, <3>2
      <4> HIDE DEF IInv
      <4> QED  BY <1>2, <2>1, <4>1 DEF Types
    <3> QED  BY <1>2, <2>1, <3>1, <3>2, <3>3, <3>4, <3>5 DEF Types
  <2>2. CASE /\ Steps[pc] \in {"err", "long"} /\ Len(io.stderr) < PipeCapacity
             /\ io' = [io EXCEPT !.stderr = Append(@, pc)] /\ kin' = kin
    <3>1. /\ io'.stderr = Append(io.stderr, pc) /\ io'.stdout = io.stdout /\ io'.todo = io.todo
          /\ io'.stdin = io.stdin /\ io'.lines = io.lines /\ io'.last = io.last
          /\ io'.tail = io.tail /\ io'.outEnd = io.outEnd /\ io'.errEnd = io.errEnd
      BY <1>2, <2>2 DEF Types
    <3>2. ErrStream' /\ io'.stderr \in Seq(Nat) /\ Len(io'.stderr) = Len(io.stderr) + 1
      BY <1>1, <1>2, <2>2, <3>1, ErrWritten
    <3>3. OutStream'
      BY <1>2, <1>4, <2>2, <3>1, OutStreamKept
    <3>4. Len(io'.stderr) <= PipeCapacity
      <4>1. Len(io.stderr) \in Nat /\ PipeCapacity \in Nat
        BY <1>2, SessionAssumption DEF Types
      <4> QED  BY <2>2, <3>2, <4>1
    <3>5. io' \in [todo : 0..InputLength, stdin : 0..PipeCapacity, stdout : Seq(Nat),
                  stderr : Seq(Nat), lines : 0..MaxOutputLines, last : Nat, tail : Seq(Nat),
                  outEnd : BOOLEAN, errEnd : BOOLEAN]
      <4>1. Append(io.stderr, pc) \in Seq(Nat)
        BY <3>1, <3>2
      <4> QED  BY <1>2, <2>2, <4>1 DEF Types
    <3> QED  BY <1>2, <2>2, <3>1, <3>2, <3>3, <3>4, <3>5 DEF Types
  <2>3. CASE Steps[pc] = "read" /\ io.stdin > 0 /\ io' = [io EXCEPT !.stdin = @ - 1] /\ kin' = kin
    <3>1. /\ io'.stdout = io.stdout /\ io'.stderr = io.stderr /\ io'.todo = io.todo
          /\ io'.stdin = io.stdin - 1 /\ io'.lines = io.lines /\ io'.last = io.last
          /\ io'.tail = io.tail /\ io'.outEnd = io.outEnd /\ io'.errEnd = io.errEnd
      BY <1>2, <2>3 DEF Types
    <3>2. io.stdin - 1 \in 0..PipeCapacity
      <4>1. io.stdin \in 0..PipeCapacity /\ PipeCapacity \in Nat
        BY <1>2, SessionAssumption DEF Types
      <4>2. io.stdin > 0
        BY <2>3
      <4> HIDE DEF IInv
      <4> QED  BY <4>1, <4>2
    <3>3. ErrStream' /\ OutStream'
      BY <1>2, <1>4, <2>3, <3>1, ErrStreamKept, OutStreamKept
    <3>4. io' \in [todo : 0..InputLength, stdin : 0..PipeCapacity, stdout : Seq(Nat),
                  stderr : Seq(Nat), lines : 0..MaxOutputLines, last : Nat, tail : Seq(Nat),
                  outEnd : BOOLEAN, errEnd : BOOLEAN]
      BY <1>2, <2>3, <3>2 DEF Types
    <3> QED  BY <1>2, <2>3, <3>1, <3>2, <3>3, <3>4 DEF Types
  <2>4. CASE /\ Steps[pc] \in {"read", "fork", "daemon"} /\ io' = io
             /\ kin' \in {kin, "holding", "detached"}
    <3>1. ErrStream' /\ OutStream'
      BY <1>2, <1>4, <2>4, ErrStreamKept, OutStreamKept
    <3> QED  BY <1>2, <2>4, <3>1 DEF Types
  <2> QED  BY <2>1, <2>2, <2>3, <2>4 DEF ChildStep
<1>6. Types'
  <2>1. pc' \in 1..Len(Steps) + 1
    BY <1>1
  <2> QED  BY <1>1, <1>2, <1>5, <2>1 DEF Types
<1>7. Stages'
  BY <1>1, <1>2, <1>3, <1>5 DEF Stages, PipesClosed, NoSurvivors
<1>8. Success'
  <2>1. result.status # "success"
    BY <1>1, <1>2 DEF Success
  <2> QED  BY <1>2, <2>1 DEF Success
<1>9. Frames'
  BY <1>2, <1>5, FramesKept
<1> QED  BY <1>5, <1>6, <1>7, <1>8, <1>9 DEF Streams

LEMMA ChildExitsKept ==
    ASSUME IInv, ChildExits  PROVE IInv'
<1> USE DEF IInv, ChildExits, session, wire
<1>1. pc = Len(Steps) + 1
  <2>1. Len(Steps) \in Nat /\ pc \in 1..Len(Steps) + 1
    BY ProgramShape DEF Types, Steps
  <2> QED  BY <2>1
<1>2. Types'
  BY DEF Types, Steps
<1>3. Stages'
  BY <1>1 DEF Stages, PipesClosed, NoSurvivors, Steps
<1>4. Streams'
  BY StreamsKept
<1>5. Success'
  BY SuccessKept
<1>6. Frames'
  BY FramesKept
<1> QED  BY <1>2, <1>3, <1>4, <1>5, <1>6

LEMMA DescendantExitsKept ==
    ASSUME IInv, DescendantExits  PROVE IInv'
<1> USE DEF IInv, DescendantExits, session, wire
<1>2. Types'
  BY DEF Types, Steps
<1>3. Stages'
  BY DEF Stages, PipesClosed, NoSurvivors, Steps
<1>4. Streams'
  BY StreamsKept
<1>5. Success'
  BY SuccessKept
<1>6. Frames'
  BY FramesKept
<1> QED  BY <1>2, <1>3, <1>4, <1>5, <1>6

(***************************************************************************)
(* The joined futures.                                                     *)
(***************************************************************************)
IoType == [todo : 0..InputLength, stdin : 0..PipeCapacity, stdout : Seq(Nat),
           stderr : Seq(Nat), lines : 0..MaxOutputLines, last : Nat, tail : Seq(Nat),
           outEnd : BOOLEAN, errEnd : BOOLEAN]

LEMMA IoKept ==
    ASSUME Types, io' \in IoType, Len(io'.stdout) <= PipeCapacity, Len(io'.stderr) <= PipeCapacity,
           Len(io'.tail) <= TailLength, writing' \in Seq(Parts), partial' \in BOOLEAN,
           UNCHANGED <<call, pc, phase, child, kin, killed, cancelled, reason, sent, taken, hub>>
    PROVE  Types'
BY DEF Types, Steps, IoType

LEMMA WriteStdinKept ==
    ASSUME IInv, WriteStdin  PROVE IInv'
<1> USE DEF IInv, WriteStdin, session, process, wire
<1>1. /\ io'.stdout = io.stdout /\ io'.stderr = io.stderr /\ io'.lines = io.lines
      /\ io'.last = io.last /\ io'.tail = io.tail /\ io'.outEnd = io.outEnd
      /\ io'.errEnd = io.errEnd
  BY DEF Types
<1>2. io' \in IoType
  <2>1. 0 \in 0..InputLength /\ io.todo - 1 \in 0..InputLength
    <3>1. io.todo \in 0..InputLength /\ InputLength \in Nat
      BY SessionAssumption DEF Types
    <3>2. io.todo > 0
      OBVIOUS
    <3> HIDE DEF IInv, WriteStdin
    <3> QED  BY <3>1, <3>2
  <2>2. io.stdin < PipeCapacity => io.stdin + 1 \in 0..PipeCapacity
    <3>1. io.stdin \in 0..PipeCapacity /\ PipeCapacity \in Nat
      BY SessionAssumption DEF Types
    <3> HIDE DEF IInv, WriteStdin
    <3> QED  BY <3>1
  <2> QED  BY <2>1, <2>2 DEF Types, IoType
<1>3. Types'
  BY <1>1, <1>2, IoKept DEF Types
<1>4. Stages'
  BY <1>1 DEF Stages, PipesClosed, NoSurvivors, Steps
<1>5. Streams'
  BY <1>1, StreamsKept
<1>6. Success'
  BY SuccessKept
<1>7. Frames'
  BY <1>1, FramesKept
<1> QED  BY <1>3, <1>4, <1>5, <1>6, <1>7

LEMMA LineRead ==
    ASSUME NEW q \in Seq(Nat), q # << >>, Increasing(q), NEW lines, In(q) \subseteq lines,
           NEW r, r = Tail(q)
    PROVE  /\ lines \ In(r) = (lines \ In(q)) \cup {Head(q)}
           /\ Behind(q, lines \ In(q)) => Behind(r, (lines \ In(q)) \cup {Head(q)})
<1>1. /\ r \in Seq(Nat) /\ Len(r) = Len(q) - 1 /\ Head(q) \in In(q)
      /\ In(r) = In(q) \ {Head(q)} /\ \A i \in 1..Len(r) : Head(q) < r[i]
      /\ \A i \in 1..Len(r) : \E j \in 1..Len(q) : r[i] = q[j]
  BY QueueTail
<1> QED  BY <1>1 DEF Behind

LEMMA ReadStdoutKept ==
    ASSUME IInv, ReadStdout  PROVE IInv'
<1> DEFINE q == io.stdout
           h == Head(io.stdout)
<1>1. /\ Types /\ Stages /\ OutStream /\ ErrStream /\ Success /\ Frames
      /\ q # << >> /\ q \in Seq(Nat) /\ phase = "running" /\ io.lines < MaxOutputLines
      /\ io' = [io EXCEPT !.stdout = Tail(q), !.lines = io.lines + 1,
                          !.last = IF Steps[h] = "out" THEN h ELSE io.last]
      /\ UNCHANGED <<call, session, process, cancelled, wire>>
  BY DEF IInv, Streams, ReadStdout, Affordable, Types
<1>2. /\ io'.stdout = Tail(q) /\ io'.last = (IF Steps[h] = "out" THEN h ELSE io.last)
      /\ io'.stderr = io.stderr /\ io'.tail = io.tail /\ io'.outEnd = io.outEnd
      /\ io'.errEnd = io.errEnd
  BY <1>1 DEF Types
<1>3. /\ Tail(q) \in Seq(Nat) /\ Len(Tail(q)) = Len(q) - 1 /\ h \in In(q) /\ h \in Nat
      /\ Increasing(Tail(q)) /\ In(Tail(q)) = In(q) \ {h}
      /\ \A i \in 1..Len(Tail(q)) : h < Tail(q)[i]
      /\ \A i \in 1..Len(Tail(q)) : \E j \in 1..Len(q) : Tail(q)[i] = q[j]
  BY <1>1, QueueTail DEF OutStream
<1>4. /\ Written({"out"})' = Written({"out"}) /\ Written({"out", "chat"})' = Written({"out", "chat"})
      /\ Written({"err", "long"})' = Written({"err", "long"})
  BY <1>1, WrittenKept DEF process
<1>5. In(io.stdout)' = In(Tail(q)) /\ Increasing(io.stdout)'
  <2>1. (io.stdout)' = Tail(q)
    BY <1>2
  <2> QED  BY <1>3, <2>1, Zenon
<1>6. Behind(io.stdout, Outputs)' /\ IsLast(io.last, Outputs)'
  <2>1. CASE Steps[h] = "out"
    <3>1. h \in Written({"out"})
      BY <1>1, <1>3, <2>1 DEF OutStream, Written
    <3>2. Outputs' = Outputs \cup {h}
      BY <1>3, <1>4, <1>5, <3>1 DEF Outputs
    <3>3. \A l \in Outputs : l < h
      BY <1>1, <1>3 DEF OutStream, Behind, In
    <3>4. IsLast(h, Outputs \cup {h})
      BY <1>3, <3>3 DEF IsLast, Outputs, Written
    <3>5. Behind(Tail(q), Outputs \cup {h})
      BY <1>1, <1>3 DEF Behind, OutStream
    <3>6. io'.last = h
      BY <1>2, <2>1
    <3> QED  BY <1>2, <3>2, <3>4, <3>5, <3>6 DEF Behind, IsLast
  <2>2. CASE Steps[h] # "out"
    <3>1. h \notin Written({"out"})
      BY <2>2 DEF Written
    <3>2. Outputs' = Outputs
      BY <1>3, <1>4, <1>5, <3>1 DEF Outputs
    <3>3. Behind(Tail(q), Outputs)
      BY <1>1, <1>3 DEF Behind, OutStream
    <3>4. io'.last = io.last
      BY <1>2, <2>2
    <3> QED  BY <1>1, <1>2, <3>2, <3>3, <3>4 DEF Behind, IsLast, OutStream
  <2> QED  BY <2>1, <2>2
<1>7. OutStream'
  BY <1>1, <1>3, <1>4, <1>5, <1>6 DEF OutStream
<1>8. ErrStream'
  BY <1>1, <1>2, <1>4, ErrStreamKept
<1>9. Types'
  <2>1. io.lines + 1 \in 0..MaxOutputLines
    <3>1. io.lines \in 0..MaxOutputLines /\ MaxOutputLines \in Nat
      BY <1>1, SessionAssumption DEF Types
    <3>2. io.lines < MaxOutputLines
      BY <1>1
    <3> QED  BY <3>1, <3>2
  <2>2. (IF Steps[h] = "out" THEN h ELSE io.last) \in Nat
    BY <1>1, <1>3 DEF Types
  <2>3. io' \in IoType
    BY <1>1, <1>3, <2>1, <2>2 DEF Types, IoType
  <2>4. Len(io'.stdout) <= PipeCapacity
    <3>1. Len(q) \in Nat /\ Len(q) <= PipeCapacity /\ PipeCapacity \in Nat
      BY <1>1, SessionAssumption DEF Types
    <3>2. Len(io'.stdout) = Len(q) - 1
      BY <1>2, <1>3
    <3> QED  BY <3>1, <3>2
  <2> QED  BY <1>1, <1>2, <2>3, <2>4, IoKept DEF Types, session, process, wire
<1>10. Stages'
  <2>1. ~io.outEnd
    BY <1>1 DEF Stages
  <2> QED  BY <1>1, <1>2, <2>1 DEF Stages, PipesClosed, NoSurvivors, Steps, session, process
<1>11. Success'
  BY <1>1, SuccessKept DEF session, process
<1>12. Frames'
  BY <1>1, <1>2, FramesKept DEF session, wire
<1> QED  BY <1>7, <1>8, <1>9, <1>10, <1>11, <1>12 DEF IInv, Streams

LEMMA ReadStderrKept ==
    ASSUME IInv, ReadStderr  PROVE IInv'
<1> DEFINE q == io.stderr
           h == Head(io.stderr)
           k == Append(io.tail, h)
           t == SubSeq(k, 1 + Len(k) - (IF Len(k) > TailLength THEN TailLength ELSE Len(k)), Len(k))
<1>1. /\ Types /\ Stages /\ OutStream /\ ErrStream /\ Success /\ Frames
      /\ q # << >> /\ q \in Seq(Nat) /\ phase = "running" /\ io.lines < MaxOutputLines
      /\ writing = << >> /\ io.tail \in Seq(Nat) /\ TailLength \in Nat
      /\ UNCHANGED <<call, phase, result, reason, process, cancelled, sent, taken, hub>>
  BY SessionAssumption DEF IInv, Streams, ReadStderr, Affordable, Types
<1>2. io' = [io EXCEPT !.stderr = Tail(q), !.lines = io.lines + 1, !.tail = t]
  <2>1. io' = [io EXCEPT !.stderr = Tail(q), !.lines = io.lines + 1,
                   !.tail = SubSeq(k, 1 + Len(k) - (IF Len(k) > TailLength THEN TailLength
                                                    ELSE Len(k)), Len(k))]
    BY Zenon DEF ReadStderr
  <2> QED  BY <2>1, Zenon
<1>3. \/ writing' = Frame("Log") /\ partial' = TRUE
      \/ writing' = writing /\ partial' = partial
  BY DEF ReadStderr
<1> HIDE DEF t
<1>4. /\ io'.stderr = Tail(q) /\ io'.tail = t /\ io'.stdout = io.stdout /\ io'.last = io.last
      /\ io'.outEnd = io.outEnd /\ io'.errEnd = io.errEnd
  BY <1>1, <1>2 DEF Types
<1>5. /\ Tail(q) \in Seq(Nat) /\ Len(Tail(q)) = Len(q) - 1 /\ h \in In(q) /\ h \in Nat
      /\ Increasing(Tail(q)) /\ In(Tail(q)) = In(q) \ {h}
      /\ \A i \in 1..Len(Tail(q)) : h < Tail(q)[i]
      /\ \A i \in 1..Len(Tail(q)) : \E j \in 1..Len(q) : Tail(q)[i] = q[j]
  BY <1>1, QueueTail DEF ErrStream
<1>6. /\ Written({"out"})' = Written({"out"}) /\ Written({"out", "chat"})' = Written({"out", "chat"})
      /\ Written({"err", "long"})' = Written({"err", "long"})
  BY <1>1, WrittenKept DEF process
<1>7. In(io.stderr)' = In(Tail(q)) /\ Increasing(io.stderr)'
  <2>1. (io.stderr)' = Tail(q)
    BY <1>4
  <2> QED  BY <1>5, <2>1, Zenon
<1>8. Errors' = Errors \cup {h} /\ Errors \in SUBSET Nat /\ \A l \in Errors : l < h
  <2>1. h \in Written({"err", "long"})
    BY <1>1, <1>5 DEF ErrStream
  <2>2. Errors' = Errors \cup {h}
    BY <1>5, <1>6, <1>7, <2>1 DEF Errors
  <2>3. Errors \in SUBSET Nat
    BY <1>1 DEF Errors, Written, Types
  <2>4. \A l \in Errors : l < h
    BY <1>1, <1>5 DEF ErrStream, Behind, In
  <2> QED  BY <2>2, <2>3, <2>4
<1>9. t \in Seq(Nat) /\ Len(t) <= TailLength /\ Lists(t, TailLength, Errors \cup {h})
  <2>1. Lists(io.tail, TailLength, Errors)
    BY <1>1 DEF ErrStream
  <2>2. t = SubSeq(k, 1 + Len(k) - (IF Len(k) > TailLength THEN TailLength ELSE Len(k)), Len(k))
    BY DEF t
  <2>3. k = Append(io.tail, h)
    OBVIOUS
  <2> HIDE DEF k, h
  <2> QED  BY <1>1, <1>5, <1>8, <2>1, <2>2, <2>3, Retained
<1>10. Behind(io.stderr, Errors)'
  <2>1. Behind(Tail(q), Errors \cup {h})
    BY <1>1, <1>5 DEF Behind, ErrStream
  <2> QED  BY <1>4, <1>8, <2>1 DEF Behind
<1>11. Lists(io.tail, TailLength, Errors)'
  BY <1>4, <1>8, <1>9 DEF Lists
<1>12. ErrStream'
  BY <1>1, <1>5, <1>6, <1>7, <1>10, <1>11 DEF ErrStream
<1>13. OutStream'
  BY <1>1, <1>4, <1>6, OutStreamKept
<1>14. Types'
  <2>1. io.lines + 1 \in 0..MaxOutputLines
    <3>1. io.lines \in 0..MaxOutputLines /\ MaxOutputLines \in Nat
      BY <1>1, SessionAssumption DEF Types
    <3>2. io.lines < MaxOutputLines
      BY <1>1
    <3> QED  BY <3>1, <3>2
  <2>2. io' \in IoType
    BY <1>1, <1>2, <1>5, <1>9, <2>1 DEF Types, IoType
  <2>3. Len(io'.stderr) <= PipeCapacity
    <3>1. Len(q) \in Nat /\ Len(q) <= PipeCapacity /\ PipeCapacity \in Nat
      BY <1>1, SessionAssumption DEF Types
    <3>2. Len(io'.stderr) = Len(q) - 1
      BY <1>4, <1>5
    <3> QED  BY <3>1, <3>2
  <2>4. writing' \in Seq(Parts) /\ partial' \in BOOLEAN
    BY <1>1, <1>3, FrameShape DEF Types
  <2> QED  BY <1>1, <1>4, <1>9, <2>2, <2>3, <2>4, IoKept DEF Types, process
<1>15. ~io.errEnd
  BY <1>1 DEF Stages
<1>16. Stages'
  BY <1>1, <1>4, <1>15 DEF Stages, PipesClosed, NoSurvivors, Steps, process
<1>17. Success'
  BY <1>1, SuccessKept DEF process
<1>18. Frames'
  <2>1. CASE writing' = writing /\ partial' = partial
    BY <1>1, <1>4, <2>1, FramesKept
  <2>2. CASE writing' = Frame("Log") /\ partial' = TRUE
    <3>1. ~partial /\ Boundary
      BY <1>1 DEF Frames, Begun, Frame
    <3>2. Begun("Log")' /\ Boundary'
      BY <1>1, <2>2, <3>1 DEF Begun, Boundary, Frame
    <3> QED  BY <1>1, <1>4, <1>15, <2>2, <3>2 DEF Frames, Whole, NoneDone
  <2> QED  BY <1>3, <2>1, <2>2
<1> QED  BY <1>12, <1>13, <1>14, <1>16, <1>17, <1>18 DEF IInv, Streams

LEMMA ReadEndsKept ==
    ASSUME IInv, ReadEnds  PROVE IInv'
<1> USE DEF IInv, session, process, wire
<1>1. /\ io'.stdout = io.stdout /\ io'.stderr = io.stderr /\ io'.lines = io.lines
      /\ io'.last = io.last /\ io'.tail = io.tail /\ io' \in IoType
  BY DEF Types, IoType, ReadEnds
<1>2. /\ io'.outEnd # io.outEnd => io.stdout = << >>
      /\ io'.errEnd # io.errEnd => io.stderr = << >> /\ writing = << >>
      /\ PipesClosed /\ phase = "running"
      /\ UNCHANGED <<call, session, process, cancelled, wire>>
  BY DEF Types, ReadEnds
<1>3. Types'
  BY <1>1, <1>2, IoKept DEF Types
<1>4. Stages'
  BY <1>1, <1>2 DEF Stages, PipesClosed, NoSurvivors, Steps
<1>5. Streams'
  BY <1>1, <1>2, StreamsKept
<1>6. Success'
  BY <1>2, SuccessKept
<1>7. Frames'
  <2>1. CASE writing = << >>
    BY <1>2, <2>1 DEF Frames, Whole, Begun, Boundary, NoneDone, Frame
  <2>2. CASE writing # << >>
    BY <1>2, <2>2, FramesKept
  <2> QED  BY <2>1, <2>2
<1> QED  BY <1>3, <1>4, <1>5, <1>6, <1>7

(***************************************************************************)
(* The parts on the channel.                                               *)
(***************************************************************************)
LEMMA PartWritten ==
    ASSUME NEW kind \in {"Log", "Done"}, Types, Whole(sent), Begun(kind), WritePart
    PROVE  /\ sent' \in Seq(Parts) /\ Len(sent') = Len(sent) + 1 /\ Whole(sent)'
           /\ writing' \in Seq(Parts) /\ taken' = taken /\ hub' = hub
           /\ taken \in 0..Len(sent') /\ Len(sent') <= taken + WindowSize
           /\ \A i \in 1..Len(sent) : sent'[i] = sent[i]
           /\ sent'[Len(sent')][1] = kind
           /\ \/ /\ Len(writing) = 2 /\ Boundary /\ ~Boundary' /\ Begun(kind)'
              \/ /\ Len(writing) = 1 /\ ~Boundary /\ Boundary' /\ writing' = << >>
<1>1. /\ sent \in Seq(Parts) /\ Len(sent) \in Nat /\ writing \in Seq(Parts)
      /\ taken \in 0..Len(sent) /\ WindowSize \in Nat
      /\ sent' = Append(sent, Head(writing)) /\ writing' = Tail(writing)
      /\ taken' = taken /\ hub' = hub /\ WindowSize - (Len(sent) - taken) > 0
  BY SessionAssumption DEF Types, WritePart, Window
<1>2. Len(sent) + 1 <= taken + WindowSize /\ taken \in 0..Len(sent) + 1
  BY <1>1
<1>3. Len(sent) % 2 = 0 \/ Len(sent) % 2 = 1
  BY <1>1, Parity
<1>4. CASE writing = Frame(kind) /\ Boundary
  <2>1. /\ Len(writing) = 2 /\ Head(writing) = <<kind, "length">>
        /\ Tail(writing) = << <<kind, "body">> >>
    BY <1>4 DEF Frame
  <2>2. <<kind, "length">> \in Parts /\ <<kind, "body">> \in Parts
    BY DEF Parts
  <2>3. Len(sent) % 2 = 0
    BY <1>4 DEF Boundary
  <2>4. <<kind, "length">>[2] = "length" /\ <<kind, "length">>[1] = kind
    OBVIOUS
  <2>5. sent' = Append(sent, <<kind, "length">>)
    BY <1>1, <2>1
  <2>6. Len(sent) % 2 # 1
    BY <2>3
  <2>7. /\ sent' \in Seq(Parts) /\ Len(sent') = Len(sent) + 1 /\ Whole(sent')
        /\ sent'[Len(sent')] = <<kind, "length">>
        /\ \A i \in 1..Len(sent) : sent'[i] = sent[i]
        /\ Len(sent') % 2 = 0 <=> Len(sent) % 2 = 1
    <3>1. Continues(sent, <<kind, "length">>)
      BY <2>3, <2>4, <2>6 DEF Continues
    <3> QED  BY <1>1, <2>2, <2>5, <3>1, PartAppended
  <2>8. ~Boundary'
    BY <2>6, <2>7 DEF Boundary
  <2>9. writing' = << <<kind, "body">> >>
    BY <1>1, <2>1
  <2>10. Begun(kind)'
    BY <2>7, <2>8, <2>9 DEF Begun
  <2>11. writing' \in Seq(Parts)
    BY <2>2, <2>9
  <2>12. Whole(sent)'
    BY <2>7 DEF Whole
  <2>13. taken \in 0..Len(sent') /\ Len(sent') <= taken + WindowSize
    BY <1>2, <2>7
  <2> QED  BY <1>1, <1>4, <2>1, <2>4, <2>7, <2>8, <2>10, <2>11, <2>12, <2>13
<1>5. CASE writing = << <<kind, "body">> >> /\ ~Boundary /\ sent[Len(sent)] = <<kind, "length">>
  <2>1. Len(writing) = 1 /\ Head(writing) = <<kind, "body">> /\ Tail(writing) = << >>
    BY <1>5
  <2>2. <<kind, "body">> \in Parts
    BY DEF Parts
  <2>3. Len(sent) % 2 = 1 /\ Len(sent) % 2 # 0
    BY <1>3, <1>5 DEF Boundary
  <2>4. <<kind, "body">>[2] = "body" /\ <<kind, "body">>[1] = kind /\ sent[Len(sent)][1] = kind
    BY <1>5
  <2>5. sent' = Append(sent, <<kind, "body">>)
    BY <1>1, <2>1
  <2>7. /\ sent' \in Seq(Parts) /\ Len(sent') = Len(sent) + 1 /\ Whole(sent')
        /\ sent'[Len(sent')] = <<kind, "body">>
        /\ \A i \in 1..Len(sent) : sent'[i] = sent[i]
        /\ Len(sent') % 2 = 0 <=> Len(sent) % 2 = 1
    <3>1. Continues(sent, <<kind, "body">>)
      BY <2>3, <2>4 DEF Continues
    <3> QED  BY <1>1, <2>2, <2>5, <3>1, PartAppended
  <2>8. Boundary'
    BY <2>3, <2>7 DEF Boundary
  <2>9. writing' = << >>
    BY <1>1, <2>1
  <2>12. Whole(sent)'
    BY <2>7 DEF Whole
  <2>13. taken \in 0..Len(sent') /\ Len(sent') <= taken + WindowSize
    BY <1>2, <2>7
  <2> QED  BY <1>1, <1>5, <2>1, <2>4, <2>7, <2>8, <2>9, <2>12, <2>13, FrameShape
<1> QED  BY <1>4, <1>5 DEF Begun

LEMMA WireTypes ==
    ASSUME Types, sent' \in Seq(Parts), writing' \in Seq(Parts), taken' \in 0..Len(sent'),
           Len(sent') <= taken' + WindowSize, partial' \in BOOLEAN, hub' \in {"open", "gone"},
           cancelled' \in BOOLEAN,
           phase' \in {"reading", "lookup", "running", "reaping", "checking", "answering",
                       "closing", "over"},
           UNCHANGED <<call, pc, child, kin, killed, io, reason>>
    PROVE  Types'
BY DEF Types, Steps

LEMMA WriteLogKept ==
    ASSUME IInv, WriteLog  PROVE IInv'
<1> USE DEF IInv
<1>1. /\ Types /\ Stages /\ Streams /\ Success /\ Frames /\ WritePart /\ phase = "running"
      /\ writing # << >> /\ partial' = (Len(writing) > 1)
      /\ UNCHANGED <<call, phase, result, reason, process, io, cancelled>>
  BY DEF WriteLog, WritePart
<1>2. partial /\ Begun("Log") /\ ~io.errEnd /\ Whole(sent) /\ NoneDone(Len(sent))
  BY <1>1 DEF Frames
<1>3. /\ sent' \in Seq(Parts) /\ Len(sent') = Len(sent) + 1 /\ Whole(sent)'
      /\ writing' \in Seq(Parts) /\ taken' = taken /\ hub' = hub
      /\ taken \in 0..Len(sent') /\ Len(sent') <= taken + WindowSize
      /\ \A i \in 1..Len(sent) : sent'[i] = sent[i]
      /\ sent'[Len(sent')][1] = "Log"
      /\ \/ /\ Len(writing) = 2 /\ Boundary /\ ~Boundary' /\ Begun("Log")'
         \/ /\ Len(writing) = 1 /\ ~Boundary /\ Boundary' /\ writing' = << >>
  BY <1>1, <1>2, PartWritten
<1>4. Types'
  BY <1>1, <1>3, WireTypes DEF Types, process
<1>5. Stages'
  BY <1>1 DEF Stages, PipesClosed, NoSurvivors, Steps, process
<1>6. Streams'
  BY <1>1, StreamsKept DEF process
<1>7. Success'
  BY <1>1, SuccessKept DEF process
<1>8. Frames'
  <2>1. NoneDone(Len(sent))'
    <3>1. Len(sent) \in Nat
      BY <1>1 DEF Types
    <3>2. \A i \in 1..Len(sent') : i \in 1..Len(sent) \/ i = Len(sent')
      BY <1>3, <3>1
    <3> QED  BY <1>2, <1>3, <3>2 DEF NoneDone
  <2>2. CASE Len(writing) = 2 /\ Begun("Log")'
    <3>1. partial'
      <4>1. Len(writing) > 1
        BY <2>2
      <4> QED  BY <1>1, <4>1, Zenon
    <3> QED  BY <1>1, <1>2, <1>3, <2>1, <2>2, <3>1 DEF Frames
  <2>3. CASE Len(writing) = 1 /\ Boundary' /\ writing' = << >>
    <3>1. ~partial'
      <4>1. ~(Len(writing) > 1)
        BY <2>3
      <4> QED  BY <1>1, <4>1, Zenon
    <3> QED  BY <1>1, <1>2, <1>3, <2>1, <2>3, <3>1 DEF Frames
  <2> QED  BY <1>3, <2>2, <2>3
<1> QED  BY <1>4, <1>5, <1>6, <1>7, <1>8

LEMMA WriteDoneKept ==
    ASSUME IInv, WriteDone  PROVE IInv'
<1> USE DEF IInv
<1>1. /\ Types /\ Stages /\ Streams /\ Success /\ Frames /\ phase = "answering"
      /\ UNCHANGED <<call, result, partial, reason, process, io, cancelled>>
      /\ phase' \in {"answering", "closing"}
  BY DEF WriteDone
<1>2. /\ Whole(sent) /\ Begun("Done") /\ (~Boundary => NoneDone(Len(sent) - 1))
      /\ (Boundary => NoneDone(Len(sent)))
  BY <1>1 DEF Frames
<1>3. Types' /\ Frames'
  <2>1. CASE WritePart /\ phase' = IF Len(writing) = 1 THEN "closing" ELSE phase
    <3>1. /\ sent' \in Seq(Parts) /\ Len(sent') = Len(sent) + 1 /\ Whole(sent)'
          /\ writing' \in Seq(Parts) /\ taken' = taken /\ hub' = hub
          /\ taken \in 0..Len(sent') /\ Len(sent') <= taken + WindowSize
          /\ \A i \in 1..Len(sent) : sent'[i] = sent[i]
          /\ sent'[Len(sent')][1] = "Done"
          /\ \/ /\ Len(writing) = 2 /\ Boundary /\ ~Boundary' /\ Begun("Done")'
             \/ /\ Len(writing) = 1 /\ ~Boundary /\ Boundary' /\ writing' = << >>
      BY <1>1, <1>2, <2>1, PartWritten
    <3>2. Len(sent) \in Nat
      BY <1>1 DEF Types
    <3>3. ASSUME Len(writing) = 2 /\ Boundary /\ ~Boundary' /\ Begun("Done")'
          PROVE  Frames'
      <4>1. phase' = "answering"
        BY <1>1, <2>1, <3>3
      <4>2. NoneDone(Len(sent) - 1)'
        <5>1. Len(sent') - 1 = Len(sent)
          BY <3>1, <3>2
        <5> QED  BY <1>2, <3>1, <3>3, <5>1 DEF NoneDone
      <4>3. Whole(sent)' /\ ~Boundary' /\ Begun("Done")'
        BY <3>1, <3>3, Zenon
      <4> QED  BY <4>1, <4>2, <4>3 DEF Frames
    <3>4. ASSUME Len(writing) = 1 /\ ~Boundary
          PROVE  Frames'
      <4>1. phase' = "closing"
        BY <2>1, <3>4
      <4>2. \A i \in 1..Len(sent') : sent'[i][1] = "Done" => i > Len(sent') - 2
        <5> SUFFICES ASSUME NEW i \in 1..Len(sent'), sent'[i][1] = "Done"
                     PROVE  i > Len(sent') - 2
          OBVIOUS
        <5>1. i \notin 1..Len(sent) - 1
          BY <1>2, <3>1, <3>2, <3>4 DEF NoneDone
        <5> QED  BY <3>1, <3>2, <5>1
      <4>3. Whole(sent)'
        BY <3>1, Zenon
      <4> QED  BY <4>1, <4>2, <4>3, Ended
    <3>5. Types'
      BY <1>1, <3>1, WireTypes DEF Types, process
    <3> QED  BY <3>1, <3>3, <3>4, <3>5
  <2>2. CASE phase' = "closing" /\ UNCHANGED wire
    <3>1. Frames'
      BY <1>1, <2>2, FramesEnded DEF wire
    <3>2. Types'
      BY <1>1, <2>2, WireTypes DEF wire, Types, process
    <3> QED  BY <3>1, <3>2
  <2> QED  BY <2>1, <2>2 DEF WriteDone
<1>4. Stages'
  BY <1>1 DEF Stages, PipesClosed, NoSurvivors, Steps, process
<1>5. Streams'
  BY <1>1, StreamsKept DEF process
<1>6. Success'
  BY <1>1, SuccessKept DEF process
<1> QED  BY <1>3, <1>4, <1>5, <1>6

(***************************************************************************)
(* The end of the command.                                                 *)
(***************************************************************************)
LEMMA TerminateKept ==
    ASSUME NEW why \in {"cancelled", "failed", "timeout"}, IInv, phase = "running",
           Terminate(why)
    PROVE  IInv'
<1> USE DEF IInv
<1>1. /\ Types /\ Stages /\ Streams /\ Success /\ Frames
      /\ kin' = "none" /\ child' = (IF child = "running" THEN "exited" ELSE child)
      /\ killed' = (killed \/ child = "running") /\ phase' = "reaping" /\ reason' = why
      /\ writing' = << >>
      /\ UNCHANGED <<call, pc, result, partial, io, cancelled, sent, taken, hub>>
  BY DEF Terminate, KillGroup
<1>2. child' = "exited" /\ killed' \in BOOLEAN
  BY <1>1 DEF Stages
<1>3. Types'
  BY <1>1, <1>2, FrameShape DEF Types, Steps
<1>4. Stages'
  BY <1>1, <1>2 DEF Stages, PipesClosed, NoSurvivors, Steps
<1>5. Streams'
  BY <1>1, StreamsKept
<1>6. Success'
  BY <1>1 DEF Success
<1>7. Frames'
  <2>1. partial \/ Boundary
    BY <1>1 DEF Frames
  <2>2. Whole(sent) /\ NoneDone(Len(sent))
    BY <1>1 DEF Frames
  <2>3. Whole(sent)' /\ NoneDone(Len(sent))' /\ Boundary' = Boundary
    BY <1>1, <2>2 DEF Whole, NoneDone, Boundary
  <2> QED  BY <1>1, <2>1, <2>3 DEF Frames
<1> QED  BY <1>3, <1>4, <1>5, <1>6, <1>7

LEMMA CompleteKept ==
    ASSUME IInv, Complete  PROVE IInv'
<1> USE DEF IInv
<1>1. /\ Types /\ Stages /\ Streams /\ Success /\ Frames /\ phase = "running" /\ Joined
      /\ child = "exited" /\ child' = "reaped" /\ kin' = "none" /\ phase' = "checking"
      /\ UNCHANGED <<call, result, partial, reason, pc, killed, io, cancelled, wire>>
  BY DEF Complete
<1>2. ~partial
  BY <1>1 DEF Frames, Joined
<1>3. Types'
  BY <1>1 DEF Types, Steps, wire
<1>4. Stages'
  BY <1>1 DEF Stages, PipesClosed, NoSurvivors, Steps, Joined
<1>5. Streams'
  BY <1>1, StreamsKept
<1>6. Success'
  BY <1>1 DEF Success
<1>7. Frames'
  BY <1>1, <1>2 DEF Frames, Whole, NoneDone, Boundary, wire
<1> QED  BY <1>3, <1>4, <1>5, <1>6, <1>7

LEMMA ReapKept ==
    ASSUME IInv, Reap  PROVE IInv'
<1> USE DEF IInv
<1>1. /\ Types /\ Stages /\ Streams /\ Success /\ Frames /\ phase = "reaping"
      /\ child = "exited" /\ child' = "reaped"
      /\ UNCHANGED <<call, partial, reason, pc, kin, killed, io, cancelled, sent, taken, hub>>
  BY DEF Reap
<1>0. Abandon \/ (~partial /\ Answer(Failure(io.tail)))
  BY Zenon DEF Reap
<1>2. Frames' /\ phase' \in {"answering", "closing", "over"} /\ Success'
  <2>1. CASE Abandon
    <3>1. /\ Frames' /\ phase' \in {"closing", "over"}
          /\ result' = result \/ result' = Failure(<< >>)
      BY <1>1, <2>1, Abandoned
    <3>2. result' = result => Success'
      BY <1>1 DEF Success
    <3>3. result' = Failure(<< >>) => Success'
      BY FailureKeepsSuccess
    <3> QED  BY <3>1, <3>2, <3>3
  <2>2. CASE ~partial /\ Answer(Failure(io.tail))
    <3>1. Boundary /\ NoneDone(Len(sent))
      BY <1>1, <2>2 DEF Frames
    <3>2. /\ Frames' /\ phase' \in {"answering", "over"} /\ result' = Failure(io.tail)
      BY <1>1, <2>2, <3>1, Answered
    <3> QED  BY <3>2, FailureKeepsSuccess
  <2> QED  BY <1>0, <2>1, <2>2
<1>3. writing' = writing \/ writing' \in Seq(Parts)
  BY <1>0, FrameShape DEF Abandon, Answer
<1>4. Types'
  BY <1>1, <1>2, <1>3 DEF Types, Steps
<1>5. Stages'
  BY <1>1, <1>2 DEF Stages, PipesClosed, NoSurvivors, Steps
<1>6. Streams'
  BY <1>1, StreamsKept
<1> QED  BY <1>2, <1>4, <1>5, <1>6

LEMMA CheckOutputKept ==
    ASSUME IInv, CheckOutput  PROVE IInv'
<1> USE DEF IInv
<1>1. /\ Types /\ Stages /\ Streams /\ Success /\ Frames /\ phase = "checking"
      /\ UNCHANGED <<call, partial, reason, process, io, cancelled, sent, taken, hub>>
      /\ \/ /\ call.program.code = 0
            /\ Answer([status |-> "success", output |-> io.last, tail |-> io.tail])
         \/ Answer(Failure(io.tail))
  BY DEF CheckOutput
<1>2. Boundary /\ NoneDone(Len(sent))
  BY <1>1 DEF Frames
<1>3. /\ ~killed /\ child = "reaped" /\ pc = Len(Steps) + 1
      /\ io.stdout = << >> /\ io.stderr = << >>
  BY <1>1 DEF Stages
<1>4. Outputs = Written({"out"}) /\ Errors = Written({"err", "long"})
  <2>1. In(<< >>) = {}
    BY DEF In
  <2> QED  BY <1>3, <2>1 DEF Outputs, Errors
<1>5. Frames' /\ phase' \in {"answering", "over"} /\ Success'
  <2>1. CASE Answer(Failure(io.tail))
    <3>1. Frames' /\ phase' \in {"answering", "over"} /\ result' = Failure(io.tail)
      BY <1>1, <1>2, <2>1, Answered
    <3> QED  BY <3>1, FailureKeepsSuccess
  <2>2. CASE /\ call.program.code = 0
             /\ Answer([status |-> "success", output |-> io.last, tail |-> io.tail])
    <3>1. /\ Frames' /\ phase' \in {"answering", "over"}
          /\ result' = [status |-> "success", output |-> io.last, tail |-> io.tail]
      BY <1>1, <1>2, <2>2, Answered
    <3>2. result'.output = io.last /\ result'.tail = io.tail
      BY <3>1
    <3>3. IsLast(io.last, Written({"out"})) /\ Lists(io.tail, TailLength, Written({"err", "long"}))
      BY <1>1, <1>4 DEF Streams, OutStream, ErrStream
    <3>4. /\ Written({"out"})' = Written({"out"})
          /\ Written({"err", "long"})' = Written({"err", "long"})
      BY <1>1, WrittenKept DEF process
    <3>5. IsLast(result.output, Written({"out"}))'
      BY <3>2, <3>3, <3>4 DEF IsLast
    <3>6. Lists(result.tail, TailLength, Written({"err", "long"}))'
      BY <3>2, <3>3, <3>4 DEF Lists
    <3>7. Earned'
      BY <1>1, <1>3, <2>2, <3>5, <3>6 DEF Earned, Steps, process
    <3> QED  BY <1>1, <1>3, <3>1, <3>7 DEF Success, process
  <2> QED  BY <1>1, <2>1, <2>2
<1>6. Types'
  BY <1>1, <1>5, FrameShape, TypesKept DEF Answer, process
<1>7. Stages'
  BY <1>1, <1>3, <1>5 DEF Stages, PipesClosed, NoSurvivors, Steps, process
<1>8. Streams'
  BY <1>1, StreamsKept DEF process
<1> QED  BY <1>5, <1>6, <1>7, <1>8

LEMMA ShutdownKept ==
    ASSUME IInv, Shutdown  PROVE IInv'
<1> USE DEF IInv, Shutdown, process, wire
<1>1. Types'
  BY TypesKept
<1>2. Stages'
  BY DEF Stages, PipesClosed, NoSurvivors, Steps
<1>3. Streams'
  BY StreamsKept
<1>4. Success'
  BY SuccessKept
<1>5. Frames'
  BY FramesEnded
<1> QED  BY <1>1, <1>2, <1>3, <1>4, <1>5

LEMMA HubKept ==
    ASSUME IInv, Cancel \/ HubReads \/ HubLeaves  PROVE IInv'
<1> USE DEF IInv
<1>1. /\ Types /\ Stages /\ Streams /\ Success /\ Frames
      /\ UNCHANGED <<call, session, process, io, writing, sent>>
      /\ hub' \in {hub, "gone"} /\ cancelled' \in {cancelled, TRUE}
      /\ taken' = taken \/ (taken < Len(sent) /\ taken' = taken + 1)
  BY DEF Cancel, HubReads, HubLeaves, wire
<1>2. taken' \in 0..Len(sent') /\ Len(sent') <= taken' + WindowSize
  <2>1. taken \in 0..Len(sent) /\ Len(sent) <= taken + WindowSize /\ Len(sent) \in Nat
        /\ WindowSize \in Nat
    BY <1>1, SessionAssumption DEF Types
  <2> QED  BY <1>1, <2>1
<1>3. Types'
  BY <1>1, <1>2, WireTypes DEF Types, session, process
<1>4. Stages'
  BY <1>1 DEF Stages, PipesClosed, NoSurvivors, Steps, session, process
<1>5. Streams'
  BY <1>1, StreamsKept DEF process
<1>6. Success'
  BY <1>1, SuccessKept DEF session, process
<1>7. Frames'
  BY <1>1, FramesKept DEF session
<1> QED  BY <1>3, <1>4, <1>5, <1>6, <1>7

LEMMA StutterKept ==
    ASSUME IInv, UNCHANGED vars  PROVE IInv'
<1> USE DEF IInv, vars, session, process, wire
<1>1. Types'
  BY TypesKept DEF Types
<1>2. Stages'
  BY DEF Stages, PipesClosed, NoSurvivors, Steps
<1>3. Streams'
  BY StreamsKept
<1>4. Success'
  BY SuccessKept
<1>5. Frames'
  BY FramesKept
<1> QED  BY <1>1, <1>2, <1>3, <1>4, <1>5

(***************************************************************************)
(* The invariant.                                                          *)
(***************************************************************************)
LEMMA Invariance == Spec => []IInv
<1>1. Init => IInv
  BY InitInv
<1>2. IInv /\ [Next]_vars => IInv'
  <2> SUFFICES ASSUME IInv, [Next]_vars  PROVE IInv'
    OBVIOUS
  <2>1. CASE Environment
    BY <2>1, ChildStepKept, ChildExitsKept, DescendantExitsKept, HubKept DEF Environment
  <2>2. CASE CommandTimesOut
    BY <2>2, TerminateKept DEF CommandTimesOut
  <2>3. CASE ReadInvoke \/ ReadInvokeFails \/ ReadInvokeCancelled \/ Reject \/ SpawnFails \/ Spawn
    BY <2>3, ReadInvokeKept, RejectKept, SpawnFailsKept, SpawnKept
  <2>4. CASE WriteStdin \/ ReadStdout \/ ReadStderr \/ ReadEnds \/ WriteLog
    BY <2>4, WriteStdinKept, ReadStdoutKept, ReadStderrKept, ReadEndsKept, WriteLogKept
  <2>5. CASE OutputFails
    BY <2>5, TerminateKept DEF OutputFails
  <2>6. CASE CommandCancelled
    BY <2>6, TerminateKept DEF CommandCancelled
  <2>7. CASE Complete \/ Reap \/ CheckOutput \/ WriteDone \/ Shutdown
    BY <2>7, CompleteKept, ReapKept, CheckOutputKept, WriteDoneKept, ShutdownKept
  <2>8. CASE UNCHANGED vars
    BY <2>8, StutterKept
  <2> QED  BY <2>1, <2>2, <2>3, <2>4, <2>5, <2>6, <2>7, <2>8 DEF Next, Agent
<1> QED  BY <1>1, <1>2, PTL DEF Spec

LEMMA Honest ==
    ASSUME IInv  PROVE HonestResult
<1>1. Types /\ Stages /\ Success
  BY DEF IInv
<1>2. TypeOK
  <2>1. Len(sent) \in Nat /\ taken \in 0..Len(sent) /\ Len(sent) <= taken + WindowSize
        /\ WindowSize \in Nat
    BY <1>1, SessionAssumption DEF Types
  <2>2. Len(sent) - taken <= WindowSize
    BY <2>1
  <2> QED  BY <1>1, <2>2 DEF Types, TypeOK
<1>3. NoSurvivors
  BY <1>1 DEF Stages
<1>4. Earned
  BY <1>1 DEF Success, Earned
<1> QED  BY <1>2, <1>3, <1>4 DEF HonestResult

(* The hub can parse the channel of every invocation to its end: frames    *)
(* follow one another whole, only the last may be cut, and nothing follows *)
(* Done (write_command_frame, channel_write_in_progress) - whatever the    *)
(* command prints, whenever the timer, the cancellation or an output error *)
(* ends it, and whatever the window of the channel.                        *)
THEOREM ChannelReadable == Spec => []FrameAligned
<1>1. IInv => FrameAligned
  BY AlignedIfFrames DEF IInv
<1> QED  BY <1>1, Invariance, PTL

(* Before an invocation answers, its leader is reaped and no process of    *)
(* its group is left; and a success it reports is one the command earned,  *)
(* with the last record it printed and the last lines of its log, none of  *)
(* them left unread in a pipe - for every program, every size of the pipes *)
(* and every budget of output lines.                                       *)
THEOREM ResultHonest == Spec => []HonestResult
BY Invariance, Honest, PTL

(***************************************************************************)
(* TimeoutJustified, with the guards of the actions spelled out.           *)
(***************************************************************************)
\* One of the joined futures, the cancellation or the regular end can go on.
AgentReady ==
    \/ io.todo > 0 /\ (PipesClosed \/ io.stdin < PipeCapacity)
    \/ io.stdout # <<>>
    \/ io.stderr # <<>> /\ writing = <<>>
    \/ PipesClosed /\ io.stdout = <<>> /\ ~io.outEnd
    \/ PipesClosed /\ io.stderr = <<>> /\ ~io.errEnd /\ writing = <<>>
    \/ writing # <<>> /\ (hub = "gone" \/ Window > 0)
    \/ cancelled
    \/ Joined /\ child = "exited"

\* The leader takes its next step, or exits after the last one.
LeaderReady ==
    \/ /\ Running
       /\ \/ Steps[pc] \in {"out", "chat"} /\ Len(io.stdout) < PipeCapacity
          \/ Steps[pc] \in {"err", "long"} /\ Len(io.stderr) < PipeCapacity
          \/ Steps[pc] = "read" /\ (io.stdin > 0 \/ io.todo = 0)
          \/ Steps[pc] \in {"fork", "daemon"}
    \/ child = "running" /\ pc > Len(Steps)

\* Agent and command do not wait for each other: what both wait for is a command that
\* hangs by itself, a descendant that holds the pipes, or the hub.
NoMutualWait ==
    phase = "running" /\ ~AgentReady /\ ~LeaderReady =>
        \/ Running /\ Steps[pc] = "hang"
        \/ child # "running" /\ kin = "holding"
        \/ writing # <<>> /\ hub = "open" /\ Window = 0

(* A leader that is stuck has a full pipe, or an empty one that the agent  *)
(* could fill; the agent then reads or writes, unless the hub keeps it     *)
(* from doing so.                                                          *)
LEMMA LeaderFreed ==
    ASSUME IInv, phase = "running", ~AgentReady, ~LeaderReady, child = "running"
    PROVE  \/ Running /\ Steps[pc] = "hang"
           \/ writing # <<>> /\ hub = "open" /\ Window = 0
<1>1. /\ io.stdin \in Nat /\ io.todo \in Nat /\ io.stdout \in Seq(Nat) /\ io.stderr \in Seq(Nat)
      /\ hub \in {"open", "gone"} /\ Window \in Nat /\ PipeCapacity \in Nat \ {0}
  <2>1. Window \in Nat
    BY SessionAssumption DEF IInv, Types, Window
  <2> QED
    BY <2>1, SessionAssumption DEF IInv, Types
<1>2. pc \in 1..Len(Steps) /\ Steps[pc] \in StepKinds /\ Running
  <2>1. pc \in 1..Len(Steps) + 1 /\ Steps \in Seq(StepKinds) /\ Len(Steps) \in Nat
    BY ProgramShape DEF IInv, Types, Steps
  <2>2. ~(pc > Len(Steps))
    BY DEF LeaderReady
  <2> QED
    BY <2>1, <2>2 DEF Running
<1>3. /\ io.stdout = <<>> /\ (io.stderr = <<>> \/ writing # <<>>)
      /\ ~(io.todo > 0 /\ io.stdin < PipeCapacity)
      /\ writing # <<>> => hub # "gone" /\ ~(Window > 0)
  BY DEF AgentReady
<1>4. /\ ~(Steps[pc] \in {"out", "chat"} /\ Len(io.stdout) < PipeCapacity)
      /\ ~(Steps[pc] \in {"err", "long"} /\ Len(io.stderr) < PipeCapacity)
      /\ ~(Steps[pc] = "read" /\ (io.stdin > 0 \/ io.todo = 0))
      /\ ~(Steps[pc] \in {"fork", "daemon"})
  BY <1>2 DEF LeaderReady
<1>5. CASE Steps[pc] \in {"out", "chat"}
  BY <1>1, <1>3, <1>4, <1>5
<1>6. CASE Steps[pc] \in {"err", "long"}
  <2>1. writing # <<>>
    BY <1>1, <1>3, <1>4, <1>6
  <2> QED
    BY <2>1, <1>1, <1>3
<1>7. CASE Steps[pc] = "read"
  BY <1>1, <1>3, <1>4, <1>7
<1> QED
  BY <1>2, <1>4, <1>5, <1>6, <1>7 DEF StepKinds

(* Once the leader has exited and nobody holds its pipes, every future of  *)
(* the join can end, unless the hub does not take the log.                 *)
LEMMA JoinFreed ==
    ASSUME IInv, phase = "running", ~AgentReady, child # "running"
    PROVE  \/ kin = "holding"
           \/ writing # <<>> /\ hub = "open" /\ Window = 0
<1> SUFFICES ASSUME kin # "holding"
             PROVE  writing # <<>> /\ hub = "open" /\ Window = 0
  OBVIOUS
<1>1. child = "exited" /\ PipesClosed
  BY DEF IInv, Stages, PipesClosed
<1>2. io.todo \in Nat /\ hub \in {"open", "gone"} /\ Window \in Nat
  BY SessionAssumption DEF IInv, Types, Window
<1>3. io.todo = 0 /\ io.stdout = <<>> /\ io.outEnd
  BY <1>1, <1>2 DEF AgentReady
<1>4. writing # <<>>
  BY <1>1, <1>3 DEF AgentReady, Joined
<1> QED
  BY <1>2, <1>4 DEF AgentReady

(* With pipes of any capacity and whatever the command prints, reads and   *)
(* forks, in any order: as long as the agent serves all three pipes at     *)
(* once, it and the command never wait for each other, and only what the   *)
(* agent cannot influence keeps an invocation until its timeout.           *)
THEOREM NeverMutual == Spec => []NoMutualWait
<1>1. IInv => NoMutualWait
  BY LeaderFreed, JoinFreed DEF NoMutualWait
<1> QED
  BY <1>1, Invariance, PTL

-----------------------------------------------------------------------------
(***************************************************************************)
(* The registry: names in order, and walks through a schema.               *)
(***************************************************************************)

(* The listed names are all there, in increasing order.                    *)
LEMMA SortedRight ==
    ASSUME NEW set \in SUBSET Nat, IsFiniteSet(set)
    PROVE  /\ Sorted(set) \in [1..Cardinality(set) -> set]
           /\ \A i, j \in 1..Cardinality(set) : i < j => Sorted(set)[i] < Sorted(set)[j]
           /\ \A x \in set : \E i \in 1..Cardinality(set) : Sorted(set)[i] = x
<1> DEFINE n == Cardinality(set)
           UpTo(x) == {y \in set : y <= x}
           rank == [x \in set |-> Cardinality(UpTo(x))]
<1>1. n \in Nat
  BY FS_CardinalityType
<1>2. IsFiniteSet(1..n) /\ Cardinality(1..n) = n
  BY <1>1, FS_Interval
<1>3. \A x \in set : IsFiniteSet(UpTo(x)) /\ Cardinality(UpTo(x)) \in Nat /\ Cardinality(UpTo(x)) <= n
  <2> TAKE x \in set
  <2>1. UpTo(x) \in SUBSET set
    OBVIOUS
  <2> QED
    BY <2>1, FS_Subset, FS_CardinalityType
<1>4. \A x \in set : Cardinality(UpTo(x)) # 0
  <2> TAKE x \in set
  <2>1. x \in UpTo(x)
    OBVIOUS
  <2> QED
    BY <2>1, <1>3, FS_EmptySet
<1>5. rank \in [set -> 1..n]
  <2>1. \A x \in set : Cardinality(UpTo(x)) \in 1..n
    <3> HIDE DEF UpTo, n
    <3> QED
      BY <1>1, <1>3, <1>4
  <2> QED
    BY <2>1
<1>6. \A x, y \in set : x < y => rank[x] < rank[y]
  <2> SUFFICES ASSUME NEW x \in set, NEW y \in set, x < y
               PROVE  Cardinality(UpTo(x)) < Cardinality(UpTo(y))
    OBVIOUS
  <2>1. UpTo(x) \in SUBSET UpTo(y)
    <3>1. \A z \in set : z <= x => z <= y
      <4> TAKE z \in set
      <4>1. z \in Nat /\ x \in Nat /\ y \in Nat
        OBVIOUS
      <4> QED
        BY <4>1
    <3> QED
      BY <3>1
  <2>2. y \in UpTo(y) /\ y \notin UpTo(x)
    OBVIOUS
  <2>3. Cardinality(UpTo(x)) <= Cardinality(UpTo(y)) /\ Cardinality(UpTo(x)) # Cardinality(UpTo(y))
    BY <2>1, <2>2, <1>3, FS_Subset
  <2> HIDE DEF UpTo
  <2> QED
    BY <2>3, <1>3
<1> HIDE DEF n, UpTo, rank
<1>7. \A x, y \in set : x # y => rank[x] # rank[y]
  <2> TAKE x, y \in set
  <2>1. x \in Nat /\ y \in Nat /\ rank[x] \in 1..n /\ rank[y] \in 1..n
    BY <1>5
  <2> QED
    BY <2>1, <1>6
<1>8. rank \in Surjection(set, 1..n)
  <2>1. rank \in Injection(set, 1..n)
    BY <1>5, <1>7 DEF Injection, IsInjective
  <2> QED
    BY <2>1, <1>2, FS_Injection DEF n
<1> DEFINE s == [k \in 1..n |-> CHOOSE x \in set : rank[x] = k]
<1>9. \A k \in 1..n : s[k] \in set /\ rank[s[k]] = k
  <2> TAKE k \in 1..n
  <2>1. \E x \in set : rank[x] = k
    BY <1>8 DEF Surjection
  <2> QED
    BY <2>1
<1>10. s \in [1..n -> set]
  BY <1>9
<1> HIDE DEF s
<1>11. \A i, j \in DOMAIN s : i < j => s[i] < s[j]
  <2> SUFFICES ASSUME NEW i \in 1..n, NEW j \in 1..n, i < j, ~(s[i] < s[j])
               PROVE  FALSE
    BY <1>10
  <2>1. s[i] \in Nat /\ s[j] \in Nat /\ i \in Nat /\ j \in Nat
    <3>1. s[i] \in set /\ s[j] \in set
      BY <1>10
    <3>2. \A x \in set : x \in Nat
      OBVIOUS
    <3>3. i \in Nat /\ j \in Nat
      BY <1>1
    <3> QED
      BY <3>1, <3>2, <3>3
  <2>2. s[j] < s[i] \/ s[j] = s[i]
    BY <2>1
  <2>3. rank[s[i]] = i /\ rank[s[j]] = j /\ s[i] \in set /\ s[j] \in set
    BY <1>9
  <2>4. s[j] # s[i]
    BY <2>1, <2>3
  <2>5. j < i
    BY <2>2, <2>3, <2>4, <1>6
  <2> QED
    BY <2>1, <2>5
<1> DEFINE t == Sorted(set)
<1>12. t \in [1..n -> set] /\ \A i, j \in DOMAIN t : i < j => t[i] < t[j]
  BY <1>10, <1>11 DEF Sorted, n
<1> HIDE DEF t
<1>13. t \in Surjection(1..n, set)
  <2>1. ASSUME NEW i \in 1..n, NEW j \in 1..n, t[i] = t[j]
        PROVE  i = j
    <3>1. t[i] \in set /\ i \in Nat /\ j \in Nat
      BY <1>12, <1>1
    <3>2. t[i] \in Nat
      BY <3>1
    <3>3. ~(i < j) /\ ~(j < i)
      BY <2>1, <3>1, <3>2, <1>12
    <3> QED
      BY <3>1, <3>3
  <2>2. t \in Injection(1..n, set)
    BY <2>1, <1>12 DEF Injection, IsInjective
  <2> QED
    BY <2>2, <1>2, FS_Injection DEF n
<1> QED
  BY <1>12, <1>13 DEF Surjection, t, n

(* A nonempty finite set of numbers has a least one.                       *)
LEMMA LeastOf ==
    ASSUME NEW set \in SUBSET Nat, IsFiniteSet(set), set # {}
    PROVE  Min(set) \in set /\ \A x \in set : Min(set) <= x
<1> DEFINE n == Cardinality(set)
           t == Sorted(set)
<1>1. n \in Nat /\ n # 0
  BY FS_CardinalityType, FS_EmptySet
<1>2. /\ t \in [1..n -> set]
      /\ \A i, j \in 1..n : i < j => t[i] < t[j]
      /\ \A x \in set : \E i \in 1..n : t[i] = x
  BY SortedRight
<1> HIDE DEF n, t
<1>3. 1 \in 1..n /\ t[1] \in set
  BY <1>1, <1>2
<1>4. ASSUME NEW x \in set
      PROVE  t[1] <= x
  <2>1. PICK i \in 1..n : t[i] = x
    BY <1>2
  <2>2. t[1] < t[i] \/ i = 1
    BY <1>1, <1>2, <1>3
  <2>3. t[1] \in Nat /\ t[i] \in Nat
    BY <1>3, <2>1
  <2> QED
    BY <2>1, <2>2, <2>3
<1> QED
  BY <1>3, <1>4 DEF Min

(* The least member of a set is the one that no other is below.            *)
LEMMA LeastIs ==
    ASSUME NEW set \in SUBSET Nat, IsFiniteSet(set), NEW x \in set, \A y \in set : x <= y
    PROVE  Min(set) = x
<1>1. Min(set) \in set /\ Min(set) <= x
  BY LeastOf
<1>2. x <= Min(set) /\ Min(set) \in Nat /\ x \in Nat
  BY <1>1
<1> QED
  BY <1>1, <1>2

(* Pointers one after the other, each below the one before.                *)
Walked(schema, w) == w \in Seq(Pointers) /\ w # <<>> /\ IsWalk(schema, w)

Upto(w, k) == [j \in 1..k |-> w[j]]

(* References that lead nowhere are not followed.                          *)
LEMMA AfterKnown ==
    ASSUME NEW schema, NEW p \in Pointers
    PROVE  After(schema, p) \subseteq Pointers
<1>1. Children[p] \in Seq(Pointers)
  BY SchemaAssumption
<1>2. Range(Children[p]) \subseteq Pointers
  BY <1>1 DEF Range
<1> QED
  BY <1>2 DEF After

(* A walk's beginning has its length, and the same pointers.               *)
LEMMA UptoOf ==
    ASSUME NEW w \in Seq(Pointers), NEW k \in 1..Len(w)
    PROVE  /\ Upto(w, k) \in Seq(Pointers) /\ Len(Upto(w, k)) = k /\ Upto(w, k) # <<>>
           /\ \A j \in 1..k : Upto(w, k)[j] = w[j]
           /\ Upto(w, Len(w)) = w
<1>1. k \in Nat /\ Len(w) \in Nat /\ k <= Len(w) /\ 1 <= k
  OBVIOUS
<1>2. \A j \in 1..k : w[j] \in Pointers
  BY <1>1
<1>3. Upto(w, k) \in [1..k -> Pointers]
  BY <1>2 DEF Upto
<1>4. Upto(w, k) \in Seq(Pointers) /\ Len(Upto(w, k)) = k
  BY <1>1, <1>3
<1>5. w = [j \in 1..Len(w) |-> w[j]]
  OBVIOUS
<1> QED
  BY <1>1, <1>4, <1>5 DEF Upto

(* Each beginning of a walk is a walk.                                     *)
LEMMA UptoWalked ==
    ASSUME NEW schema, NEW w, Walked(schema, w), NEW k \in 1..Len(w)
    PROVE  Walked(schema, Upto(w, k))
<1>1. w \in Seq(Pointers) /\ Len(w) \in Nat /\ k \in Nat /\ k <= Len(w) /\ 1 <= k
  BY DEF Walked
<1>2. /\ Upto(w, k) \in Seq(Pointers) /\ Len(Upto(w, k)) = k /\ Upto(w, k) # <<>>
      /\ \A j \in 1..k : Upto(w, k)[j] = w[j]
  BY <1>1, UptoOf
<1>3. w[1] = Root /\ \A i \in 2..Len(w) : w[i] \in After(schema, w[i - 1])
  BY DEF Walked, IsWalk
<1>4. \A i \in 2..k : i \in 2..Len(w) /\ i \in 1..k /\ i - 1 \in 1..k
  BY <1>1
<1> HIDE DEF Upto
<1>5. 1 \in 1..k
  BY <1>1
<1> QED
  BY <1>2, <1>3, <1>4, <1>5 DEF Walked, IsWalk

(* A walk may be continued with what comes after its end.                  *)
LEMMA WalkFurther ==
    ASSUME NEW schema, NEW w, Walked(schema, w), NEW p \in After(schema, w[Len(w)])
    PROVE  Walked(schema, Append(w, p))
<1>1. w \in Seq(Pointers) /\ Len(w) \in Nat /\ Len(w) # 0 /\ w[1] = Root
      /\ \A i \in 2..Len(w) : w[i] \in After(schema, w[i - 1])
  BY DEF Walked, IsWalk
<1>2. w[Len(w)] \in Pointers
  BY <1>1
<1>3. p \in Pointers
  BY <1>2, AfterKnown
<1> DEFINE v == Append(w, p)
           n == Len(w)
<1>4. v \in Seq(Pointers) /\ Len(v) = n + 1 /\ v[n + 1] = p /\ \A i \in 1..n : v[i] = w[i]
  BY <1>1, <1>3
<1> HIDE DEF v
<1>5. \A i \in 2..(n + 1) : v[i] \in After(schema, v[i - 1])
  <2> TAKE i \in 2..(n + 1)
  <2> HIDE DEF n
  <2>1. n \in Nat /\ n # 0
    BY <1>1 DEF n
  <2>2. CASE i = n + 1
    <3>1. i - 1 = n /\ n \in 1..n
      BY <2>1, <2>2
    <3> QED
      BY <3>1, <2>2, <1>4 DEF n
  <2>3. CASE i # n + 1
    <3>1. i \in 2..n /\ i \in 1..n /\ i - 1 \in 1..n
      BY <2>1, <2>3
    <3> QED
      BY <3>1, <1>1, <1>4 DEF n
  <2> QED
    BY <2>2, <2>3
<1>6. v # <<>> /\ v[1] = Root
  BY <1>1, <1>4
<1> QED
  BY <1>4, <1>5, <1>6 DEF Walked, IsWalk, v, n

(* A continued walk was a walk before.                                     *)
LEMMA WalkBack ==
    ASSUME NEW schema, NEW w \in Seq(Pointers), w # <<>>, NEW p \in Pointers, Walked(schema, Append(w, p))
    PROVE  Walked(schema, w) /\ p \in After(schema, w[Len(w)])
<1> DEFINE v == Append(w, p)
           n == Len(w)
<1>1. n \in Nat /\ n # 0 /\ Len(v) = n + 1 /\ v[n + 1] = p /\ \A i \in 1..n : v[i] = w[i]
  OBVIOUS
<1>2. v[1] = Root /\ \A i \in 2..Len(v) : v[i] \in After(schema, v[i - 1])
  BY DEF Walked, IsWalk
<1> HIDE DEF v
<1>3. \A i \in 2..n : i \in 2..(n + 1) /\ i \in 1..n /\ i - 1 \in 1..n
  BY <1>1
<1>4. 1 \in 1..n /\ n + 1 \in 2..(n + 1) /\ (n + 1) - 1 = n /\ n \in 1..n
  BY <1>1
<1>5. w[1] = Root /\ \A i \in 2..n : w[i] \in After(schema, w[i - 1])
  BY <1>1, <1>2, <1>3, <1>4
<1>6. p \in After(schema, w[n])
  BY <1>1, <1>2, <1>4
<1> QED
  BY <1>5, <1>6 DEF Walked, IsWalk

(* A walk that comes back to where it was can be made longer.              *)
LEMMA Around ==
    ASSUME NEW schema, NEW x, Walked(schema, x), NEW w, Walked(schema, w),
           NEW a \in 1..Len(w), NEW b \in 1..Len(w), a < b, w[a] = w[b], x[Len(x)] = w[a]
    PROVE  \E y : Walked(schema, y) /\ Len(y) > Len(x) /\ y[Len(y)] = w[a]
<1> DEFINE n == Len(x)
           m == b - a
           y == [i \in 1..(n + m) |-> IF i <= n THEN x[i] ELSE w[a + (i - n)]]
<1>1. /\ x \in Seq(Pointers) /\ n \in Nat /\ n # 0 /\ x[1] = Root
      /\ \A i \in 2..n : x[i] \in After(schema, x[i - 1])
  BY DEF Walked, IsWalk
<1>2. /\ w \in Seq(Pointers) /\ Len(w) \in Nat /\ \A i \in 2..Len(w) : w[i] \in After(schema, w[i - 1])
  BY DEF Walked, IsWalk
<1>3. a \in Nat /\ b \in Nat /\ m \in Nat /\ m # 0 /\ a + m = b /\ b <= Len(w) /\ 1 <= a
  BY <1>2
<1> HIDE DEF n, m
<1>4. y \in [1..(n + m) -> Pointers]
  <2>1. ASSUME NEW i \in 1..(n + m)
        PROVE  y[i] \in Pointers
    <3>1. CASE i <= n
      <4>1. i \in 1..n
        BY <3>1, <1>1, <1>3
      <4> QED
        BY <4>1, <3>1, <1>1 DEF n
    <3>2. CASE ~(i <= n)
      <4>1. a + (i - n) \in 1..Len(w)
        BY <3>2, <1>1, <1>2, <1>3
      <4>2. w[a + (i - n)] \in Pointers
        BY <4>1, <1>2
      <4> QED
        BY <4>2, <3>2
    <3> QED
      BY <3>1, <3>2
  <2> QED
    BY <2>1
<1>5. y \in Seq(Pointers) /\ Len(y) = n + m
  <2>1. n + m \in Nat
    BY <1>1, <1>3
  <2> HIDE DEF y
  <2> QED
    BY <2>1, <1>4
<1>6. ASSUME NEW i \in 2..(n + m)
      PROVE  y[i] \in After(schema, y[i - 1])
  <2>1. i \in 1..(n + m) /\ i - 1 \in 1..(n + m) /\ i \in Nat /\ i - 1 \in Nat
    BY <1>1, <1>3
  <2>2. CASE i <= n
    <3>1. i - 1 <= n /\ i \in 2..n
      BY <2>1, <2>2, <1>1
    <3> QED
      BY <3>1, <2>1, <2>2, <1>1
  <2>3. CASE i = n + 1
    <3>1. i - 1 = n /\ ~(i <= n) /\ n <= n /\ a + (i - n) = a + 1
      BY <2>3, <1>1, <1>3
    <3>2. y[i] = w[a + 1] /\ y[i - 1] = x[n]
      BY <3>1, <2>1
    <3>3. a + 1 \in 2..Len(w) /\ (a + 1) - 1 = a
      BY <1>2, <1>3
    <3>4. x[n] = w[a]
      BY DEF n
    <3> QED
      BY <3>2, <3>3, <3>4, <1>2
  <2>4. CASE i > n + 1
    <3>1. ~(i <= n) /\ ~(i - 1 <= n)
      BY <2>1, <2>4, <1>1
    <3>2. y[i] = w[a + (i - n)] /\ y[i - 1] = w[a + ((i - 1) - n)]
      BY <3>1, <2>1
    <3>3. a + (i - n) \in 2..Len(w) /\ (a + (i - n)) - 1 = a + ((i - 1) - n)
      BY <2>1, <2>4, <1>1, <1>2, <1>3
    <3> QED
      BY <3>2, <3>3, <1>2
  <2> QED
    BY <2>1, <2>2, <2>3, <2>4, <1>1
<1>7. y[1] = Root /\ y # <<>>
  <2>1. 1 \in 1..(n + m) /\ 1 <= n
    BY <1>1, <1>3
  <2>2. y[1] = Root
    BY <2>1, <1>1
  <2>3. Len(y) # 0
    BY <1>1, <1>3, <1>5
  <2> HIDE DEF y
  <2> QED
    BY <2>2, <2>3
<1>8. y[n + m] = w[a]
  <2>1. n + m \in 1..(n + m) /\ ~(n + m <= n) /\ a + ((n + m) - n) = b
    BY <1>1, <1>3
  <2> QED
    BY <2>1
<1> HIDE DEF y
<1>9. Walked(schema, y)
  BY <1>5, <1>6, <1>7 DEF Walked, IsWalk
<1>10. Len(y) > Len(x)
  <2>1. n + m > n
    BY <1>1, <1>3
  <2> QED
    BY <2>1, <1>5 DEF n
<1> QED
  BY <1>5, <1>8, <1>9, <1>10

(* A walk that comes back to a pointer may go round again, so walks of     *)
(* every length exist.                                                     *)
LEMMA NoLoop ==
    ASSUME NEW schema, NEW M \in Nat, \A x : Walked(schema, x) => Len(x) <= M,
           NEW w, Walked(schema, w), NEW a \in 1..Len(w), NEW b \in 1..Len(w), a < b, w[a] = w[b]
    PROVE  FALSE
<1> DEFINE Ends(x) == Walked(schema, x) /\ x[Len(x)] = w[a]
           set == {m \in 0..M : \E x : Ends(x) /\ Len(x) = M - m}
<1>1. \A x : Walked(schema, x) => Len(x) \in Nat
  BY DEF Walked
<1>2. ASSUME NEW x, Ends(x)
      PROVE  M - Len(x) \in set
  <2>1. Len(x) \in Nat /\ Len(x) <= M
    BY <1>1, <1>2
  <2>2. M - Len(x) \in 0..M /\ Len(x) = M - (M - Len(x))
    BY <2>1
  <2> QED
    BY <2>2, <1>2
<1>3. Ends(Upto(w, a))
  <2>1. w \in Seq(Pointers)
    BY DEF Walked
  <2>2. Len(Upto(w, a)) = a /\ \A j \in 1..a : Upto(w, a)[j] = w[j]
    BY <2>1, UptoOf
  <2>3. a \in 1..a
    OBVIOUS
  <2>4. Walked(schema, Upto(w, a))
    BY UptoWalked
  <2> QED
    BY <2>2, <2>3, <2>4
<1>4. set \in SUBSET Nat /\ IsFiniteSet(set) /\ set # {}
  <2>1. set \in SUBSET (0..M) /\ IsFiniteSet(0..M) /\ 0..M \in SUBSET Nat
    BY FS_Interval
  <2>2. set # {}
    BY <1>2, <1>3
  <2> HIDE DEF set
  <2> QED
    BY <2>1, <2>2, FS_Subset
<1>5. Min(set) \in set /\ \A m \in set : Min(set) <= m
  <2> HIDE DEF set
  <2> QED
    BY <1>4, LeastOf
<1>6. PICK x : Ends(x) /\ Len(x) = M - Min(set)
  BY <1>5
<1>7. PICK y : Walked(schema, y) /\ Len(y) > Len(x) /\ y[Len(y)] = w[a]
  <2>1. Walked(schema, x) /\ x[Len(x)] = w[a]
    BY <1>6
  <2> HIDE DEF Ends
  <2> QED
    BY <2>1, Around
<1>8. M - Len(y) \in set
  BY <1>2, <1>7
<1>9. Len(x) \in Nat /\ Len(y) \in Nat /\ Min(set) \in Nat
  BY <1>1, <1>4, <1>5, <1>6, <1>7
<1>10. Min(set) <= M - Len(y)
  BY <1>5, <1>8
<1> HIDE DEF set, Ends
<1> QED
  BY <1>6, <1>7, <1>9, <1>10

(* What is closed under walking further has every walk.                    *)
LEMMA AllVisited ==
    ASSUME NEW schema, NEW visited, <<Root>> \in visited,
           \A w \in visited : \A p \in After(schema, w[Len(w)]) : Append(w, p) \in visited,
           NEW x, Walked(schema, x)
    PROVE  x \in visited
<1> DEFINE n == Len(x)
           missing == {k \in 1..n : Upto(x, k) \notin visited}
<1>1. /\ x \in Seq(Pointers) /\ n \in Nat /\ n # 0 /\ x[1] = Root
      /\ \A i \in 2..n : x[i] \in After(schema, x[i - 1])
  BY DEF Walked, IsWalk
<1>2. missing \in SUBSET Nat /\ IsFiniteSet(missing)
  <2>1. missing \in SUBSET (1..n)
    OBVIOUS
  <2>2. 1..n \in SUBSET Nat /\ n \in Int /\ 1 \in Int
    BY <1>1
  <2>3. IsFiniteSet(1..n)
    BY <2>2, FS_Interval
  <2> HIDE DEF missing, n
  <2> QED
    BY <2>1, <2>2, <2>3, FS_Subset
<1>3. ASSUME missing # {}
      PROVE  FALSE
  <2> DEFINE k == Min(missing)
  <2>1. k \in missing /\ \A j \in missing : k <= j
    <3> HIDE DEF missing
    <3> QED
      BY <1>2, <1>3, LeastOf
  <2> HIDE DEF k, n
  <2>2. k \in 1..n /\ Upto(x, k) \notin visited
    BY <2>1
  <2>3. CASE k = 1
    <3>1. Upto(x, 1) = <<Root>>
      BY <1>1 DEF Upto
    <3> QED
      BY <3>1, <2>2, <2>3
  <2>4. CASE k # 1
    <3>1. k - 1 \in 1..n /\ k \in 2..n /\ (k - 1) + 1 = k /\ ~(k <= k - 1) /\ k - 1 \in Nat
      BY <1>1, <2>2, <2>4
    <3>2. Upto(x, k - 1) \in visited
      BY <2>1, <3>1
    <3>3. /\ Upto(x, k - 1) \in Seq(Pointers) /\ Len(Upto(x, k - 1)) = k - 1
          /\ \A j \in 1..(k - 1) : Upto(x, k - 1)[j] = x[j]
      BY <1>1, <3>1, UptoOf DEF n
    <3>4. /\ Upto(x, k) \in Seq(Pointers) /\ Len(Upto(x, k)) = k
          /\ \A j \in 1..k : Upto(x, k)[j] = x[j]
      BY <1>1, <2>2, UptoOf DEF n
    <3>5. x[k] \in Pointers /\ k - 1 \in 1..(k - 1) /\ k \in 1..k
      BY <1>1, <3>1 DEF n
    <3>6. Upto(x, k) = Append(Upto(x, k - 1), x[k])
      <4> DEFINE u == Upto(x, k)
                 v == Upto(x, k - 1)
      <4>1. \A j \in 1..(k - 1) : j \in 1..k
        BY <3>1
      <4> HIDE DEF u, v
      <4>2. u \in Seq(Pointers) /\ v \in Seq(Pointers) /\ Len(u) = k /\ Len(v) = k - 1
            /\ u[k] = x[k] /\ \A j \in 1..(k - 1) : u[j] = v[j]
        BY <3>3, <3>4, <3>5, <4>1 DEF u, v
      <4>3. u = Append(v, x[k])
        BY <4>2, <3>1, <3>5
      <4> QED
        BY <4>3 DEF u, v
    <3>7. x[k] \in After(schema, x[k - 1])
      BY <1>1, <3>1
    <3>8. Upto(x, k - 1)[Len(Upto(x, k - 1))] = x[k - 1]
      BY <3>3, <3>5
    <3>9. Append(Upto(x, k - 1), x[k]) \in visited
      BY <3>2, <3>7, <3>8
    <3> QED
      BY <2>2, <3>6, <3>9
  <2> QED
    BY <2>3, <2>4
<1>4. n \in 1..n
  BY <1>1
<1>5. Upto(x, n) \in visited
  BY <1>3, <1>4
<1> QED
  BY <1>1, <1>4, <1>5, UptoOf

(* There are finitely many pointers.                                       *)
LEMMA PointersCounted == Cardinality(Pointers) \in Nat
BY SchemaAssumption, FS_CardinalityType

(* Walks are the sequences of pointers that a validator may follow, up to  *)
(* one more than there are pointers.                                       *)
LEMMA WalksAre ==
    ASSUME NEW schema, NEW w
    PROVE  w \in Walks(schema) <=> Walked(schema, w) /\ Len(w) <= Cardinality(Pointers) + 1
<1> DEFINE N == Cardinality(Pointers)
<1>1. N \in Nat
  BY PointersCounted
<1> HIDE DEF N
<1>2. ASSUME w \in Walks(schema)
      PROVE  Walked(schema, w) /\ Len(w) <= N + 1
  <2>1. PICK n \in 1..(N + 1) : w \in [1..n -> Pointers] /\ IsWalk(schema, w)
    BY <1>2 DEF Walks, N
  <2>2. w \in Seq(Pointers) /\ Len(w) = n /\ n # 0
    BY <2>1, <1>1
  <2>3. w # <<>>
    BY <2>2
  <2> QED
    BY <2>1, <2>2, <2>3, <1>1 DEF Walked
<1>3. ASSUME Walked(schema, w), Len(w) <= N + 1
      PROVE  w \in Walks(schema)
  <2>1. w \in Seq(Pointers) /\ w # <<>> /\ IsWalk(schema, w)
    BY <1>3 DEF Walked
  <2>2. Len(w) \in 1..(N + 1) /\ w \in [1..Len(w) -> Pointers]
    BY <2>1, <1>1, <1>3
  <2> QED
    BY <2>1, <2>2 DEF Walks, N
<1> QED
  BY <1>2, <1>3 DEF N

(* If no walk has one pointer more than there are, none is longer.         *)
LEMMA ShortWalks ==
    ASSUME NEW schema, \A w \in Walks(schema) : Len(w) <= Cardinality(Pointers),
           NEW x, Walked(schema, x)
    PROVE  Len(x) <= Cardinality(Pointers) /\ x \in Walks(schema)
<1> DEFINE N == Cardinality(Pointers)
<1>1. N \in Nat
  BY PointersCounted
<1>2. x \in Seq(Pointers) /\ Len(x) \in Nat
  BY DEF Walked
<1>3. ASSUME ~(Len(x) <= N)
      PROVE  FALSE
  <2>1. N + 1 \in 1..Len(x)
    BY <1>1, <1>2, <1>3
  <2>2. Walked(schema, Upto(x, N + 1)) /\ Len(Upto(x, N + 1)) = N + 1
    BY <2>1, <1>2, UptoWalked, UptoOf
  <2>3. Upto(x, N + 1) \in Walks(schema)
    BY <2>2, <1>1, WalksAre
  <2>4. N + 1 <= N
    BY <2>2, <2>3
  <2> HIDE DEF N
  <2> QED
    BY <2>4, <1>1
<1>4. Len(x) <= N + 1
  <2> HIDE DEF N
  <2> QED
    BY <1>1, <1>2, <1>3
<1> QED
  BY <1>3, <1>4, WalksAre

(* The calls of expand are on the walk, and of the nodes below them those  *)
(* in todo are not visited yet.                                            *)
OngoingCalls(schema, walk, todo) ==
    /\ walk \in Seq(Pointers) /\ todo \in [1..Len(walk) -> SUBSET Pointers]
    /\ walk # <<>> => IsWalk(schema, walk)
    /\ \A k \in 1..Len(walk) : todo[k] \subseteq After(schema, walk[k])

Known(schema, pointer) ==
    /\ schema[pointer].kind # "literal"
    /\ schema[pointer].kind = "reference" => schema[pointer].to \in Pointers

(* What was visited are walks with their beginnings.                       *)
Trail(schema, walk, todo, visited) ==
    /\ IsFiniteSet(visited)
    /\ \A w \in visited : Walked(schema, w) /\ Known(schema, w[Len(w)])
    /\ \A w \in Seq(Pointers) \ {<<>>}, p \in Pointers : Append(w, p) \in visited => w \in visited
    /\ \A k \in 1..Len(walk) : Upto(walk, k) \in visited
    /\ \A k \in 1..Len(walk) : \A p \in todo[k] : Append(Upto(walk, k), p) \notin visited

(* Nothing is forgotten, once the walks in next are visited.               *)
Covers(schema, walk, todo, visited, next) ==
    /\ <<Root>> \in visited \union next
    /\ \A w \in visited : \A p \in After(schema, w[Len(w)]) :
         \/ Append(w, p) \in visited \union next
         \/ \E k \in 1..Len(walk) : w = Upto(walk, k) /\ p \in todo[k]

(* What continuing a walk leaves of its beginnings.                        *)
LEMMA UptoAppend ==
    ASSUME NEW w \in Seq(Pointers), NEW p \in Pointers
    PROVE  /\ Append(w, p) \in Seq(Pointers) /\ Len(Append(w, p)) = Len(w) + 1
           /\ Append(w, p)[Len(w) + 1] = p /\ \A k \in 1..Len(w) : Append(w, p)[k] = w[k]
           /\ \A k \in 1..Len(w) : Upto(Append(w, p), k) = Upto(w, k)
           /\ Upto(Append(w, p), Len(w) + 1) = Append(w, p)
<1> DEFINE v == Append(w, p)
           n == Len(w)
<1>1. n \in Nat /\ v \in Seq(Pointers) /\ Len(v) = n + 1 /\ v[n + 1] = p /\ \A k \in 1..n : v[k] = w[k]
  OBVIOUS
<1> HIDE DEF v, n
<1>2. \A k \in 1..n : Upto(v, k) = Upto(w, k)
  <2> TAKE k \in 1..n
  <2>1. \A j \in 1..k : j \in 1..n
    BY <1>1
  <2> QED
    BY <2>1, <1>1 DEF Upto
<1>3. Upto(v, n + 1) = v
  <2>1. n + 1 \in 1..Len(v)
    BY <1>1
  <2> QED
    BY <2>1, <1>1, UptoOf
<1> QED
  BY <1>1, <1>2, <1>3 DEF v, n

(* A continued walk determines the walk and its end.                       *)
LEMMA AppendApart ==
    ASSUME NEW v \in Seq(Pointers), NEW w \in Seq(Pointers), NEW p \in Pointers, NEW q \in Pointers,
           Append(v, p) = Append(w, q)
    PROVE  v = w /\ p = q
<1> DEFINE a == Append(v, p)
           b == Append(w, q)
<1>1. /\ Len(v) \in Nat /\ Len(a) = Len(v) + 1 /\ a[Len(v) + 1] = p /\ \A k \in 1..Len(v) : a[k] = v[k]
      /\ Len(w) \in Nat /\ Len(b) = Len(w) + 1 /\ b[Len(w) + 1] = q /\ \A k \in 1..Len(w) : b[k] = w[k]
      /\ a = b
  OBVIOUS
<1> HIDE DEF a, b
<1>2. Len(v) = Len(w)
  BY <1>1
<1>3. p = q /\ \A k \in 1..Len(v) : v[k] = w[k]
  BY <1>1, <1>2
<1>4. v = [k \in 1..Len(v) |-> v[k]] /\ w = [k \in 1..Len(w) |-> w[k]]
  OBVIOUS
<1> QED
  BY <1>2, <1>3, <1>4

Without(walk, todo, p) ==
    [k \in 1..Len(walk) |-> IF k = Len(walk) THEN todo[k] \ {p} ELSE todo[k]]

(* A caller turns to the next of the nodes it has to expand.               *)
LEMMA TurnsTo ==
    ASSUME NEW schema, NEW walk, NEW todo, NEW visited, NEW p,
           OngoingCalls(schema, walk, todo), Trail(schema, walk, todo, visited),
           Covers(schema, walk, todo, visited, {}), walk # <<>>, p \in todo[Len(walk)]
    PROVE  /\ OngoingCalls(schema, walk, Without(walk, todo, p))
           /\ Trail(schema, walk, Without(walk, todo, p), visited)
           /\ Covers(schema, walk, Without(walk, todo, p), visited, {Append(walk, p)})
           /\ Append(walk, p) \notin visited /\ Walked(schema, Append(walk, p))
<1> DEFINE rest == Without(walk, todo, p)
<1> DEFINE n == Len(walk)
<1>1. walk \in Seq(Pointers) /\ n \in Nat /\ n # 0 /\ IsWalk(schema, walk) /\ n \in 1..n
  BY DEF OngoingCalls
<1>2. todo \in [1..n -> SUBSET Pointers] /\ \A k \in 1..n : todo[k] \subseteq After(schema, walk[k])
  BY DEF OngoingCalls
<1>3. p \in Pointers /\ p \in After(schema, walk[n])
  BY <1>1, <1>2
<1>4. Walked(schema, walk)
  BY <1>1 DEF Walked
<1>5. Walked(schema, Append(walk, p))
  BY <1>3, <1>4, WalkFurther
<1>6. Upto(walk, n) = walk
  BY <1>1, UptoOf
<1>7. Append(walk, p) \notin visited
  BY <1>1, <1>6 DEF Trail
<1>8. /\ rest \in [1..n -> SUBSET Pointers] /\ \A k \in 1..n : rest[k] \subseteq todo[k]
      /\ \A k \in 1..n : \A q \in todo[k] : q \in rest[k] \/ (k = n /\ q = p)
  BY <1>2 DEF Without
<1> HIDE DEF rest
<1>9. OngoingCalls(schema, walk, rest)
  <2>1. \A k \in 1..n : rest[k] \subseteq After(schema, walk[k])
    BY <1>2, <1>8
  <2> QED
    BY <2>1, <1>1, <1>8 DEF OngoingCalls
<1>10. Trail(schema, walk, rest, visited)
  BY <1>8 DEF Trail
<1>11. Covers(schema, walk, rest, visited, {Append(walk, p)})
  <2>1. <<Root>> \in visited \union {Append(walk, p)}
    BY DEF Covers
  <2>2. ASSUME NEW w \in visited, NEW q \in After(schema, w[Len(w)])
        PROVE  \/ Append(w, q) \in visited \union {Append(walk, p)}
               \/ \E k \in 1..n : w = Upto(walk, k) /\ q \in rest[k]
    <3>1. CASE Append(w, q) \in visited
      BY <3>1
    <3>2. CASE \E k \in 1..n : w = Upto(walk, k) /\ q \in todo[k]
      <4>1. PICK k \in 1..n : w = Upto(walk, k) /\ q \in todo[k]
        BY <3>2
      <4>2. CASE q \in rest[k]
        BY <4>1, <4>2
      <4>3. CASE k = n /\ q = p
        <5>1. Append(w, q) = Append(walk, p)
          BY <4>1, <4>3, <1>6
        <5> QED
          BY <5>1
      <4> QED
        BY <4>1, <4>2, <4>3, <1>8
    <3> QED
      BY <3>1, <3>2 DEF Covers
  <2> QED
    BY <2>1, <2>2 DEF Covers
<1> QED
  BY <1>5, <1>7, <1>9, <1>10, <1>11 DEF rest

(* expand is called for a node that was not visited on this walk.          *)
LEMMA GoesInto ==
    ASSUME NEW schema, NEW walk, NEW todo, NEW visited, NEW p \in Pointers,
           OngoingCalls(schema, walk, todo), Trail(schema, walk, todo, visited),
           Covers(schema, walk, todo, visited, {Append(walk, p)}),
           Append(walk, p) \notin visited, Walked(schema, Append(walk, p)), Known(schema, p),
           walk # <<>> => p \notin todo[Len(walk)],
           NEW more, more = [k \in 1..(Len(walk) + 1) |->
                               IF k = Len(walk) + 1 THEN After(schema, p) ELSE todo[k]]
    PROVE  /\ OngoingCalls(schema, Append(walk, p), more)
           /\ Trail(schema, Append(walk, p), more, visited \union {Append(walk, p)})
           /\ Covers(schema, Append(walk, p), more, visited \union {Append(walk, p)}, {})
<1> DEFINE n == Len(walk)
           v == Append(walk, p)
<1>1. walk \in Seq(Pointers) /\ n \in Nat
  BY DEF OngoingCalls
<1>2. todo \in [1..n -> SUBSET Pointers] /\ \A k \in 1..n : todo[k] \subseteq After(schema, walk[k])
  BY DEF OngoingCalls
<1>3. /\ v \in Seq(Pointers) /\ Len(v) = n + 1 /\ v[n + 1] = p /\ \A k \in 1..n : v[k] = walk[k]
      /\ \A k \in 1..n : Upto(v, k) = Upto(walk, k)
      /\ Upto(v, n + 1) = v
  BY <1>1, UptoAppend
<1>4. v \notin visited /\ Walked(schema, v) /\ Covers(schema, walk, todo, visited, {v})
      /\ (n # 0 => p \notin todo[n])
  BY <1>1
<1> HIDE DEF n, v
<1>5. \A k \in 1..(n + 1) : k = n + 1 \/ (k \in 1..n /\ k # n + 1)
  BY <1>1
<1>6. /\ \A k \in 1..n : k \in 1..(n + 1) /\ more[k] = todo[k]
      /\ n + 1 \in 1..(n + 1) /\ more[n + 1] = After(schema, p)
  <2>1. \A k \in 1..n : k \in 1..(n + 1) /\ k # n + 1
    BY <1>1
  <2>2. n + 1 \in 1..(n + 1)
    BY <1>1
  <2> QED
    BY <2>1, <2>2 DEF n
<1>7. more \in [1..(n + 1) -> SUBSET Pointers]
  <2>1. \A k \in 1..(n + 1) : more[k] \in SUBSET Pointers
    BY <1>2, <1>5, <1>6, AfterKnown
  <2>2. more = [k \in 1..(n + 1) |-> more[k]]
    BY DEF n
  <2> QED
    BY <2>1, <2>2
<1>8. OngoingCalls(schema, v, more)
  <2>1. \A k \in 1..(n + 1) : more[k] \subseteq After(schema, v[k])
    BY <1>2, <1>3, <1>5, <1>6
  <2>2. IsWalk(schema, v)
    BY <1>4 DEF Walked
  <2> QED
    BY <2>1, <2>2, <1>3, <1>7 DEF OngoingCalls
<1> DEFINE now == visited \union {v}
<1>9. Trail(schema, v, more, now)
  <2>1. IsFiniteSet(now)
    BY FS_AddElement DEF Trail
  <2>2. \A w \in now : Walked(schema, w) /\ Known(schema, w[Len(w)])
    <3>1. v[Len(v)] = p
      BY <1>3
    <3> QED
      BY <3>1, <1>4 DEF Trail
  <2>3. ASSUME NEW k \in 1..(n + 1)
        PROVE  Upto(v, k) \in now
    <3>1. CASE k = n + 1
      BY <3>1, <1>3
    <3>2. CASE k \in 1..n
      BY <3>2, <1>3 DEF Trail, n
    <3> QED
      BY <3>1, <3>2, <1>5
  <2>4. ASSUME NEW w \in Seq(Pointers) \ {<<>>}, NEW q \in Pointers, Append(w, q) \in now
        PROVE  w \in now
    <3>1. CASE Append(w, q) \in visited
      BY <3>1 DEF Trail
    <3>2. CASE Append(w, q) = v
      <4>1. w = walk
        BY <3>2, <1>1, AppendApart DEF v
      <4>2. n # 0 /\ n \in 1..n
        BY <4>1, <1>1 DEF n
      <4>3. walk = Upto(walk, n)
        BY <4>2, <1>1, UptoOf DEF n
      <4>4. Upto(walk, n) \in visited
        BY <4>2 DEF Trail, n
      <4> QED
        BY <4>1, <4>3, <4>4
    <3> QED
      BY <2>4, <3>1, <3>2
  <2>5. ASSUME NEW k \in 1..(n + 1), NEW q \in more[k]
        PROVE  Append(Upto(v, k), q) \notin now
    <3>1. q \in Pointers
      BY <1>7
    <3>2. CASE k = n + 1
      <4>1. Upto(v, k) = v /\ v # <<>>
        BY <3>2, <1>3, <1>4 DEF Walked
      <4>2. Append(v, q) \in visited => v \in visited
        BY <3>1, <4>1, <1>3 DEF Trail
      <4>3. Len(Append(v, q)) = Len(v) + 1 /\ Len(v) \in Nat
        BY <3>1, <1>3
      <4>4. Append(v, q) # v
        BY <4>3
      <4> QED
        BY <4>1, <4>2, <4>4, <1>4
    <3>3. CASE k \in 1..n
      <4>1. Upto(v, k) = Upto(walk, k) /\ q \in todo[k]
        BY <3>3, <1>3, <1>6
      <4>2. Append(Upto(walk, k), q) \notin visited
        BY <3>3, <4>1 DEF Trail, n
      <4>3. ASSUME Append(Upto(walk, k), q) = v
            PROVE  FALSE
        <5>1. Upto(walk, k) \in Seq(Pointers) /\ Len(Upto(walk, k)) = k
          BY <3>3, <1>1, UptoOf DEF n
        <5>2. Upto(walk, k) = walk /\ q = p
          BY <4>3, <5>1, <3>1, <1>1, AppendApart DEF v
        <5>3. k = n /\ n # 0
          BY <5>1, <5>2, <3>3, <1>1 DEF n
        <5> QED
          BY <4>1, <5>2, <5>3, <1>4
      <4> QED
        BY <4>1, <4>2, <4>3
    <3> QED
      BY <3>2, <3>3, <1>5
  <2> HIDE DEF now
  <2> QED
    BY <2>1, <2>2, <2>3, <2>4, <2>5, <1>3 DEF Trail
<1>10. Covers(schema, v, more, now, {})
  <2>1. <<Root>> \in now
    BY <1>4 DEF Covers
  <2>2. ASSUME NEW w \in now, NEW q \in After(schema, w[Len(w)])
        PROVE  \/ Append(w, q) \in now
               \/ \E k \in 1..(n + 1) : w = Upto(v, k) /\ q \in more[k]
    <3>1. CASE w = v
      <4>1. q \in more[n + 1] /\ w = Upto(v, n + 1)
        BY <3>1, <1>3, <1>6
      <4> QED
        BY <4>1, <1>6
    <3>2. CASE w \in visited
      <4>1. CASE Append(w, q) \in visited \union {v}
        BY <4>1
      <4>2. CASE \E k \in 1..n : w = Upto(walk, k) /\ q \in todo[k]
        <5>1. PICK k \in 1..n : w = Upto(walk, k) /\ q \in todo[k]
          BY <4>2
        <5>2. k \in 1..(n + 1) /\ w = Upto(v, k) /\ q \in more[k]
          BY <5>1, <1>3, <1>6
        <5> QED
          BY <5>2
      <4> QED
        BY <3>2, <4>1, <4>2, <1>4 DEF Covers, n
    <3> QED
      BY <3>1, <3>2
  <2> HIDE DEF now
  <2> QED
    BY <2>1, <2>2, <1>3 DEF Covers
<1> QED
  BY <1>8, <1>9, <1>10 DEF v

Shortened(walk, todo) == [k \in 1..(Len(walk) - 1) |-> todo[k]]

(* expand returns when nothing is left to do.                              *)
LEMMA ComesBack ==
    ASSUME NEW schema, NEW walk, NEW todo, NEW visited, NEW back,
           OngoingCalls(schema, walk, todo), Trail(schema, walk, todo, visited),
           Covers(schema, walk, todo, visited, {}), walk # <<>>, todo[Len(walk)] = {},
           back \in Seq(Pointers), Len(back) = Len(walk) - 1,
           \A k \in 1..(Len(walk) - 1) : back[k] = walk[k]
    PROVE  /\ OngoingCalls(schema, back, Shortened(walk, todo))
           /\ Trail(schema, back, Shortened(walk, todo), visited)
           /\ Covers(schema, back, Shortened(walk, todo), visited, {})
<1> DEFINE n == Len(walk)
           m == n - 1
           rest == Shortened(walk, todo)
<1>1. walk \in Seq(Pointers) /\ n \in Nat /\ n # 0 /\ IsWalk(schema, walk)
  BY DEF OngoingCalls
<1>2. todo \in [1..n -> SUBSET Pointers] /\ \A k \in 1..n : todo[k] \subseteq After(schema, walk[k])
  BY DEF OngoingCalls
<1>3. Len(back) = m /\ \A k \in 1..m : back[k] = walk[k]
  OBVIOUS
<1>4. rest = [k \in 1..m |-> todo[k]] /\ todo[n] = {}
  BY DEF Shortened
<1>5. m \in Nat /\ \A k \in 1..m : k \in 1..n /\ k # n /\ k \in Nat
  BY <1>1
<1>6. \A k \in 1..n : k = n \/ k \in 1..m
  BY <1>1
<1> HIDE DEF m, n, rest
<1>7. \A k \in 1..m : Upto(back, k) = Upto(walk, k)
  <2> TAKE k \in 1..m
  <2>1. \A j \in 1..k : j \in 1..m
    BY <1>5
  <2> QED
    BY <2>1, <1>3 DEF Upto
<1>8. rest \in [1..m -> SUBSET Pointers] /\ \A k \in 1..m : rest[k] = todo[k]
  BY <1>2, <1>4, <1>5
<1>9. OngoingCalls(schema, back, rest)
  <2>1. back # <<>> => IsWalk(schema, back)
    <3> SUFFICES ASSUME back # <<>> PROVE IsWalk(schema, back)
      OBVIOUS
    <3>1. m # 0 /\ 1 \in 1..m
      BY <1>3, <1>5
    <3>2. walk[1] = Root /\ \A i \in 2..n : walk[i] \in After(schema, walk[i - 1])
      BY <1>1 DEF IsWalk, n
    <3>3. \A i \in 2..m : i \in 2..n /\ i \in 1..m /\ i - 1 \in 1..m
      BY <1>5, <1>1 DEF m
    <3> QED
      BY <3>1, <3>2, <3>3, <1>3 DEF IsWalk
  <2>2. \A k \in 1..m : rest[k] \subseteq After(schema, back[k])
    BY <1>2, <1>3, <1>5, <1>8
  <2> QED
    BY <2>1, <2>2, <1>3, <1>8 DEF OngoingCalls
<1>10. Trail(schema, back, rest, visited)
  <2>1. /\ \A k \in 1..n : Upto(walk, k) \in visited
        /\ \A k \in 1..n : \A p \in todo[k] : Append(Upto(walk, k), p) \notin visited
    BY DEF Trail, n
  <2>2. /\ \A k \in 1..m : Upto(back, k) \in visited
        /\ \A k \in 1..m : \A p \in rest[k] : Append(Upto(back, k), p) \notin visited
    BY <2>1, <1>5, <1>7, <1>8
  <2> QED
    BY <2>2, <1>3 DEF Trail
<1>11. Covers(schema, back, rest, visited, {})
  <2>1. <<Root>> \in visited
    BY DEF Covers
  <2>2. ASSUME NEW w \in visited, NEW q \in After(schema, w[Len(w)])
        PROVE  \/ Append(w, q) \in visited
               \/ \E k \in 1..m : w = Upto(back, k) /\ q \in rest[k]
    <3>1. CASE Append(w, q) \in visited
      BY <3>1
    <3>2. CASE \E k \in 1..n : w = Upto(walk, k) /\ q \in todo[k]
      <4>1. PICK k \in 1..n : w = Upto(walk, k) /\ q \in todo[k]
        BY <3>2
      <4>2. k # n
        BY <4>1, <1>4
      <4>3. k \in 1..m
        BY <4>2, <1>6
      <4> QED
        BY <4>1, <4>3, <1>7, <1>8
    <3> QED
      BY <3>1, <3>2 DEF Covers, n
  <2> QED
    BY <2>1, <2>2, <1>3 DEF Covers
<1> QED
  BY <1>9, <1>10, <1>11 DEF rest

(* Sums, unit by unit.                                                     *)
LEMMA UnitsFinite ==
    ASSUME NEW weight, NEW set, IsFiniteSet(set), \A x \in set : weight[x] \in Nat
    PROVE  IsFiniteSet(Units(weight, set)) /\ Total(weight, set) \in Nat
<1> DEFINE of == [x \in set |-> {<<x, k>> : k \in 1..weight[x]}]
           all == {of[x] : x \in set}
<1>1. of \in Surjection(set, all)
  BY DEF Surjection
<1>2. IsFiniteSet(all)
  <2> HIDE DEF of, all
  <2> QED
    BY <1>1, FS_Surjection
<1>3. ASSUME NEW x \in set
      PROVE  IsFiniteSet(of[x])
  <2> DEFINE n == weight[x]
             some == {x} \X (1..n)
  <2>1. n \in Nat
    OBVIOUS
  <2>2. IsFiniteSet({x})
    BY FS_Singleton
  <2>3. IsFiniteSet(1..n)
    <3> HIDE DEF n
    <3> QED
      BY <2>1, FS_Interval
  <2>4. IsFiniteSet(some)
    BY <2>2, <2>3, FS_Product
  <2>5. of[x] = some
    OBVIOUS
  <2> QED
    BY <2>4, <2>5
<1>4. \A s \in all : IsFiniteSet(s)
  <2> HIDE DEF of
  <2> QED
    BY <1>3
<1>5. Units(weight, set) = UNION all
  BY DEF Units
<1>6. IsFiniteSet(UNION all)
  <2> HIDE DEF all
  <2> QED
    BY <1>2, <1>4, FS_UNION
<1> QED
  BY <1>5, <1>6, FS_CardinalityType DEF Total

(* One more member adds its weight.                                        *)
LEMMA TotalMore ==
    ASSUME NEW weight, NEW set, IsFiniteSet(set), \A y \in set : weight[y] \in Nat,
           NEW x, x \notin set, weight[x] \in Nat
    PROVE  /\ Total(weight, set) \in Nat
           /\ Total(weight, set \union {x}) = Total(weight, set) + weight[x]
<1> DEFINE n == weight[x]
           some == {x} \X (1..n)
           before == Units(weight, set)
<1>1. IsFiniteSet(before) /\ Cardinality(before) \in Nat
  BY UnitsFinite, FS_CardinalityType
<1>2. Units(weight, set \union {x}) = before \union some
  <2>1. some = {<<x, k>> : k \in 1..n}
    OBVIOUS
  <2> QED
    BY <2>1 DEF Units
<1>3. before \intersect some = {}
  BY DEF Units
<1>4. IsFiniteSet(some) /\ Cardinality(some) = n
  <2>1. IsFiniteSet({x}) /\ Cardinality({x}) = 1
    BY FS_Singleton
  <2>2. IsFiniteSet(1..n) /\ Cardinality(1..n) = n
    BY FS_Interval
  <2>3. IsFiniteSet(some) /\ Cardinality(some) = Cardinality({x}) * Cardinality(1..n)
    BY <2>1, <2>2, FS_Product
  <2> QED
    BY <2>1, <2>2, <2>3
<1>5. Cardinality(before \intersect some) = 0
  BY <1>3, FS_EmptySet
<1> HIDE DEF some, before
<1>6. Cardinality(before \union some) =
        Cardinality(before) + Cardinality(some) - Cardinality(before \intersect some)
  BY <1>1, <1>4, FS_Union
<1>7. n \in Nat
  OBVIOUS
<1>8. Cardinality(before \union some) = Cardinality(before) + n
  <2> HIDE DEF n
  <2> QED
    BY <1>1, <1>4, <1>5, <1>6, <1>7
<1> QED
  BY <1>1, <1>2, <1>8 DEF Total, before

(* A part weighs no more than the whole.                                   *)
LEMMA TotalSubset ==
    ASSUME NEW weight, NEW set, IsFiniteSet(set), \A y \in set : weight[y] \in Nat,
           NEW some \in SUBSET set
    PROVE  Total(weight, some) \in Nat /\ Total(weight, some) <= Total(weight, set)
<1>1. IsFiniteSet(Units(weight, set))
  BY UnitsFinite
<1>2. Units(weight, some) \in SUBSET Units(weight, set)
  BY DEF Units
<1>3. IsFiniteSet(Units(weight, some))
      /\ Cardinality(Units(weight, some)) <= Cardinality(Units(weight, set))
  BY <1>1, <1>2, FS_Subset
<1> QED
  BY <1>3, FS_CardinalityType DEF Total

(* What weighs the same one by one weighs the same together.               *)
LEMMA TotalSame ==
    ASSUME NEW v, NEW w, NEW set, \A x \in set : v[x] = w[x]
    PROVE  Total(v, set) = Total(w, set)
<1>1. Units(v, set) = Units(w, set)
  BY DEF Units
<1> QED
  BY <1>1 DEF Total

(* Nothing weighs nothing.                                                 *)
LEMMA TotalNone ==
    ASSUME NEW weight
    PROVE  Total(weight, {}) = 0
<1>1. Units(weight, {}) = {}
  BY DEF Units
<1> QED
  BY <1>1, FS_EmptySet DEF Total

(* There are finitely many walks.                                          *)
LEMMA WalksFinite ==
    ASSUME NEW schema
    PROVE  IsFiniteSet(Walks(schema))
<1> DEFINE N == Cardinality(Pointers)
           all == Walks(schema)
           steps == (1..(N + 1)) \X Pointers
           graph == [w \in all |-> {<<i, w[i]>> : i \in DOMAIN w}]
<1>1. N \in Nat
  BY PointersCounted
<1>2. \A w \in all : w \in Seq(Pointers) /\ Len(w) <= N + 1
  BY WalksAre DEF Walked
<1>3. IsFiniteSet(SUBSET steps)
  <2>1. IsFiniteSet(1..(N + 1))
    <3> HIDE DEF N
    <3> QED
      BY <1>1, FS_Interval
  <2>2. IsFiniteSet(steps)
    BY <2>1, SchemaAssumption, FS_Product
  <2> HIDE DEF steps
  <2> QED
    BY <2>2, FS_SUBSET
<1> HIDE DEF N, all
<1>4. ASSUME NEW w \in all
      PROVE  graph[w] \in SUBSET steps
  <2>1. \A i \in DOMAIN w : i \in 1..(N + 1) /\ w[i] \in Pointers
    <3>1. w \in Seq(Pointers) /\ Len(w) <= N + 1 /\ Len(w) \in Nat
      BY <1>2
    <3> QED
      BY <3>1, <1>1
  <2> QED
    BY <2>1
<1>5. ASSUME NEW v \in all, NEW w \in all, graph[v] = graph[w]
      PROVE  v = w
  <2>1. {<<i, v[i]>> : i \in DOMAIN v} = {<<i, w[i]>> : i \in DOMAIN w}
    BY <1>5
  <2>2. ASSUME NEW i \in DOMAIN v
        PROVE  i \in DOMAIN w /\ v[i] = w[i]
    <3>1. <<i, v[i]>> \in {<<j, w[j]>> : j \in DOMAIN w}
      BY <2>1
    <3>2. PICK j \in DOMAIN w : <<i, v[i]>> = <<j, w[j]>>
      BY <3>1
    <3>3. i = j /\ v[i] = w[j]
      BY <3>2
    <3> QED
      BY <3>3
  <2>3. ASSUME NEW i \in DOMAIN w
        PROVE  i \in DOMAIN v
    <3>1. <<i, w[i]>> \in {<<j, v[j]>> : j \in DOMAIN v}
      BY <2>1
    <3>2. PICK j \in DOMAIN v : <<i, w[i]>> = <<j, v[j]>>
      BY <3>1
    <3>3. i = j
      BY <3>2
    <3> QED
      BY <3>3
  <2>4. v = [i \in DOMAIN v |-> v[i]] /\ w = [i \in DOMAIN w |-> w[i]]
    BY <1>2
  <2> QED
    BY <2>2, <2>3, <2>4
<1>6. graph \in Injection(all, SUBSET steps)
  <2>1. graph \in [all -> SUBSET steps]
    BY <1>4
  <2> HIDE DEF graph
  <2> QED
    BY <2>1, <1>5 DEF Injection, IsInjective
<1> HIDE DEF graph, steps
<1>7. IsFiniteSet(all)
  BY <1>3, <1>6, FS_Injection
<1> QED
  BY <1>7 DEF all

Weighed(schema, walks) == [w \in walks |-> NodeWork(schema[w[Len(w)]])]

(* A node at the end of a walk costs at least one unit of work.            *)
LEMMA NodeWeighed ==
    ASSUME NEW schema \in Schemas, NEW w \in Seq(Pointers), w # <<>>
    PROVE  w[Len(w)] \in Pointers /\ NodeWork(schema[w[Len(w)]]) \in Nat /\ NodeWork(schema[w[Len(w)]]) >= 1
<1>1. w[Len(w)] \in Pointers
  OBVIOUS
<1> DEFINE p == w[Len(w)]
           n == schema[p].pattern
<1>2. n \in Nat
  BY <1>1, SchemaAssumption
<1> HIDE DEF n
<1>3. 1 + n \in Nat /\ 1 + n >= 1
  BY <1>2
<1> QED
  BY <1>1, <1>3 DEF NodeWork, n

(* Fewer walks cost no more.                                               *)
LEMMA WorkLess ==
    ASSUME NEW schema \in Schemas, NEW walks, IsFiniteSet(walks),
           \A w \in walks : w \in Seq(Pointers) /\ w # <<>>, NEW some \in SUBSET walks
    PROVE  WorkOf(schema, some) \in Nat /\ WorkOf(schema, some) <= WorkOf(schema, walks)
<1> DEFINE weight == Weighed(schema, walks)
<1>1. \A w \in walks : weight[w] \in Nat
  BY NodeWeighed DEF Weighed
<1>2. \A w \in some : weight[w] = Weighed(schema, some)[w]
  BY DEF Weighed
<1>3. WorkOf(schema, walks) = Total(weight, walks)
  BY DEF WorkOf, Weighed
<1>4. WorkOf(schema, some) = Total(Weighed(schema, some), some)
  BY DEF WorkOf, Weighed
<1> HIDE DEF weight
<1>5. Total(weight, some) = Total(Weighed(schema, some), some)
  BY <1>2, TotalSame
<1>6. Total(weight, some) \in Nat /\ Total(weight, some) <= Total(weight, walks)
  BY <1>1, TotalSubset
<1> QED
  BY <1>3, <1>4, <1>5, <1>6

(* Another walk costs the work of the node it ends at.                     *)
LEMMA WorkMore ==
    ASSUME NEW schema \in Schemas, NEW walks, IsFiniteSet(walks),
           \A w \in walks : w \in Seq(Pointers) /\ w # <<>>,
           NEW v \in Seq(Pointers), v # <<>>, v \notin walks
    PROVE  /\ WorkOf(schema, walks) \in Nat
           /\ WorkOf(schema, walks \union {v}) = WorkOf(schema, walks) + NodeWork(schema[v[Len(v)]])
<1> DEFINE more == walks \union {v}
           weight == Weighed(schema, more)
<1>1. /\ \A w \in walks : weight[w] \in Nat
      /\ weight[v] = NodeWork(schema[v[Len(v)]]) /\ weight[v] \in Nat
  BY NodeWeighed DEF Weighed
<1>2. \A w \in walks : weight[w] = Weighed(schema, walks)[w]
  BY DEF Weighed
<1>3. WorkOf(schema, more) = Total(weight, more)
  BY DEF WorkOf, Weighed
<1>4. WorkOf(schema, walks) = Total(Weighed(schema, walks), walks)
  BY DEF WorkOf, Weighed
<1> HIDE DEF weight
<1>5. Total(weight, walks) = Total(Weighed(schema, walks), walks)
  BY <1>2, TotalSame
<1>6. Total(weight, walks) \in Nat /\ Total(weight, more) = Total(weight, walks) + weight[v]
  BY <1>1, TotalMore
<1> QED
  BY <1>1, <1>3, <1>4, <1>5, <1>6

(* Another walk adds one node to the expanded schema unless it ends at a   *)
(* reference.                                                              *)
LEMMA ExpansionMore ==
    ASSUME NEW schema, NEW walks, IsFiniteSet(walks), NEW v, v \notin walks
    PROVE  /\ Cardinality(Expansion(schema, walks)) \in Nat
           /\ Cardinality(Expansion(schema, walks \union {v})) =
                IF schema[v[Len(v)]].kind = "reference" THEN Cardinality(Expansion(schema, walks))
                ELSE Cardinality(Expansion(schema, walks)) + 1
<1> DEFINE before == Expansion(schema, walks)
           more == Expansion(schema, walks \union {v})
<1>1. before \in SUBSET walks
  BY DEF Expansion
<1>2. IsFiniteSet(before) /\ Cardinality(before) \in Nat /\ v \notin before
  <2> HIDE DEF before
  <2> QED
    BY <1>1, FS_Subset, FS_CardinalityType
<1>3. more = IF schema[v[Len(v)]].kind = "reference" THEN before ELSE before \union {v}
  BY DEF Expansion
<1>4. Cardinality(before \union {v}) = Cardinality(before) + 1
  <2> HIDE DEF before
  <2> QED
    BY <1>2, FS_AddElement
<1> HIDE DEF before, more
<1>5. Cardinality(more) = IF schema[v[Len(v)]].kind = "reference" THEN Cardinality(before)
                          ELSE Cardinality(before) + 1
  BY <1>3, <1>4
<1> QED
  BY <1>2, <1>5 DEF before, more

(* Before the first call of expand nothing is counted.                     *)
LEMMA NothingVisited ==
    ASSUME NEW schema
    PROVE  WorkOf(schema, {}) = 0 /\ Cardinality(Expansion(schema, {})) = 0
<1>1. Expansion(schema, {}) = {}
  BY DEF Expansion
<1> QED
  BY <1>1, TotalNone, FS_EmptySet DEF WorkOf

(* Whoever walks along a schema of bounded time stays within the limit.    *)
LEMMA BoundedWork ==
    ASSUME NEW schema \in Schemas, Bounded(schema), NEW walks, \A w \in walks : Walked(schema, w)
    PROVE  /\ WorkOf(schema, walks) \in Nat /\ WorkOf(schema, walks) <= MaxSchemaWork
           /\ \A w \in walks : Known(schema, w[Len(w)])
<1>1. /\ \A w \in Walks(schema) : Len(w) <= Cardinality(Pointers) /\ Known(schema, w[Len(w)])
      /\ WorkOf(schema, Walks(schema)) <= MaxSchemaWork
  BY DEF Bounded, Known
<1>2. walks \in SUBSET Walks(schema)
  BY <1>1, ShortWalks
<1>3. \A w \in Walks(schema) : w \in Seq(Pointers) /\ w # <<>>
  BY WalksAre DEF Walked
<1>4. /\ WorkOf(schema, walks) \in Nat /\ WorkOf(schema, walks) <= WorkOf(schema, Walks(schema))
      /\ WorkOf(schema, Walks(schema)) \in Nat
  BY <1>2, <1>3, WalksFinite, WorkLess
<1>5. MaxSchemaWork \in Nat
  BY SchemaAssumption
<1> QED
  BY <1>1, <1>2, <1>4, <1>5

(* A reference back to one that is expanded has walks without end.         *)
LEMMA BoundedNoLoop ==
    ASSUME NEW schema, Bounded(schema), NEW w, Walked(schema, w),
           NEW a \in 1..Len(w), NEW b \in 1..Len(w), a < b, w[a] = w[b]
    PROVE  FALSE
<1>1. \A x \in Walks(schema) : Len(x) <= Cardinality(Pointers)
  BY DEF Bounded
<1>2. \A x : Walked(schema, x) => Len(x) <= Cardinality(Pointers)
  BY <1>1, ShortWalks
<1> QED
  BY <1>2, PointersCounted, NoLoop

(* Once every walk was visited, the schema is judged by what was counted.  *)
LEMMA Settles ==
    ASSUME NEW schema \in Schemas, NEW visited, IsFiniteSet(visited),
           \A w \in visited : Walked(schema, w) /\ Known(schema, w[Len(w)]),
           <<Root>> \in visited,
           \A w \in visited : \A p \in After(schema, w[Len(w)]) : Append(w, p) \in visited,
           NEW work \in Nat, work = WorkOf(schema, visited), work <= MaxSchemaWork,
           \A w \in visited : Len(w) <= work
    PROVE  /\ Walks(schema) = visited
           /\ Bounded(schema) <=> Cardinality(Expansion(schema, visited)) <= MaxExpanded
<1> DEFINE N == Cardinality(Pointers)
<1>1. N \in Nat
  BY PointersCounted
<1>2. \A w : Walked(schema, w) => w \in visited
  BY AllVisited
<1>3. \A w : Walked(schema, w) => Len(w) <= work
  BY <1>2
<1>4. ASSUME NEW w, Walked(schema, w), ~(Len(w) <= N)
      PROVE  FALSE
  <2> DEFINE n == Len(w)
  <2>1. w \in Seq(Pointers) /\ n \in Nat /\ w \in [1..n -> Pointers]
    BY <1>4 DEF Walked
  <2>2. IsFiniteSet(1..n) /\ Cardinality(1..n) = n
    <3> HIDE DEF n
    <3> QED
      BY <2>1, FS_Interval
  <2>3. N < n
    <3> HIDE DEF N, n
    <3> QED
      BY <1>1, <1>4, <2>1 DEF n
  <2>4. \E x, y \in 1..n : x # y /\ w[x] = w[y]
    <3>1. w \in [1..n -> Pointers] /\ IsFiniteSet(Pointers) /\ Cardinality(Pointers) < Cardinality(1..n)
      BY <2>1, <2>2, <2>3, SchemaAssumption
    <3> HIDE DEF n
    <3> QED
      BY <2>2, <3>1, FS_PigeonHole
  <2>5. PICK x \in 1..n, y \in 1..n : x # y /\ w[x] = w[y]
    BY <2>4
  <2>6. CASE x < y
    BY <2>5, <2>6, <1>3, <1>4, NoLoop
  <2>7. CASE y < x
    BY <2>5, <2>7, <1>3, <1>4, NoLoop
  <2>8. x < y \/ y < x
    BY <2>1, <2>5
  <2> QED
    BY <2>6, <2>7, <2>8
<1>5. Walks(schema) = visited
  <2>1. \A w \in visited : w \in Walks(schema)
    <3> TAKE w \in visited
    <3>1. Walked(schema, w) /\ Len(w) <= N /\ Len(w) \in Nat
      BY <1>4 DEF Walked
    <3>2. Len(w) <= N + 1
      <4> HIDE DEF N
      <4> QED
        BY <1>1, <3>1
    <3> QED
      BY <3>1, <3>2, WalksAre
  <2>2. \A w \in Walks(schema) : w \in visited
    BY <1>2, WalksAre
  <2> QED
    BY <2>1, <2>2
<1>6. \A w \in visited : Len(w) <= N /\ Known(schema, w[Len(w)])
  BY <1>4
<1> QED
  BY <1>5, <1>6 DEF Bounded, Known

CallFrames == [at : Pointers, todo : Seq(Pointers)]

CompilationType(c) ==
    c \in [schema : Schemas \union {NoSchema}, stack : Seq(CallFrames), active : SUBSET Pointers,
           work : Nat, size : Nat, visited : SUBSET Seq(Pointers),
           verdict : {"expanding", "good", "refused"}]

(* What each call has yet to expand.                                       *)
Todo(stack) == [k \in DOMAIN stack |-> Range(stack[k].todo)]

References(schema, walk) == {k \in 1..Len(walk) : schema[walk[k]].kind = "reference"}

(* The targets of the references on the walk are active, each once.        *)
ActiveOf(schema, walk, active) ==
    /\ active = {schema[walk[k]].to : k \in References(schema, walk)}
    /\ \A j, k \in References(schema, walk) : schema[walk[j]].to = schema[walk[k]].to => j = k

Counted(c) ==
    /\ c.work = WorkOf(c.schema, c.visited) /\ c.work <= MaxSchemaWork
    /\ c.size = Cardinality(Expansion(c.schema, c.visited))
    /\ \A w \in c.visited : Len(w) <= c.work

Progress(c, next) ==
    /\ \A k \in DOMAIN c.stack : IsInjective(c.stack[k].todo)
    /\ OngoingCalls(c.schema, Walk(c.stack), Todo(c.stack))
    /\ Trail(c.schema, Walk(c.stack), Todo(c.stack), c.visited)
    /\ Covers(c.schema, Walk(c.stack), Todo(c.stack), c.visited, next)
    /\ ActiveOf(c.schema, Walk(c.stack), c.active)
    /\ Counted(c)

CompileInv(c) ==
    /\ CompilationType(c)
    /\ c.verdict = "expanding" => c.schema \in Schemas /\ c.stack # <<>> /\ Progress(c, {})
    /\ c.verdict = "good" =>
         GoodSchema(c.schema) /\ c.work = SchemaWork(c.schema) /\ c.size = ExpandedSize(c.schema)
    /\ c.verdict = "refused" => ~GoodSchema(c.schema)

(* What is left to expand after its first pointer is the rest, without     *)
(* that pointer.                                                           *)
LEMMA TailApart ==
    ASSUME NEW S, NEW s \in Seq(S), s # <<>>, IsInjective(s)
    PROVE  /\ Head(s) \in S /\ Head(s) \in Range(s) /\ Tail(s) \in Seq(S)
           /\ IsInjective(Tail(s)) /\ Range(Tail(s)) = Range(s) \ {Head(s)}
<1> DEFINE n == Len(s)
           t == Tail(s)
<1>1. n \in Nat /\ n # 0 /\ DOMAIN s = 1..n /\ Head(s) = s[1] /\ 1 \in 1..n
  OBVIOUS
<1>2. t \in Seq(S) /\ DOMAIN t = 1..(n - 1) /\ \A k \in 1..(n - 1) : t[k] = s[k + 1]
  BY <1>1
<1>3. \A i, j \in 1..n : s[i] = s[j] => i = j
  BY <1>1 DEF IsInjective
<1> HIDE DEF n, t
<1>4. \A k \in 1..(n - 1) : k + 1 \in 1..n /\ k + 1 # 1 /\ k \in Nat
  BY <1>1
<1>5. IsInjective(t)
  <2> SUFFICES ASSUME NEW i \in 1..(n - 1), NEW j \in 1..(n - 1), t[i] = t[j]
               PROVE  i = j
    BY <1>2 DEF IsInjective
  <2>1. i + 1 = j + 1 /\ i \in Nat /\ j \in Nat
    BY <1>2, <1>3, <1>4
  <2> QED
    BY <2>1
<1>6. Range(t) = Range(s) \ {s[1]}
  <2>1. ASSUME NEW k \in 1..(n - 1)
        PROVE  t[k] \in Range(s) /\ t[k] # s[1]
    BY <1>1, <1>2, <1>3, <1>4 DEF Range
  <2>2. ASSUME NEW k \in 1..n, s[k] # s[1]
        PROVE  s[k] \in Range(t)
    <3>1. k - 1 \in 1..(n - 1) /\ (k - 1) + 1 = k
      BY <1>1, <2>2
    <3>2. s[k] = t[k - 1]
      BY <3>1, <1>2
    <3> QED
      BY <3>1, <3>2, <1>2 DEF Range
  <2> QED
    BY <2>1, <2>2, <1>1, <1>2 DEF Range
<1>7. Head(s) \in Range(s) /\ Head(s) \in S
  BY <1>1 DEF Range
<1> QED
  BY <1>1, <1>2, <1>5, <1>6, <1>7 DEF t

(* The calls on the stack are a walk.                                      *)
LEMMA StackWalk ==
    ASSUME NEW stack \in Seq(CallFrames)
    PROVE  /\ Walk(stack) \in Seq(Pointers) /\ Len(Walk(stack)) = Len(stack)
           /\ \A k \in 1..Len(stack) : Walk(stack)[k] = stack[k].at /\ Todo(stack)[k] = Range(stack[k].todo)
           /\ Todo(stack) = [k \in 1..Len(stack) |-> Range(stack[k].todo)]
<1>1. DOMAIN stack = 1..Len(stack) /\ Len(stack) \in Nat
  OBVIOUS
<1>2. \A k \in 1..Len(stack) : stack[k] \in CallFrames
  OBVIOUS
<1>3. \A k \in 1..Len(stack) : stack[k].at \in Pointers
  BY <1>2 DEF CallFrames
<1> DEFINE n == Len(stack)
           walk == [k \in 1..n |-> stack[k].at]
<1>4. Walk(stack) = walk
  BY <1>1 DEF Walk
<1>5. walk \in [1..n -> Pointers]
  BY <1>3
<1>6. walk \in Seq(Pointers) /\ Len(walk) = n
  <2> HIDE DEF walk, n
  <2> QED
    BY <1>1, <1>5 DEF n
<1> QED
  BY <1>1, <1>4, <1>6 DEF Todo

(* A call with a node that cannot be expanded: the schema is refused, and  *)
(* it has a reason.                                                        *)
LEMMA CallRefuses ==
    ASSUME NEW c, CompilationType(c), c.schema \in Schemas, NEW p \in Pointers,
           Trail(c.schema, Walk(c.stack), Todo(c.stack), c.visited),
           ActiveOf(c.schema, Walk(c.stack), c.active), Counted(c),
           Append(Walk(c.stack), p) \notin c.visited, Walked(c.schema, Append(Walk(c.stack), p)),
           \/ c.schema[p].kind = "literal"
           \/ c.work + NodeWork(c.schema[p]) > MaxSchemaWork
           \/ /\ c.schema[p].kind = "reference"
              /\ c.schema[p].to \in c.active \/ c.schema[p].to \notin Pointers
    PROVE  ~Bounded(c.schema)
<1> DEFINE schema == c.schema
           walk == Walk(c.stack)
           v == Append(walk, p)
           n == Len(walk)
<1>1. walk \in Seq(Pointers) /\ n \in Nat /\ c.active \subseteq Pointers
      /\ c.visited \subseteq Seq(Pointers) /\ c.work \in Nat
  BY StackWalk DEF CompilationType
<1>2. v \in Seq(Pointers) /\ Len(v) = n + 1 /\ v[n + 1] = p /\ \A k \in 1..n : v[k] = walk[k]
  BY <1>1, UptoAppend
<1>3. Walked(schema, v) /\ v \notin c.visited
  OBVIOUS
<1>4. schema \in Schemas
  OBVIOUS
<1>5. ActiveOf(schema, walk, c.active)
  OBVIOUS
<1>6. \A w \in c.visited : Walked(schema, w)
  BY DEF Trail
<1>7. \/ schema[p].kind = "literal"
      \/ c.work + NodeWork(schema[p]) > MaxSchemaWork
      \/ schema[p].kind = "reference" /\ schema[p].to \in c.active
      \/ schema[p].kind = "reference" /\ schema[p].to \notin Pointers
  OBVIOUS
<1>8. IsFiniteSet(c.visited) /\ c.work = WorkOf(schema, c.visited)
  BY DEF Trail, Counted
<1> HIDE DEF schema, walk, v, n
<1> SUFFICES ASSUME Bounded(schema)
             PROVE  FALSE
  BY DEF schema
<1>9. v # <<>>
  BY <1>3 DEF Walked
<1>10. /\ WorkOf(schema, c.visited \union {v}) <= MaxSchemaWork
       /\ Known(schema, v[Len(v)])
  <2>1. \A w \in c.visited \union {v} : Walked(schema, w)
    BY <1>3, <1>6
  <2> QED
    BY <2>1, <1>4, BoundedWork
<1>11. CASE schema[p].kind = "literal"
  BY <1>2, <1>10, <1>11 DEF Known
<1>12. CASE schema[p].kind = "reference" /\ schema[p].to \notin Pointers
  BY <1>2, <1>10, <1>12 DEF Known
<1>13. CASE c.work + NodeWork(schema[p]) > MaxSchemaWork
  <2>1. WorkOf(schema, c.visited \union {v}) = WorkOf(schema, c.visited) + NodeWork(schema[v[Len(v)]])
    <3>1. \A w \in c.visited : w \in Seq(Pointers) /\ w # <<>>
      BY <1>6 DEF Walked
    <3> QED
      BY <3>1, <1>2, <1>3, <1>4, <1>8, <1>9, WorkMore
  <2>2. WorkOf(schema, c.visited \union {v}) = c.work + NodeWork(schema[p])
    BY <2>1, <1>2, <1>8
  <2>3. NodeWork(schema[p]) \in Nat
    BY <1>2, <1>4, <1>9, NodeWeighed
  <2>4. MaxSchemaWork \in Nat
    BY SchemaAssumption
  <2>5. c.work + NodeWork(schema[p]) <= MaxSchemaWork
    BY <2>2, <1>10
  <2> QED
    BY <2>3, <2>4, <2>5, <1>1, <1>13
<1>14. CASE schema[p].kind = "reference" /\ schema[p].to \in c.active
  <2> DEFINE to == schema[p].to
             u == Append(v, to)
  <2>1. PICK j \in 1..n : schema[walk[j]].kind = "reference" /\ schema[walk[j]].to = to
    <3>1. to \in {schema[walk[k]].to : k \in References(schema, walk)}
      BY <1>5, <1>14 DEF ActiveOf
    <3>2. PICK j \in References(schema, walk) : to = schema[walk[j]].to
      BY <3>1
    <3> HIDE DEF to
    <3> QED
      BY <3>2 DEF References, n
  <2>2. to \in Pointers
    BY <1>1, <1>14
  <2>3. to \in After(schema, v[Len(v)])
    BY <2>2, <1>2, <1>14 DEF After
  <2>4. Walked(schema, u)
    <3> HIDE DEF to
    <3> QED
      BY <2>3, <1>3, WalkFurther
  <2>5. /\ j + 1 \in 2..(n + 1) /\ (j + 1) - 1 = j /\ j + 1 \in 1..(n + 2) /\ j + 1 < n + 2
        /\ n + 2 \in 1..(n + 2) /\ n + 2 = (n + 1) + 1 /\ j + 1 \in 1..(n + 1)
    BY <1>1
  <2>6. v[j + 1] \in After(schema, v[j])
    BY <2>5, <1>2, <1>3 DEF Walked, IsWalk
  <2>7. v[j + 1] = to
    BY <2>1, <2>6, <1>2 DEF After
  <2>8. Len(u) = n + 2 /\ u[n + 2] = to /\ \A k \in 1..(n + 1) : u[k] = v[k]
    <3>1. Len(u) = Len(v) + 1 /\ u[Len(v) + 1] = to /\ \A k \in 1..Len(v) : u[k] = v[k]
      <4> HIDE DEF to
      <4> QED
        BY <2>2, <1>2, UptoAppend
    <3> HIDE DEF u
    <3> QED
      BY <3>1, <2>5, <1>2
  <2> HIDE DEF to, u
  <2>9. u[j + 1] = u[n + 2] /\ j + 1 \in 1..Len(u) /\ n + 2 \in 1..Len(u)
    BY <2>5, <2>7, <2>8
  <2> QED
    BY <2>4, <2>5, <2>9, BoundedNoLoop
<1> QED
  BY <1>7, <1>11, <1>12, <1>13, <1>14

(* What expand is called for below a node is what comes after it, each     *)
(* pointer once.                                                           *)
LEMMA BelowAfter ==
    ASSUME NEW schema \in Schemas, NEW p \in Pointers, Known(schema, p)
    PROVE  /\ Below(schema, p) \in Seq(Pointers) /\ IsInjective(Below(schema, p))
           /\ Range(Below(schema, p)) = After(schema, p)
<1>1. CASE schema[p].kind = "object"
  <2>1. Children[p] \in Seq(Pointers) /\ IsInjective(Children[p])
    BY SchemaAssumption
  <2>2. Below(schema, p) = Children[p] /\ After(schema, p) = Range(Children[p])
    BY <1>1 DEF Below, After
  <2> QED
    BY <2>1, <2>2
<1>2. CASE schema[p].kind = "reference"
  <2> DEFINE to == schema[p].to
  <2>1. to \in Pointers
    BY <1>2 DEF Known
  <2>2. Below(schema, p) = <<to>> /\ After(schema, p) = {to}
    BY <1>2, <2>1 DEF Below, After
  <2> HIDE DEF to
  <2>3. <<to>> \in Seq(Pointers) /\ DOMAIN <<to>> = 1..1 /\ <<to>>[1] = to
    BY <2>1
  <2>4. \A k \in 1..1 : k = 1
    OBVIOUS
  <2>5. IsInjective(<<to>>)
    BY <2>3, <2>4 DEF IsInjective
  <2>6. Range(<<to>>) = {to}
    BY <2>3, <2>4 DEF Range
  <2> QED
    BY <2>2, <2>3, <2>5, <2>6
<1>3. CASE schema[p].kind \notin {"object", "reference"}
  <2>1. Below(schema, p) = <<>> /\ After(schema, p) = {}
    BY <1>3 DEF Below, After
  <2>2. IsInjective(<<>>) /\ Range(<<>>) = {} /\ <<>> \in Seq(Pointers)
    BY DEF IsInjective, Range
  <2> QED
    BY <2>1, <2>2
<1> QED
  BY <1>1, <1>2, <1>3

Updated(c, work, size, active, stack, visited) ==
    [c EXCEPT !.work = work, !.size = size, !.active = active, !.stack = stack, !.visited = visited]

(* What a call of expand makes of the compilation, field by field.         *)
LEMMA CompilationUpdated ==
    ASSUME NEW c, CompilationType(c), c.verdict = "expanding",
           NEW x1, NEW x2, NEW x3, NEW x4, NEW x5
    PROVE  Updated(c, x1, x2, x3, x4, x5) =
           [schema |-> c.schema, stack |-> x4, active |-> x3, work |-> x1, size |-> x2,
            visited |-> x5, verdict |-> "expanding"]
<1> DEFINE a == c.schema
           b == c.stack
           e == c.active
           f == c.work
           g == c.size
           h == c.visited
<1>0. c = [schema |-> a, stack |-> b, active |-> e, work |-> f, size |-> g,
           visited |-> h, verdict |-> "expanding"]
  BY DEF CompilationType
<1> HIDE DEF a, b, e, f, g, h
<1> DEFINE c1 == [c EXCEPT !.work = x1]
           c2 == [c1 EXCEPT !.size = x2]
           c3 == [c2 EXCEPT !.active = x3]
           c4 == [c3 EXCEPT !.stack = x4]
           c5 == [c4 EXCEPT !.visited = x5]
<1>1. Updated(c, x1, x2, x3, x4, x5) = c5
  BY DEF Updated
<1>2. c1 = [schema |-> a, stack |-> b, active |-> e, work |-> x1, size |-> g,
             visited |-> h, verdict |-> "expanding"]
  <2> HIDE DEF c2, c3, c4, c5
  <2> QED
    BY <1>0
<1>3. c2 = [schema |-> a, stack |-> b, active |-> e, work |-> x1, size |-> x2,
             visited |-> h, verdict |-> "expanding"]
  <2> HIDE DEF c1, c3, c4, c5
  <2> QED
    BY <1>2
<1>4. c3 = [schema |-> a, stack |-> b, active |-> x3, work |-> x1, size |-> x2,
             visited |-> h, verdict |-> "expanding"]
  <2> HIDE DEF c1, c2, c4, c5
  <2> QED
    BY <1>3
<1>5. c4 = [schema |-> a, stack |-> x4, active |-> x3, work |-> x1, size |-> x2,
             visited |-> h, verdict |-> "expanding"]
  <2> HIDE DEF c1, c2, c3, c5
  <2> QED
    BY <1>4
<1>6. c5 = [schema |-> a, stack |-> x4, active |-> x3, work |-> x1, size |-> x2,
             visited |-> x5, verdict |-> "expanding"]
  <2> HIDE DEF c1, c2, c3, c4
  <2> QED
    BY <1>5
<1> HIDE DEF c5
<1> QED
  BY <1>1, <1>6 DEF a

(* One more frame: the walk goes on to its node.                           *)
Pushed(stack, p, todo) == Append(stack, [at |-> p, todo |-> todo])

(* What pushing a call does to the walk, and to what is left to expand.    *)
LEMMA StackMore ==
    ASSUME NEW stack \in Seq(CallFrames), NEW p \in Pointers, NEW todo \in Seq(Pointers),
           NEW more, more = Pushed(stack, p, todo)
    PROVE  /\ more \in Seq(CallFrames) /\ more # <<>> /\ Walk(more) = Append(Walk(stack), p)
           /\ Todo(more) = [k \in 1..(Len(Walk(stack)) + 1) |->
                              IF k = Len(Walk(stack)) + 1 THEN Range(todo) ELSE Todo(stack)[k]]
           /\ \A k \in DOMAIN more :
                (k \in DOMAIN stack /\ more[k] = stack[k]) \/ more[k].todo = todo
<1> DEFINE frame == [at |-> p, todo |-> todo]
           n == Len(stack)
           walk == Walk(stack)
<1>0. more = Append(stack, frame)
  BY DEF Pushed
<1>1. frame \in CallFrames /\ frame.at = p /\ frame.todo = todo
  BY DEF CallFrames
<1>2. /\ walk \in Seq(Pointers) /\ Len(walk) = n /\ n \in Nat /\ DOMAIN stack = 1..n
      /\ \A k \in 1..n : walk[k] = stack[k].at /\ Todo(stack)[k] = Range(stack[k].todo)
  BY StackWalk
<1> HIDE DEF frame
<1>3. /\ more \in Seq(CallFrames) /\ Len(more) = n + 1 /\ more[n + 1] = frame
      /\ \A k \in 1..n : more[k] = stack[k]
  BY <1>0, <1>1
<1> HIDE DEF n, walk
<1>4. /\ Walk(more) \in Seq(Pointers) /\ Len(Walk(more)) = n + 1
      /\ \A k \in 1..(n + 1) : Walk(more)[k] = more[k].at
      /\ Todo(more) = [k \in 1..(n + 1) |-> Range(more[k].todo)]
  BY <1>3, StackWalk
<1>5. \A k \in 1..(n + 1) : k = n + 1 \/ (k \in 1..n /\ k # n + 1)
  BY <1>2
<1>6. Walk(more) = Append(walk, p)
  <2>1. Append(walk, p) \in Seq(Pointers) /\ Len(Append(walk, p)) = n + 1
        /\ Append(walk, p)[n + 1] = p /\ \A k \in 1..n : Append(walk, p)[k] = walk[k]
    BY <1>2, UptoAppend
  <2>2. \A k \in 1..(n + 1) : Walk(more)[k] = Append(walk, p)[k]
    BY <2>1, <1>1, <1>2, <1>3, <1>4, <1>5
  <2>3. Walk(more) = [k \in 1..(n + 1) |-> Walk(more)[k]]
        /\ Append(walk, p) = [k \in 1..(n + 1) |-> Append(walk, p)[k]]
    <3> DEFINE a == Walk(more)
               b == Append(walk, p)
    <3> HIDE DEF a, b
    <3>1. a \in Seq(Pointers) /\ Len(a) = n + 1 /\ b \in Seq(Pointers) /\ Len(b) = n + 1
      BY <1>4, <2>1 DEF a, b
    <3>2. a = [k \in 1..(n + 1) |-> a[k]] /\ b = [k \in 1..(n + 1) |-> b[k]]
      BY <3>1
    <3> QED
      BY <3>2 DEF a, b
  <2> QED
    BY <2>2, <2>3
<1>7. Todo(more) = [k \in 1..(n + 1) |-> IF k = n + 1 THEN Range(todo) ELSE Todo(stack)[k]]
  <2>1. \A k \in 1..(n + 1) : Range(more[k].todo) = IF k = n + 1 THEN Range(todo) ELSE Todo(stack)[k]
    BY <1>1, <1>2, <1>3, <1>5
  <2> QED
    BY <2>1, <1>4
<1>8. more # <<>>
  BY <1>2, <1>3
<1>9. \A k \in DOMAIN more : (k \in DOMAIN stack /\ more[k] = stack[k]) \/ more[k].todo = todo
  <2>1. DOMAIN more = 1..(n + 1)
    BY <1>3
  <2> QED
    BY <2>1, <1>1, <1>2, <1>3, <1>5
<1> QED
  BY <1>2, <1>3, <1>6, <1>7, <1>8, <1>9 DEF walk

(* A call of expand makes the target of its reference active, which was    *)
(* not.                                                                    *)
LEMMA ActiveMore ==
    ASSUME NEW schema, NEW walk \in Seq(Pointers), NEW active, NEW p \in Pointers,
           ActiveOf(schema, walk, active),
           schema[p].kind = "reference" => schema[p].to \notin active
    PROVE  ActiveOf(schema, Append(walk, p),
             IF schema[p].kind = "reference" THEN active \union {schema[p].to} ELSE active)
<1> DEFINE n == Len(walk)
           v == Append(walk, p)
           old == References(schema, walk)
           new == References(schema, v)
<1>1. n \in Nat /\ Len(v) = n + 1 /\ v[n + 1] = p /\ \A k \in 1..n : v[k] = walk[k]
  BY UptoAppend
<1>2. \A k \in 1..(n + 1) : k = n + 1 \/ (k \in 1..n /\ k # n + 1)
  BY <1>1
<1>3. n + 1 \in 1..(n + 1) /\ n + 1 \notin 1..n /\ \A k \in 1..n : k \in 1..(n + 1)
  BY <1>1
<1>4. old \subseteq 1..n /\ \A k \in old : schema[walk[k]].kind = "reference"
  BY DEF References
<1>5. active = {schema[walk[k]].to : k \in old}
      /\ \A j, k \in old : schema[walk[j]].to = schema[walk[k]].to => j = k
  BY DEF ActiveOf
<1>6. new = IF schema[p].kind = "reference" THEN old \union {n + 1} ELSE old
  <2> HIDE DEF v, n
  <2>1. new = {k \in 1..(n + 1) : schema[v[k]].kind = "reference"}
    BY <1>1 DEF References
  <2>2. old = {k \in 1..n : schema[walk[k]].kind = "reference"}
    BY DEF References, n
  <2> QED
    BY <2>1, <2>2, <1>1, <1>2, <1>3
<1> HIDE DEF n, v, old, new
<1>7. \A k \in old : v[k] = walk[k] /\ k # n + 1
  BY <1>1, <1>3, <1>4
<1>8. CASE schema[p].kind # "reference"
  <2>1. new = old
    BY <1>6, <1>8
  <2>2. active = {schema[v[k]].to : k \in new}
    BY <2>1, <1>5, <1>7
  <2>3. \A j, k \in new : schema[v[j]].to = schema[v[k]].to => j = k
    BY <2>1, <1>5, <1>7
  <2> QED
    BY <2>2, <2>3, <1>8 DEF ActiveOf, v, new
<1>9. CASE schema[p].kind = "reference"
  <2>1. new = old \union {n + 1}
    BY <1>6, <1>9
  <2>2. active \union {schema[p].to} = {schema[v[k]].to : k \in new}
    BY <2>1, <1>1, <1>5, <1>7
  <2>3. schema[p].to \notin active
    BY <1>9
  <2>4. \A j, k \in new : schema[v[j]].to = schema[v[k]].to => j = k
    BY <2>1, <2>3, <1>1, <1>5, <1>7
  <2> QED
    BY <2>2, <2>4, <1>9 DEF ActiveOf, v, new
<1> QED
  BY <1>8, <1>9

(* A call of expand either refuses a schema that is not acceptable or      *)
(* makes progress: what it has expanded and has yet to expand covers every *)
(* walk still.                                                             *)
LEMMA CallKeeps ==
    ASSUME NEW c, CompilationType(c), c.schema \in Schemas, c.verdict = "expanding", NEW p \in Pointers,
           Progress(c, {Append(Walk(c.stack), p)}),
           Append(Walk(c.stack), p) \notin c.visited, Walked(c.schema, Append(Walk(c.stack), p)),
           c.stack # <<>> => p \notin Todo(c.stack)[Len(c.stack)]
    PROVE  CompileInv(Call(c, p)) /\ Call(c, p).schema = c.schema
<1> DEFINE schema == c.schema
           node == schema[p]
           refers == node.kind = "reference"
           walk == Walk(c.stack)
           v == Append(walk, p)
           n == Len(walk)
           work == c.work + NodeWork(node)
           size == IF refers THEN c.size ELSE c.size + 1
           active == IF refers THEN c.active \union {node.to} ELSE c.active
           visited == c.visited \union {v}
           stack == Append(c.stack, [at |-> p, todo |-> Below(schema, p)])
           bad == \/ node.kind = "literal" \/ work > MaxSchemaWork
                  \/ refers /\ (node.to \in c.active \/ node.to \notin Pointers)
           d == [schema |-> schema, stack |-> stack, active |-> active, work |-> work,
                 size |-> size, visited |-> visited, verdict |-> "expanding"]
           r == [c EXCEPT !.verdict = "refused"]
<1>1. /\ schema \in Schemas /\ c.stack \in Seq(CallFrames) /\ c.active \subseteq Pointers
      /\ c.work \in Nat /\ c.size \in Nat /\ c.visited \subseteq Seq(Pointers)
  BY DEF CompilationType
<1>2. /\ walk \in Seq(Pointers) /\ n = Len(c.stack) /\ n \in Nat
  BY <1>1, StackWalk
<1>3. /\ OngoingCalls(schema, walk, Todo(c.stack))
      /\ Trail(schema, walk, Todo(c.stack), c.visited)
      /\ Covers(schema, walk, Todo(c.stack), c.visited, {v})
      /\ ActiveOf(schema, walk, c.active) /\ Counted(c)
      /\ \A k \in DOMAIN c.stack : IsInjective(c.stack[k].todo)
  BY DEF Progress
<1>4. v \notin c.visited /\ Walked(schema, v) /\ v \in Seq(Pointers) /\ v # <<>> /\ Len(v) = n + 1
      /\ v[Len(v)] = p
  <2>1. v \in Seq(Pointers) /\ Len(v) = n + 1 /\ v[n + 1] = p
    BY <1>2, UptoAppend
  <2>2. Walked(schema, v)
    OBVIOUS
  <2> HIDE DEF v, n
  <2> QED
    BY <2>1, <2>2 DEF Walked, v
<1>5. Call(c, p) = IF bad THEN r ELSE d
  <2>1. Call(c, p) = IF bad THEN r ELSE Updated(c, work, size, active, stack, visited)
    BY DEF Call, AddWork, Updated
  <2>2. Updated(c, work, size, active, stack, visited) = d
    <3> HIDE DEF work, size, active, stack, visited
    <3> QED
      BY CompilationUpdated
  <2> HIDE DEF bad, r, d, work, size, active, stack, visited
  <2> QED
    BY <2>1, <2>2
<1>6. CASE bad
  <2>1. ~Bounded(schema)
    BY <1>3, <1>6, CallRefuses
  <2>2. r \in [schema : Schemas \union {NoSchema}, stack : Seq(CallFrames), active : SUBSET Pointers,
               work : Nat, size : Nat, visited : SUBSET Seq(Pointers),
               verdict : {"expanding", "good", "refused"}]
        /\ r.schema = c.schema /\ r.verdict = "refused"
    BY DEF CompilationType
  <2>3. ~GoodSchema(schema)
    BY <2>1, <1>1, SchemaAssumption DEF GoodSchema
  <2> HIDE DEF r
  <2>4. CompileInv(r)
    BY <2>2, <2>3 DEF CompileInv, CompilationType
  <2> HIDE DEF bad, d
  <2> QED
    BY <2>2, <2>4, <1>5, <1>6
<1>7. CASE ~bad
  <2>1. Known(schema, p) /\ ~(work > MaxSchemaWork)
        /\ (refers => node.to \notin c.active /\ node.to \in Pointers)
    BY <1>7 DEF Known
  <2>2. NodeWork(node) \in Nat /\ NodeWork(node) >= 1
    BY <1>1, <1>4, NodeWeighed
  <2>3. MaxSchemaWork \in Nat
    BY SchemaAssumption
  <2>4. work \in Nat /\ work <= MaxSchemaWork /\ work >= c.work + 1
    <3> DEFINE more == NodeWork(node)
    <3> HIDE DEF more
    <3> QED
      BY <2>1, <2>2, <2>3, <1>1 DEF more
  <2>5. /\ Below(schema, p) \in Seq(Pointers) /\ IsInjective(Below(schema, p))
        /\ Range(Below(schema, p)) = After(schema, p)
    BY <2>1, <1>1, BelowAfter
  <2>6. /\ stack \in Seq(CallFrames) /\ stack # <<>> /\ Walk(stack) = v
        /\ Todo(stack) = [k \in 1..(Len(walk) + 1) |->
                            IF k = Len(walk) + 1 THEN After(schema, p) ELSE Todo(c.stack)[k]]
        /\ \A k \in DOMAIN stack :
             (k \in DOMAIN c.stack /\ stack[k] = c.stack[k]) \/ stack[k].todo = Below(schema, p)
    <3> DEFINE below == Below(schema, p)
               old == c.stack
    <3>1. below \in Seq(Pointers) /\ Range(below) = After(schema, p) /\ old \in Seq(CallFrames)
          /\ stack = Pushed(old, p, below) /\ v = Append(Walk(old), p)
      BY <2>5, <1>1 DEF Pushed
    <3> HIDE DEF below, old, stack, v
    <3>2. stack \in Seq(CallFrames) /\ stack # <<>> /\ Walk(stack) = Append(Walk(old), p)
      BY <3>1, StackMore
    <3>3. Todo(stack) = [k \in 1..(Len(Walk(old)) + 1) |->
                           IF k = Len(Walk(old)) + 1 THEN Range(below) ELSE Todo(old)[k]]
      BY <3>1, StackMore
    <3>4. \A k \in DOMAIN stack :
            (k \in DOMAIN old /\ stack[k] = old[k]) \/ stack[k].todo = below
      BY <3>1, StackMore
    <3> QED
      BY <3>1, <3>2, <3>3, <3>4 DEF below, old
  <2>7. walk # <<>> => p \notin Todo(c.stack)[Len(walk)]
    <3>1. walk # <<>> => c.stack # <<>>
      BY <1>1, <1>2
    <3> QED
      BY <3>1, <1>2
  <2>8. /\ OngoingCalls(schema, v, Todo(stack))
        /\ Trail(schema, v, Todo(stack), visited)
        /\ Covers(schema, v, Todo(stack), visited, {})
    <3> DEFINE more == Todo(stack)
    <3>1. more = [k \in 1..(Len(walk) + 1) |->
                    IF k = Len(walk) + 1 THEN After(schema, p) ELSE Todo(c.stack)[k]]
      BY <2>6
    <3> HIDE DEF more
    <3>2. /\ OngoingCalls(schema, Append(walk, p), more)
          /\ Trail(schema, Append(walk, p), more, c.visited \union {Append(walk, p)})
          /\ Covers(schema, Append(walk, p), more, c.visited \union {Append(walk, p)}, {})
      <4> HIDE DEF schema, walk
      <4> QED
        BY <3>1, <2>1, <2>7, <1>3, <1>4, GoesInto
    <3> QED
      BY <3>2 DEF more
  <2>9. ActiveOf(schema, v, active)
    <3>1. schema[p].kind = "reference" => schema[p].to \notin c.active
      BY <2>1
    <3> QED
      BY <3>1, <1>2, <1>3, ActiveMore
  <2>10. active \subseteq Pointers
    BY <2>1, <1>1
  <2>11. IsFiniteSet(c.visited) /\ \A w \in c.visited : w \in Seq(Pointers) /\ w # <<>>
    BY <1>3 DEF Trail, Walked
  <2>12. work = WorkOf(schema, visited)
    <3>1. WorkOf(schema, visited) = WorkOf(schema, c.visited) + NodeWork(schema[v[Len(v)]])
      BY <2>11, <1>1, <1>4, WorkMore
    <3> QED
      BY <3>1, <1>3, <1>4 DEF Counted
  <2>13. size = Cardinality(Expansion(schema, visited)) /\ size \in Nat
    <3>1. Cardinality(Expansion(schema, visited)) =
            IF schema[v[Len(v)]].kind = "reference" THEN Cardinality(Expansion(schema, c.visited))
            ELSE Cardinality(Expansion(schema, c.visited)) + 1
      BY <2>11, <1>4, ExpansionMore
    <3> QED
      BY <3>1, <1>1, <1>3, <1>4 DEF Counted
  <2>14. \A w \in visited : Len(w) <= work
    <3>1. ASSUME NEW w \in c.visited
          PROVE  Len(w) <= work
      <4>1. Len(w) \in Nat /\ Len(w) <= c.work
        BY <2>11, <1>3 DEF Counted
      <4> HIDE DEF work
      <4> QED
        BY <4>1, <2>4, <1>1
    <3>2. Len(v) <= work
      <4>1. n <= c.work
        <5>1. CASE n = 0
          BY <5>1, <1>1
        <5>2. CASE n # 0
          <6>1. n \in 1..n
            BY <5>2, <1>2
          <6>2. Upto(walk, n) \in c.visited /\ Len(Upto(walk, n)) = n
            BY <6>1, <1>2, <1>3, UptoOf DEF Trail
          <6> QED
            BY <6>2, <1>3 DEF Counted
        <5> QED
          BY <5>1, <5>2
      <4> HIDE DEF n, work, v
      <4> QED
        BY <4>1, <2>4, <1>1, <1>2, <1>4
    <3> QED
      BY <3>1, <3>2
  <2>15. \A k \in DOMAIN stack : IsInjective(stack[k].todo)
    BY <2>5, <2>6, <1>3
  <2>16. visited \subseteq Seq(Pointers)
    BY <1>1, <1>4
  <2> HIDE DEF schema, node, refers, walk, v, work, size, active, visited, stack, bad
  <2>17. /\ d.schema = schema /\ d.stack = stack /\ d.active = active /\ d.work = work
         /\ d.size = size /\ d.visited = visited /\ d.verdict = "expanding"
    OBVIOUS
  <2>18. CompilationType(d)
    BY <2>4, <2>6, <2>10, <2>13, <2>16, <1>1 DEF CompilationType
  <2> HIDE DEF d
  <2>19. Counted(d)
    BY <2>4, <2>12, <2>13, <2>14, <2>17 DEF Counted
  <2>20. Progress(d, {})
    BY <2>6, <2>8, <2>9, <2>15, <2>17, <2>19 DEF Progress
  <2>21. CompileInv(d)
    BY <2>6, <2>17, <2>18, <2>20, <1>1 DEF CompileInv
  <2>22. d.schema = c.schema
    BY <2>17 DEF schema
  <2> QED
    BY <2>21, <2>22, <1>5, <1>7
<1> HIDE DEF bad
<1> QED
  BY <1>6, <1>7

(* The call for the root begins the compilation.                           *)
LEMMA CompileStarts ==
    ASSUME NEW schema \in Schemas \union {NoSchema}
    PROVE  CompileInv(Compile(schema)) /\ Compile(schema).schema = schema
<1> DEFINE c == [schema |-> schema, stack |-> <<>>, active |-> {}, work |-> 0, size |-> 0,
                 visited |-> {}, verdict |-> "expanding"]
           done == [c EXCEPT !.verdict = "good"]
<1>1. CASE schema = NoSchema
  <2>1. /\ c \in [schema : Schemas \union {NoSchema}, stack : Seq(CallFrames), active : SUBSET Pointers,
                  work : Nat, size : Nat, visited : SUBSET Seq(Pointers),
                  verdict : {"expanding", "good", "refused"}]
        /\ c.schema = schema /\ c.work = 0 /\ c.size = 0
    OBVIOUS
  <2>2. CompilationType(done) /\ done.schema = schema /\ done.verdict = "good"
        /\ done.work = 0 /\ done.size = 0
    <3> HIDE DEF c
    <3> QED
      BY <2>1 DEF CompilationType
  <2>3. Compile(schema) = done
    BY <1>1 DEF Compile
  <2> HIDE DEF c, done
  <2> QED
    BY <2>2, <2>3, <1>1 DEF CompileInv, GoodSchema, SchemaWork, ExpandedSize
<1>2. CASE schema # NoSchema
  <2>1. schema \in Schemas /\ Compile(schema) = Call(c, Root)
    BY <1>2 DEF Compile
  <2>2. CompilationType(c)
    BY DEF CompilationType
  <2>3. c.schema = schema /\ c.verdict = "expanding" /\ c.stack = <<>> /\ c.visited = {}
        /\ c.active = {} /\ c.work = 0 /\ c.size = 0
    OBVIOUS
  <2> HIDE DEF c
  <2>4. Root \in Pointers /\ MaxSchemaWork \in Nat
    BY SchemaAssumption
  <2> DEFINE walk == Walk(c.stack)
             todo == Todo(c.stack)
             v == Append(walk, Root)
  <2>5. walk = <<>> /\ walk \in Seq(Pointers) /\ Len(walk) = 0
        /\ todo = [k \in 1..Len(walk) |-> Range(c.stack[k].todo)] /\ v = <<Root>>
    <3>1. walk = <<>>
      BY <2>3 DEF Walk
    <3>2. DOMAIN c.stack = 1..0
      BY <2>3
    <3>3. todo = [k \in 1..0 |-> Range(c.stack[k].todo)]
      BY <3>2 DEF Todo
    <3> QED
      BY <3>1, <3>3
  <2>6. 1..Len(walk) = {} /\ DOMAIN c.stack = {}
    BY <2>3, <2>5
  <2> HIDE DEF walk, todo
  <2>7. Walked(schema, v)
    <3>1. <<Root>> \in Seq(Pointers) /\ <<Root>> # <<>> /\ Len(<<Root>>) = 1 /\ <<Root>>[1] = Root
      BY <2>4
    <3>2. IsWalk(schema, <<Root>>)
      BY <3>1 DEF IsWalk
    <3> QED
      BY <3>1, <3>2, <2>5 DEF Walked
  <2>8. OngoingCalls(schema, walk, todo)
    <3>1. todo \in [1..Len(walk) -> SUBSET Pointers]
      BY <2>5, <2>6
    <3> QED
      BY <3>1, <2>5, <2>6 DEF OngoingCalls
  <2>9. Trail(schema, walk, todo, {})
    BY <2>6, FS_EmptySet DEF Trail
  <2>10. Covers(schema, walk, todo, {}, {v})
    BY <2>5 DEF Covers
  <2>11. ActiveOf(schema, walk, {})
    BY <2>6 DEF ActiveOf, References
  <2>12. Counted(c)
    BY <2>3, <2>4, NothingVisited DEF Counted
  <2>13. Progress(c, {v})
    BY <2>3, <2>6, <2>8, <2>9, <2>10, <2>11, <2>12 DEF Progress, walk, todo
  <2>14. CompileInv(Call(c, Root)) /\ Call(c, Root).schema = c.schema
    BY <2>1, <2>2, <2>3, <2>4, <2>7, <2>13, CallKeeps DEF walk
  <2> QED
    BY <2>1, <2>3, <2>14
<1> QED
  BY <1>1, <1>2

(* The caller on top turns to the next pointer it has to expand.           *)
Turned(c) ==
    LET top == Last(c.stack)
    IN  [c EXCEPT !.stack = Append(Front(@), [top EXCEPT !.todo = Tail(@)])]

(* The innermost call and those around it.                                 *)
LEMMA TopOf ==
    ASSUME NEW stack \in Seq(CallFrames), stack # <<>>
    PROVE  /\ Len(stack) \in Nat /\ Len(stack) # 0 /\ Len(stack) \in 1..Len(stack)
           /\ Last(stack) = stack[Len(stack)] /\ Last(stack) \in CallFrames
           /\ Last(stack).at \in Pointers /\ Last(stack).todo \in Seq(Pointers)
           /\ Front(stack) \in Seq(CallFrames) /\ Len(Front(stack)) = Len(stack) - 1
           /\ \A k \in 1..(Len(stack) - 1) : Front(stack)[k] = stack[k]
<1> DEFINE n == Len(stack)
<1>1. n \in Nat /\ n # 0 /\ n \in 1..n
  OBVIOUS
<1>2. Last(stack) = stack[n] /\ stack[n] \in CallFrames
  BY <1>1 DEF Last
<1>3. Front(stack) = SubSeq(stack, 1, n - 1)
  BY DEF Front
<1>4. Front(stack) \in Seq(CallFrames) /\ Len(Front(stack)) = n - 1
      /\ \A k \in 1..(n - 1) : Front(stack)[k] = stack[k]
  <2> DEFINE front == Front(stack)
  <2>1. n - 1 \in Nat /\ \A k \in 1..(n - 1) : k \in 1..n
    BY <1>1
  <2>2. \A k \in 1..n : stack[k] \in CallFrames
    OBVIOUS
  <2>3. front = [k \in 1..(n - 1) |-> stack[k]]
    <3>1. SubSeq(stack, 1, n - 1) = [k \in 1..(n - 1) |-> stack[k]]
      BY <1>1
    <3> QED
      BY <3>1, <1>3
  <2> HIDE DEF front, n
  <2>4. front \in [1..(n - 1) -> CallFrames]
    BY <2>1, <2>2, <2>3
  <2>5. front \in Seq(CallFrames) /\ Len(front) = n - 1
    BY <2>1, <2>4
  <2> QED
    BY <2>3, <2>5 DEF front
<1> QED
  BY <1>1, <1>2, <1>4 DEF CallFrames

(* When the innermost call turns to its next pointer, the walk to it is    *)
(* the only one that is neither visited nor left to expand.                *)
LEMMA TurnKeeps ==
    ASSUME NEW c, CompilationType(c), c.schema \in Schemas, c.verdict = "expanding",
           c.stack # <<>>, Progress(c, {}), Last(c.stack).todo # <<>>
    PROVE  LET p == Head(Last(c.stack).todo)
           IN  /\ p \in Pointers /\ CompilationType(Turned(c)) /\ Turned(c).schema = c.schema
               /\ Turned(c).verdict = "expanding"
               /\ Progress(Turned(c), {Append(Walk(Turned(c).stack), p)})
               /\ Append(Walk(Turned(c).stack), p) \notin Turned(c).visited
               /\ Walked(c.schema, Append(Walk(Turned(c).stack), p))
               /\ p \notin Todo(Turned(c).stack)[Len(Turned(c).stack)]
<1> DEFINE stack == c.stack
           n == Len(stack)
           top == Last(stack)
           p == Head(top.todo)
           frame == [top EXCEPT !.todo = Tail(@)]
           next == Append(Front(stack), frame)
           d == Turned(c)
           walk == Walk(stack)
           todo == Todo(stack)
           rest == Without(walk, todo, p)
<1>1. /\ stack \in Seq(CallFrames) /\ stack # <<>> /\ c.schema \in Schemas
  BY DEF CompilationType
<1>2. /\ n \in Nat /\ n # 0 /\ n \in 1..n /\ top = stack[n] /\ top \in CallFrames
      /\ top.at \in Pointers /\ top.todo \in Seq(Pointers)
      /\ Front(stack) \in Seq(CallFrames) /\ Len(Front(stack)) = n - 1
      /\ \A k \in 1..(n - 1) : Front(stack)[k] = stack[k]
  <2> HIDE DEF stack
  <2> QED
    BY <1>1, TopOf
<1>3. frame = [at |-> top.at, todo |-> Tail(top.todo)]
  <2> DEFINE tail == Tail(top.todo)
  <2>1. top \in [at : Pointers, todo : Seq(Pointers)] /\ frame = [top EXCEPT !.todo = tail]
    BY <1>2 DEF CallFrames
  <2> HIDE DEF top, tail, frame
  <2>2. frame = [at |-> top.at, todo |-> tail]
    BY <2>1
  <2> QED
    BY <2>2 DEF tail
<1>4. /\ p \in Pointers /\ p \in Range(top.todo) /\ Tail(top.todo) \in Seq(Pointers)
      /\ IsInjective(Tail(top.todo)) /\ Range(Tail(top.todo)) = Range(top.todo) \ {p}
  <2> DEFINE s == top.todo
  <2>1. s \in Seq(Pointers) /\ s # <<>> /\ IsInjective(s)
    BY <1>1, <1>2 DEF Progress
  <2> HIDE DEF s
  <2>2. /\ Head(s) \in Pointers /\ Head(s) \in Range(s) /\ Tail(s) \in Seq(Pointers)
        /\ IsInjective(Tail(s)) /\ Range(Tail(s)) = Range(s) \ {Head(s)}
    BY <2>1, TailApart
  <2> QED
    BY <2>2 DEF s
<1>5. frame \in CallFrames /\ frame.at = top.at /\ frame.todo = Tail(top.todo)
  BY <1>2, <1>3, <1>4 DEF CallFrames
<1>6. d = [schema |-> c.schema, stack |-> next, active |-> c.active, work |-> c.work, size |-> c.size,
           visited |-> c.visited, verdict |-> "expanding"]
  <2>1. d = [c EXCEPT !.stack = next]
    BY DEF Turned
  <2>2. c = [schema |-> c.schema, stack |-> stack, active |-> c.active, work |-> c.work, size |-> c.size,
             visited |-> c.visited, verdict |-> "expanding"]
    BY DEF CompilationType
  <2> HIDE DEF next, d
  <2> QED
    BY <2>1, <2>2
<1> HIDE DEF stack, n, top, p, frame
<1>7. next \in Seq(CallFrames) /\ Len(next) = n /\ next[n] = frame /\ \A k \in 1..(n - 1) : next[k] = stack[k]
  <2> DEFINE front == Front(stack)
  <2>1. front \in Seq(CallFrames) /\ Len(front) = n - 1 /\ \A k \in 1..(n - 1) : front[k] = stack[k]
    BY <1>2
  <2> HIDE DEF front
  <2>2. Append(front, frame) \in Seq(CallFrames) /\ Len(Append(front, frame)) = n
        /\ Append(front, frame)[n] = frame /\ \A k \in 1..(n - 1) : Append(front, frame)[k] = front[k]
    BY <2>1, <1>2, <1>5
  <2> QED
    BY <2>1, <2>2 DEF front
<1>8. /\ walk \in Seq(Pointers) /\ Len(walk) = n
      /\ \A k \in 1..n : walk[k] = stack[k].at /\ todo[k] = Range(stack[k].todo)
  BY <1>1, StackWalk DEF n
<1> HIDE DEF next
<1>9. /\ Walk(next) \in Seq(Pointers) /\ Len(Walk(next)) = n
      /\ \A k \in 1..n : Walk(next)[k] = next[k].at
      /\ Todo(next) = [k \in 1..n |-> Range(next[k].todo)]
  BY <1>7, StackWalk
<1>10. \A k \in 1..n : k = n \/ (k \in 1..(n - 1) /\ k # n)
  BY <1>2
<1> HIDE DEF walk, todo
<1>11. Walk(next) = walk
  <2>1. \A k \in 1..n : Walk(next)[k] = walk[k]
    BY <1>2, <1>5, <1>7, <1>8, <1>9, <1>10
  <2> DEFINE a == Walk(next)
  <2>2. a \in Seq(Pointers) /\ Len(a) = n /\ \A k \in 1..n : a[k] = walk[k]
    BY <2>1, <1>9
  <2> HIDE DEF a
  <2>3. a = [k \in 1..n |-> a[k]] /\ walk = [k \in 1..n |-> walk[k]]
    BY <2>2, <1>8
  <2>4. a = walk
    BY <2>2, <2>3
  <2> QED
    BY <2>4 DEF a
<1>12. Todo(next) = rest
  <2>1. \A k \in 1..n : Range(next[k].todo) = IF k = n THEN todo[k] \ {p} ELSE todo[k]
    BY <1>2, <1>4, <1>5, <1>7, <1>8, <1>10
  <2> QED
    BY <2>1, <1>8, <1>9 DEF Without
<1>13. /\ OngoingCalls(c.schema, walk, todo) /\ Trail(c.schema, walk, todo, c.visited)
       /\ Covers(c.schema, walk, todo, c.visited, {})
       /\ ActiveOf(c.schema, walk, c.active) /\ Counted(c)
       /\ \A k \in DOMAIN stack : IsInjective(stack[k].todo)
  BY DEF Progress, walk, todo, stack
<1>14. walk # <<>> /\ p \in todo[Len(walk)]
  BY <1>2, <1>4, <1>8
<1>15. rest[n] = todo[n] \ {p}
  BY <1>2, <1>8 DEF Without
<1>16. /\ OngoingCalls(c.schema, walk, rest) /\ Trail(c.schema, walk, rest, c.visited)
       /\ Covers(c.schema, walk, rest, c.visited, {Append(walk, p)})
       /\ Append(walk, p) \notin c.visited /\ Walked(c.schema, Append(walk, p))
  BY <1>13, <1>14, TurnsTo
<1> HIDE DEF rest
<1>17. /\ d.schema = c.schema /\ d.stack = next /\ d.active = c.active /\ d.work = c.work
       /\ d.size = c.size /\ d.visited = c.visited /\ d.verdict = "expanding"
  BY <1>6
<1>18. CompilationType(d)
  BY <1>6, <1>7 DEF CompilationType
<1> HIDE DEF d
<1>19. \A k \in DOMAIN next : IsInjective(next[k].todo)
  <2>1. DOMAIN next = 1..n /\ DOMAIN stack = 1..n
    BY <1>1, <1>7 DEF n
  <2> QED
    BY <2>1, <1>4, <1>5, <1>7, <1>10, <1>13
<1>20. Counted(d)
  BY <1>13, <1>17 DEF Counted
<1>21. Progress(d, {Append(walk, p)})
  BY <1>11, <1>12, <1>13, <1>16, <1>17, <1>19, <1>20 DEF Progress
<1>22. p \notin Todo(d.stack)[Len(d.stack)]
  BY <1>2, <1>7, <1>8, <1>12, <1>15, <1>17
<1>23. p = Head(Last(c.stack).todo)
  BY DEF p, top, stack
<1> QED
  BY <1>4, <1>11, <1>16, <1>17, <1>18, <1>21, <1>22, <1>23 DEF d

(* When expand returns, the target of its reference is active no more, and *)
(* no other reference on the walk has that target.                         *)
LEMMA ActiveLess ==
    ASSUME NEW schema, NEW walk \in Seq(Pointers), walk # <<>>, NEW active, ActiveOf(schema, walk, active),
           NEW back \in Seq(Pointers), Len(back) = Len(walk) - 1,
           \A k \in 1..(Len(walk) - 1) : back[k] = walk[k]
    PROVE  ActiveOf(schema, back,
             IF schema[walk[Len(walk)]].kind = "reference"
               THEN active \ {schema[walk[Len(walk)]].to} ELSE active)
<1> DEFINE n == Len(walk)
           p == walk[n]
           old == References(schema, walk)
           new == References(schema, back)
<1>1. n \in Nat /\ n # 0 /\ n \in 1..n /\ Len(back) = n - 1 /\ \A k \in 1..(n - 1) : back[k] = walk[k]
  OBVIOUS
<1>2. \A k \in 1..n : k = n \/ k \in 1..(n - 1)
  BY <1>1
<1>3. \A k \in 1..(n - 1) : k \in 1..n /\ k # n
  BY <1>1
<1>4. old = {k \in 1..n : schema[walk[k]].kind = "reference"}
  BY DEF References
<1>5. active = {schema[walk[k]].to : k \in old}
      /\ \A j, k \in old : schema[walk[j]].to = schema[walk[k]].to => j = k
  BY DEF ActiveOf
<1> HIDE DEF n
<1>6. new = {k \in 1..(n - 1) : schema[back[k]].kind = "reference"}
  BY <1>1 DEF References
<1> HIDE DEF p, old, new
<1>7. new = old \ {n} /\ \A k \in new : back[k] = walk[k]
  BY <1>1, <1>2, <1>3, <1>4, <1>6
<1>8. CASE schema[p].kind # "reference"
  <2>1. new = old
    BY <1>4, <1>7, <1>8 DEF p
  <2>2. active = {schema[back[k]].to : k \in new}
    BY <2>1, <1>5, <1>7
  <2>3. \A j, k \in new : schema[back[j]].to = schema[back[k]].to => j = k
    BY <2>1, <1>5, <1>7
  <2> QED
    BY <2>2, <2>3, <1>8 DEF ActiveOf, new, p, n
<1>9. CASE schema[p].kind = "reference"
  <2>1. n \in old
    BY <1>1, <1>4, <1>9 DEF p
  <2>2. active \ {schema[p].to} = {schema[back[k]].to : k \in new}
    <3>1. ASSUME NEW x \in active \ {schema[p].to}
          PROVE  x \in {schema[back[k]].to : k \in new}
      <4>1. PICK k \in old : x = schema[walk[k]].to
        BY <1>5
      <4>2. k # n
        BY <4>1, <3>1 DEF p
      <4>3. k \in new /\ x = schema[back[k]].to
        BY <4>1, <4>2, <1>7
      <4> QED
        BY <4>3
    <3>2. ASSUME NEW k \in new
          PROVE  schema[back[k]].to \in active \ {schema[p].to}
      <4>1. k \in old /\ k # n /\ back[k] = walk[k]
        BY <1>7
      <4>2. schema[walk[k]].to # schema[walk[n]].to
        BY <4>1, <2>1, <1>5
      <4> QED
        BY <4>1, <4>2, <1>5 DEF p
    <3> QED
      BY <3>1, <3>2
  <2>3. \A j, k \in new : schema[back[j]].to = schema[back[k]].to => j = k
    BY <1>5, <1>7
  <2> QED
    BY <2>2, <2>3, <1>9 DEF ActiveOf, new, p, n
<1> QED
  BY <1>8, <1>9

Returned(c, stack, active, verdict) ==
    [c EXCEPT !.stack = stack, !.active = active, !.verdict = verdict]

(* What a return of expand makes of the compilation, field by field.       *)
LEMMA CompilationReturned ==
    ASSUME NEW c, CompilationType(c), NEW x1, NEW x2, NEW x3
    PROVE  Returned(c, x1, x2, x3) =
           [schema |-> c.schema, stack |-> x1, active |-> x2, work |-> c.work, size |-> c.size,
            visited |-> c.visited, verdict |-> x3]
<1> DEFINE a == c.schema
           b == c.stack
           e == c.active
           f == c.work
           g == c.size
           h == c.visited
           v == c.verdict
<1>1. c = [schema |-> a, stack |-> b, active |-> e, work |-> f, size |-> g,
           visited |-> h, verdict |-> v]
  BY DEF CompilationType
<1> HIDE DEF a, b, e, f, g, h, v
<1> DEFINE c1 == [c EXCEPT !.stack = x1]
           c2 == [c1 EXCEPT !.active = x2]
           c3 == [c2 EXCEPT !.verdict = x3]
<1>2. Returned(c, x1, x2, x3) = c3
  BY DEF Returned
<1>3. c1 = [schema |-> a, stack |-> x1, active |-> e, work |-> f, size |-> g,
            visited |-> h, verdict |-> v]
  <2> HIDE DEF c2, c3
  <2> QED
    BY <1>1
<1>4. c2 = [schema |-> a, stack |-> x1, active |-> x2, work |-> f, size |-> g,
            visited |-> h, verdict |-> v]
  <2> HIDE DEF c1, c3
  <2> QED
    BY <1>3
<1>5. c3 = [schema |-> a, stack |-> x1, active |-> x2, work |-> f, size |-> g,
            visited |-> h, verdict |-> x3]
  <2> HIDE DEF c1, c2
  <2> QED
    BY <1>4
<1> HIDE DEF c3
<1> QED
  BY <1>2, <1>5 DEF a, f, g, h

(* A return of expand makes progress; with the outermost call all walks    *)
(* are visited, and the verdict is right.                                  *)
LEMMA ReturnKeeps ==
    ASSUME NEW c, CompilationType(c), c.schema \in Schemas, c.verdict = "expanding",
           c.stack # <<>>, Progress(c, {}), Last(c.stack).todo = <<>>
    PROVE  CompileInv(Return(c)) /\ Return(c).schema = c.schema
<1> DEFINE schema == c.schema
           stack == c.stack
           n == Len(stack)
           node == schema[Last(stack).at]
           front == Front(stack)
           active == IF node.kind = "reference" THEN c.active \ {node.to} ELSE c.active
           verdict == IF n > 1 THEN "expanding" ELSE IF c.size <= MaxExpanded THEN "good" ELSE "refused"
           walk == Walk(stack)
           todo == Todo(stack)
           back == Walk(front)
           rest == Shortened(walk, todo)
           d == [schema |-> c.schema, stack |-> front, active |-> active, work |-> c.work,
                 size |-> c.size, visited |-> c.visited, verdict |-> verdict]
<1>1. /\ stack \in Seq(CallFrames) /\ stack # <<>> /\ schema \in Schemas /\ c.active \subseteq Pointers
      /\ c.work \in Nat /\ c.size \in Nat /\ c.visited \subseteq Seq(Pointers)
  BY DEF CompilationType
<1>2. Return(c) = d
  <2>1. Return(c) = Returned(c, front, active, verdict)
    BY DEF Return, Returned
  <2> HIDE DEF front, active, verdict
  <2> QED
    BY <2>1, CompilationReturned
<1>3. /\ n \in Nat /\ n # 0 /\ n \in 1..n /\ Last(stack) = stack[n]
      /\ front \in Seq(CallFrames) /\ Len(front) = n - 1
      /\ \A k \in 1..(n - 1) : front[k] = stack[k]
  <2> HIDE DEF stack
  <2> QED
    BY <1>1, TopOf
<1>4. /\ walk \in Seq(Pointers) /\ Len(walk) = n
      /\ \A k \in 1..n : walk[k] = stack[k].at /\ todo[k] = Range(stack[k].todo)
  BY <1>1, StackWalk DEF n
<1>5. /\ OngoingCalls(schema, walk, todo) /\ Trail(schema, walk, todo, c.visited)
      /\ Covers(schema, walk, todo, c.visited, {})
      /\ ActiveOf(schema, walk, c.active) /\ Counted(c)
      /\ \A k \in DOMAIN stack : IsInjective(stack[k].todo)
  BY DEF Progress
<1>6. Last(stack).todo = <<>>
  OBVIOUS
<1> HIDE DEF front, n
<1>7. /\ back \in Seq(Pointers) /\ Len(back) = n - 1
      /\ \A k \in 1..(n - 1) : back[k] = front[k].at
      /\ Todo(front) = [k \in 1..(n - 1) |-> Range(front[k].todo)]
  BY <1>3, StackWalk
<1> HIDE DEF stack, walk, todo, back
<1>8. \A k \in 1..(n - 1) : k \in 1..n
  BY <1>3
<1>9. /\ Len(back) = Len(walk) - 1 /\ \A k \in 1..(Len(walk) - 1) : back[k] = walk[k]
      /\ walk # <<>>
  BY <1>3, <1>4, <1>7, <1>8
<1>10. Todo(front) = rest
  <2>1. \A k \in 1..(n - 1) : Range(front[k].todo) = todo[k]
    BY <1>3, <1>4, <1>8
  <2> QED
    BY <2>1, <1>4, <1>7 DEF Shortened
<1>11. todo[Len(walk)] = {}
  <2>1. Range(<<>>) = {}
    BY DEF Range
  <2> QED
    BY <2>1, <1>3, <1>4, <1>6
<1>12. /\ OngoingCalls(schema, back, rest) /\ Trail(schema, back, rest, c.visited)
       /\ Covers(schema, back, rest, c.visited, {})
  <2> HIDE DEF schema
  <2> QED
    BY <1>5, <1>7, <1>9, <1>11, ComesBack
<1>13. ActiveOf(schema, back, active) /\ active \subseteq Pointers
  <2>1. node = schema[walk[Len(walk)]]
    BY <1>3, <1>4
  <2>2. ActiveOf(schema, back,
             IF schema[walk[Len(walk)]].kind = "reference"
               THEN c.active \ {schema[walk[Len(walk)]].to} ELSE c.active)
    <3> HIDE DEF schema
    <3> QED
      BY <1>4, <1>5, <1>7, <1>9, ActiveLess
  <2> QED
    BY <2>1, <2>2, <1>1
<1>14. \A k \in DOMAIN front : IsInjective(front[k].todo)
  <2>1. DOMAIN front = 1..(n - 1) /\ DOMAIN stack = 1..n
    BY <1>1, <1>3 DEF n
  <2> QED
    BY <2>1, <1>3, <1>5, <1>8
<1> HIDE DEF rest, active, node
<1>15. verdict \in {"expanding", "good", "refused"}
  OBVIOUS
<1> HIDE DEF verdict
<1>16. /\ d.schema = c.schema /\ d.stack = front /\ d.active = active /\ d.work = c.work
       /\ d.size = c.size /\ d.visited = c.visited /\ d.verdict = verdict
  OBVIOUS
<1>17. CompilationType(d)
  BY <1>1, <1>3, <1>13, <1>15 DEF CompilationType
<1> HIDE DEF d
<1>18. Counted(d)
  BY <1>5, <1>16 DEF Counted
<1>19. Progress(d, {})
  BY <1>5, <1>10, <1>12, <1>13, <1>14, <1>16, <1>18 DEF Progress, back
<1>20. CASE n > 1
  <2>1. front # <<>> /\ verdict = "expanding"
    BY <1>3, <1>20 DEF verdict
  <2>2. CompileInv(d)
    BY <2>1, <1>1, <1>16, <1>17, <1>19 DEF CompileInv
  <2> QED
    BY <2>2, <1>2, <1>16
<1>21. CASE ~(n > 1)
  <2>1. n - 1 = 0 /\ Len(back) = 0 /\ 1..Len(back) = {}
    BY <1>3, <1>7, <1>21
  <2>2. <<Root>> \in c.visited
        /\ \A w \in c.visited : \A p \in After(schema, w[Len(w)]) : Append(w, p) \in c.visited
    BY <2>1, <1>12 DEF Covers
  <2>3. IsFiniteSet(c.visited) /\ \A w \in c.visited : Walked(schema, w) /\ Known(schema, w[Len(w)])
    BY <1>12 DEF Trail
  <2>4. c.work = WorkOf(schema, c.visited) /\ c.work <= MaxSchemaWork
        /\ \A w \in c.visited : Len(w) <= c.work
    BY <1>5 DEF Counted
  <2>5. /\ Walks(schema) = c.visited
        /\ Bounded(schema) <=> Cardinality(Expansion(schema, c.visited)) <= MaxExpanded
    <3> HIDE DEF schema
    <3> QED
      BY <2>2, <2>3, <2>4, <1>1, Settles
  <2>6. c.size = Cardinality(Expansion(schema, c.visited))
    BY <1>5 DEF Counted
  <2>7. schema # NoSchema
    BY <1>1, SchemaAssumption
  <2>8. /\ verdict = IF c.size <= MaxExpanded THEN "good" ELSE "refused"
    BY <1>21 DEF verdict
  <2>9. c.work = SchemaWork(schema) /\ c.size = ExpandedSize(schema)
    BY <2>4, <2>5, <2>6, <2>7 DEF SchemaWork, ExpandedSize, Visits
  <2>10. GoodSchema(schema) <=> c.size <= MaxExpanded
    BY <2>5, <2>6, <2>7 DEF GoodSchema
  <2>11. CompileInv(d)
    BY <2>8, <2>9, <2>10, <1>16, <1>17 DEF CompileInv
  <2> QED
    BY <2>11, <1>2, <1>16
<1> QED
  BY <1>20, <1>21

(* A step of the compilation keeps it right, whatever the schema is.       *)
LEMMA ExpandKeeps ==
    ASSUME NEW c, CompileInv(c), c.verdict = "expanding"
    PROVE  CompileInv(Expand(c)) /\ Expand(c).schema = c.schema
<1>1. CompilationType(c) /\ c.schema \in Schemas /\ c.stack # <<>> /\ Progress(c, {})
  BY DEF CompileInv
<1>2. CASE Last(c.stack).todo = <<>>
  <2>1. Expand(c) = Return(c)
    BY <1>2 DEF Expand
  <2> QED
    BY <2>1, <1>1, <1>2, ReturnKeeps
<1>3. CASE Last(c.stack).todo # <<>>
  <2> DEFINE p == Head(Last(c.stack).todo)
             d == Turned(c)
  <2>1. Expand(c) = Call(d, p)
    BY <1>3 DEF Expand, Turned
  <2>2. /\ p \in Pointers /\ CompilationType(d) /\ d.schema = c.schema
        /\ d.verdict = "expanding" /\ Progress(d, {Append(Walk(d.stack), p)})
        /\ Append(Walk(d.stack), p) \notin d.visited
        /\ Walked(c.schema, Append(Walk(d.stack), p))
        /\ p \notin Todo(d.stack)[Len(d.stack)]
    BY <1>1, <1>3, TurnKeeps
  <2> HIDE DEF p, d
  <2>3. CompileInv(Call(d, p)) /\ Call(d, p).schema = d.schema
    BY <2>2, <1>1, CallKeeps
  <2> QED
    BY <2>1, <2>2, <2>3
<1> QED
  BY <1>2, <1>3

(* What was opened before i.                                               *)
Before(i) == [j \in DOMAIN seen \ {i} |-> seen[j]]

(* While the definitions are loaded, those opened come before those still  *)
(* named.                                                                  *)
Loading ==
    /\ names \in Seq(Nat)
    /\ \A k, m \in DOMAIN names : k < m => names[k] < names[m]
    /\ \A i \in DOMAIN seen, k \in DOMAIN names : i < names[k]
    /\ \A i : i \in Listed <=> (i \in DOMAIN seen \/ \E k \in DOMAIN names : names[k] = i)

(* The registry has the first usable ones of what was opened.              *)
Registered(opened) ==
    /\ bytes = Bytes(opened) /\ bytes <= MaxRegistry
    /\ commands = FirstUsable(opened)

(* The definition opened last is being compiled and not registered yet.    *)
Pending ==
    /\ \E i \in DOMAIN seen :
         /\ \A j \in DOMAIN seen \ {i} : j < i
         /\ seen[i] = opening[1] /\ Registered(Before(i))
    /\ TrustedFile(opening[1].place) /\ WellFormed(opening[1]) /\ ValidExecutable(opening[1].handler)
    /\ CompileInv(compiling)
    /\ stage = "input" => opening = <<opening[1]>> /\ compiling.schema = opening[1].input
    /\ stage = "output" =>
         /\ compiling.schema = opening[1].output
         /\ GoodSchema(opening[1].input)
         /\ opening[2].work = SchemaWork(opening[1].input)
         /\ opening[2].size = ExpandedSize(opening[1].input)

DirectoryType ==
    /\ directory = [place |-> directory.place, files |-> directory.files]
    /\ directory.files \in Seq(Definitions)

RegistryType ==
    /\ DirectoryType
    /\ stage \in {"list", "load", "input", "output", "ready"}
    /\ seen \in [DOMAIN seen -> Definitions]
    /\ DOMAIN seen \subseteq DOMAIN directory.files

RegistryInv ==
    /\ RegistryType
    /\ stage = "list" => (seen = Empty /\ commands = Empty /\ bytes = 0)
    /\ stage \in {"load", "input", "output"} => Loading
    /\ stage = "load" => Registered(seen)
    /\ stage \in {"input", "output"} => Pending
    /\ LoadsFirstValid
    /\ ValidationAffordable

(* What opening another definition does to those opened, which come before *)
(* it, and what registering it does.                                       *)
Opening(opened, i, file) ==
    [j \in DOMAIN opened \union {i} |-> IF j = i THEN file ELSE opened[j]]

Adding(registry, file) ==
    [c \in DOMAIN registry \union {file.command} |->
        IF c \in DOMAIN registry THEN registry[c] ELSE Loaded(file)]

(* Opening a definition makes it usable if it is valid, and no other.      *)
LEMMA UsableMore ==
    ASSUME NEW opened, NEW i, i \notin DOMAIN opened, NEW file
    PROVE  /\ DOMAIN Opening(opened, i, file) = DOMAIN opened \union {i}
           /\ Opening(opened, i, file)[i] = file
           /\ \A j \in DOMAIN opened : Opening(opened, i, file)[j] = opened[j]
           /\ Usable(Opening(opened, i, file)) =
                IF Valid(file) THEN Usable(opened) \union {i} ELSE Usable(opened)
BY DEF Opening, Usable

(* A definition takes a number of bytes of the limit.                      *)
LEMMA DefinitionSized ==
    ASSUME NEW file \in Definitions
    PROVE  /\ file.bytes \in Nat /\ file.input \in Schemas \union {NoSchema}
           /\ file.output \in Schemas \union {NoSchema}
           /\ ExpandedSize(file.input) \in Nat /\ ExpandedSize(file.output) \in Nat
           /\ Size(file) \in Nat
<1>1. file.bytes \in Nat /\ file.input \in Schemas \union {NoSchema}
      /\ file.output \in Schemas \union {NoSchema}
  BY RegistryAssumption
<1>2. ASSUME NEW schema
      PROVE  ExpandedSize(schema) \in Nat
  <2>1. Expansion(schema, Walks(schema)) \in SUBSET Walks(schema)
    BY DEF Expansion
  <2>2. Cardinality(Expansion(schema, Walks(schema))) \in Nat
    BY <2>1, WalksFinite, FS_Subset, FS_CardinalityType
  <2> QED
    BY <2>2 DEF ExpandedSize
<1>3. ExpandedSize(file.input) \in Nat /\ ExpandedSize(file.output) \in Nat
  BY <1>2
<1> DEFINE a == file.bytes
           b == ExpandedSize(file.input)
           d == ExpandedSize(file.output)
<1>4. a + b + d \in Nat
  <2>1. a \in Nat /\ b \in Nat /\ d \in Nat
    BY <1>1, <1>3
  <2> HIDE DEF a, b, d
  <2> QED
    BY <2>1
<1>5. Size(file) = a + b + d
  BY DEF Size
<1> QED
  BY <1>1, <1>3, <1>4, <1>5

(* Opening a valid definition adds its size to that of the usable ones.    *)
LEMMA BytesMore ==
    ASSUME NEW opened, IsFiniteSet(DOMAIN opened), \A j \in DOMAIN opened : opened[j] \in Definitions,
           NEW i, i \notin DOMAIN opened, NEW file \in Definitions
    PROVE  /\ Bytes(opened) \in Nat
           /\ Bytes(Opening(opened, i, file)) =
                IF Valid(file) THEN Bytes(opened) + Size(file) ELSE Bytes(opened)
<1> DEFINE next == Opening(opened, i, file)
           old == Usable(opened)
           new == Usable(next)
           before == [j \in old |-> Size(opened[j])]
           after == [j \in new |-> Size(next[j])]
<1>1. old \in SUBSET DOMAIN opened /\ i \notin old
  BY DEF Usable
<1>2. IsFiniteSet(old)
  <2> HIDE DEF old
  <2> QED
    BY <1>1, FS_Subset
<1>3. /\ next[i] = file /\ \A j \in DOMAIN opened : next[j] = opened[j]
  BY DEF Opening
<1>4. new = IF Valid(file) THEN old \union {i} ELSE old
  BY UsableMore
<1>5. Bytes(opened) = Total(before, old) /\ Bytes(next) = Total(after, new)
  BY DEF Bytes
<1> HIDE DEF next, old, new
<1>6. \A j \in old : before[j] = Size(opened[j]) /\ before[j] \in Nat
  BY <1>1, DefinitionSized
<1>7. \A j \in old : j \in new /\ after[j] = before[j] /\ after[j] \in Nat
  <2>1. \A j \in old : j \in new /\ next[j] = opened[j]
    BY <1>1, <1>3, <1>4
  <2> QED
    BY <2>1, <1>6
<1>8. i \in new => after[i] = Size(file) /\ after[i] \in Nat
  BY <1>3, DefinitionSized
<1> HIDE DEF before, after
<1>9. Total(before, old) \in Nat
  BY <1>2, <1>6, UnitsFinite
<1>10. Total(after, old) = Total(before, old)
  BY <1>7, TotalSame
<1>11. CASE ~Valid(file)
  BY <1>4, <1>5, <1>9, <1>10, <1>11 DEF next
<1>12. CASE Valid(file)
  <2>1. new = old \union {i} /\ i \in new
    BY <1>4, <1>12
  <2>2. Total(after, old \union {i}) = Total(after, old) + after[i]
    BY <2>1, <1>1, <1>2, <1>7, <1>8, TotalMore
  <2> QED
    BY <2>1, <2>2, <1>5, <1>8, <1>9, <1>10, <1>12 DEF next
<1> QED
  BY <1>11, <1>12

(* A definition that is opened later than all others counts only if it is  *)
(* valid and none of them has its name.                                    *)
LEMMA FirstMore ==
    ASSUME NEW opened, IsFiniteSet(DOMAIN opened), DOMAIN opened \subseteq Nat,
           NEW i \in Nat, \A j \in DOMAIN opened : j < i, NEW file
    PROVE  FirstUsable(Opening(opened, i, file)) =
             IF Valid(file) THEN Adding(FirstUsable(opened), file) ELSE FirstUsable(opened)
<1> DEFINE next == Opening(opened, i, file)
           old == Usable(opened)
           Named(from, of, c) == {j \in from : of[j].command = c}
<1>1. i \notin DOMAIN opened
  <2>1. ~(i < i)
    OBVIOUS
  <2> QED
    BY <2>1
<1>2. /\ next[i] = file /\ \A j \in old : next[j] = opened[j]
      /\ Usable(next) = IF Valid(file) THEN old \union {i} ELSE old
      /\ i \notin old
  <2>1. old \subseteq DOMAIN opened
    BY DEF Usable
  <2>2. /\ next[i] = file /\ \A j \in DOMAIN opened : next[j] = opened[j]
        /\ Usable(next) = IF Valid(file) THEN old \union {i} ELSE old
    <3>1. next[i] = file /\ \A j \in DOMAIN opened : next[j] = opened[j]
      BY <1>1 DEF Opening
    <3>2. Usable(next) = IF Valid(file) THEN old \union {i} ELSE old
      BY <1>1, UsableMore
    <3> QED
      BY <3>1, <3>2
  <2> HIDE DEF next, old
  <2> QED
    BY <1>1, <2>1, <2>2
<1>3. old \in SUBSET Nat /\ IsFiniteSet(old)
  <2>1. old \in SUBSET DOMAIN opened
    BY DEF Usable
  <2> QED
    BY <2>1, FS_Subset
<1>4. \A j \in old : j < i
  BY DEF Usable
<1>5. FirstUsable(opened) = [c \in {opened[j].command : j \in old} |-> Loaded(opened[Min(Named(old, opened, c))])]
  BY DEF FirstUsable
<1>6. FirstUsable(next) = [c \in {next[j].command : j \in Usable(next)} |->
                             Loaded(next[Min(Named(Usable(next), next, c))])]
  BY DEF FirstUsable
<1> HIDE DEF next, old
<1>7. \A c \in {opened[j].command : j \in old} :
        /\ Min(Named(old, opened, c)) \in old
        /\ \A x \in Named(old, opened, c) : Min(Named(old, opened, c)) <= x
        /\ Min(Named(old, opened, c)) \in Named(old, opened, c)
  <2> TAKE c \in {opened[j].command : j \in old}
  <2>1. Named(old, opened, c) \in SUBSET old /\ Named(old, opened, c) # {}
    OBVIOUS
  <2>2. IsFiniteSet(Named(old, opened, c)) /\ Named(old, opened, c) \in SUBSET Nat
    BY <2>1, <1>3, FS_Subset
  <2> HIDE DEF Named
  <2> QED
    BY <2>1, <2>2, LeastOf
<1>8. \A c : Named(old, next, c) = Named(old, opened, c)
  BY <1>2
<1>9. CASE ~Valid(file)
  <2>1. Usable(next) = old
    BY <1>2, <1>9
  <2>2. {next[j].command : j \in old} = {opened[j].command : j \in old}
    BY <1>2
  <2>3. \A c \in {opened[j].command : j \in old} :
          next[Min(Named(old, next, c))] = opened[Min(Named(old, opened, c))]
    <3> HIDE DEF Named
    <3> TAKE c \in {opened[j].command : j \in old}
    <3>1. Named(old, next, c) = Named(old, opened, c)
      BY <1>8
    <3>2. Min(Named(old, opened, c)) \in old
      BY <1>7
    <3> QED
      BY <3>1, <3>2, <1>2
  <2> HIDE DEF Named
  <2>4. FirstUsable(next) = FirstUsable(opened)
    BY <2>1, <2>2, <2>3, <1>5, <1>6
  <2> QED
    BY <2>4, <1>9 DEF next
<1>10. CASE Valid(file)
  <2> DEFINE known == {opened[j].command : j \in old}
             both == old \union {i}
  <2>1. Usable(next) = both
    BY <1>2, <1>10
  <2>2. {next[j].command : j \in both} = known \union {file.command}
    BY <1>2
  <2>3. IsFiniteSet(both) /\ both \in SUBSET Nat
    BY <1>3, FS_AddElement
  <2>4. ASSUME NEW c \in known
        PROVE  next[Min(Named(both, next, c))] = opened[Min(Named(old, opened, c))]
    <3> DEFINE m == Min(Named(old, opened, c))
    <3>1. m \in old /\ m \in Named(old, opened, c) /\ \A x \in Named(old, opened, c) : m <= x
      BY <1>7
    <3>2. Named(both, next, c) \in SUBSET both
      OBVIOUS
    <3>3. IsFiniteSet(Named(both, next, c)) /\ Named(both, next, c) \in SUBSET Nat
      BY <2>3, <3>2, FS_Subset
    <3> HIDE DEF m
    <3>4. m \in Named(both, next, c)
      BY <3>1, <1>2
    <3>5. ASSUME NEW x \in Named(both, next, c)
          PROVE  m <= x
      <4>1. CASE x = i
        <5>1. m < i /\ m \in Nat
          BY <3>1, <1>3, <1>4
        <5> QED
          BY <4>1, <5>1
      <4>2. CASE x # i
        <5>1. x \in Named(old, opened, c)
          BY <4>2, <1>2
        <5> QED
          BY <5>1, <3>1
      <4> QED
        BY <4>1, <4>2
    <3> HIDE DEF Named, both
    <3>6. Min(Named(both, next, c)) = m
      BY <3>3, <3>4, <3>5, LeastIs
    <3> QED
      BY <3>6, <3>1, <1>2 DEF m
  <2>5. ASSUME file.command \notin known
        PROVE  next[Min(Named(both, next, file.command))] = file
    <3>1. Named(both, next, file.command) = {i}
      BY <2>5, <1>2
    <3>2. Min({i}) = i
      BY FS_Singleton, LeastIs
    <3> HIDE DEF Named
    <3> QED
      BY <3>1, <3>2, <1>2
  <2> HIDE DEF Named, both, known
  <2>6. DOMAIN FirstUsable(opened) = known
    BY <1>5 DEF known
  <2>7. \A c \in known : FirstUsable(opened)[c] = Loaded(opened[Min(Named(old, opened, c))])
    BY <1>5 DEF known
  <2>8. FirstUsable(next) = [c \in known \union {file.command} |-> Loaded(next[Min(Named(both, next, c))])]
    BY <1>6, <2>1, <2>2
  <2>9. \A c \in known \union {file.command} :
          Loaded(next[Min(Named(both, next, c))]) =
            IF c \in known THEN FirstUsable(opened)[c] ELSE Loaded(file)
    BY <2>4, <2>5, <2>7
  <2>10. FirstUsable(next) = Adding(FirstUsable(opened), file)
    BY <2>6, <2>8, <2>9 DEF Adding
  <2> QED
    BY <2>10, <1>10 DEF next
<1> QED
  BY <1>9, <1>10

(* Before a definition is opened the registry is empty.                    *)
LEMMA NothingOpened ==
    DOMAIN Empty = {} /\ FirstUsable(Empty) = Empty /\ Bytes(Empty) = 0
<1>1. DOMAIN Empty = {}
  BY DEF Empty
<1>2. Usable(Empty) = {}
  BY <1>1 DEF Usable
<1>3. FirstUsable(Empty) = Empty
  <2>1. {Empty[i].command : i \in Usable(Empty)} = {}
    BY <1>2
  <2> QED
    BY <2>1 DEF FirstUsable, Empty
<1>4. Bytes(Empty) = 0
  BY <1>2, TotalNone DEF Bytes
<1> QED
  BY <1>1, <1>3, <1>4

(* Finitely many definitions were opened.                                  *)
LEMMA SeenFinite ==
    ASSUME RegistryType
    PROVE  DOMAIN seen \subseteq Nat /\ IsFiniteSet(DOMAIN seen) /\ IsFiniteSet(Listed) /\ Listed \in SUBSET Nat
<1> DEFINE n == Len(directory.files)
<1>1. n \in Nat /\ DOMAIN directory.files = 1..n
  BY DEF RegistryType, DirectoryType
<1>2. IsFiniteSet(1..n) /\ 1..n \subseteq Nat
  BY <1>1, FS_Interval
<1>3. DOMAIN seen \in SUBSET (1..n) /\ Listed \in SUBSET (1..n)
  BY <1>1 DEF RegistryType, Listed
<1> HIDE DEF n
<1> QED
  BY <1>2, <1>3, FS_Subset

(* The agent starts with nothing listed.                                   *)
LEMMA RegistryInitially == RegistryInit => RegistryInv
<1> SUFFICES ASSUME RegistryInit PROVE RegistryInv
  OBVIOUS
<1>1. directory \in Directories /\ stage = "list" /\ seen = Empty /\ commands = Empty /\ bytes = 0
      /\ validated = <<>>
  BY DEF RegistryInit
<1>2. DirectoryType
  <2>1. directory = [place |-> directory.place, files |-> directory.files]
        /\ directory.files \in Seq(Range(directory.files))
    BY <1>1, RegistryAssumption
  <2>2. Range(directory.files) \subseteq Definitions
    BY <1>1 DEF Definitions
  <2>3. directory.files \in Seq(Definitions)
    BY <2>1, <2>2
  <2> QED
    BY <2>1, <2>3 DEF DirectoryType
<1>3. RegistryType
  <2>1. seen \in [DOMAIN seen -> Definitions] /\ DOMAIN seen \subseteq DOMAIN directory.files
    BY <1>1, NothingOpened DEF Empty
  <2> QED
    BY <1>1, <1>2, <2>1 DEF RegistryType
<1> QED
  BY <1>1, <1>3 DEF RegistryInv, LoadsFirstValid, ValidationAffordable

(* The directory is listed in order, or there are no commands.             *)
LEMMA ListKeeps == RegistryInv /\ List => RegistryInv'
<1> SUFFICES ASSUME RegistryInv, List PROVE RegistryInv'
  OBVIOUS
<1>1. /\ seen = Empty /\ commands = Empty /\ bytes = 0 /\ RegistryType
      /\ seen' = seen /\ directory' = directory /\ bytes' = bytes /\ validated' = validated
      /\ ValidationAffordable
  BY DEF RegistryInv, List
<1>2. Listed' = Listed
  BY <1>1 DEF Listed
<1>3. stage' \in {"load", "ready"}
  BY DEF List, Fail
<1>4. RegistryType'
  BY <1>1, <1>3 DEF RegistryType, DirectoryType
<1>7. ValidationAffordable'
  BY <1>1 DEF ValidationAffordable
<1>5. CASE stage' = "load"
  <2>1. names' = Sorted(Listed) /\ commands' = commands
    BY <1>5 DEF List, Fail
  <2> DEFINE n == Cardinality(Listed)
             s == Sorted(Listed)
  <2>2. n \in Nat
    BY <1>1, SeenFinite, FS_CardinalityType
  <2>3. /\ s \in [1..n -> Listed]
        /\ \A k, m \in 1..n : k < m => s[k] < s[m]
        /\ \A x \in Listed : \E k \in 1..n : s[k] = x
    BY <1>1, SeenFinite, SortedRight
  <2>4. Listed \subseteq Nat
    BY <1>1, SeenFinite
  <2> HIDE DEF n, s
  <2>5. s \in Seq(Nat) /\ DOMAIN s = 1..n
    <3>1. s \in [1..n -> Nat]
      BY <2>3, <2>4
    <3> QED
      BY <2>2, <3>1
  <2>6. DOMAIN seen = {} /\ FirstUsable(seen) = Empty /\ Bytes(seen) = 0
    BY <1>1, NothingOpened
  <2>7. \A i : i \in Listed <=> \E k \in DOMAIN s : s[k] = i
    BY <2>3, <2>5
  <2>8. MaxRegistry \in Nat
    BY RegistryAssumption
  <2>9. names' = s
    BY <2>1 DEF s
  <2>10. Registered(seen)'
    <3>1. bytes' = 0 /\ commands' = Empty /\ seen' = Empty
      BY <1>1, <2>1
    <3>2. Bytes(seen') = 0 /\ FirstUsable(seen') = Empty
      BY <1>1, <2>6
    <3> QED
      BY <3>1, <3>2, <2>8 DEF Registered
  <2>11. Loading'
    BY <1>1, <1>2, <2>3, <2>5, <2>6, <2>7, <2>9 DEF Loading
  <2> QED
    BY <1>4, <1>5, <1>7, <2>10, <2>11 DEF RegistryInv, LoadsFirstValid
<1>6. CASE stage' = "ready"
  <2>1. commands' = Empty
    BY <1>6 DEF List, Fail
  <2>2. FirstUsable(seen') = Empty
    BY <1>1, NothingOpened
  <2>3. LoadsFirstValid'
    BY <2>1, <2>2 DEF LoadsFirstValid
  <2> QED
    BY <1>4, <1>6, <1>7, <2>3 DEF RegistryInv
<1> QED
  BY <1>3, <1>5, <1>6

(* The names after the first one, which comes before all of them.          *)
LEMMA RestNamed ==
    ASSUME NEW q \in Seq(Nat), q # <<>>, \A k, m \in DOMAIN q : k < m => q[k] < q[m]
    PROVE  /\ Head(q) \in Nat /\ 1 \in DOMAIN q /\ q[1] = Head(q) /\ Tail(q) \in Seq(Nat)
           /\ \A k, m \in DOMAIN Tail(q) : k < m => Tail(q)[k] < Tail(q)[m]
           /\ \A k \in DOMAIN Tail(q) : Head(q) < Tail(q)[k]
           /\ \A i : (\E k \in DOMAIN q : q[k] = i) <=> (i = Head(q) \/ \E k \in DOMAIN Tail(q) : Tail(q)[k] = i)
<1> DEFINE n == Len(q)
           t == Tail(q)
<1>1. n \in Nat /\ n # 0 /\ DOMAIN q = 1..n /\ Head(q) = q[1] /\ Head(q) \in Nat
  OBVIOUS
<1>2. t \in Seq(Nat) /\ Len(t) = n - 1 /\ DOMAIN t = 1..(n - 1) /\ \A k \in 1..(n - 1) : t[k] = q[k + 1]
  BY <1>1
<1> HIDE DEF n, t
<1>3. \A k \in 1..(n - 1) : k + 1 \in 1..n /\ 1 < k + 1
  BY <1>1
<1>4. 1 \in 1..n
  BY <1>1
<1>5. \A k, m \in DOMAIN t : k < m => t[k] < t[m]
  <2> SUFFICES ASSUME NEW k \in 1..(n - 1), NEW m \in 1..(n - 1), k < m
               PROVE  t[k] < t[m]
    BY <1>2
  <2>1. k + 1 < m + 1
    BY <1>1
  <2> QED
    BY <2>1, <1>1, <1>2, <1>3
<1>6. \A k \in DOMAIN t : q[1] < t[k]
  BY <1>1, <1>2, <1>3, <1>4
<1>7. ASSUME NEW i
      PROVE  (\E k \in DOMAIN q : q[k] = i) <=> (i = q[1] \/ \E k \in DOMAIN t : t[k] = i)
  <2>1. ASSUME NEW k \in 1..n, q[k] = i, i # q[1]
        PROVE  \E m \in DOMAIN t : t[m] = i
    <3>1. k - 1 \in 1..(n - 1) /\ (k - 1) + 1 = k
      BY <1>1, <2>1
    <3> QED
      BY <3>1, <1>2, <2>1
  <2>2. ASSUME NEW k \in DOMAIN t, t[k] = i
        PROVE  \E m \in DOMAIN q : q[m] = i
    BY <2>2, <1>1, <1>2, <1>3
  <2> QED
    BY <2>1, <2>2, <1>1, <1>4
<1> QED
  BY <1>1, <1>2, <1>4, <1>5, <1>6, <1>7 DEF t

(* A sequence that is appended to.                                         *)
LEMMA AppendTo ==
    ASSUME NEW S, NEW s \in Seq(S), NEW x \in S
    PROVE  /\ Append(s, x)[Len(s) + 1] = x
           /\ \A k \in 1..Len(s) : Append(s, x)[k] = s[k]
OBVIOUS

(* What opening the next definition does to the history and the rest.      *)
LEMMA OpensNext ==
    ASSUME RegistryInv, OpenNext
    PROVE  /\ Registered(seen) /\ stage = "load" /\ names # <<>>
           /\ Head(names) \in Nat /\ Head(names) \notin DOMAIN seen
           /\ \A j \in DOMAIN seen : j \in Nat /\ j < Head(names)
           /\ IsFiniteSet(DOMAIN seen) /\ \A j \in DOMAIN seen : seen[j] \in Definitions
           /\ seen' = Opening(seen, Head(names), directory.files[Head(names)])
           /\ DOMAIN seen' = DOMAIN seen \union {Head(names)}
           /\ directory.files[Head(names)] \in Definitions
           /\ RegistryType' /\ Loading'
<1> DEFINE i == Head(names)
           file == directory.files[i]
           t == Tail(names)
<1>1. RegistryType /\ Loading /\ Registered(seen) /\ stage = "load" /\ names # <<>>
      /\ directory' = directory /\ names' = t
  BY DEF RegistryInv, OpenNext
<1>2. /\ i \in Nat /\ 1 \in DOMAIN names /\ names[1] = i
  BY <1>1, RestNamed DEF Loading
<1>3. i \in Listed /\ \A j \in DOMAIN seen : j < i
  BY <1>1, <1>2 DEF Loading
<1>4. seen' = Opening(seen, i, file)
  BY DEF OpenNext, Opening
<1>5. i \in DOMAIN directory.files /\ file \in Definitions
  <2>1. i \in DOMAIN directory.files
    BY <1>3 DEF Listed
  <2>2. directory.files \in Seq(Definitions)
    BY <1>1 DEF RegistryType, DirectoryType
  <2> HIDE DEF i
  <2> QED
    BY <2>1, <2>2
<1>6. Listed' = Listed
  BY <1>1 DEF Listed
<1>7. DOMAIN seen' = DOMAIN seen \union {i}
  BY <1>4 DEF Opening
<1>8. stage' \in {"load", "input"}
  BY <1>1 DEF OpenNext
<1>9. DOMAIN seen \subseteq Nat /\ IsFiniteSet(DOMAIN seen)
  BY <1>1, SeenFinite
<1>10. /\ t \in Seq(Nat)
       /\ \A k, m \in DOMAIN t : k < m => t[k] < t[m]
       /\ \A k \in DOMAIN t : i < t[k]
       /\ \A j : (\E k \in DOMAIN names : names[k] = j) <=> (j = i \/ \E k \in DOMAIN t : t[k] = j)
  BY <1>1, RestNamed DEF Loading
<1> HIDE DEF i, file, t
<1>11. seen \in [DOMAIN seen -> Definitions] /\ seen' \in [DOMAIN seen' -> Definitions]
  <2>1. seen \in [DOMAIN seen -> Definitions]
    BY <1>1 DEF RegistryType
  <2> QED
    BY <2>1, <1>4, <1>5, <1>7 DEF Opening
<1>12. DOMAIN seen' \subseteq DOMAIN directory'.files
  BY <1>1, <1>5, <1>7 DEF RegistryType
<1>13. RegistryType'
  <2>1. DirectoryType'
    BY <1>1 DEF RegistryType, DirectoryType
  <2> QED
    BY <2>1, <1>8, <1>11, <1>12 DEF RegistryType
<1>14. ASSUME NEW j \in DOMAIN seen', NEW k \in DOMAIN t
       PROVE  j < t[k]
  <2>1. t[k] \in Nat /\ i < t[k] /\ i \in Nat
    BY <1>2, <1>10
  <2>2. CASE j = i
    BY <2>1, <2>2
  <2>3. CASE j \in DOMAIN seen
    <3>1. j \in Nat /\ j < i
      BY <2>3, <1>3, <1>9
    <3> QED
      BY <3>1, <2>1
  <2> QED
    BY <2>2, <2>3, <1>7
<1>15. \A j : j \in Listed <=> (j \in DOMAIN seen' \/ \E k \in DOMAIN t : t[k] = j)
  <2>1. \A j : j \in Listed <=> (j \in DOMAIN seen \/ \E k \in DOMAIN names : names[k] = j)
    BY <1>1 DEF Loading
  <2> QED
    BY <2>1, <1>7, <1>10
<1>16. Loading'
  BY <1>1, <1>6, <1>10, <1>14, <1>15 DEF Loading
<1>17. i \notin DOMAIN seen
  <2>1. ~(i < i)
    BY <1>2
  <2> QED
    BY <2>1, <1>3
<1>18. \A j \in DOMAIN seen : j \in Nat /\ j < i
  BY <1>3, <1>9
<1>19. \A j \in DOMAIN seen : seen[j] \in Definitions
  BY <1>11
<1> QED
  BY <1>1, <1>2, <1>4, <1>5, <1>7, <1>9, <1>13, <1>16, <1>17, <1>18, <1>19 DEF i, file

(* The next definition is opened as it is now: it is pending if it is      *)
(* valid as far as that is known before its schemas are compiled, and      *)
(* skipped otherwise.                                                      *)
LEMMA OpenNextKeeps == RegistryInv /\ OpenNext => RegistryInv'
<1> SUFFICES ASSUME RegistryInv, OpenNext PROVE RegistryInv'
  OBVIOUS
<1> DEFINE i == Head(names)
           file == directory.files[i]
           fine == TrustedFile(file.place) /\ WellFormed(file) /\ ValidExecutable(file.handler)
<1>1. /\ Registered(seen) /\ stage = "load" /\ names # <<>> /\ i \in Nat /\ i \notin DOMAIN seen
      /\ \A j \in DOMAIN seen : j \in Nat /\ j < i
      /\ IsFiniteSet(DOMAIN seen) /\ \A j \in DOMAIN seen : seen[j] \in Definitions
      /\ seen' = Opening(seen, i, file) /\ DOMAIN seen' = DOMAIN seen \union {i}
      /\ file \in Definitions /\ RegistryType' /\ Loading'
  BY OpensNext
<1>2. bytes' = bytes /\ commands' = commands /\ validated' = validated
  BY DEF OpenNext
<1>3. \/ fine /\ opening' = <<file>> /\ compiling' = Compile(file.input) /\ stage' = "input"
      \/ ~fine /\ stage' = stage
  BY DEF OpenNext
<1>4. ValidationAffordable'
  BY <1>2 DEF RegistryInv, ValidationAffordable
<1>5. CASE ~fine /\ stage' = stage
  <2>1. ~Valid(file)
    BY <1>5 DEF Valid
  <2> HIDE DEF i, file, fine
  <2>2. Bytes(seen') = Bytes(seen)
    BY <2>1, <1>1, BytesMore
  <2>3. FirstUsable(seen') = FirstUsable(seen)
    <3>1. DOMAIN seen \subseteq Nat
      BY <1>1
    <3> QED
      BY <2>1, <3>1, <1>1, FirstMore
  <2>4. Registered(seen)'
    BY <2>2, <2>3, <1>1, <1>2 DEF Registered
  <2> QED
    BY <2>4, <1>1, <1>4, <1>5 DEF RegistryInv, LoadsFirstValid
<1>6. CASE fine /\ opening' = <<file>> /\ compiling' = Compile(file.input) /\ stage' = "input"
  <2>1. fine
    BY <1>6
  <2>2. TrustedFile(file.place) /\ WellFormed(file) /\ ValidExecutable(file.handler)
    BY <2>1
  <2> HIDE DEF i, file, fine
  <2>3. opening'[1] = file /\ opening' = <<opening'[1]>>
    BY <1>6
  <2>4. CompileInv(Compile(file.input)) /\ Compile(file.input).schema = file.input
    BY <1>1, DefinitionSized, CompileStarts
  <2>5. CompileInv(compiling)' /\ compiling'.schema = file.input
    <3>1. CompileInv(compiling')
      BY <2>4, <1>6
    <3>2. CompileInv(compiling)' <=> CompileInv(compiling')
      OBVIOUS
    <3> QED
      BY <3>1, <3>2, <2>4, <1>6
  <2>6. PICK k : k = i
    OBVIOUS
  <2>7. seen'[k] = file /\ [j \in DOMAIN seen' \ {k} |-> seen'[j]] = seen
    <3>1. seen'[k] = file /\ \A j \in DOMAIN seen : seen'[j] = seen[j]
      BY <2>6, <1>1 DEF Opening
    <3>2. DOMAIN seen' \ {k} = DOMAIN seen
      BY <2>6, <1>1
    <3>3. seen = [j \in DOMAIN seen |-> seen[j]]
      BY DEF RegistryInv, RegistryType
    <3> QED
      BY <3>1, <3>2, <3>3
  <2>8. Registered(Before(k))'
    <3>1. Before(k)' = seen
      BY <2>7 DEF Before
    <3> QED
      BY <3>1, <1>1, <1>2 DEF Registered
  <2>9. k \in DOMAIN seen' /\ \A j \in DOMAIN seen' \ {k} : j < k
    BY <2>6, <1>1
  <2>10. Pending'
    BY <2>2, <2>3, <2>5, <2>7, <2>8, <2>9, <1>6 DEF Pending
  <2> QED
    BY <2>10, <1>1, <1>4, <1>6 DEF RegistryInv, LoadsFirstValid
<1> QED
  BY <1>3, <1>5, <1>6

(* When a step leaves everything alone but the compilation.                *)
LEMMA ExpandMoreKeeps == RegistryInv /\ ExpandMore => RegistryInv'
<1> SUFFICES ASSUME RegistryInv, ExpandMore PROVE RegistryInv'
  OBVIOUS
<1>1. /\ RegistryType /\ Loading /\ Pending /\ stage \in {"input", "output"}
      /\ compiling.verdict = "expanding" /\ ValidationAffordable
  BY DEF RegistryInv, ExpandMore
<1>2. /\ directory' = directory /\ stage' = stage /\ names' = names /\ opening' = opening
      /\ commands' = commands /\ bytes' = bytes /\ seen' = seen /\ validated' = validated
      /\ compiling' = Expand(compiling)
  BY DEF ExpandMore
<1>3. CompileInv(Expand(compiling)) /\ Expand(compiling).schema = compiling.schema
  BY <1>1, ExpandKeeps DEF Pending
<1>4. CompileInv(compiling)' /\ compiling'.schema = compiling.schema
  BY <1>2, <1>3
<1>5. RegistryType' /\ Loading'
  BY <1>1, <1>2 DEF RegistryType, DirectoryType, Loading, Listed
<1>6. ASSUME NEW i
      PROVE  Registered(Before(i)) => Registered(Before(i))'
  BY <1>2 DEF Registered, Before
<1>7. Pending'
  BY <1>1, <1>2, <1>4, <1>6 DEF Pending
<1>8. ValidationAffordable'
  BY <1>1, <1>2 DEF ValidationAffordable
<1> QED
  BY <1>1, <1>2, <1>5, <1>7, <1>8 DEF RegistryInv, LoadsFirstValid

(* The definition that is compiled, and what was opened before it.         *)
LEMMA PendingOpened ==
    ASSUME RegistryType, Pending
    PROVE  \E i, opened :
             /\ i \in Nat /\ i \notin DOMAIN opened /\ seen = Opening(opened, i, opening[1])
             /\ DOMAIN opened \subseteq Nat /\ IsFiniteSet(DOMAIN opened)
             /\ \A j \in DOMAIN opened : j < i /\ opened[j] \in Definitions
             /\ Registered(opened) /\ opening[1] \in Definitions
<1>1. PICK i \in DOMAIN seen :
        /\ \A j \in DOMAIN seen \ {i} : j < i
        /\ seen[i] = opening[1] /\ Registered(Before(i))
  BY DEF Pending
<1> DEFINE opened == Before(i)
<1>2. DOMAIN seen \subseteq Nat /\ IsFiniteSet(DOMAIN seen)
  BY SeenFinite
<1>3. DOMAIN opened = DOMAIN seen \ {i} /\ \A j \in DOMAIN opened : opened[j] = seen[j]
  BY DEF Before
<1>4. seen \in [DOMAIN seen -> Definitions]
  BY DEF RegistryType
<1>5. seen = Opening(opened, i, opening[1])
  BY <1>1, <1>3, <1>4 DEF Opening
<1> HIDE DEF opened
<1>6. IsFiniteSet(DOMAIN opened)
  <2>1. DOMAIN opened \in SUBSET DOMAIN seen
    BY <1>3
  <2> QED
    BY <2>1, <1>2, FS_Subset
<1>7. Registered(opened)
  BY <1>1 DEF opened
<1>8. opening[1] \in Definitions /\ i \in Nat
  BY <1>1, <1>2, <1>4
<1>9. \A j \in DOMAIN opened : j < i /\ opened[j] \in Definitions
  BY <1>1, <1>3, <1>4
<1>10. i \notin DOMAIN opened /\ DOMAIN opened \subseteq Nat
  BY <1>2, <1>3
<1> QED
  BY <1>5, <1>6, <1>7, <1>8, <1>9, <1>10

(* A definition is skipped only if one of its schemas is not acceptable.   *)
LEMMA SkipKeeps == RegistryInv /\ Skip => RegistryInv'
<1> SUFFICES ASSUME RegistryInv, Skip PROVE RegistryInv'
  OBVIOUS
<1>1. /\ RegistryType /\ Loading /\ Pending /\ stage \in {"input", "output"}
      /\ compiling.verdict = "refused" /\ ValidationAffordable
  BY DEF RegistryInv, Skip
<1>2. /\ directory' = directory /\ names' = names /\ stage' = "load"
      /\ commands' = commands /\ bytes' = bytes /\ seen' = seen /\ validated' = validated
  BY DEF Skip
<1>3. ~Valid(opening[1])
  <2>1. ~GoodSchema(compiling.schema)
    BY <1>1 DEF Pending, CompileInv
  <2> QED
    BY <2>1, <1>1 DEF Pending, Valid
<1>4. PICK i, opened :
        /\ i \in Nat /\ i \notin DOMAIN opened /\ seen = Opening(opened, i, opening[1])
        /\ DOMAIN opened \subseteq Nat /\ IsFiniteSet(DOMAIN opened)
        /\ \A j \in DOMAIN opened : j < i /\ opened[j] \in Definitions
        /\ Registered(opened) /\ opening[1] \in Definitions
  BY <1>1, PendingOpened
<1>5. Bytes(seen) = Bytes(opened)
  BY <1>3, <1>4, BytesMore
<1>6. FirstUsable(seen) = FirstUsable(opened)
  BY <1>3, <1>4, FirstMore
<1>7. Registered(seen)'
  BY <1>2, <1>4, <1>5, <1>6 DEF Registered
<1>8. RegistryType' /\ Loading'
  BY <1>1, <1>2 DEF RegistryType, DirectoryType, Loading, Listed
<1>9. ValidationAffordable'
  BY <1>1, <1>2 DEF ValidationAffordable
<1> QED
  BY <1>2, <1>7, <1>8, <1>9 DEF RegistryInv, LoadsFirstValid

(* The compilation of the output follows that of an acceptable input.      *)
LEMMA CompileOutputKeeps == RegistryInv /\ CompileOutput => RegistryInv'
<1> SUFFICES ASSUME RegistryInv, CompileOutput PROVE RegistryInv'
  OBVIOUS
<1> DEFINE file == opening[1]
<1>1. /\ RegistryType /\ Loading /\ Pending /\ stage = "input"
      /\ compiling.verdict = "good" /\ ValidationAffordable
  BY DEF RegistryInv, CompileOutput
<1>2. /\ directory' = directory /\ names' = names /\ stage' = "output"
      /\ commands' = commands /\ bytes' = bytes /\ seen' = seen /\ validated' = validated
      /\ opening' = Append(opening, compiling) /\ compiling' = Compile(file.output)
  BY DEF CompileOutput
<1>3. opening = <<file>> /\ compiling.schema = file.input
  BY <1>1 DEF Pending
<1>4. Append(opening, compiling)[1] = file /\ Append(opening, compiling)[2] = compiling
  <2> DEFINE both == {file, compiling}
  <2> HIDE DEF file
  <2>1. opening \in Seq(both) /\ Len(opening) = 1 /\ opening[1] = file
    BY <1>3
  <2>2. compiling \in both
    OBVIOUS
  <2> HIDE DEF both
  <2>3. Append(opening, compiling)[Len(opening) + 1] = compiling
        /\ \A k \in 1..Len(opening) : Append(opening, compiling)[k] = opening[k]
    BY <2>1, <2>2, AppendTo
  <2>4. 1 \in 1..Len(opening) /\ Len(opening) + 1 = 2
    BY <2>1
  <2> QED
    BY <2>1, <2>3, <2>4
<1>5. opening'[1] = file /\ opening'[2] = compiling
  BY <1>2, <1>4
<1>6. GoodSchema(file.input) /\ compiling.work = SchemaWork(file.input)
      /\ compiling.size = ExpandedSize(file.input)
  BY <1>1, <1>3 DEF Pending, CompileInv
<1>7. file \in Definitions
  BY <1>1, PendingOpened
<1> HIDE DEF file
<1>8. CompileInv(Compile(file.output)) /\ Compile(file.output).schema = file.output
  BY <1>7, DefinitionSized, CompileStarts
<1>9. CompileInv(compiling)' /\ compiling'.schema = file.output
  BY <1>2, <1>8
<1>10. RegistryType' /\ Loading'
  BY <1>1, <1>2 DEF RegistryType, DirectoryType, Loading, Listed
<1>11. ASSUME NEW i
       PROVE  Registered(Before(i)) => Registered(Before(i))'
  BY <1>2 DEF Registered, Before
<1>12. TrustedFile(file.place) /\ WellFormed(file) /\ ValidExecutable(file.handler)
  BY <1>1 DEF Pending, file
<1>13. PICK i \in DOMAIN seen :
         /\ \A j \in DOMAIN seen \ {i} : j < i
         /\ seen[i] = file /\ Registered(Before(i))
  BY <1>1 DEF Pending, file
<1>14. Pending'
  <2>1. \E k \in DOMAIN seen' :
          /\ \A j \in DOMAIN seen' \ {k} : j < k
          /\ seen'[k] = opening'[1] /\ Registered(Before(k))'
    BY <1>2, <1>5, <1>11, <1>13
  <2> QED
    BY <2>1, <1>2, <1>5, <1>6, <1>9, <1>12 DEF Pending
<1>15. ValidationAffordable'
  BY <1>1, <1>2 DEF ValidationAffordable
<1> QED
  BY <1>2, <1>10, <1>14, <1>15 DEF RegistryInv, LoadsFirstValid

(* A definition both of whose schemas are acceptable is usable: its bytes  *)
(* count, and it is kept if it is the first of its name.                   *)
LEMMA KeepKeeps == RegistryInv /\ Keep => RegistryInv'
<1> SUFFICES ASSUME RegistryInv, Keep PROVE RegistryInv'
  OBVIOUS
<1> DEFINE file == opening[1]
           more == bytes + file.bytes + opening[2].size + compiling.size
           loaded == [definition |-> file, input |-> opening[2].work, output |-> compiling.work]
<1>1. /\ RegistryType /\ Loading /\ Pending /\ stage = "output"
      /\ compiling.verdict = "good" /\ ValidationAffordable
  BY DEF RegistryInv, Keep
<1>2. /\ directory' = directory /\ seen' = seen /\ validated' = validated /\ bytes' = more
  BY DEF Keep
<1>3. \/ more > MaxRegistry /\ stage' = "ready" /\ commands' = Empty
      \/ /\ more <= MaxRegistry /\ stage' = "load" /\ names' = names
         /\ commands' = [c \in DOMAIN commands \union {file.command} |->
                           IF c \in DOMAIN commands THEN commands[c] ELSE loaded]
  BY DEF Keep, Fail
<1>4. /\ GoodSchema(file.input) /\ opening[2].work = SchemaWork(file.input)
      /\ opening[2].size = ExpandedSize(file.input)
      /\ GoodSchema(file.output) /\ compiling.work = SchemaWork(file.output)
      /\ compiling.size = ExpandedSize(file.output)
      /\ TrustedFile(file.place) /\ WellFormed(file) /\ ValidExecutable(file.handler)
  BY <1>1 DEF Pending, CompileInv
<1>5. Valid(file) /\ loaded = Loaded(file)
  BY <1>4 DEF Valid, Loaded
<1> HIDE DEF loaded
<1>6. PICK i, opened :
        /\ i \in Nat /\ i \notin DOMAIN opened /\ seen = Opening(opened, i, file)
        /\ DOMAIN opened \subseteq Nat /\ IsFiniteSet(DOMAIN opened)
        /\ \A j \in DOMAIN opened : j < i /\ opened[j] \in Definitions
        /\ Registered(opened) /\ file \in Definitions
  BY <1>1, PendingOpened
<1>7. /\ file.bytes \in Nat /\ ExpandedSize(file.input) \in Nat /\ ExpandedSize(file.output) \in Nat
  BY <1>6, DefinitionSized
<1>8. bytes \in Nat /\ bytes = Bytes(opened) /\ Bytes(seen) = Bytes(opened) + Size(file)
  BY <1>5, <1>6, BytesMore DEF Registered
<1>9. FirstUsable(seen) = Adding(FirstUsable(opened), file)
  BY <1>5, <1>6, FirstMore
<1>10. more = Bytes(seen) /\ more \in Nat /\ MaxRegistry \in Nat
  <2> DEFINE a == file.bytes
             b == ExpandedSize(file.input)
             d == ExpandedSize(file.output)
  <2>1. Size(file) = a + b + d /\ more = bytes + a + b + d
    BY <1>4 DEF Size
  <2>2. MaxRegistry \in Nat
    BY RegistryAssumption
  <2>3. a \in Nat /\ b \in Nat /\ d \in Nat
    BY <1>7
  <2> HIDE DEF a, b, d, more, file
  <2>4. bytes + a + b + d = bytes + (a + b + d) /\ bytes + a + b + d \in Nat
    BY <2>3, <1>8
  <2> QED
    BY <2>1, <2>2, <2>4, <1>8
<1> HIDE DEF more, file
<1>11. ValidationAffordable'
  BY <1>1, <1>2 DEF ValidationAffordable
<1>12. stage' \in {"load", "ready"}
  BY <1>3
<1>13. RegistryType'
  BY <1>1, <1>2, <1>12 DEF RegistryType, DirectoryType
<1>14. CASE more > MaxRegistry /\ stage' = "ready" /\ commands' = Empty
  <2>1. ~(Bytes(seen') <= MaxRegistry)
    BY <1>2, <1>10, <1>14
  <2>2. LoadsFirstValid'
    BY <2>1, <1>14 DEF LoadsFirstValid, Fits
  <2> QED
    BY <2>2, <1>11, <1>13, <1>14 DEF RegistryInv
<1>15. CASE /\ more <= MaxRegistry /\ stage' = "load" /\ names' = names
            /\ commands' = [c \in DOMAIN commands \union {file.command} |->
                              IF c \in DOMAIN commands THEN commands[c] ELSE loaded]
  <2>1. commands' = Adding(commands, file)
    BY <1>5, <1>15 DEF Adding
  <2>2. commands' = FirstUsable(seen')
    BY <2>1, <1>2, <1>6, <1>9 DEF Registered
  <2>3. Registered(seen)'
    BY <2>2, <1>2, <1>10, <1>15 DEF Registered
  <2>4. Loading'
    BY <1>1, <1>2, <1>15 DEF Loading, Listed
  <2> QED
    BY <2>3, <2>4, <1>11, <1>13, <1>15 DEF RegistryInv, LoadsFirstValid
<1> QED
  BY <1>3, <1>14, <1>15

(* When no name is left all listed definitions were opened.                *)
LEMMA LoadEndsKeeps == RegistryInv /\ LoadEnds => RegistryInv'
<1> SUFFICES ASSUME RegistryInv, LoadEnds PROVE RegistryInv'
  OBVIOUS
<1>1. /\ RegistryType /\ Loading /\ Registered(seen) /\ names = <<>>
      /\ directory' = directory /\ seen' = seen /\ stage' = "ready" /\ validated' = validated
      /\ ValidationAffordable
  BY DEF RegistryInv, LoadEnds, Fail
<1>2. RegistryType'
  BY <1>1 DEF RegistryType, DirectoryType
<1>3. Listed' = Listed
  BY <1>1 DEF Listed
<1>4. DOMAIN seen = Listed
  <2>1. DOMAIN names = {}
    BY <1>1
  <2> QED
    BY <2>1, <1>1 DEF Loading
<1>5. Bytes(seen) <= MaxRegistry /\ commands = FirstUsable(seen)
  BY <1>1 DEF Registered
<1>6. commands' = IF Manifest(FirstUsable(seen)) <= MaxManifest THEN FirstUsable(seen) ELSE Empty
  BY <1>5 DEF LoadEnds, Fail
<1>7. commands' = IF Fits(seen) THEN FirstUsable(seen) ELSE Empty
  BY <1>5, <1>6 DEF Fits
<1>8. LoadsFirstValid'
  BY <1>1, <1>3, <1>4, <1>7 DEF LoadsFirstValid
<1>9. ValidationAffordable'
  BY <1>1 DEF ValidationAffordable
<1> QED
  BY <1>1, <1>2, <1>8, <1>9 DEF RegistryInv

(* A step that changes neither the loading nor what is listed.             *)
LEMMA OthersKeep ==
    RegistryInv /\ RegistryType'
      /\ UNCHANGED <<stage, names, commands, bytes, seen, opening, compiling, validated, Listed>>
    => RegistryInv'
<1> SUFFICES ASSUME RegistryInv, RegistryType',
                    UNCHANGED <<stage, names, commands, bytes, seen, opening, compiling, validated, Listed>>
             PROVE  RegistryInv'
  OBVIOUS
<1>1. /\ stage' = stage /\ names' = names /\ commands' = commands /\ bytes' = bytes /\ seen' = seen
      /\ opening' = opening /\ compiling' = compiling /\ validated' = validated /\ Listed' = Listed
  OBVIOUS
<1>2. Loading => Loading'
  BY <1>1 DEF Loading
<1>3. Registered(seen) => Registered(seen)'
  BY <1>1 DEF Registered
<1>4. ASSUME NEW i
      PROVE  Registered(Before(i)) => Registered(Before(i))'
  BY <1>1 DEF Registered, Before
<1>5. CompileInv(compiling) => CompileInv(compiling)'
  BY <1>1
<1>6. Pending => Pending'
  BY <1>1, <1>4, <1>5 DEF Pending
<1>7. LoadsFirstValid' /\ ValidationAffordable'
  BY <1>1 DEF RegistryInv, LoadsFirstValid, ValidationAffordable
<1> QED
  BY <1>1, <1>2, <1>3, <1>6, <1>7 DEF RegistryInv

(* Replacing a definition changes neither what was opened nor which        *)
(* entries are listed.                                                     *)
LEMMA EditKeeps == RegistryInv /\ Edit => RegistryInv'
<1> SUFFICES ASSUME RegistryInv, Edit PROVE RegistryInv'
  OBVIOUS
<1> DEFINE files == directory.files
<1>1. /\ stage' = stage /\ names' = names /\ commands' = commands /\ bytes' = bytes
      /\ seen' = seen /\ opening' = opening /\ compiling' = compiling /\ validated' = validated
      /\ RegistryType
  BY DEF RegistryInv, Edit
<1>2. PICK i \in DOMAIN files, file \in Edits :
        files[i].toml /\ directory' = [directory EXCEPT !.files[i] = file]
  BY DEF Edit
<1>3. file \in Definitions /\ file.toml = TRUE
  BY RegistryAssumption DEF Definitions
<1>4. directory = [place |-> directory.place, files |-> files] /\ files \in Seq(Definitions)
  BY <1>1 DEF RegistryType, DirectoryType
<1> DEFINE edited == [files EXCEPT ![i] = file]
<1>5. directory' = [place |-> directory.place, files |-> edited]
  BY <1>2, <1>4
<1>6. edited \in Seq(Definitions) /\ DOMAIN edited = DOMAIN files
  BY <1>3, <1>4
<1>7. directory'.files = edited /\ directory'.place = directory.place
  BY <1>5
<1> HIDE DEF edited
<1>8. DirectoryType'
  BY <1>5, <1>6, <1>7 DEF DirectoryType
<1>9. RegistryType'
  BY <1>1, <1>6, <1>7, <1>8 DEF RegistryType
<1>10. Listed' = Listed
  <2>1. \A k \in DOMAIN files : edited[k].toml <=> files[k].toml
    BY <1>2, <1>3, <1>4 DEF edited
  <2> QED
    BY <2>1, <1>6, <1>7 DEF Listed
<1>11. UNCHANGED <<stage, names, commands, bytes, seen, opening, compiling, validated, Listed>>
  BY <1>1, <1>10
<1> QED
  BY <1>9, <1>11, OthersKeep

(* A loaded command comes with the work of its schemas.                    *)
LEMMA ValidateKeeps ==
    ASSUME RegistryInv, NEW name \in DOMAIN commands, NEW value, NEW schema, NEW work,
           \/ schema = commands[name].definition.input /\ work = commands[name].input
           \/ schema = commands[name].definition.output /\ work = commands[name].output,
           Validate(schema, work, value)
    PROVE  RegistryInv'
<1>1. /\ stage = "ready" /\ schema # NoSchema /\ work * InstanceWork(value) <= MaxValidation
      /\ validated' = <<schema, value>>
      /\ directory' = directory /\ stage' = stage /\ names' = names /\ opening' = opening
      /\ compiling' = compiling /\ commands' = commands /\ bytes' = bytes /\ seen' = seen
  BY DEF Validate
<1>2. commands = FirstUsable(seen)
  <2>1. commands # Empty
    BY NothingOpened
  <2> QED
    BY <2>1, <1>1 DEF RegistryInv, LoadsFirstValid
<1>3. PICK file : commands[name] = Loaded(file)
  BY <1>2 DEF FirstUsable
<1>4. work = SchemaWork(schema)
  BY <1>3 DEF Loaded
<1>5. work = Visits(schema)
  BY <1>1, <1>4 DEF SchemaWork
<1>6. ValidationAffordable'
  <2>1. validated'[1] = schema /\ validated'[2] = value
    BY <1>1
  <2>2. Visits(validated'[1]) * InstanceWork(validated'[2]) <= MaxValidation
    BY <2>1, <1>1, <1>5
  <2> QED
    BY <2>2 DEF ValidationAffordable
<1>7. Listed' = Listed /\ RegistryType'
  BY <1>1 DEF RegistryInv, RegistryType, DirectoryType, Listed
<1>8. LoadsFirstValid'
  BY <1>1, <1>7 DEF RegistryInv, LoadsFirstValid
<1> QED
  BY <1>1, <1>6, <1>7, <1>8 DEF RegistryInv

(* Every step of the agent, and of whoever edits the directory, keeps the  *)
(* invariant.                                                              *)
LEMMA RegistryKept == RegistryInv /\ [RegistryNext]_registryVars => RegistryInv'
<1> SUFFICES ASSUME RegistryInv, [RegistryNext]_registryVars PROVE RegistryInv'
  OBVIOUS
<1>1. CASE List
  BY <1>1, ListKeeps
<1>2. CASE OpenNext
  BY <1>2, OpenNextKeeps
<1>3. CASE ExpandMore
  BY <1>3, ExpandMoreKeeps
<1>4. CASE Skip
  BY <1>4, SkipKeeps
<1>5. CASE CompileOutput
  BY <1>5, CompileOutputKeeps
<1>6. CASE Keep
  BY <1>6, KeepKeeps
<1>7. CASE LoadEnds
  BY <1>7, LoadEndsKeeps
<1>8. CASE Edit
  BY <1>8, EditKeeps
<1>9. ASSUME NEW name \in DOMAIN commands, NEW value \in Values,
             \/ Validate(commands[name].definition.input, commands[name].input, value)
             \/ Validate(commands[name].definition.output, commands[name].output, value)
      PROVE  RegistryInv'
  BY <1>9, ValidateKeeps
<1>10. CASE UNCHANGED registryVars
  <2>1. UNCHANGED <<directory, stage, names, commands, bytes, seen, opening, compiling, validated>>
    BY <1>10 DEF registryVars
  <2>2. Listed' = Listed /\ RegistryType'
    BY <2>1 DEF RegistryInv, RegistryType, DirectoryType, Listed
  <2> QED
    BY <2>1, <2>2, OthersKeep
<1> QED
  BY <1>1, <1>2, <1>3, <1>4, <1>5, <1>6, <1>7, <1>8, <1>9, <1>10 DEF RegistryNext

(* The invariant holds in every state.                                     *)
LEMMA RegistryAlways == RegistrySpec => []RegistryInv
BY RegistryInitially, RegistryKept, PTL DEF RegistrySpec

(* A compiled schema is accepted exactly if it is acceptable: no reference *)
(* leads back to itself or nowhere, and all walks of it stay within the    *)
(* limits; the work counted for it is what a validator visits at most.     *)
SchemaJudged ==
    stage \in {"input", "output"} =>
      /\ compiling.verdict = "good" =>
           /\ GoodSchema(compiling.schema)
           /\ compiling.work = SchemaWork(compiling.schema)
           /\ compiling.size = ExpandedSize(compiling.schema)
      /\ compiling.verdict = "refused" => ~GoodSchema(compiling.schema)

(* While definitions are loaded, each schema whose expansion has ended was *)
(* judged rightly, and the work counted for it is right.                   *)
THEOREM JudgesSchemas == RegistrySpec => []SchemaJudged
<1>1. RegistryInv => SchemaJudged
  BY DEF RegistryInv, Pending, CompileInv, SchemaJudged
<1> QED
  BY RegistryAlways, <1>1, PTL

(* However the directory is listed and edited while the agent loads it,    *)
(* and whatever schemas are declared, the registry is the first usable     *)
(* definition of each name, with the work of its schemas, or empty if a    *)
(* limit is exceeded.                                                      *)
THEOREM LoadsFirst == RegistrySpec => []LoadsFirstValid
<1>1. RegistryInv => LoadsFirstValid
  BY DEF RegistryInv
<1> QED
  BY RegistryAlways, <1>1, PTL

(* No validation visits more nodes of its schema than the budget allows,   *)
(* whatever the schema refers to.                                          *)
THEOREM ValidatesWithinBudget == RegistrySpec => []ValidationAffordable
<1>1. RegistryInv => ValidationAffordable
  BY DEF RegistryInv
<1> QED
  BY RegistryAlways, <1>1, PTL
=============================================================================
