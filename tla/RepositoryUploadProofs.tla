------------------------- MODULE RepositoryUploadProofs -------------------------
(***************************************************************************)
(* The repository serves what it was told the digest of, and a run of      *)
(* upload_repository_asset that nobody disturbs succeeds - for any number  *)
(* of uploaders, any sizes of the file and any number of changes of it.    *)
(*                                                                         *)
(* The invariant says of each run what the checks it has passed are worth: *)
(* while the metadata are those of the snapshot, what was read is a prefix *)
(* of the content, and a digest was a content of the file.  A run that is  *)
(* not disturbed is the only one, and its file is as it was.               *)
(***************************************************************************)
EXTENDS RepositoryUpload, SequenceTheorems, TLAPS

Hashing == {"hash", "hashed", "hashed_path", "verify", "create"}
Registering == {"details", "refinalize", "recheck", "issue"}
Sending == {"send", "finish", "finish_path", "compare", "put", "sent", "finalize"}
Steps == Resting \union Hashing \union Registering \union Sending

Snapshots == [inode : 0..MaxWrites, len : 0..MaxChunks, stamp : 0..MaxWrites]
Runs == [pc : Steps, snapshot : Snapshots, read : Contents, digest : Contents, disturbed : BOOLEAN]

Types ==
    /\ disk \in [0..MaxWrites -> [content : Contents, stamp : 0..MaxWrites]]
    /\ path \in 0..writes /\ writes \in 0..MaxWrites
    /\ registered \in SUBSET Contents /\ available \in SUBSET Contents
    /\ stored \in SUBSET (Contents \X Contents)
    /\ run \in [Uploaders -> Runs]
    /\ versions \in SUBSET Contents /\ unnoticed \in BOOLEAN

Prefix(s, c) == Len(s) <= Len(c) /\ \A i \in 1..Len(s) : s[i] = c[i]

(* A run in terms of its record.                                           *)
AtWork(r) == r.pc \notin Resting
ContentOf(r) == disk[r.snapshot.inode].content
Unmoved(r) == Snapshot(r.snapshot.inode) = r.snapshot

(* The inodes hold what the file has been.                                 *)
Files == \A i \in 0..MaxWrites : disk[i].content \in versions /\ disk[i].stamp <= writes

(* The hub knows contents of the file, the storage what the hub knows.     *)
Assets ==
    /\ unnoticed \/ registered \subseteq versions
    /\ \A p \in stored : p[1] = p[2] /\ p[1] \in registered
    /\ \A a \in available : <<a, a>> \in stored

(* Where the snapshot comes from.                                          *)
Known(r) ==
    AtWork(r) => /\ r.snapshot.inode <= writes /\ r.snapshot.stamp <= writes
                 /\ \E v \in versions : Len(v) = r.snapshot.len

(* What was read, as long as the file has the metadata of the snapshot.    *)
Reads(r) ==
    /\ ~unnoticed /\ Unmoved(r) /\ r.pc = "hash" => Prefix(r.read, ContentOf(r))
    /\ ~unnoticed /\ Unmoved(r) /\ r.pc = "hashed" => r.digest = ContentOf(r)
    /\ ~unnoticed /\ r.pc \in {"hashed_path", "verify", "create"} => r.digest \in versions
    /\ r.pc = "put" => r.read = r.digest

(* What the hub was told.                                                  *)
Told(r) ==
    /\ r.pc \in Registering \union Sending => r.digest \in registered
    /\ r.pc \in {"sent", "finalize"} => <<r.digest, r.digest>> \in stored

(* A run that nothing disturbs.                                            *)
Quiet(r) ==
    ~r.disturbed =>
      /\ r.pc # "failed"
      /\ AtWork(r) => path = r.snapshot.inode /\ Unmoved(r)
      /\ r.pc = "hash" => Prefix(r.read, ContentOf(r))
      /\ AtWork(r) /\ r.pc # "hash" => r.digest = ContentOf(r)
      /\ AtWork(r) /\ r.pc \notin {"hash"} \union Sending => r.read = <<>>
      /\ r.pc = "send" => Prefix(r.read, ContentOf(r)) /\ Len(r.read) < r.snapshot.len
      /\ r.pc \in {"finish", "finish_path", "compare", "put"} => r.read = ContentOf(r)
      /\ r.pc \in {"recheck", "issue", "send", "finish", "finish_path", "compare", "put"} =>
           ~HasObject(r.digest)

Sound(r) == Known(r) /\ Reads(r) /\ Told(r) /\ Quiet(r)

(* It is the only one.                                                     *)
Alone ==
    \A u \in Uploaders : Active(u) /\ ~run[u].disturbed => \A w \in Uploaders \ {u} : ~Active(w)

AllSound == \A u \in Uploaders : \A r \in Runs : r = run[u] => Sound(r)

IInv == Types /\ Files /\ Assets /\ Alone /\ AllSound

-----------------------------------------------------------------------------
(* Contents and records.                                                   *)

LEMMA ContentShape ==
    /\ \A c \in Contents : c \in Seq(Values) /\ Len(c) \in 0..MaxChunks
    /\ \A c \in Seq(Values) : Len(c) <= MaxChunks => c \in Contents
    /\ <<>> \in Contents
<1>1. ASSUME NEW c \in Contents
      PROVE  c \in Seq(Values) /\ Len(c) \in 0..MaxChunks
  <2>1. PICK n \in 0..MaxChunks : c \in [1..n -> Values]
    BY DEF Contents
  <2>2. n \in Nat
    BY <2>1, UploadAssumption
  <2>3. c \in Seq(Values) /\ Len(c) = n
    BY <2>1, <2>2
  <2> QED  BY <2>3
<1>2. ASSUME NEW c \in Seq(Values), Len(c) <= MaxChunks
      PROVE  c \in Contents
  <2>1. Len(c) \in 0..MaxChunks /\ c \in [1..Len(c) -> Values]
    BY <1>2, UploadAssumption
  <2> QED  BY <2>1 DEF Contents
<1>3. <<>> \in Seq(Values) /\ Len(<<>>) <= MaxChunks
  BY UploadAssumption
<1> QED  BY <1>1, <1>2, <1>3

(* Inodes are counted as changes are.                                      *)
LEMMA Counters ==
    ASSUME Types
    PROVE  path \in 0..MaxWrites /\ path <= writes /\ writes \in Nat
<1>1. writes \in 0..MaxWrites /\ path \in 0..writes /\ MaxWrites \in Nat
  BY UploadAssumption DEF Types
<1>2. writes \in Nat /\ writes <= MaxWrites
  BY <1>1
<1>3. path \in Nat /\ path <= writes
  BY <1>1, <1>2
<1> QED  BY <1>1, <1>2, <1>3

LEMMA LongerContent ==
    ASSUME NEW s \in Contents, NEW c \in Contents, NEW at, at = Len(s) + 1, at <= Len(c)
    PROVE  /\ Append(s, c[at]) \in Contents /\ Len(Append(s, c[at])) = Len(s) + 1
           /\ Prefix(s, c) => Prefix(Append(s, c[at]), c)
<1>1. /\ s \in Seq(Values) /\ c \in Seq(Values) /\ Len(s) \in Nat /\ Len(c) \in Nat
      /\ Len(c) <= MaxChunks /\ at \in 1..Len(c) /\ MaxChunks \in Nat
  BY ContentShape, UploadAssumption
<1>2. /\ Append(s, c[at]) \in Seq(Values) /\ Len(Append(s, c[at])) = Len(s) + 1
      /\ Append(s, c[at])[Len(s) + 1] = c[at]
      /\ \A i \in 1..Len(s) : Append(s, c[at])[i] = s[i]
  BY <1>1
<1>3. Len(Append(s, c[at])) <= MaxChunks
  BY <1>1, <1>2
<1>4. ASSUME Prefix(s, c)  PROVE Prefix(Append(s, c[at]), c)
  <2>1. \A i \in 1..Len(s) + 1 : i \in 1..Len(s) \/ i = Len(s) + 1
    BY <1>1
  <2>2. Len(s) + 1 <= Len(c)
    BY <1>1
  <2> QED  BY <1>2, <1>4, <2>1, <2>2 DEF Prefix
<1> QED  BY <1>2, <1>3, <1>4, ContentShape

LEMMA WholePrefix ==
    ASSUME NEW s \in Contents, NEW c \in Contents, Prefix(s, c), Len(c) <= Len(s)
    PROVE  s = c
<1>1. s \in Seq(Values) /\ c \in Seq(Values) /\ Len(s) \in Nat /\ Len(c) \in Nat
  BY ContentShape
<1>2. Len(s) = Len(c)
  BY <1>1 DEF Prefix
<1> QED  BY <1>1, <1>2, SeqEqual DEF Prefix

LEMMA EmptyPrefix ==
    ASSUME NEW c \in Contents
    PROVE  Prefix(<<>>, c) /\ (c # <<>> => Len(c) > 0) /\ Len(<<>>) = 0
BY ContentShape DEF Prefix

LEMMA Idle ==
    /\ NotRunning \in Runs /\ NotRunning.pc = "idle" /\ NotRunning.disturbed = FALSE
    /\ NotRunning.digest = <<>> /\ NotRunning.read = <<>>
<1>1. 0 \in 0..MaxWrites /\ 0 \in 0..MaxChunks /\ <<>> \in Contents
  BY UploadAssumption, ContentShape
<1> QED  BY <1>1 DEF NotRunning, Runs, Snapshots, Steps, Resting

LEMMA StepTaken ==
    ASSUME NEW q \in Runs, NEW pc \in Steps, NEW r, r = [q EXCEPT !.pc = pc]
    PROVE  /\ r \in Runs /\ r.pc = pc /\ r.snapshot = q.snapshot /\ r.read = q.read
           /\ r.digest = q.digest /\ r.disturbed = q.disturbed
BY DEF Runs

(* A record says of itself what it said before a step that changes neither *)
(* the file nor the hub.                                                   *)
LEMMA Frozen ==
    ASSUME NEW r, Sound(r), UNCHANGED <<fileVars, hubVars>>
    PROVE  Sound(r)'
BY DEF Sound, Known, Reads, Told, Quiet, Unmoved, ContentOf, AtWork, Snapshot, HasObject,
       fileVars, hubVars

(* Unless it works undisturbed, it also does when the hub learns more.     *)
LEMMA Bystander ==
    ASSUME NEW r, Sound(r), UNCHANGED fileVars, registered \subseteq registered',
           stored \subseteq stored', r.disturbed \/ ~AtWork(r)
    PROVE  Sound(r)'
<1>1. Known(r)'
  BY DEF Sound, Known, AtWork, fileVars
<1>2. Reads(r)'
  BY DEF Sound, Reads, Unmoved, ContentOf, Snapshot, fileVars
<1>3. Told(r)'
  BY DEF Sound, Told
<1>4. Quiet(r)'
  BY DEF Sound, Quiet, AtWork, Resting, Sending
<1> QED  BY <1>1, <1>2, <1>3, <1>4 DEF Sound

(* One run takes a step.                                                   *)
LEMMA Advance ==
    ASSUME IInv, NEW u \in Uploaders, Active(u), NEW r \in Runs, run' = [run EXCEPT ![u] = r],
           r.disturbed = run[u].disturbed \/ r.pc \in Resting,
           UNCHANGED fileVars, registered \subseteq registered', stored \subseteq stored',
           registered' \in SUBSET Contents, available' \in SUBSET Contents,
           stored' \in SUBSET (Contents \X Contents), Assets', Sound(r)'
    PROVE  IInv'
<1>1. Types /\ Files /\ Alone /\ AllSound
  BY DEF IInv
<1>2. run \in [Uploaders -> Runs] /\ run' \in [Uploaders -> Runs]
      /\ run'[u] = r /\ \A w \in Uploaders \ {u} : run'[w] = run[w]
  BY <1>1 DEF Types
<1>3. Types'
  BY <1>1, <1>2 DEF Types, fileVars
<1>4. Files'
  BY <1>1 DEF Files, fileVars
<1>5. Alone'
  <2> SUFFICES ASSUME NEW v \in Uploaders, Active(v)', ~(run'[v].disturbed),
                      NEW w \in Uploaders \ {v}
               PROVE  ~Active(w)'
    BY DEF Alone
  <2>1. CASE v = u
    <3>1. Active(u) /\ ~run[u].disturbed /\ run'[w] = run[w]
      BY <1>2, <2>1 DEF Active
    <3>2. ~Active(w)
      BY <1>1, <2>1, <3>1 DEF Alone
    <3> QED  BY <3>1, <3>2 DEF Active
  <2>2. CASE v # u
    <3>1. Active(v) /\ ~run[v].disturbed
      BY <1>2, <2>2 DEF Active
    <3>2. ~Active(u)
      BY <1>1, <2>2, <3>1 DEF Alone
    <3> QED  BY <3>2
  <2> QED  BY <2>1, <2>2
<1>6. AllSound'
  <2> SUFFICES ASSUME NEW w \in Uploaders, NEW q \in Runs, q = run'[w]
               PROVE  Sound(q)'
    BY DEF AllSound
  <2>1. CASE w = u
    <3>1. q = r
      BY <1>2, <2>1
    <3> QED  BY <3>1
  <2>2. CASE w # u
    <3>1. q = run[w]
      BY <1>2, <2>2
    <3>2. Sound(q)
      BY <1>1, <3>1 DEF AllSound
    <3>3. q.disturbed \/ ~AtWork(q)
      BY <1>1, <2>2, <3>1 DEF Alone, Active, AtWork
    <3> QED  BY <3>2, <3>3, Bystander
  <2> QED  BY <2>1, <2>2
<1> QED  BY <1>3, <1>4, <1>5, <1>6 DEF IInv

LEMMA AssetsKept ==
    ASSUME Assets, UNCHANGED <<fileVars, hubVars>>
    PROVE  Assets'
BY DEF Assets, fileVars, hubVars

(* A step that leaves the hub alone.                                       *)
LEMMA Alters ==
    ASSUME IInv, NEW u \in Uploaders, Active(u), NEW r \in Runs, run' = [run EXCEPT ![u] = r],
           r.disturbed = run[u].disturbed \/ r.pc \in Resting,
           UNCHANGED <<fileVars, hubVars>>, Sound(r)
    PROVE  IInv'
<1>1. Sound(r)' /\ Assets'
  BY Frozen, AssetsKept DEF IInv
<1>2. /\ registered \subseteq registered' /\ stored \subseteq stored'
      /\ registered' \in SUBSET Contents /\ available' \in SUBSET Contents
      /\ stored' \in SUBSET (Contents \X Contents) /\ UNCHANGED fileVars
  BY DEF IInv, Types, hubVars
<1> QED  BY <1>1, <1>2, Advance

LEMMA IdleSound ==
    Sound(NotRunning)'
BY Idle DEF Sound, Known, Reads, Told, Quiet, AtWork, Resting, Registering, Sending

LEMMA OverKept ==
    ASSUME IInv, NEW u \in Uploaders, Active(u), Over(u),
           UNCHANGED fileVars, registered \subseteq registered', stored \subseteq stored',
           registered' \in SUBSET Contents, available' \in SUBSET Contents,
           stored' \in SUBSET (Contents \X Contents), Assets'
    PROVE  IInv'
<1>1. NotRunning \in Runs /\ NotRunning.pc \in Resting
  BY Idle DEF Resting
<1> QED  BY <1>1, IdleSound, Advance DEF Over

LEMMA InterruptedKept ==
    ASSUME IInv, NEW u \in Uploaders, Interrupted(u)
    PROVE  IInv'
<1>1. /\ Active(u) /\ Over(u) /\ UNCHANGED <<fileVars, hubVars>> /\ Assets /\ Types
  BY DEF Interrupted, IInv
<1>2. /\ registered \subseteq registered' /\ stored \subseteq stored'
      /\ registered' \in SUBSET Contents /\ available' \in SUBSET Contents
      /\ stored' \in SUBSET (Contents \X Contents) /\ UNCHANGED fileVars
  BY <1>1 DEF Types, hubVars
<1> QED  BY <1>1, <1>2, AssetsKept, OverKept

LEMMA GaveUp ==
    ASSUME IInv, NEW u \in Uploaders, Active(u), run[u].disturbed, GiveUp(u),
           UNCHANGED <<fileVars, hubVars>>
    PROVE  IInv'
<1> DEFINE r == [NotRunning EXCEPT !.pc = "failed", !.disturbed = run[u].disturbed]
<1>1. run[u] \in Runs
  BY DEF IInv, Types
<1>2. /\ r \in Runs /\ r.pc = "failed" /\ r.disturbed = run[u].disturbed /\ r.disturbed
  BY <1>1, Idle DEF Runs, Steps, Resting
<1>3. run' = [run EXCEPT ![u] = r]
  BY DEF GiveUp
<1> HIDE DEF r
<1>4. Sound(r)
  BY <1>2 DEF Sound, Known, Reads, Told, Quiet, AtWork, Resting, Registering, Sending
<1> QED  BY <1>2, <1>3, <1>4, Alters

(* What is known of a run that takes a step.                               *)
LEMMA Standing ==
    ASSUME IInv, NEW u \in Uploaders
    PROVE  /\ run[u] \in Runs /\ Sound(run[u]) /\ run[u].snapshot.inode \in 0..MaxWrites
           /\ Content(u) = ContentOf(run[u]) /\ ContentOf(run[u]) \in Contents
           /\ ContentOf(run[u]) \in versions
           /\ (Active(u) <=> AtWork(run[u]))
           /\ path \in 0..MaxWrites
<1>1. run[u] \in Runs /\ Types /\ Files
  BY DEF IInv, Types
<1>2. run[u].snapshot.inode \in 0..MaxWrites
  BY <1>1 DEF Runs, Snapshots
<1>3. disk[run[u].snapshot.inode].content \in Contents
  BY <1>1, <1>2 DEF Types
<1>4. path \in 0..MaxWrites
  BY <1>1, UploadAssumption DEF Types
<1> QED  BY <1>1, <1>2, <1>3, <1>4 DEF IInv, AllSound, Content, ContentOf, Files, Active, AtWork

LEMMA GoesTo ==
    ASSUME IInv, NEW u \in Uploaders, Active(u), NEW pc \in Steps, GoTo(u, pc),
           UNCHANGED <<fileVars, hubVars>>,
           \A r \in Runs : /\ r.pc = pc /\ r.snapshot = run[u].snapshot /\ r.read = run[u].read
                           /\ r.digest = run[u].digest /\ r.disturbed = run[u].disturbed
                           => Sound(r)
    PROVE  IInv'
<1> DEFINE r == [run[u] EXCEPT !.pc = pc]
<1>1. run[u] \in Runs /\ run \in [Uploaders -> Runs]
  BY DEF IInv, Types
<1>2. /\ r \in Runs /\ r.pc = pc /\ r.snapshot = run[u].snapshot /\ r.read = run[u].read
      /\ r.digest = run[u].digest /\ r.disturbed = run[u].disturbed
  BY <1>1, StepTaken
<1>3. run' = [run EXCEPT ![u] = r]
  BY <1>1 DEF GoTo
<1> HIDE DEF r
<1>4. Sound(r)
  BY <1>2
<1> QED  BY <1>2, <1>3, <1>4, Alters

-----------------------------------------------------------------------------
(* Opening and hashing.                                                    *)

LEMMA CheckKept ==
    ASSUME IInv, NEW u \in Uploaders, NEW now \in Steps \ Resting, NEW inode, NEW next \in Steps,
           Check(u, now, inode, next),
           inode = run[u].snapshot.inode \/ inode = path,
           \A r \in Runs : /\ r.pc = next /\ r.snapshot = run[u].snapshot /\ r.read = run[u].read
                           /\ r.digest = run[u].digest /\ r.disturbed = run[u].disturbed
                           /\ Snapshot(inode) = run[u].snapshot
                           => Sound(r)
    PROVE  IInv'
<1>1. run[u].pc = now /\ Active(u) /\ UNCHANGED <<fileVars, hubVars>>
  BY DEF Check, Active
<1>2. CASE Unchanged(u, inode)
  <2>1. GoTo(u, next) /\ Snapshot(inode) = run[u].snapshot
    BY <1>2 DEF Check, Unchanged
  <2> QED  BY <1>1, <2>1, GoesTo
<1>3. CASE ~Unchanged(u, inode)
  <2>1. GiveUp(u) /\ Snapshot(inode) # run[u].snapshot
    BY <1>3 DEF Check, Unchanged
  <2>2. run[u].disturbed
    <3>1. Quiet(run[u]) /\ AtWork(run[u])
      BY <1>1, Standing DEF Sound
    <3> QED  BY <2>1, <3>1 DEF Quiet, Unmoved
  <2> QED  BY <1>1, <2>1, <2>2, GaveUp
<1> QED  BY <1>2, <1>3

LEMMA HashKept ==
    ASSUME IInv, NEW u \in Uploaders, Hash(u)
    PROVE  IInv'
<1> DEFINE q == run[u]
           at == Len(q.read) + 1
<1>1. /\ q.pc = "hash" /\ Active(u) /\ UNCHANGED <<fileVars, hubVars>>
      /\ run \in [Uploaders -> Runs]
  BY DEF Hash, Active, Resting, IInv, Types
<1>2. /\ q \in Runs /\ Sound(q) /\ q.read \in Contents
      /\ Content(u) = ContentOf(q) /\ ContentOf(q) \in Contents /\ ContentOf(q) \in versions
  BY Standing DEF Runs
<1>3. CASE at <= Len(Content(u))
  <2> DEFINE r == [q EXCEPT !.read = Append(q.read, ContentOf(q)[at])]
  <2>1. run' = [run EXCEPT ![u] = r]
    BY <1>1, <1>2, <1>3 DEF Hash
  <2>2. /\ Append(q.read, ContentOf(q)[at]) \in Contents
        /\ Prefix(q.read, ContentOf(q)) => Prefix(Append(q.read, ContentOf(q)[at]), ContentOf(q))
    BY <1>2, <1>3, LongerContent
  <2>3. /\ r \in Runs /\ r.pc = "hash" /\ r.snapshot = q.snapshot /\ r.digest = q.digest
        /\ r.read = Append(q.read, ContentOf(q)[at]) /\ r.disturbed = q.disturbed
    BY <1>1, <1>2, <2>2 DEF Runs
  <2>4. ContentOf(r) = ContentOf(q) /\ (Unmoved(r) <=> Unmoved(q)) /\ AtWork(q)
    BY <1>1, <2>3 DEF ContentOf, Unmoved, AtWork, Resting
  <2> HIDE DEF r, q, at
  <2>5. Known(r) /\ Reads(r) /\ Told(r)
    BY <1>1, <1>2, <2>2, <2>3, <2>4
       DEF Sound, Known, Reads, Told, AtWork, Registering, Sending, Resting
  <2>6. Quiet(r)
    BY <1>1, <1>2, <2>2, <2>3, <2>4 DEF Sound, Quiet, AtWork, Sending, Resting
  <2>7. Sound(r) /\ r.disturbed = run[u].disturbed
    BY <2>3, <2>5, <2>6 DEF Sound, q
  <2> QED  BY <1>1, <2>1, <2>3, <2>7, Alters
<1>4. CASE ~(at <= Len(Content(u)))
  <2> DEFINE r == [q EXCEPT !.pc = "hashed", !.digest = q.read, !.read = <<>>]
  <2>1. run' = [run EXCEPT ![u] = r]
    BY <1>1, <1>2, <1>4 DEF Hash
  <2>2. /\ r \in Runs /\ r.pc = "hashed" /\ r.snapshot = q.snapshot /\ r.digest = q.read
        /\ r.read = <<>> /\ r.disturbed = q.disturbed
    BY <1>2, ContentShape DEF Runs, Steps, Hashing
  <2>3. ContentOf(r) = ContentOf(q) /\ (Unmoved(r) <=> Unmoved(q)) /\ AtWork(q)
    BY <1>1, <2>2 DEF ContentOf, Unmoved, AtWork, Resting
  <2>4. Prefix(q.read, ContentOf(q)) => q.read = ContentOf(q)
    <3>1. Len(ContentOf(q)) <= Len(q.read)
      BY <1>2, <1>4, ContentShape
    <3> QED  BY <1>2, <3>1, WholePrefix
  <2> HIDE DEF r, q, at
  <2>5. Known(r) /\ Reads(r) /\ Told(r)
    BY <1>1, <1>2, <2>2, <2>3, <2>4
       DEF Sound, Known, Reads, Told, AtWork, Registering, Sending, Resting
  <2>6. Quiet(r)
    BY <1>1, <1>2, <2>2, <2>3, <2>4 DEF Sound, Quiet, AtWork, Sending, Resting
  <2>7. Sound(r) /\ r.disturbed = run[u].disturbed
    BY <2>2, <2>5, <2>6 DEF Sound, q
  <2> QED  BY <1>1, <2>1, <2>2, <2>7, Alters
<1> QED  BY <1>3, <1>4

LEMMA CheckHashedKept ==
    ASSUME IInv, NEW u \in Uploaders, CheckHashed(u)
    PROVE  IInv'
<1>1. /\ run[u] \in Runs /\ Known(run[u]) /\ Reads(run[u]) /\ Told(run[u]) /\ Quiet(run[u])
      /\ ContentOf(run[u]) \in versions
  BY Standing DEF Sound
<1>2. ASSUME NEW now \in {"hashed", "hashed_path", "verify"}, NEW inode,
             NEW next \in {"hashed_path", "verify", "create"},
             Check(u, now, inode, next), now = "hashed" => inode = run[u].snapshot.inode,
             now # "hashed" => inode = path
      PROVE  IInv'
  <2>1. run[u].pc = now
    BY <1>2 DEF Check
  <2>2. ASSUME NEW r \in Runs, r.pc = next, r.snapshot = run[u].snapshot, r.read = run[u].read,
               r.digest = run[u].digest, r.disturbed = run[u].disturbed,
               Snapshot(inode) = run[u].snapshot
        PROVE  Sound(r)
    <3>1. ContentOf(r) = ContentOf(run[u]) /\ (Unmoved(r) <=> Unmoved(run[u])) /\ AtWork(run[u])
      BY <2>1, <2>2 DEF ContentOf, Unmoved, AtWork, Resting
    <3>2. Known(r)
      BY <1>1, <2>2, <3>1 DEF Known
    <3>3. Reads(r)
      <4>1. now = "hashed" => Unmoved(run[u])
        BY <1>2, <2>2 DEF Unmoved
      <4> QED  BY <1>1, <2>1, <2>2, <4>1 DEF Reads
    <3>4. Told(r)
      BY <2>2 DEF Told, Registering, Sending
    <3>5. Quiet(r)
      BY <1>1, <2>1, <2>2, <3>1 DEF Quiet, AtWork, Resting, Sending
    <3> QED  BY <3>2, <3>3, <3>4, <3>5 DEF Sound
  <2>3. now \in Steps \ Resting /\ next \in Steps
    BY DEF Steps, Resting, Hashing
  <2> QED  BY <1>2, <2>2, <2>3, CheckKept
<1>3. CASE Check(u, "hashed", run[u].snapshot.inode, "hashed_path")
  BY <1>2, <1>3
<1>4. CASE Check(u, "hashed_path", path, "verify")
  BY <1>2, <1>4
<1>5. CASE Check(u, "verify", path, "create")
  BY <1>2, <1>5
<1> QED  BY <1>3, <1>4, <1>5 DEF CheckHashed

-----------------------------------------------------------------------------
(* The hub.                                                                *)

LEMMA Object ==
    ASSUME IInv, NEW d \in Contents
    PROVE  /\ HasObject(d) => <<d, d>> \in stored /\ d \in registered
           /\ <<d, d>> \in stored => HasObject(d)
<1>1. ASSUME HasObject(d)  PROVE <<d, d>> \in stored /\ d \in registered
  <2>1. PICK o \in Contents : <<d, o>> \in stored
    BY <1>1 DEF HasObject
  <2>2. <<d, o>>[1] = d /\ <<d, o>>[2] = o
    OBVIOUS
  <2> QED  BY <2>1, <2>2 DEF IInv, Assets
<1> QED  BY <1>1 DEF HasObject

(* A step to another place of the code that changes the hub.               *)
LEMMA TellsHub ==
    ASSUME IInv, NEW u \in Uploaders, Active(u), NEW pc \in Steps, GoTo(u, pc),
           UNCHANGED fileVars, registered \subseteq registered', stored \subseteq stored',
           registered' \in SUBSET Contents, available' \in SUBSET Contents,
           stored' \in SUBSET (Contents \X Contents), Assets',
           \A r \in Runs : /\ r.pc = pc /\ r.snapshot = run[u].snapshot /\ r.read = run[u].read
                           /\ r.digest = run[u].digest /\ r.disturbed = run[u].disturbed
                           => Sound(r)'
    PROVE  IInv'
<1> DEFINE r == [run[u] EXCEPT !.pc = pc]
<1>1. run[u] \in Runs /\ run \in [Uploaders -> Runs]
  BY DEF IInv, Types
<1>2. /\ r \in Runs /\ r.pc = pc /\ r.snapshot = run[u].snapshot /\ r.read = run[u].read
      /\ r.digest = run[u].digest /\ r.disturbed = run[u].disturbed
  BY <1>1, StepTaken
<1>3. run' = [run EXCEPT ![u] = r]
  BY <1>1 DEF GoTo
<1>4. \A x \in Runs : x = r => Sound(x)'
  BY <1>2
<1> HIDE DEF r
<1> QED  BY <1>2, <1>3, <1>4, Advance

LEMMA CreateKept ==
    ASSUME IInv, NEW u \in Uploaders, Create(u)
    PROVE  IInv'
<1> DEFINE q == run[u]
<1>1. /\ q.pc = "create" /\ Active(u) /\ registered' = registered \union {q.digest}
      /\ UNCHANGED <<fileVars, available, stored>>
  BY DEF Create, Active, Resting
<1>2. /\ q \in Runs /\ Known(q) /\ Reads(q) /\ Told(q) /\ Quiet(q) /\ q.digest \in Contents
  BY Standing DEF Sound, Runs
<1>3. Assets /\ Types
  BY DEF IInv
<1>4. Assets'
  <2>1. unnoticed \/ q.digest \in versions
    BY <1>1, <1>2, <1>3 DEF Reads, Types
  <2> QED  BY <1>1, <1>3, <2>1 DEF Assets, fileVars
<1>5. /\ registered \subseteq registered' /\ stored \subseteq stored' /\ UNCHANGED fileVars
      /\ registered' \in SUBSET Contents /\ available' \in SUBSET Contents
      /\ stored' \in SUBSET (Contents \X Contents)
  BY <1>1, <1>2, <1>3 DEF Types
<1>6. CASE Over(u)
  BY <1>1, <1>4, <1>5, <1>6, OverKept
<1>7. CASE GoTo(u, IF q.digest \in registered THEN "details" ELSE "recheck")
  <2> DEFINE pc == IF q.digest \in registered THEN "details" ELSE "recheck"
  <2>1. pc \in {"details", "recheck"} /\ pc \in Steps
    BY DEF Steps, Registering
  <2>2. pc = "recheck" => ~HasObject(q.digest)
    BY <1>2, Object
  <2>3. GoTo(u, pc)
    BY <1>7
  <2> HIDE DEF pc
  <2>4. ASSUME NEW r \in Runs, r.pc = pc, r.snapshot = q.snapshot, r.read = q.read,
               r.digest = q.digest, r.disturbed = q.disturbed
        PROVE  Sound(r)'
    <3>1. ContentOf(r)' = ContentOf(q) /\ (Unmoved(r)' <=> Unmoved(q)) /\ AtWork(q)
      BY <1>1, <2>4 DEF ContentOf, Unmoved, AtWork, Resting, fileVars, Snapshot
    <3>2. Known(r)'
      BY <1>1, <1>2, <2>4, <3>1 DEF Known, fileVars
    <3>3. Reads(r)'
      BY <1>1, <2>1, <2>4 DEF Reads
    <3>4. Told(r)'
      BY <1>1, <2>1, <2>4 DEF Told, Registering, Sending
    <3>5. Quiet(r)'
      <4>1. (HasObject(r.digest))' <=> HasObject(q.digest)
        BY <1>1, <2>4 DEF HasObject
      <4> QED  BY <1>1, <1>2, <2>1, <2>2, <2>4, <3>1, <4>1 DEF Quiet, AtWork, Sending, fileVars
    <3> QED  BY <3>2, <3>3, <3>4, <3>5 DEF Sound
  <2> QED  BY <1>1, <1>4, <1>5, <2>1, <2>3, <2>4, TellsHub
<1> QED  BY <1>6, <1>7 DEF Create

LEMMA DetailsKept ==
    ASSUME IInv, NEW u \in Uploaders, Details(u)
    PROVE  IInv'
<1> DEFINE q == run[u]
<1>1. /\ q.pc = "details" /\ Active(u) /\ UNCHANGED <<fileVars, hubVars>>
  BY DEF Details, Active, Resting
<1>2. /\ q \in Runs /\ Known(q) /\ Reads(q) /\ Told(q) /\ Quiet(q) /\ q.digest \in Contents
  BY Standing DEF Sound, Runs
<1>3. CASE Over(u)
  <2>1. Assets' /\ Types
    BY <1>1, AssetsKept DEF IInv
  <2>2. /\ registered \subseteq registered' /\ stored \subseteq stored' /\ UNCHANGED fileVars
        /\ registered' \in SUBSET Contents /\ available' \in SUBSET Contents
        /\ stored' \in SUBSET (Contents \X Contents)
    BY <1>1, <2>1 DEF Types, hubVars
  <2> QED  BY <1>1, <1>3, <2>1, <2>2, OverKept
<1>4. CASE GoTo(u, "refinalize")
  <2>1. ASSUME NEW r \in Runs, r.pc = "refinalize", r.snapshot = q.snapshot, r.read = q.read,
               r.digest = q.digest, r.disturbed = q.disturbed
        PROVE  Sound(r)
    <3>1. ContentOf(r) = ContentOf(q) /\ (Unmoved(r) <=> Unmoved(q)) /\ AtWork(q)
      BY <1>1, <2>1 DEF ContentOf, Unmoved, AtWork, Resting
    <3> QED  BY <1>1, <1>2, <2>1, <3>1
             DEF Sound, Known, Reads, Told, Quiet, AtWork, Registering, Sending
  <2>2. "refinalize" \in Steps
    BY DEF Steps, Registering
  <2> QED  BY <1>1, <1>4, <2>1, <2>2, GoesTo
<1> QED  BY <1>3, <1>4 DEF Details

LEMMA FinalizedKept ==
    ASSUME IInv, NEW u \in Uploaders, Active(u), HasObject(run[u].digest), Finalized(u),
           UNCHANGED <<fileVars, registered, stored>>
    PROVE  IInv'
<1>1. run[u].digest \in Contents /\ Types /\ Assets
  BY Standing DEF Runs, IInv
<1>2. <<run[u].digest, run[u].digest>> \in stored
  BY <1>1, Object
<1>3. available' = available \union {run[u].digest} /\ Over(u)
  BY DEF Finalized
<1>4. Assets'
  BY <1>1, <1>2, <1>3 DEF Assets, fileVars
<1>5. /\ registered \subseteq registered' /\ stored \subseteq stored' /\ UNCHANGED fileVars
      /\ registered' \in SUBSET Contents /\ available' \in SUBSET Contents
      /\ stored' \in SUBSET (Contents \X Contents)
  BY <1>1, <1>3 DEF Types
<1> QED  BY <1>3, <1>4, <1>5, OverKept

LEMMA RefinalizeKept ==
    ASSUME IInv, NEW u \in Uploaders, Refinalize(u)
    PROVE  IInv'
<1> DEFINE q == run[u]
<1>1. /\ q.pc = "refinalize" /\ Active(u) /\ UNCHANGED <<fileVars, registered, stored>>
  BY DEF Refinalize, Active, Resting
<1>2. /\ q \in Runs /\ Known(q) /\ Reads(q) /\ Told(q) /\ Quiet(q) /\ q.digest \in Contents
  BY Standing DEF Sound, Runs
<1>3. CASE HasObject(q.digest)
  BY <1>1, <1>3, FinalizedKept DEF Refinalize
<1>4. CASE ~HasObject(q.digest)
  <2>1. GoTo(u, "recheck") /\ UNCHANGED <<fileVars, hubVars>>
    BY <1>1, <1>4 DEF Refinalize, hubVars
  <2>2. ASSUME NEW r \in Runs, r.pc = "recheck", r.snapshot = q.snapshot, r.read = q.read,
               r.digest = q.digest, r.disturbed = q.disturbed
        PROVE  Sound(r)
    <3>1. ContentOf(r) = ContentOf(q) /\ (Unmoved(r) <=> Unmoved(q)) /\ AtWork(q)
      BY <1>1, <2>2 DEF ContentOf, Unmoved, AtWork, Resting
    <3>2. Known(r) /\ Reads(r) /\ Told(r)
      BY <1>1, <1>2, <2>2, <3>1 DEF Known, Reads, Told, AtWork, Registering, Sending
    <3>3. Quiet(r)
      BY <1>1, <1>2, <1>4, <2>2, <3>1 DEF Quiet, AtWork, Sending
    <3> QED  BY <3>2, <3>3 DEF Sound
  <2>3. "recheck" \in Steps
    BY DEF Steps, Registering
  <2> QED  BY <1>1, <2>1, <2>2, <2>3, GoesTo
<1> QED  BY <1>3, <1>4

LEMMA FinalizeKept ==
    ASSUME IInv, NEW u \in Uploaders, Finalize(u)
    PROVE  IInv'
<1>1. /\ run[u].pc = "finalize" /\ Active(u) /\ UNCHANGED <<fileVars, registered, stored>>
  BY DEF Finalize, Active, Resting
<1>2. HasObject(run[u].digest)
  BY <1>1, Standing, Object DEF Sound, Told, Runs
<1> QED  BY <1>1, <1>2, FinalizedKept DEF Finalize

(* Of a run that nothing disturbs, the snapshot has the content's length.  *)
LEMMA QuietLength ==
    ASSUME IInv, NEW u \in Uploaders, Active(u), ~run[u].disturbed
    PROVE  run[u].snapshot.len = Len(ContentOf(run[u])) /\ Quiet(run[u]) /\ AtWork(run[u])
<1>1. Quiet(run[u]) /\ AtWork(run[u])
  BY Standing DEF Sound
<1>2. Snapshot(run[u].snapshot.inode) = run[u].snapshot
  BY <1>1 DEF Quiet, Unmoved
<1>3. Snapshot(run[u].snapshot.inode).len = Len(ContentOf(run[u]))
  BY DEF Snapshot, ContentOf
<1> QED  BY <1>1, <1>2, <1>3

LEMMA IssueUrlKept ==
    ASSUME IInv, NEW u \in Uploaders, IssueUrl(u)
    PROVE  IInv'
<1> DEFINE q == run[u]
<1>2. /\ q \in Runs /\ Known(q) /\ Reads(q) /\ Told(q) /\ Quiet(q) /\ q.digest \in Contents
      /\ ContentOf(q) \in Contents
  BY Standing DEF Sound, Runs
<1>3. CASE Check(u, "recheck", path, "issue")
  <2>1. q.pc = "recheck"
    BY <1>3 DEF Check
  <2>2. ASSUME NEW r \in Runs, r.pc = "issue", r.snapshot = q.snapshot, r.read = q.read,
               r.digest = q.digest, r.disturbed = q.disturbed
        PROVE  Sound(r)
    <3>1. ContentOf(r) = ContentOf(q) /\ (Unmoved(r) <=> Unmoved(q)) /\ AtWork(q)
      BY <2>1, <2>2 DEF ContentOf, Unmoved, AtWork, Resting
    <3>2. Known(r) /\ Reads(r) /\ Told(r)
      BY <1>2, <2>1, <2>2, <3>1 DEF Known, Reads, Told, AtWork, Registering, Sending
    <3>3. Quiet(r)
      BY <1>2, <2>1, <2>2, <3>1 DEF Quiet, AtWork, Sending
    <3> QED  BY <3>2, <3>3 DEF Sound
  <2>3. "recheck" \in Steps \ Resting /\ "issue" \in Steps
    BY DEF Steps, Registering, Resting
  <2> QED  BY <1>3, <2>2, <2>3, CheckKept
<1>4. CASE /\ q.pc = "issue" /\ GoTo(u, IF q.snapshot.len = 0 THEN "finish" ELSE "send")
           /\ UNCHANGED <<fileVars, hubVars>>
  <2> DEFINE pc == IF q.snapshot.len = 0 THEN "finish" ELSE "send"
  <2>1. /\ pc \in {"finish", "send"} /\ pc \in Steps /\ Active(u) /\ GoTo(u, pc)
        /\ (pc = "send" <=> q.snapshot.len # 0)
    BY <1>4 DEF Steps, Sending, Active, Resting
  <2> HIDE DEF pc
  <2>2. ASSUME NEW r \in Runs, r.pc = pc, r.snapshot = q.snapshot, r.read = q.read,
               r.digest = q.digest, r.disturbed = q.disturbed
        PROVE  Sound(r)
    <3>1. ContentOf(r) = ContentOf(q) /\ (Unmoved(r) <=> Unmoved(q)) /\ AtWork(q)
      BY <1>4, <2>2 DEF ContentOf, Unmoved, AtWork, Resting
    <3>2. Known(r) /\ Reads(r) /\ Told(r)
      BY <1>2, <1>4, <2>1, <2>2, <3>1 DEF Known, Reads, Told, AtWork, Registering, Sending
    <3>3. Quiet(r)
      <4> SUFFICES ASSUME ~q.disturbed  PROVE Quiet(r)
        BY <2>2 DEF Quiet
      <4>1. /\ q.read = <<>> /\ q.digest = ContentOf(q) /\ path = q.snapshot.inode /\ Unmoved(q)
            /\ ~HasObject(q.digest)
        BY <1>2, <1>4, <3>1 DEF Quiet, Sending
      <4>2. q.snapshot.len = Len(ContentOf(q))
        BY <2>1, QuietLength
      <4>3. pc = "send" => Prefix(q.read, ContentOf(q)) /\ Len(q.read) < q.snapshot.len
        BY <1>2, <2>1, <4>1, <4>2, EmptyPrefix
      <4>4. pc = "finish" => q.read = ContentOf(q)
        BY <1>2, <2>1, <4>1, <4>2, EmptyPrefix
      <4> QED  BY <2>1, <2>2, <3>1, <4>1, <4>3, <4>4 DEF Quiet, Sending
    <3> QED  BY <3>2, <3>3 DEF Sound
  <2> QED  BY <1>4, <2>1, <2>2, GoesTo
<1> QED  BY <1>3, <1>4 DEF IssueUrl

-----------------------------------------------------------------------------
(* The upload.                                                             *)

LEMMA SendChunkKept ==
    ASSUME IInv, NEW u \in Uploaders, SendChunk(u)
    PROVE  IInv'
<1> DEFINE q == run[u]
           at == Len(q.read) + 1
<1>1. /\ q.pc = "send" /\ Active(u) /\ UNCHANGED <<fileVars, hubVars>>
      /\ run \in [Uploaders -> Runs]
  BY DEF SendChunk, Active, Resting, IInv, Types
<1>2. /\ q \in Runs /\ Known(q) /\ Reads(q) /\ Told(q) /\ Quiet(q) /\ q.read \in Contents
      /\ Content(u) = ContentOf(q) /\ ContentOf(q) \in Contents
      /\ Len(q.read) \in Nat /\ Len(ContentOf(q)) \in Nat
  BY Standing, ContentShape DEF Sound, Runs
<1>3. CASE at > Len(Content(u))
  <2>1. GiveUp(u)
    BY <1>3 DEF SendChunk
  <2>2. q.disturbed
    <3> SUFFICES ASSUME ~q.disturbed  PROVE FALSE
      OBVIOUS
    <3>1. Len(q.read) < Len(ContentOf(q))
      BY <1>1, <1>2, QuietLength DEF Quiet
    <3> QED  BY <1>2, <1>3, <3>1
  <2> QED  BY <1>1, <2>1, <2>2, GaveUp
<1>4. CASE ~(at > Len(Content(u)))
  <2> DEFINE a == Append(q.read, ContentOf(q)[at])
             pc == IF at = q.snapshot.len THEN "finish" ELSE "send"
             r == [q EXCEPT !.read = a, !.pc = pc]
  <2>1. run' = [run EXCEPT ![u] = r]
    BY <1>1, <1>2, <1>4 DEF SendChunk
  <2>2. /\ a \in Contents /\ Len(a) = at
        /\ Prefix(q.read, ContentOf(q)) => Prefix(a, ContentOf(q))
    <3>1. at <= Len(ContentOf(q))
      BY <1>2, <1>4
    <3> QED  BY <1>2, <3>1, LongerContent
  <2>3. /\ pc \in {"finish", "send"} /\ pc \in Steps /\ (pc = "finish" <=> at = q.snapshot.len)
        /\ at = Len(q.read) + 1
    BY DEF Steps, Sending
  <2> HIDE DEF a, pc, at
  <2>4. /\ r \in Runs /\ r.pc = pc /\ r.snapshot = q.snapshot /\ r.digest = q.digest
        /\ r.read = a /\ r.disturbed = q.disturbed
    BY <1>2, <2>2, <2>3 DEF Runs
  <2> HIDE DEF r
  <2>5. ContentOf(r) = ContentOf(q) /\ (Unmoved(r) <=> Unmoved(q)) /\ AtWork(q)
    BY <1>1, <2>4 DEF ContentOf, Unmoved, AtWork, Resting
  <2>6. Known(r) /\ Reads(r) /\ Told(r)
    BY <1>1, <1>2, <2>3, <2>4, <2>5 DEF Known, Reads, Told, AtWork, Registering, Sending
  <2>7. Quiet(r)
    <3> SUFFICES ASSUME ~q.disturbed  PROVE Quiet(r)
      BY <2>4 DEF Quiet
    <3>1. /\ q.digest = ContentOf(q) /\ path = q.snapshot.inode /\ Unmoved(q)
          /\ ~HasObject(q.digest) /\ Prefix(q.read, ContentOf(q))
          /\ Len(q.read) < q.snapshot.len
      BY <1>1, <1>2, <2>5 DEF Quiet, Sending
    <3>2. q.snapshot.len = Len(ContentOf(q))
      BY <1>1, QuietLength
    <3>3. pc = "send" => Len(a) < q.snapshot.len
      BY <1>2, <2>2, <2>3, <3>1, <3>2
    <3>4. pc = "finish" => a = ContentOf(q)
      <4> SUFFICES ASSUME pc = "finish"  PROVE a = ContentOf(q)
        OBVIOUS
      <4>1. Len(ContentOf(q)) <= Len(a)
        BY <1>2, <2>2, <2>3, <3>2
      <4> QED  BY <1>2, <2>2, <3>1, <4>1, WholePrefix
    <3> QED  BY <2>2, <2>3, <2>4, <2>5, <3>1, <3>3, <3>4 DEF Quiet, Sending
  <2>8. Sound(r) /\ r.disturbed = run[u].disturbed
    BY <2>4, <2>6, <2>7 DEF Sound
  <2> QED  BY <1>1, <2>1, <2>4, <2>8, Alters
<1> QED  BY <1>3, <1>4

LEMMA FinishKept ==
    ASSUME IInv, NEW u \in Uploaders, Finish(u)
    PROVE  IInv'
<1> DEFINE q == run[u]
<1>1. /\ q \in Runs /\ Known(q) /\ Reads(q) /\ Told(q) /\ Quiet(q)
  BY Standing DEF Sound, Runs
<1>2. ASSUME NEW now \in {"finish", "finish_path"}, NEW inode,
             NEW next \in {"finish_path", "compare"}, Check(u, now, inode, next),
             inode = q.snapshot.inode \/ inode = path
      PROVE  IInv'
  <2>1. q.pc = now
    BY <1>2 DEF Check
  <2>2. ASSUME NEW r \in Runs, r.pc = next, r.snapshot = q.snapshot, r.read = q.read,
               r.digest = q.digest, r.disturbed = q.disturbed
        PROVE  Sound(r)
    <3>1. ContentOf(r) = ContentOf(q) /\ (Unmoved(r) <=> Unmoved(q)) /\ AtWork(q)
      BY <2>1, <2>2 DEF ContentOf, Unmoved, AtWork, Resting
    <3>2. Known(r) /\ Reads(r) /\ Told(r)
      BY <1>1, <2>1, <2>2, <3>1 DEF Known, Reads, Told, AtWork, Registering, Sending
    <3>3. Quiet(r)
      BY <1>1, <2>1, <2>2, <3>1 DEF Quiet, AtWork, Sending
    <3> QED  BY <3>2, <3>3 DEF Sound
  <2>3. now \in Steps \ Resting /\ next \in Steps
    BY DEF Steps, Sending, Resting
  <2> QED  BY <1>2, <2>2, <2>3, CheckKept
<1>3. CASE Check(u, "finish", q.snapshot.inode, "finish_path")
  BY <1>2, <1>3
<1>4. CASE Check(u, "finish_path", path, "compare")
  BY <1>2, <1>4
<1>5. CASE /\ q.pc = "compare" /\ IF q.read = q.digest THEN GoTo(u, "put") ELSE GiveUp(u)
           /\ UNCHANGED <<fileVars, hubVars>>
  <2>1. Active(u)
    BY <1>5 DEF Active, Resting
  <2>2. CASE q.read = q.digest
    <3>1. GoTo(u, "put")
      BY <1>5, <2>2
    <3>2. ASSUME NEW r \in Runs, r.pc = "put", r.snapshot = q.snapshot, r.read = q.read,
                 r.digest = q.digest, r.disturbed = q.disturbed
          PROVE  Sound(r)
      <4>1. ContentOf(r) = ContentOf(q) /\ (Unmoved(r) <=> Unmoved(q)) /\ AtWork(q)
        BY <1>5, <3>2 DEF ContentOf, Unmoved, AtWork, Resting
      <4>2. Known(r) /\ Reads(r) /\ Told(r)
        BY <1>1, <1>5, <2>2, <3>2, <4>1 DEF Known, Reads, Told, AtWork, Registering, Sending
      <4>3. Quiet(r)
        BY <1>1, <1>5, <3>2, <4>1 DEF Quiet, AtWork, Sending
      <4> QED  BY <4>2, <4>3 DEF Sound
    <3>3. "put" \in Steps
      BY DEF Steps, Sending
    <3> QED  BY <1>5, <2>1, <3>1, <3>2, <3>3, GoesTo
  <2>3. CASE q.read # q.digest
    <3>1. GiveUp(u)
      BY <1>5, <2>3
    <3>2. q.disturbed
      BY <1>1, <1>5, <2>1, <2>3, QuietLength DEF Quiet
    <3> QED  BY <1>5, <2>1, <3>1, <3>2, GaveUp
  <2> QED  BY <2>2, <2>3
<1> QED  BY <1>3, <1>4, <1>5 DEF Finish

LEMMA PutKept ==
    ASSUME IInv, NEW u \in Uploaders, Put(u)
    PROVE  IInv'
<1> DEFINE q == run[u]
<1>1. /\ q.pc = "put" /\ Active(u) /\ UNCHANGED <<fileVars, registered, available>>
  BY DEF Put, Active, Resting
<1>2. /\ q \in Runs /\ Known(q) /\ Reads(q) /\ Told(q) /\ Quiet(q) /\ q.digest \in Contents
      /\ q.read = q.digest /\ q.digest \in registered
  BY <1>1, Standing DEF Sound, Runs, Reads, Told, Sending
<1>3. Assets /\ Types
  BY DEF IInv
<1>4. CASE HasObject(q.digest)
  <2>1. GiveUp(u) /\ UNCHANGED <<fileVars, hubVars>>
    BY <1>1, <1>4 DEF Put, hubVars
  <2>2. q.disturbed
    BY <1>1, <1>2, <1>4 DEF Quiet
  <2> QED  BY <1>1, <2>1, <2>2, GaveUp
<1>5. CASE ~HasObject(q.digest)
  <2>1. stored' = stored \union {<<q.digest, q.digest>>} /\ (GoTo(u, "sent") \/ Over(u))
    BY <1>2, <1>5 DEF Put
  <2>2. Assets'
    <3>1. <<q.digest, q.digest>>[1] = q.digest /\ <<q.digest, q.digest>>[2] = q.digest
      OBVIOUS
    <3> QED  BY <1>1, <1>2, <1>3, <2>1, <3>1 DEF Assets, fileVars
  <2>3. /\ registered \subseteq registered' /\ stored \subseteq stored' /\ UNCHANGED fileVars
        /\ registered' \in SUBSET Contents /\ available' \in SUBSET Contents
        /\ stored' \in SUBSET (Contents \X Contents)
    BY <1>1, <1>2, <1>3, <2>1 DEF Types
  <2>4. ASSUME NEW r \in Runs, r.pc = "sent", r.snapshot = q.snapshot, r.read = q.read,
               r.digest = q.digest, r.disturbed = q.disturbed
        PROVE  Sound(r)'
    <3>1. ContentOf(r)' = ContentOf(q) /\ (Unmoved(r)' <=> Unmoved(q)) /\ AtWork(q)
      BY <1>1, <2>4 DEF ContentOf, Unmoved, AtWork, Resting, fileVars, Snapshot
    <3>2. Known(r)'
      BY <1>1, <1>2, <2>4, <3>1 DEF Known, fileVars
    <3>3. Reads(r)'
      BY <2>4 DEF Reads
    <3>4. Told(r)'
      BY <1>1, <1>2, <2>1, <2>4 DEF Told
    <3>5. Quiet(r)'
      BY <1>1, <1>2, <2>4, <3>1 DEF Quiet, AtWork, Sending, fileVars
    <3> QED  BY <3>2, <3>3, <3>4, <3>5 DEF Sound
  <2>5. CASE GoTo(u, "sent")
    <3>1. "sent" \in Steps
      BY DEF Steps, Sending
    <3> QED  BY <1>1, <2>2, <2>3, <2>4, <2>5, <3>1, TellsHub
  <2>6. CASE Over(u)
    BY <1>1, <2>2, <2>3, <2>6, OverKept
  <2> QED  BY <2>1, <2>5, <2>6
<1> QED  BY <1>4, <1>5

LEMMA CheckSentKept ==
    ASSUME IInv, NEW u \in Uploaders, CheckSent(u)
    PROVE  IInv'
<1> DEFINE q == run[u]
<1>1. /\ q \in Runs /\ Known(q) /\ Reads(q) /\ Told(q) /\ Quiet(q) /\ q.pc = "sent"
      /\ Check(u, "sent", path, "finalize")
  BY Standing DEF Sound, CheckSent, Check
<1>2. ASSUME NEW r \in Runs, r.pc = "finalize", r.snapshot = q.snapshot, r.read = q.read,
             r.digest = q.digest, r.disturbed = q.disturbed
      PROVE  Sound(r)
  <2>1. ContentOf(r) = ContentOf(q) /\ (Unmoved(r) <=> Unmoved(q)) /\ AtWork(q)
    BY <1>1, <1>2 DEF ContentOf, Unmoved, AtWork, Resting
  <2>2. Known(r) /\ Reads(r) /\ Told(r)
    BY <1>1, <1>2, <2>1 DEF Known, Reads, Told, AtWork, Registering, Sending
  <2>3. Quiet(r)
    BY <1>1, <1>2, <2>1 DEF Quiet, AtWork, Sending
  <2> QED  BY <2>2, <2>3 DEF Sound
<1>3. "sent" \in Steps \ Resting /\ "finalize" \in Steps
  BY DEF Steps, Sending, Resting
<1> QED  BY <1>1, <1>2, <1>3, CheckKept

-----------------------------------------------------------------------------
(* Everybody else's steps.                                                 *)

LEMMA OpenKept ==
    ASSUME IInv, NEW u \in Uploaders, Open(u)
    PROVE  IInv'
<1> DEFINE busy == \E w \in Uploaders \ {u} : Active(w)
           n == [NotRunning EXCEPT !.pc = "hash", !.snapshot = Snapshot(path), !.disturbed = busy]
           d(v) == [run[v] EXCEPT !.disturbed = run[v].disturbed \/ Active(v)]
<1>1. /\ Types /\ Files /\ Assets /\ Alone /\ AllSound
      /\ run \in [Uploaders -> Runs] /\ ~Active(u) /\ UNCHANGED <<fileVars, hubVars>>
      /\ path \in 0..MaxWrites
  <2>1. Types /\ Files /\ Assets /\ Alone /\ AllSound
    BY DEF IInv
  <2>2. run \in [Uploaders -> Runs] /\ path \in 0..MaxWrites
    BY <2>1, Counters DEF Types
  <2>3. ~Active(u) /\ UNCHANGED <<fileVars, hubVars>>
    BY DEF Open, Active
  <2> QED  BY <2>1, <2>2, <2>3
<1>2. run' = [v \in Uploaders |-> IF v = u THEN n ELSE d(v)]
  BY DEF Open
<1>3. /\ Snapshot(path) \in Snapshots /\ Snapshot(path).inode = path
      /\ Snapshot(path).len = Len(disk[path].content) /\ Snapshot(path).stamp = disk[path].stamp
      /\ disk[path].content \in Contents
  BY <1>1, ContentShape DEF Snapshot, Snapshots, Types
<1>4. /\ n \in Runs /\ n.pc = "hash" /\ n.snapshot = Snapshot(path) /\ n.read = <<>>
      /\ n.disturbed = busy
  BY <1>3, Idle, ContentShape DEF Runs, Steps, Hashing, NotRunning
<1>5. ASSUME NEW v \in Uploaders
      PROVE  /\ d(v) \in Runs /\ d(v).pc = run[v].pc /\ d(v).snapshot = run[v].snapshot
             /\ d(v).read = run[v].read /\ d(v).digest = run[v].digest
             /\ (d(v).disturbed <=> run[v].disturbed \/ Active(v))
  <2>1. run[v] \in Runs /\ (run[v].disturbed \/ Active(v)) \in BOOLEAN
    BY <1>1, Zenon
  <2> QED  BY <2>1 DEF Runs
<1>6. /\ run'[u] = n /\ \A v \in Uploaders \ {u} : run'[v] = d(v)
      /\ run' \in [Uploaders -> Runs]
  BY <1>2, <1>4, <1>5
<1>7. Types' /\ Files' /\ Assets'
  BY <1>1, <1>6, AssetsKept DEF Types, Files, fileVars, hubVars
<1>8. Sound(n)
  <2> HIDE DEF n
  <2>1. ContentOf(n) = disk[path].content /\ Unmoved(n)
    BY <1>3, <1>4 DEF ContentOf, Unmoved
  <2>2. Prefix(<<>>, ContentOf(n))
    BY <1>3, <2>1, EmptyPrefix
  <2>3. Known(n)
    <3>1. disk[path].content \in versions /\ disk[path].stamp <= writes
      BY <1>1 DEF Files
    <3>2. path <= writes
      BY <1>1, Counters
    <3> QED  BY <1>3, <1>4, <3>1, <3>2 DEF Known
  <2>4. Reads(n) /\ Told(n)
    BY <1>4, <2>2 DEF Reads, Told, Registering, Sending
  <2>5. Quiet(n)
    BY <1>3, <1>4, <2>1, <2>2 DEF Quiet, AtWork
  <2> QED  BY <2>3, <2>4, <2>5 DEF Sound
<1>9. ASSUME NEW v \in Uploaders, NEW r \in Runs, r.pc = run[v].pc, r.snapshot = run[v].snapshot,
             r.read = run[v].read, r.digest = run[v].digest,
             r.disturbed <=> run[v].disturbed \/ Active(v)
      PROVE  Sound(r)
  <2>1. Sound(run[v]) /\ (Active(v) <=> AtWork(run[v]))
    BY Standing
  <2>2. (AtWork(r) <=> AtWork(run[v])) /\ ContentOf(r) = ContentOf(run[v])
        /\ (Unmoved(r) <=> Unmoved(run[v]))
    BY <1>9 DEF AtWork, ContentOf, Unmoved
  <2>3. Known(r) /\ Reads(r) /\ Told(r)
    BY <1>9, <2>1, <2>2 DEF Sound, Known, Reads, Told
  <2>4. Quiet(r)
    BY <1>9, <2>1, <2>2 DEF Sound, Quiet, AtWork, Resting, Sending
  <2> QED  BY <2>3, <2>4 DEF Sound
<1> HIDE DEF n, d, busy
<1>10. AllSound'
  <2> SUFFICES ASSUME NEW v \in Uploaders, NEW r \in Runs, r = run'[v]
               PROVE  Sound(r)'
    BY DEF AllSound
  <2>1. CASE v = u
    <3>1. r = n
      BY <1>6, <2>1
    <3>2. Sound(r)
      BY <1>8, <3>1
    <3> QED  BY <1>1, <3>2, Frozen
  <2>2. CASE v # u
    <3>1. r = d(v)
      BY <1>6, <2>2
    <3>2. Sound(r)
      BY <1>5, <1>9, <3>1
    <3> QED  BY <1>1, <3>2, Frozen
  <2> QED  BY <2>1, <2>2
<1>11. Alone'
  <2> SUFFICES ASSUME NEW v \in Uploaders, Active(v)', ~(run'[v].disturbed),
                      NEW w \in Uploaders \ {v}
               PROVE  ~Active(w)'
    BY DEF Alone
  <2>1. CASE v = u
    <3>1. ~Active(w)
      BY <1>4, <1>6, <2>1 DEF busy
    <3> QED  BY <1>5, <1>6, <2>1, <3>1 DEF Active
  <2>2. CASE v # u
    <3>1. Active(v)
      BY <1>5, <1>6, <2>2 DEF Active
    <3> QED  BY <1>5, <1>6, <2>2, <3>1
  <2> QED  BY <2>1, <2>2
<1> QED  BY <1>7, <1>10, <1>11 DEF IInv

(* A change of the file: what is there now, or was there, is a version; a  *)
(* snapshot that holds afterwards held before, unless it does not tell.    *)
LEMMA ChangeKept ==
    ASSUME IInv, NEW content \in Contents, NEW inode \in 0..MaxWrites, NEW stamp \in 0..MaxWrites,
           Change(content, inode, stamp), inode <= writes + 1, stamp <= writes + 1,
           unnoticed' \in BOOLEAN, unnoticed => unnoticed',
           ~unnoticed' => inode = writes + 1 \/ stamp = writes + 1
                          \/ \A v \in versions : Len(v) # Len(content)
    PROVE  IInv'
<1> DEFINE d(v) == [run[v] EXCEPT !.disturbed = run[v].disturbed \/ Active(v)]
<1>1. /\ Types /\ Files /\ Assets /\ Alone /\ AllSound /\ run \in [Uploaders -> Runs]
      /\ writes \in Nat /\ writes + 1 \in 0..MaxWrites /\ writes' = writes + 1
      /\ disk \in [0..MaxWrites -> [content : Contents, stamp : 0..MaxWrites]]
      /\ disk' = [disk EXCEPT ![inode] = [content |-> content, stamp |-> stamp]]
      /\ path' = inode /\ versions' = versions \union {content} /\ UNCHANGED <<hubVars, runs>>
  <2>1. /\ Types /\ Files /\ Assets /\ Alone /\ AllSound
        /\ run \in [Uploaders -> Runs] /\ writes \in 0..MaxWrites
        /\ disk \in [0..MaxWrites -> [content : Contents, stamp : 0..MaxWrites]]
    BY DEF IInv, Types
  <2>2. /\ writes < MaxWrites /\ writes' = writes + 1
        /\ disk' = [disk EXCEPT ![inode] = [content |-> content, stamp |-> stamp]]
        /\ path' = inode /\ versions' = versions \union {content}
        /\ UNCHANGED <<hubVars, runs>>
    BY DEF Change
  <2>3. writes \in Nat /\ writes + 1 \in 0..MaxWrites
    BY <2>1, <2>2, UploadAssumption
  <2> QED  BY <2>1, <2>2, <2>3
<1>2. run' = [v \in Uploaders |-> d(v)]
  BY DEF Change, Disturb
<1>3. ASSUME NEW v \in Uploaders
      PROVE  /\ d(v) \in Runs /\ d(v).pc = run[v].pc /\ d(v).snapshot = run[v].snapshot
             /\ d(v).read = run[v].read /\ d(v).digest = run[v].digest
             /\ (d(v).disturbed <=> run[v].disturbed \/ Active(v))
  <2>1. run[v] \in Runs /\ (run[v].disturbed \/ Active(v)) \in BOOLEAN
    BY <1>1, Zenon
  <2> QED  BY <2>1 DEF Runs
<1>4. run' \in [Uploaders -> Runs] /\ \A v \in Uploaders : run'[v] = d(v)
  BY <1>2, <1>3
<1>5. /\ disk' \in [0..MaxWrites -> [content : Contents, stamp : 0..MaxWrites]]
      /\ disk'[inode].content = content /\ disk'[inode].stamp = stamp
      /\ \A i \in 0..MaxWrites : i # inode => disk'[i] = disk[i]
  BY <1>1
<1>6. Types'
  BY <1>1, <1>4, <1>5 DEF Types, hubVars
<1>7. Files'
  BY <1>1, <1>5 DEF Files
<1>8. Assets'
  BY <1>1 DEF Assets, hubVars
<1>9. Alone'
  <2> SUFFICES ASSUME NEW v \in Uploaders, Active(v)', ~(run'[v].disturbed)
               PROVE  FALSE
    BY DEF Alone
  <2> QED  BY <1>3, <1>4 DEF Active
<1>10. AllSound'
  <2> SUFFICES ASSUME NEW v \in Uploaders, NEW r \in Runs, r = run'[v]
               PROVE  Sound(r)'
    BY DEF AllSound
  <2>0. PICK q \in Runs : q = run[v]
    BY <1>1
  <2>1. /\ r.pc = q.pc /\ r.snapshot = q.snapshot /\ r.read = q.read /\ r.digest = q.digest
        /\ (r.disturbed <=> q.disturbed \/ Active(v))
    BY <1>3, <1>4, <2>0
  <2>2. /\ q \in Runs /\ Known(q) /\ Reads(q) /\ Told(q) /\ Quiet(q)
        /\ q.snapshot.inode \in 0..MaxWrites /\ (Active(v) <=> AtWork(q))
    BY <2>0, Standing DEF Sound
  <2> HIDE DEF d
  <2>3. Known(r)'
    BY <1>1, <2>1, <2>2 DEF Known, AtWork, Runs, Snapshots
  <2>4. PICK i \in 0..MaxWrites : i = q.snapshot.inode
    BY <2>2
  <2>5. ASSUME AtWork(r), ~unnoticed', Unmoved(r)'
        PROVE  ~unnoticed /\ Unmoved(q) /\ ContentOf(r)' = ContentOf(q)
    <3>1. /\ i <= writes /\ q.snapshot.stamp <= writes /\ AtWork(q)
          /\ \E c \in versions : Len(c) = q.snapshot.len
      BY <2>1, <2>2, <2>4, <2>5 DEF Known, AtWork
    <3>2. /\ disk'[i].stamp = q.snapshot.stamp /\ Len(disk'[i].content) = q.snapshot.len
      <4>1. Snapshot(i)' = q.snapshot
        BY <2>1, <2>4, <2>5 DEF Unmoved
      <4>2. Snapshot(i)'.stamp = disk'[i].stamp /\ Snapshot(i)'.len = Len(disk'[i].content)
        BY DEF Snapshot
      <4> QED  BY <4>1, <4>2
    <3>3. i # inode
      <4> SUFFICES ASSUME i = inode  PROVE FALSE
        OBVIOUS
      <4>1. stamp = q.snapshot.stamp /\ Len(content) = q.snapshot.len
        BY <1>5, <3>2
      <4>2. inode # writes + 1 /\ stamp # writes + 1
        <5>1. inode <= writes /\ stamp <= writes
          BY <3>1, <4>1
        <5> QED  BY <1>1, <5>1
      <4> QED  BY <2>5, <3>1, <4>1, <4>2
    <3>4. disk'[i] = disk[i]
      BY <1>5, <3>3
    <3>5. ContentOf(r)' = ContentOf(q)
      BY <2>1, <2>4, <3>4 DEF ContentOf
    <3>6. Unmoved(q)
      <4>1. Snapshot(i)' = Snapshot(i)
        BY <3>4 DEF Snapshot
      <4>2. Snapshot(i)' = q.snapshot
        BY <2>1, <2>4, <2>5 DEF Unmoved
      <4> QED  BY <2>4, <4>1, <4>2 DEF Unmoved
    <3> QED  BY <2>5, <3>5, <3>6
  <2>6. Reads(r)'
    <3>1. r.pc \in {"hash", "hashed"} => AtWork(r)
      BY DEF AtWork, Resting
    <3>2. ~unnoticed' /\ Unmoved(r)' /\ r.pc = "hash" => Prefix(r.read, ContentOf(r)')
      BY <2>1, <2>2, <2>5, <3>1 DEF Reads
    <3>3. ~unnoticed' /\ Unmoved(r)' /\ r.pc = "hashed" => r.digest = ContentOf(r)'
      BY <2>1, <2>2, <2>5, <3>1 DEF Reads
    <3>4. ~unnoticed' => ~unnoticed
      OBVIOUS
    <3>5. ~unnoticed' /\ r.pc \in {"hashed_path", "verify", "create"} => r.digest \in versions'
      BY <1>1, <2>1, <2>2, <3>4 DEF Reads
    <3>6. r.pc = "put" => r.read = r.digest
      BY <2>1, <2>2 DEF Reads
    <3> QED  BY <3>2, <3>3, <3>5, <3>6 DEF Reads
  <2>7. Told(r)'
    BY <1>1, <2>1, <2>2 DEF Told, hubVars
  <2>8. Quiet(r)'
    BY <2>1, <2>2 DEF Quiet, AtWork, Resting, Sending
  <2> QED  BY <2>3, <2>6, <2>7, <2>8 DEF Sound
<1> QED  BY <1>6, <1>7, <1>8, <1>9, <1>10 DEF IInv

LEMMA WriteInPlaceKept ==
    ASSUME IInv, NEW content \in Contents, NEW stamp \in 0..MaxWrites,
           WriteInPlace(content, stamp)
    PROVE  IInv'
<1>1. /\ Change(content, path, stamp) /\ stamp \in {disk[path].stamp, writes + 1}
      /\ unnoticed' = (unnoticed \/ (stamp = disk[path].stamp
                                     /\ \E before \in versions : Len(before) = Len(content)))
  BY DEF WriteInPlace
<1>2. /\ path \in 0..MaxWrites /\ path <= writes /\ writes \in Nat /\ disk[path].stamp <= writes
      /\ disk[path].stamp \in 0..MaxWrites /\ unnoticed \in BOOLEAN
  <2>1. /\ path \in 0..MaxWrites /\ writes \in 0..MaxWrites /\ unnoticed \in BOOLEAN
        /\ disk \in [0..MaxWrites -> [content : Contents, stamp : 0..MaxWrites]] /\ Files
        /\ path <= writes
    BY Counters DEF IInv, Types
  <2>2. path <= writes /\ disk[path].stamp <= writes /\ disk[path].stamp \in 0..MaxWrites
    BY <2>1 DEF Files
  <2>3. writes \in Nat
    BY <2>1, UploadAssumption
  <2> QED  BY <2>1, <2>2, <2>3
<1>3. stamp <= writes + 1 /\ path <= writes + 1
  BY <1>1, <1>2
<1>4. unnoticed' \in BOOLEAN /\ (unnoticed => unnoticed')
  BY <1>1, <1>2, Zenon
<1>5. ~unnoticed' => stamp = writes + 1 \/ \A v \in versions : Len(v) # Len(content)
  BY <1>1, Zenon
<1> QED  BY <1>1, <1>2, <1>3, <1>4, <1>5, ChangeKept

LEMMA ReplaceKept ==
    ASSUME IInv, NEW content \in Contents, Replace(content)
    PROVE  IInv'
<1>1. Change(content, writes + 1, writes + 1) /\ unnoticed' = unnoticed
  BY DEF Replace
<1>2. /\ writes \in Nat /\ writes < MaxWrites /\ unnoticed \in BOOLEAN
  BY <1>1, UploadAssumption DEF IInv, Types, Change
<1>3. writes + 1 \in 0..MaxWrites /\ writes + 1 <= writes + 1
  BY <1>2, UploadAssumption
<1> QED  BY <1>1, <1>2, <1>3, ChangeKept

-----------------------------------------------------------------------------
(* The invariant.                                                          *)

LEMMA InitInv ==
    ASSUME Init  PROVE IInv
<1>1. PICK content \in Contents :
        /\ disk = [i \in 0..MaxWrites |-> [content |-> content, stamp |-> 0]]
        /\ versions = {content}
  BY DEF Init
<1>2. /\ path = 0 /\ writes = 0 /\ unnoticed = FALSE /\ registered = {} /\ available = {}
      /\ stored = {} /\ run = [u \in Uploaders |-> NotRunning]
  BY DEF Init
<1>3. 0 \in 0..MaxWrites /\ 0 \in 0..0
  BY UploadAssumption
<1>4. Types
  BY <1>1, <1>2, <1>3, Idle DEF Types
<1>5. Files /\ Assets
  BY <1>1, <1>2 DEF Files, Assets
<1>6. \A u \in Uploaders : run[u] = NotRunning /\ ~Active(u)
  BY <1>2, Idle DEF Active, Resting
<1>7. Sound(NotRunning)
  BY Idle DEF Sound, Known, Reads, Told, Quiet, AtWork, Resting, Registering, Sending
<1>8. Alone /\ AllSound
  BY <1>6, <1>7 DEF Alone, AllSound
<1> QED  BY <1>4, <1>5, <1>8 DEF IInv

LEMMA StutterKept ==
    ASSUME IInv, UNCHANGED vars  PROVE IInv'
<1>1. UNCHANGED <<fileVars, hubVars>> /\ run' = run
  BY DEF vars, fileVars, hubVars
<1>2. Types' /\ Files' /\ Assets' /\ Alone'
  BY <1>1 DEF IInv, Types, Files, Assets, Alone, Active, fileVars, hubVars
<1>3. AllSound'
  BY <1>1, Frozen DEF IInv, AllSound
<1> QED  BY <1>2, <1>3 DEF IInv

LEMMA Invariance == Spec => []IInv
<1>1. Init => IInv
  BY InitInv
<1>2. IInv /\ [Next]_vars => IInv'
  <2> SUFFICES ASSUME IInv, [Next]_vars  PROVE IInv'
    OBVIOUS
  <2>1. ASSUME NEW content \in Contents,
               Replace(content) \/ \E stamp \in 0..MaxWrites : WriteInPlace(content, stamp)
        PROVE  IInv'
    BY <2>1, ReplaceKept, WriteInPlaceKept
  <2>2. ASSUME NEW u \in Uploaders, Open(u) \/ Hash(u) \/ CheckHashed(u) \/ Create(u)
        PROVE  IInv'
    BY <2>2, OpenKept, HashKept, CheckHashedKept, CreateKept
  <2>3. ASSUME NEW u \in Uploaders, Details(u) \/ Refinalize(u) \/ IssueUrl(u) \/ SendChunk(u)
        PROVE  IInv'
    BY <2>3, DetailsKept, RefinalizeKept, IssueUrlKept, SendChunkKept
  <2>4. ASSUME NEW u \in Uploaders,
               Finish(u) \/ Put(u) \/ CheckSent(u) \/ Finalize(u) \/ Interrupted(u)
        PROVE  IInv'
    BY <2>4, FinishKept, PutKept, CheckSentKept, FinalizeKept, InterruptedKept
  <2>5. CASE UNCHANGED vars
    BY <2>5, StutterKept
  <2> QED  BY <2>1, <2>2, <2>3, <2>4, <2>5 DEF Next
<1> QED  BY <1>1, <1>2, PTL DEF Spec

(* An asset's object is what the asset was registered as, an available     *)
(* asset has its object, and what is registered was the content of the     *)
(* file at one time (ensure_snapshot, UploadStream::finish), although the  *)
(* storage checks nothing - whatever is written to the file meanwhile, as  *)
(* long as its metadata tell, and whatever goes wrong.                     *)
THEOREM Faithful == Spec => []StoredFaithfully
<1>1. IInv => StoredFaithfully
  <2> SUFFICES ASSUME IInv  PROVE StoredFaithfully
    OBVIOUS
  <2>1. ASSUME NEW asset \in Contents, NEW object \in Contents, <<asset, object>> \in stored
        PROVE  asset = object
    <3>1. <<asset, object>>[1] = asset /\ <<asset, object>>[2] = object
      OBVIOUS
    <3> QED  BY <2>1, <3>1 DEF IInv, Assets
  <2> QED  BY <2>1 DEF StoredFaithfully, StoredAsHashed, NeverTorn, IInv, Assets
<1> QED  BY <1>1, Invariance, PTL

(* A run that no other run and no change of the file disturbs does not     *)
(* give up, whatever went wrong before it (the retries of                  *)
(* upload_repository_asset): it finds the asset, or its object, or can     *)
(* upload it.                                                              *)
THEOREM Succeeds == Spec => []UndisturbedSucceeds
<1>1. IInv => UndisturbedSucceeds
  BY Standing DEF UndisturbedSucceeds, Sound, Quiet
<1> QED  BY <1>1, Invariance, PTL
=============================================================================
