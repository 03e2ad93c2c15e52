-------------------------- MODULE DeviceIdentityProofs --------------------------
(***************************************************************************)
(* The invariants of DeviceIdentity hold for any number of processes, key  *)
(* pairs and pairing keys, also around the local API.                      *)
(***************************************************************************)
EXTENDS LocalApi, FiniteSetTheorems, SequenceTheorems, TLAPS

Holding == {"listen", "read", "redeem", "store", "sync", "answer", "connect"}
PCs == {"down", "find_cert", "find_key", "write_key", "sync_key", "write_cert", "sync_cert",
        "read_cert", "read_key", "run"} \union Holding
Hubs == DOMAIN Schemes \union {Nowhere}
ProcType == [pc : PCs, hub : Hubs, token : Nat, pair : Nat, cert : Nat, key : Nat,
             pairing : Nat, left : Seq(DOMAIN Schemes)]

(* What a file holds, or may hold after a loss of power.                   *)
Possible(f) == older[f] \union {file[f]}

IdentityType ==
    /\ file \in [Files -> Nat] /\ older \in [Files -> SUBSET Nat]
    /\ proc \in [Procs -> ProcType]
    /\ pairs \in Nat
    /\ hubOf \in [1..MaxKeys -> Hubs]
    /\ \A v \in Possible("credentials") : v = Absent \/ v \in 1..MaxKeys
    /\ \A p \in Procs : proc[p].pc = "redeem" => proc[p].pairing \in 1..MaxKeys
    /\ \A p \in Procs : proc[p].pc = "store" => proc[p].token \in 1..MaxKeys

LEMMA TypeInit == Init => IdentityType
  <1> SUFFICES ASSUME Init PROVE IdentityType
    OBVIOUS
  <1>1. Down \in ProcType
    BY DEF Down, ProcType, PCs, Hubs, Nowhere, Absent
  <1>2. proc \in [Procs -> ProcType] /\ \A p \in Procs : proc[p].pc = "down"
    BY <1>1 DEF Init, Down
  <1>3. QED
    BY <1>2, IdentityAssumption DEF Init, IdentityType, Hubs, Absent, Possible, Files

(* How an action changes one process, and that it does nothing else to it. *)
LEMMA SetPc ==
    ASSUME IdentityType, NEW p \in Procs, NEW pc \in PCs \ {"redeem", "store"},
           proc' = [proc EXCEPT ![p].pc = pc]
    PROVE  /\ proc' \in [Procs -> ProcType]
           /\ proc'[p] = [proc[p] EXCEPT !.pc = pc]
           /\ \A q \in Procs \ {p} : proc'[q] = proc[q]
           /\ \A q \in Procs : proc'[q].pc = "redeem" => proc'[q].pairing \in 1..MaxKeys
           /\ \A q \in Procs : proc'[q].pc = "store" => proc'[q].token \in 1..MaxKeys
  BY DEF IdentityType, ProcType

LEMMA SetDown ==
    ASSUME IdentityType, NEW p \in Procs, Stops(p)
    PROVE  /\ proc' \in [Procs -> ProcType]
           /\ proc'[p] = Down
           /\ \A q \in Procs \ {p} : proc'[q] = proc[q]
           /\ \A q \in Procs : proc'[q].pc = "redeem" => proc'[q].pairing \in 1..MaxKeys
           /\ \A q \in Procs : proc'[q].pc = "store" => proc'[q].token \in 1..MaxKeys
  <1>1. Down \in ProcType /\ Down.pc = "down"
    BY DEF Down, ProcType, PCs, Hubs, Nowhere, Absent
  <1>2. QED
    BY <1>1 DEF IdentityType, Stops

(* The same for two fields, none of which decides the rest of the type.    *)
LEMMA SetTwo ==
    ASSUME IdentityType, NEW p \in Procs, NEW pc \in PCs \ {"redeem", "store"}, NEW value \in Nat,
           \/ proc' = [proc EXCEPT ![p].pc = pc, ![p].cert = value]
           \/ proc' = [proc EXCEPT ![p].pc = pc, ![p].pair = value]
           \/ proc' = [proc EXCEPT ![p].key = value, ![p].pc = pc]
    PROVE  /\ proc' \in [Procs -> ProcType]
           /\ \A q \in Procs : proc'[q].pc = "redeem" => proc'[q].pairing \in 1..MaxKeys
           /\ \A q \in Procs : proc'[q].pc = "store" => proc'[q].token \in 1..MaxKeys
  <1>0. proc \in [Procs -> ProcType]
    BY DEF IdentityType
  <1>1. /\ proc' \in [Procs -> ProcType]
        /\ proc'[p].pc = pc
        /\ \A q \in Procs \ {p} : proc'[q] = proc[q]
    <2>1. CASE proc' = [proc EXCEPT ![p].pc = pc, ![p].cert = value]
      <3>1. [proc[p] EXCEPT !.pc = pc, !.cert = value] \in ProcType
        BY <1>0 DEF ProcType
      <3>2. proc' = [proc EXCEPT ![p] = [proc[p] EXCEPT !.pc = pc, !.cert = value]]
        BY <1>0, <2>1 DEF ProcType
      <3>3. [proc[p] EXCEPT !.pc = pc, !.cert = value].pc = pc
        BY <1>0 DEF ProcType
      <3>4. QED
        BY <1>0, <3>1, <3>2, <3>3
    <2>2. CASE proc' = [proc EXCEPT ![p].pc = pc, ![p].pair = value]
      <3>1. [proc[p] EXCEPT !.pc = pc, !.pair = value] \in ProcType
        BY <1>0 DEF ProcType
      <3>2. proc' = [proc EXCEPT ![p] = [proc[p] EXCEPT !.pc = pc, !.pair = value]]
        BY <1>0, <2>2 DEF ProcType
      <3>3. [proc[p] EXCEPT !.pc = pc, !.pair = value].pc = pc
        BY <1>0 DEF ProcType
      <3>4. QED
        BY <1>0, <3>1, <3>2, <3>3
    <2>3. CASE proc' = [proc EXCEPT ![p].key = value, ![p].pc = pc]
      BY <1>0, <2>3 DEF ProcType
    <2>4. QED
      BY <2>1, <2>2, <2>3
  <1>2. QED
    BY <1>1 DEF IdentityType

LEMMA TypeNext == IdentityType /\ [Next]_vars => IdentityType'
  <1> SUFFICES ASSUME IdentityType, [Next]_vars PROVE IdentityType'
    OBVIOUS
  <1> USE DEF Step, Possible
  <1>d. \A f \in Files : file[f] \in Nat /\ older[f] \in SUBSET Nat
    BY DEF IdentityType
  <1>1. CASE UNCHANGED vars
    BY <1>1 DEF IdentityType, vars
  <1>2. ASSUME NEW p \in Procs, Start(p) PROVE IdentityType'
    <2>0. ConfiguredToken \in Nat /\ 1..MaxKeys \subseteq Nat /\ Absent \in Nat
      BY IdentityAssumption DEF ConfiguredToken, Absent
    <2>1. /\ Credentials \in Nat
          /\ Credentials = ConfiguredToken \/ Credentials = Absent \/ Credentials \in 1..MaxKeys
      BY <2>0 DEF Credentials, IdentityType
    <2>4. HubOf(Credentials) \in Hubs
      BY <2>1, IdentityAssumption DEF HubOf, IdentityType, Hubs
    <2>5. "find_cert" \in PCs /\ Nowhere \in Hubs
      BY DEF PCs, Hubs
    <2>2. [Down EXCEPT !.pc = "find_cert", !.token = Credentials, !.hub = HubOf(Credentials)]
            \in ProcType
      <3>1. Down \in ProcType
        BY DEF Down, ProcType, PCs, Hubs, Nowhere, Absent
      <3>2. QED
        BY <2>1, <2>4, <2>5, <3>1 DEF ProcType
    <2>3. QED
      BY <1>2, <2>2 DEF Start, IdentityType, KeepDisk, KeepHub
  <1>3. ASSUME NEW p \in Procs, CertificateExists(p) PROVE IdentityType'
    <2>1. file["cert"] \in Nat
      BY <1>d DEF Files
    <2>2. QED
      BY <1>3, <2>1, SetTwo DEF CertificateExists, IdentityType, PCs, KeepDisk, KeepHub
  <1>4. ASSUME NEW p \in Procs, KeyExists(p) PROVE IdentityType'
    <2>1. pairs + 1 \in Nat
      BY DEF IdentityType
    <2> DEFINE new == pairs + 1
    <2> HIDE DEF new
    <2>2. new \in Nat
      BY <2>1 DEF new
    <2>3. CASE Step(p, "read_cert") /\ UNCHANGED <<pairs, raced>>
      BY <1>4, <2>3, SetPc DEF KeyExists, IdentityType, PCs, KeepDisk
    <2>4. CASE proc' = [proc EXCEPT ![p].pc = "write_key", ![p].pair = new] /\ pairs' = new
      BY <1>4, <2>4, <2>2, SetTwo DEF KeyExists, IdentityType, PCs, KeepDisk
    <2>5. CASE Stops(p) /\ UNCHANGED <<pairs, raced>>
      BY <1>4, <2>5, SetDown DEF KeyExists, IdentityType, KeepDisk
    <2>6. QED
      BY <1>4, <2>3, <2>4, <2>5 DEF KeyExists, new
  <1>5. ASSUME NEW p \in Procs, WriteKey(p) \/ WriteCert(p) PROVE IdentityType'
    <2>1. PICK f \in Files \ {"credentials"}, next \in {"sync_key", "sync_cert"} :
            Rename(f, proc[p].pair) /\ Step(p, next) /\ KeepHub /\ UNCHANGED hubOf
      BY <1>5 DEF WriteKey, WriteCert, WriteIdentity, Files
    <2>2. proc[p].pair \in Nat
      BY DEF IdentityType, ProcType
    <2>3. /\ file' \in [Files -> Nat] /\ older' \in [Files -> SUBSET Nat]
          /\ Possible("credentials")' = Possible("credentials")
      BY <2>1, <2>2, <1>d DEF IdentityType, Rename, Files
    <2>4. next \in PCs \ {"redeem", "store"}
      BY DEF PCs, Holding
    <2>5. QED
      BY <2>1, <2>3, <2>4, SetPc DEF IdentityType, KeepHub
  <1>6. ASSUME NEW p \in Procs, SyncKey(p) \/ SyncCert(p) PROVE IdentityType'
    <2>1. PICK f \in Files, next \in {"write_cert", "read_cert"} :
            SyncParent(f) /\ Step(p, next) /\ KeepHub /\ UNCHANGED <<file, hubOf>>
      BY <1>6 DEF SyncKey, SyncCert, SyncIdentity, Files
    <2>2. older' \in [Files -> SUBSET Nat] /\ Possible("credentials")' \subseteq Possible("credentials")
      BY <2>1 DEF IdentityType, SyncParent, Files
    <2>3. next \in PCs \ {"redeem", "store"}
      BY DEF PCs, Holding
    <2>4. QED
      BY <2>1, <2>2, <2>3, SetPc DEF IdentityType, KeepHub
  <1>7. ASSUME NEW p \in Procs, ReadCert(p) PROVE IdentityType'
    <2>1. file["cert"] \in Nat
      BY <1>d DEF Files
    <2>2. QED
      BY <1>7, <2>1, SetTwo DEF ReadCert, IdentityType, PCs, KeepDisk, KeepHub
  <1>8. ASSUME NEW p \in Procs, ReadKey(p) PROVE IdentityType'
    <2>1. CASE Stops(p)
      BY <1>8, <2>1, SetDown DEF ReadKey, IdentityType, KeepDisk, KeepHub
    <2>2. CASE \E pc \in {"listen", "connect"} :
                 proc' = [proc EXCEPT ![p].key = file["key"], ![p].pc = pc]
      <3>1. file["key"] \in Nat
        BY <1>d DEF Files
      <3>2. PICK pc \in {"listen", "connect"} :
              proc' = [proc EXCEPT ![p].key = file["key"], ![p].pc = pc]
        BY <2>2
      <3>3. pc \in PCs \ {"redeem", "store"}
        BY DEF PCs, Holding
      <3>4. QED
        BY <1>8, <3>1, <3>2, <3>3, SetTwo DEF ReadKey, IdentityType, KeepDisk, KeepHub
    <2>3. QED
      BY <1>8, <2>1, <2>2 DEF ReadKey
  <1>9. ASSUME NEW p \in Procs, Connect(p) PROVE IdentityType'
    BY <1>9, SetDown, SetPc DEF Connect, IdentityType, PCs, KeepDisk, KeepHub
  <1>10. ASSUME NEW p \in Procs, AcceptClient(p) \/ AnswerOther(p) \/ RedeemFails(p)
                                   \/ AnswerPaired(p)
         PROVE IdentityType'
    <2>1. PICK pc \in {"read", "listen", "connect"} : Step(p, pc) /\ KeepDisk /\ KeepHub
      BY <1>10 DEF AcceptClient, AnswerOther, RedeemFails, AnswerPaired
    <2>2. QED
      BY <2>1, SetPc DEF IdentityType, PCs, Holding, KeepDisk, KeepHub
  <1>11. ASSUME NEW p \in Procs, NEW key \in 1..MaxKeys, PostPair(p, key) PROVE IdentityType'
    <2>1. PICK list \in Targets :
            proc' = [proc EXCEPT ![p].pc = "redeem", ![p].pairing = key, ![p].left = list]
      BY <1>11 DEF PostPair
    <2>2. list \in Seq(DOMAIN Schemes)
      <3>1. CASE list = Endpoints
        BY <3>1, IdentityAssumption
      <3>2. ASSUME NEW domain \in Domains, list = <<domain>> PROVE list \in Seq(DOMAIN Schemes)
        <4>1. domain \in DOMAIN Schemes
          BY IdentityAssumption
        <4>2. QED
          BY <3>2, <4>1
      <3>3. QED
        BY <3>1, <3>2 DEF Targets
    <2>3. key \in Nat
      OBVIOUS
    <2>4. proc' \in [Procs -> ProcType]
      <3>1. "redeem" \in PCs /\ proc \in [Procs -> ProcType]
        BY DEF PCs, Holding, IdentityType
      <3>2. QED
        BY <2>1, <2>2, <2>3, <3>1 DEF ProcType
    <2>5. proc'[p].pc = "redeem" /\ proc'[p].pairing = key
          /\ \A q \in Procs \ {p} : proc'[q] = proc[q]
      BY <2>1 DEF IdentityType, ProcType
    <2>6. QED
      BY <1>11, <2>4, <2>5 DEF PostPair, IdentityType, KeepDisk, KeepHub
  <1>12. ASSUME NEW p \in Procs, RedeemAt(p) PROVE IdentityType'
    <2> DEFINE key == proc[p].pairing
    <2>0. key \in 1..MaxKeys /\ key \in Nat
      BY <1>12 DEF RedeemAt, IdentityType
    <2>1. proc[p].left \in Seq(DOMAIN Schemes) /\ proc[p].left # <<>>
      BY <1>12 DEF RedeemAt, IdentityType, ProcType
    <2>2. Head(proc[p].left) \in Hubs /\ Tail(proc[p].left) \in Seq(DOMAIN Schemes)
      <3>1. Head(proc[p].left) \in DOMAIN Schemes /\ Tail(proc[p].left) \in Seq(DOMAIN Schemes)
        BY <2>1, HeadTailProperties
      <3>2. QED
        BY <3>1 DEF Hubs
    <2> HIDE DEF key
    <2>3. CASE proc' = [proc EXCEPT ![p].pc = "store", ![p].token = key,
                                    ![p].hub = Head(proc[p].left)]
      <3>1. proc' \in [Procs -> ProcType]
        <4>1. "store" \in PCs /\ proc \in [Procs -> ProcType]
          BY DEF PCs, Holding, IdentityType
        <4>2. QED
          BY <2>3, <2>0, <2>2, <4>1 DEF ProcType
      <3>2. proc'[p].pc = "store" /\ proc'[p].token = key
            /\ \A q \in Procs \ {p} : proc'[q] = proc[q]
        BY <2>3 DEF IdentityType, ProcType
      <3>3. QED
        BY <1>12, <2>0, <3>1, <3>2 DEF RedeemAt, IdentityType, KeepDisk
    <2>4. CASE proc' = [proc EXCEPT ![p].left = Tail(proc[p].left)]
      <3>1. proc' \in [Procs -> ProcType]
        BY <2>4, <2>2 DEF IdentityType, ProcType
      <3>2. \A q \in Procs : proc'[q].pc = proc[q].pc /\ proc'[q].pairing = proc[q].pairing
                             /\ proc'[q].token = proc[q].token
        BY <2>4 DEF IdentityType, ProcType
      <3>3. QED
        BY <1>12, <3>1, <3>2 DEF RedeemAt, IdentityType, KeepDisk
    <2>5. QED
      BY <1>12, <2>3, <2>4 DEF RedeemAt, key
  <1>13. ASSUME NEW p \in Procs, StoreCredentials(p) PROVE IdentityType'
    <2>1. proc[p].token \in Nat /\ proc[p].hub \in Hubs /\ "credentials" \in Files
      BY DEF IdentityType, ProcType, Files
    <2>2. hubOf' \in [1..MaxKeys -> Hubs]
      BY <1>13, <2>1 DEF StoreCredentials, IdentityType
    <2>3. file' \in [Files -> Nat] /\ older' \in [Files -> SUBSET Nat]
      BY <1>13, <2>1, <1>d DEF StoreCredentials, Rename, IdentityType
    <2>5. proc[p].token \in 1..MaxKeys
      BY <1>13 DEF StoreCredentials, IdentityType
    <2>6. \A v \in Possible("credentials")' : v \in Possible("credentials") \union {proc[p].token}
      BY <1>13, <2>1 DEF StoreCredentials, Rename, IdentityType
    <2>4. QED
      BY <1>13, <2>2, <2>3, <2>5, <2>6, SetPc DEF StoreCredentials, IdentityType, PCs, Holding, KeepHub
  <1>14. ASSUME NEW p \in Procs, SyncCredentials(p) PROVE IdentityType'
    BY <1>14, SetPc DEF SyncCredentials, SyncParent, IdentityType, PCs, Holding, KeepHub, Files
  <1>15. ASSUME NEW p \in Procs, WriteFails(p) PROVE IdentityType'
    <2>1. CASE Stops(p)
      BY <1>15, <2>1, SetDown DEF WriteFails, IdentityType, KeepDisk, KeepHub
    <2>2. CASE proc' = [proc EXCEPT ![p].pc = "listen", ![p].token = Absent, ![p].hub = Nowhere]
      <3>1. "listen" \in PCs /\ proc \in [Procs -> ProcType] /\ Absent \in Nat /\ Nowhere \in Hubs
        BY DEF PCs, Holding, IdentityType, Hubs, Absent
      <3>2. proc' \in [Procs -> ProcType] /\ proc'[p].pc = "listen"
            /\ \A q \in Procs \ {p} : proc'[q] = proc[q]
        BY <2>2, <3>1 DEF ProcType
      <3>3. QED
        BY <1>15, <3>2 DEF WriteFails, IdentityType, KeepDisk, KeepHub
    <2>3. QED
      BY <1>15, <2>1, <2>2 DEF WriteFails
  <1>16. ASSUME NEW p \in Procs, Ends(p) PROVE IdentityType'
    BY <1>16, SetDown DEF Ends, IdentityType, KeepDisk, KeepHub
  <1>17. CASE PowerLoss
    <2>1. Down \in ProcType /\ Down.pc = "down"
      BY DEF Down, ProcType, PCs, Hubs, Nowhere, Absent
    <2>2. file' \in [Files -> Nat]
      <3>1. PICK lost \in [Files -> 0..(MaxPairs + MaxKeys)] : file' = lost
        BY <1>17 DEF PowerLoss
      <3>2. 0..(MaxPairs + MaxKeys) \subseteq Nat
        OBVIOUS
      <3>3. QED
        BY <3>1, <3>2
    <2>3. Possible("credentials")' \subseteq Possible("credentials")
      BY <1>17, <2>2 DEF PowerLoss, Files
    <2>4. QED
      BY <1>17, <2>1, <2>2, <2>3 DEF PowerLoss, IdentityType, KeepHub
  <1>18. QED
    BY <1>1, <1>2, <1>3, <1>4, <1>5, <1>6, <1>7, <1>8, <1>9, <1>10, <1>11, <1>12, <1>13, <1>14,
       <1>15, <1>16, <1>17 DEF Next, Work

-----------------------------------------------------------------------------
(* What is shown and what is stored.                                       *)

HubFor(token) ==
    IF token = ConfiguredToken THEN OwnHub ELSE IF token = Absent THEN Nowhere ELSE Home

(* A process that is through with its identity holds a pair.               *)
HoldsPair == \A p \in Procs :
    proc[p].pc \in Holding => proc[p].key = proc[p].cert /\ proc[p].cert # Absent

(* Credentials, on disk and in a process, name the hub that issued them.   *)
HubKnown ==
    /\ \A v \in Possible("credentials") : v = Absent \/ hubOf[v] = Home
    /\ \A p \in Procs : proc[p].pc # "down" => proc[p].hub = HubFor(proc[p].token)
    /\ \A p \in Procs : proc[p].pc \in {"sync", "answer", "connect"} => proc[p].token # Absent

(* They are on disk before they are synced, and durable before the answer. *)
Stored ==
    /\ \A p \in Procs : proc[p].pc = "sync" => file["credentials"] # Absent
    /\ told \/ (\E p \in Procs : proc[p].pc = "answer") => Absent \notin Possible("credentials")

ShownInv == IdentityType /\ HoldsPair /\ HubKnown /\ Stored /\ PresentedTogether

(* The processes other than p, and the fields of p but one.                *)
Others(p) == \A q \in Procs \ {p} : proc'[q] = proc[q]
SameIdentity(p) == proc'[p].key = proc[p].key /\ proc'[p].cert = proc[p].cert
SameToken(p) == proc'[p].token = proc[p].token /\ proc'[p].hub = proc[p].hub

LEMMA StepFields ==
    ASSUME IdentityType, NEW p \in Procs, NEW pc, Step(p, pc)
    PROVE  /\ proc'[p].pc = pc /\ proc'[p].pair = proc[p].pair
           /\ Others(p) /\ SameIdentity(p) /\ SameToken(p)
  BY DEF Step, IdentityType, ProcType, Others, SameIdentity, SameToken

LEMMA StopsFields ==
    ASSUME IdentityType, NEW p \in Procs, Stops(p)
    PROVE  proc'[p] = Down /\ proc'[p].pc = "down" /\ proc'[p].cert = Absent /\ Others(p)
  BY SetDown DEF Others, Down

LEMMA ShownInit == Init => ShownInv
  <1> SUFFICES ASSUME Init PROVE ShownInv
    OBVIOUS
  <1>1. \A p \in Procs : proc[p].pc = "down"
    BY DEF Init, Down
  <1>2. HubKnown /\ Stored
    BY <1>1 DEF Init, HubKnown, Stored, Possible, Files
  <1>3. QED
    BY <1>1, <1>2, TypeInit DEF Init, ShownInv, HoldsPair, Holding, PresentedTogether

(* A step of p that keeps the disk and moves p to a pc where less is       *)
(* claimed preserves everything.                                           *)
LEMMA ShownKept ==
    ASSUME ShownInv, IdentityType', NEW p \in Procs, Others(p), UNCHANGED <<presented, told>>,
           \A v \in Possible("credentials")' : v \in Possible("credentials") /\ hubOf'[v] = hubOf[v],
           file'["credentials"] = file["credentials"],
           \/ proc'[p].pc = "down"
           \/ /\ SameToken(p) /\ proc[p].pc # "down"
              /\ proc'[p].pc \in Holding =>
                   \/ SameIdentity(p) /\ proc[p].pc \in Holding
                   \/ proc'[p].key = proc'[p].cert /\ proc'[p].cert # Absent
              /\ proc'[p].pc \notin {"sync", "answer"}
              /\ proc'[p].pc = "connect" => proc[p].token # Absent
    PROVE  ShownInv'
  <1>1. HoldsPair'
    BY DEF ShownInv, HoldsPair, Others, SameIdentity, Holding
  <1>2. HubKnown'
    <2>1. \A v \in Possible("credentials")' : v = Absent \/ hubOf'[v] = Home
      BY DEF ShownInv, HubKnown
    <2>2. \A q \in Procs : proc'[q].pc # "down" => proc'[q].hub = HubFor(proc'[q].token)
      BY DEF ShownInv, HubKnown, Others, SameToken
    <2>3. \A q \in Procs : proc'[q].pc \in {"sync", "answer", "connect"} => proc'[q].token # Absent
      BY DEF ShownInv, HubKnown, Others, SameToken
    <2>4. QED
      BY <2>1, <2>2, <2>3 DEF HubKnown, HubFor, ConfiguredToken
  <1>3. Stored'
    BY DEF ShownInv, Stored, Others
  <1>4. PresentedTogether'
    BY DEF ShownInv, PresentedTogether, ConfiguredToken
  <1>5. QED
    BY <1>1, <1>2, <1>3, <1>4 DEF ShownInv

LEMMA ShownNext == ShownInv /\ [Next]_vars => ShownInv'
  <1> SUFFICES ASSUME ShownInv, [Next]_vars PROVE ShownInv'
    OBVIOUS
  <1>t. IdentityType /\ IdentityType'
    BY TypeNext DEF ShownInv
  <1>k. KeepDisk => /\ \A v \in Possible("credentials")' :
                         v \in Possible("credentials") /\ hubOf'[v] = hubOf[v]
                    /\ file'["credentials"] = file["credentials"]
    BY DEF KeepDisk, Possible
  <1>d. \A p \in Procs : proc[p].pc # "down" => proc[p].hub = HubFor(proc[p].token)
    BY DEF ShownInv, HubKnown
  <1>1. CASE UNCHANGED vars
    BY <1>1, <1>t DEF vars, historyVars, ShownInv, HoldsPair, HubKnown, Stored, PresentedTogether,
                      Possible, HubFor, ConfiguredToken
  <1>2. ASSUME NEW p \in Procs, Start(p) PROVE ShownInv'
    <2>1. /\ proc'[p] = [Down EXCEPT !.pc = "find_cert", !.token = Credentials,
                                     !.hub = HubOf(Credentials)]
          /\ Others(p)
      BY <1>2, <1>t DEF Start, IdentityType, Others
    <2>2. proc'[p].pc = "find_cert" /\ proc'[p].token = Credentials
          /\ proc'[p].hub = HubOf(Credentials)
      BY <2>1 DEF Down
    <2>3. HubOf(Credentials) = HubFor(Credentials)
      BY DEF HubOf, HubFor, Credentials, ShownInv, HubKnown, Possible
    <2>4. HoldsPair'
      BY <2>1, <2>2 DEF ShownInv, HoldsPair, Holding, Others
    <2>5. HubKnown'
      <3>1. \A v \in Possible("credentials")' : v = Absent \/ hubOf'[v] = Home
        BY <1>2, <1>k DEF Start, ShownInv, HubKnown
      <3>2. \A q \in Procs : proc'[q].pc # "down" => proc'[q].hub = HubFor(proc'[q].token)
        BY <1>d, <2>1, <2>2, <2>3 DEF Others
      <3>3. \A q \in Procs : proc'[q].pc \in {"sync", "answer", "connect"} => proc'[q].token # Absent
        BY <2>1, <2>2 DEF ShownInv, HubKnown, Others
      <3>4. QED
        BY <3>1, <3>2, <3>3 DEF HubKnown, HubFor, ConfiguredToken
    <2>6. Stored' /\ PresentedTogether'
      BY <1>2, <1>k, <2>1, <2>2
         DEF Start, historyVars, ShownInv, Stored, Others, PresentedTogether, ConfiguredToken
    <2>7. QED
      BY <1>t, <2>4, <2>5, <2>6 DEF ShownInv
  <1>3. ASSUME NEW p \in Procs, CertificateExists(p) \/ KeyExists(p) \/ ReadCert(p) PROVE ShownInv'
    <2>1. KeepDisk /\ UNCHANGED <<presented, told>> /\ proc[p].pc \notin {"down"} \union Holding
      BY <1>3 DEF CertificateExists, KeyExists, ReadCert, historyVars, Holding
    <2>2. /\ Others(p)
          /\ proc'[p].pc = "down" \/ (SameToken(p) /\ proc'[p].pc \notin Holding)
      <3>1. CASE Stops(p)
        BY <1>t, <3>1, StopsFields
      <3>2. CASE Step(p, "read_cert")
        BY <1>t, <3>2, StepFields DEF Holding
      <3>3. CASE \E pc \in {"find_key", "read_key"}, cert \in Nat :
                   proc' = [proc EXCEPT ![p].pc = pc, ![p].cert = cert]
        BY <1>t, <3>3 DEF IdentityType, ProcType, Others, SameToken, Holding
      <3>4. CASE \E pair : proc' = [proc EXCEPT ![p].pc = "write_key", ![p].pair = pair]
        BY <1>t, <3>4 DEF IdentityType, ProcType, Others, SameToken, Holding
      <3>5. file["cert"] \in Nat
        BY <1>t DEF IdentityType, Files
      <3>6. QED
        BY <1>3, <3>1, <3>2, <3>3, <3>4, <3>5 DEF CertificateExists, KeyExists, ReadCert
    <2>3. QED
      BY <1>t, <1>k, <2>1, <2>2, ShownKept DEF Holding
  <1>4. ASSUME NEW p \in Procs, NEW f \in {"key", "cert"}, NEW now, NEW next,
               WriteIdentity(p, f, now, next) \/ SyncIdentity(p, f, now, next),
               now \notin {"down"}, next \notin Holding
        PROVE ShownInv'
    <2>1. /\ Step(p, next) /\ UNCHANGED <<presented, told, hubOf>> /\ proc[p].pc # "down"
          /\ Possible("credentials")' = Possible("credentials")
          /\ file'["credentials"] = file["credentials"]
      BY <1>4, <1>t DEF WriteIdentity, SyncIdentity, Rename, SyncParent, historyVars, Possible,
                        IdentityType, Files
    <2>2. QED
      BY <1>4, <1>t, <2>1, StepFields, ShownKept DEF Holding
  <1>5. ASSUME NEW p \in Procs, ReadKey(p) PROVE ShownInv'
    <2>1. KeepDisk /\ UNCHANGED <<presented, told>> /\ proc[p].pc = "read_key"
      BY <1>5 DEF ReadKey, historyVars
    <2>2. CASE Stops(p)
      BY <1>t, <1>k, <2>1, <2>2, StopsFields, ShownKept
    <2>3. ASSUME NEW pc \in {"listen", "connect"}, ParsesPair(file["key"], proc[p].cert),
                 proc' = [proc EXCEPT ![p].key = file["key"], ![p].pc = pc],
                 proc[p].token = Absent => pc = "listen"
          PROVE ShownInv'
      <3>1. /\ Others(p) /\ SameToken(p) /\ proc'[p].pc = pc
            /\ proc'[p].key = file["key"] /\ proc'[p].cert = proc[p].cert
        BY <1>t, <2>3 DEF IdentityType, ProcType, Others, SameToken
      <3>2. QED
        BY <1>t, <1>k, <2>1, <2>3, <3>1, ShownKept DEF ParsesPair
    <2>4. QED
      BY <1>5, <2>2, <2>3 DEF ReadKey
  <1>6. ASSUME NEW p \in Procs, Connect(p) PROVE ShownInv'
    <2>1. KeepDisk /\ UNCHANGED told /\ proc[p].pc = "connect"
      BY <1>6 DEF Connect
    <2>2. CASE Stops(p) /\ UNCHANGED presented
      BY <1>t, <1>k, <2>1, <2>2, StopsFields, ShownKept
    <2>3. CASE /\ presented' = presented \union
                    {[hub |-> proc[p].hub, token |-> proc[p].token,
                      key |-> proc[p].key, cert |-> proc[p].cert]}
               /\ Step(p, "run")
      <3>1. proc[p].key = proc[p].cert /\ proc[p].hub = HubFor(proc[p].token)
            /\ proc[p].token # Absent
        BY <2>1 DEF ShownInv, HoldsPair, HubKnown, Holding
      <3>2. PresentedTogether'
        BY <2>3, <3>1 DEF ShownInv, PresentedTogether, HubFor, ConfiguredToken
      <3>3. proc'[p].pc = "run" /\ Others(p) /\ SameToken(p)
        BY <1>t, <2>3, StepFields
      <3>4. HoldsPair' /\ Stored'
        BY <1>k, <2>1, <3>3 DEF ShownInv, HoldsPair, Holding, Stored, Others
      <3>5. HubKnown'
        <4>1. \A v \in Possible("credentials")' : v = Absent \/ hubOf'[v] = Home
          BY <1>k, <2>1 DEF ShownInv, HubKnown
        <4>2. \A q \in Procs : proc'[q].pc # "down" => proc'[q].hub = HubFor(proc'[q].token)
          BY <1>d, <2>1, <3>3 DEF Others, SameToken
        <4>3. \A q \in Procs : proc'[q].pc \in {"sync", "answer", "connect"} => proc'[q].token # Absent
          BY <3>3 DEF ShownInv, HubKnown, Others
        <4>4. QED
          BY <4>1, <4>2, <4>3 DEF HubKnown, HubFor, ConfiguredToken
      <3>6. QED
        BY <1>t, <3>2, <3>4, <3>5 DEF ShownInv
    <2>4. QED
      BY <1>6, <2>2, <2>3 DEF Connect
  <1>7. ASSUME NEW p \in Procs, AcceptClient(p) \/ AnswerOther(p) \/ RedeemFails(p) PROVE ShownInv'
    <2>1. PICK pc \in {"read", "listen"} :
            /\ Step(p, pc) /\ KeepDisk /\ UNCHANGED <<presented, told>>
            /\ proc[p].pc \in Holding \ {"down"}
      BY <1>7 DEF AcceptClient, AnswerOther, RedeemFails, historyVars, Holding
    <2>2. QED
      BY <1>t, <1>k, <2>1, StepFields, ShownKept DEF Holding
  <1>8. ASSUME NEW p \in Procs, NEW key \in 1..MaxKeys, PostPair(p, key) PROVE ShownInv'
    <2>1. /\ Others(p) /\ SameToken(p) /\ SameIdentity(p) /\ proc'[p].pc = "redeem"
          /\ KeepDisk /\ UNCHANGED <<presented, told>> /\ proc[p].pc = "read"
      BY <1>8, <1>t DEF PostPair, historyVars, IdentityType, ProcType, Others, SameToken, SameIdentity
    <2>2. QED
      BY <1>t, <1>k, <2>1, ShownKept DEF Holding
  <1>9. ASSUME NEW p \in Procs, RedeemAt(p) PROVE ShownInv'
    <2>1. KeepDisk /\ UNCHANGED <<presented, told>> /\ proc[p].pc = "redeem"
          /\ proc[p].pairing \in 1..MaxKeys
      BY <1>9, <1>t DEF RedeemAt, historyVars, IdentityType
    <2>2. CASE proc' = [proc EXCEPT ![p].left = Tail(proc[p].left)]
      <3>1. Others(p) /\ SameToken(p) /\ SameIdentity(p) /\ proc'[p].pc = "redeem"
        BY <1>t, <2>1, <2>2 DEF IdentityType, ProcType, Others, SameToken, SameIdentity
      <3>2. QED
        BY <1>t, <1>k, <2>1, <3>1, ShownKept DEF Holding
    <2>3. CASE /\ Head(proc[p].left) = Home
               /\ proc' = [proc EXCEPT ![p].pc = "store", ![p].token = proc[p].pairing,
                                       ![p].hub = Head(proc[p].left)]
      <3>1. Others(p) /\ SameIdentity(p) /\ proc'[p].pc = "store"
            /\ proc'[p].hub = Home /\ proc'[p].token = proc[p].pairing
        BY <1>t, <2>3 DEF IdentityType, ProcType, Others, SameIdentity
      <3>2. proc[p].pairing # ConfiguredToken /\ proc[p].pairing # Absent
        <4>1. \A k \in 1..MaxKeys : k # MaxKeys + 1 /\ k # 0
          BY IdentityAssumption
        <4>2. QED
          BY <2>1, <4>1 DEF ConfiguredToken, Absent
      <3>3. HoldsPair' /\ Stored' /\ PresentedTogether'
        BY <1>k, <2>1, <3>1 DEF ShownInv, HoldsPair, Holding, Stored, Others, SameIdentity,
                                PresentedTogether, ConfiguredToken
      <3>4. HubKnown'
        <4>1. \A v \in Possible("credentials")' : v = Absent \/ hubOf'[v] = Home
          BY <1>k, <2>1 DEF ShownInv, HubKnown
        <4>2. \A q \in Procs : proc'[q].pc # "down" => proc'[q].hub = HubFor(proc'[q].token)
          BY <1>d, <3>1, <3>2 DEF Others, HubFor
        <4>3. \A q \in Procs : proc'[q].pc \in {"sync", "answer", "connect"} => proc'[q].token # Absent
          BY <3>1 DEF ShownInv, HubKnown, Others
        <4>4. QED
          BY <4>1, <4>2, <4>3 DEF HubKnown, HubFor, ConfiguredToken
      <3>5. QED
        BY <1>t, <3>3, <3>4 DEF ShownInv
    <2>4. QED
      BY <1>9, <2>2, <2>3 DEF RedeemAt
  <1>10. ASSUME NEW p \in Procs, StoreCredentials(p) PROVE ShownInv'
    <2> DEFINE t == proc[p].token
    <2>1. t \in 1..MaxKeys /\ t # ConfiguredToken /\ t # Absent
      <3>1. \A k \in 1..MaxKeys : k # MaxKeys + 1 /\ k # 0
        BY IdentityAssumption
      <3>2. t \in 1..MaxKeys
        BY <1>10, <1>t DEF StoreCredentials, IdentityType
      <3>3. QED
        BY <3>1, <3>2 DEF ConfiguredToken, Absent
    <2>2. proc[p].hub = Home /\ proc[p].pc = "store"
      BY <1>10, <1>d, <2>1 DEF StoreCredentials, HubFor
    <2>3. hubOf' = [hubOf EXCEPT ![t] = Home] /\ hubOf \in [1..MaxKeys -> Hubs]
      BY <1>10, <1>t, <2>2 DEF StoreCredentials, IdentityType
    <2>4. /\ file'["credentials"] = t
          /\ Possible("credentials")' = Possible("credentials") \union {t}
      BY <1>10, <1>t DEF StoreCredentials, Rename, IdentityType, Possible, Files
    <2>5. proc'[p].pc = "sync" /\ Others(p) /\ SameIdentity(p) /\ SameToken(p)
      BY <1>10, <1>t, StepFields DEF StoreCredentials
    <2>6. HoldsPair' /\ PresentedTogether'
      BY <1>10, <2>2, <2>5 DEF StoreCredentials, historyVars, ShownInv, HoldsPair, Holding,
                               Others, SameIdentity, PresentedTogether, ConfiguredToken
    <2>7. HubKnown'
      <3>1. \A v \in Possible("credentials")' : v = Absent \/ hubOf'[v] = Home
        <4>1. \A v \in Possible("credentials") : v = Absent \/ (v \in 1..MaxKeys /\ hubOf[v] = Home)
          BY <1>t DEF IdentityType, ShownInv, HubKnown
        <4>2. QED
          BY <2>1, <2>3, <2>4, <4>1
      <3>2. \A q \in Procs : proc'[q].pc # "down" => proc'[q].hub = HubFor(proc'[q].token)
        BY <1>d, <2>2, <2>5 DEF Others, SameToken
      <3>3. \A q \in Procs : proc'[q].pc \in {"sync", "answer", "connect"} => proc'[q].token # Absent
        BY <2>1, <2>5 DEF ShownInv, HubKnown, Others, SameToken
      <3>4. QED
        BY <3>1, <3>2, <3>3 DEF HubKnown, HubFor, ConfiguredToken
    <2>8. Stored'
      <3>1. told' = told
        BY <1>10 DEF StoreCredentials, historyVars
      <3>2. QED
        BY <2>1, <2>4, <2>5, <3>1 DEF ShownInv, Stored, Others
    <2>9. QED
      BY <1>t, <2>6, <2>7, <2>8 DEF ShownInv
  <1>11. ASSUME NEW p \in Procs, SyncCredentials(p) PROVE ShownInv'
    <2>1. /\ file' = file /\ hubOf' = hubOf /\ told' = told /\ presented' = presented
          /\ proc[p].pc = "sync" /\ Possible("credentials")' = {file["credentials"]}
      BY <1>11, <1>t DEF SyncCredentials, SyncParent, historyVars, IdentityType, Possible, Files
    <2>2. proc'[p].pc = "answer" /\ Others(p) /\ SameIdentity(p) /\ SameToken(p)
      BY <1>11, <1>t, StepFields DEF SyncCredentials
    <2>3. HoldsPair' /\ PresentedTogether'
      BY <2>1, <2>2 DEF ShownInv, HoldsPair, Holding, Others, SameIdentity, PresentedTogether,
                        ConfiguredToken
    <2>4. HubKnown'
      <3>1. \A v \in Possible("credentials")' : v = Absent \/ hubOf'[v] = Home
        BY <2>1 DEF ShownInv, HubKnown, Possible
      <3>2. \A q \in Procs : proc'[q].pc # "down" => proc'[q].hub = HubFor(proc'[q].token)
        BY <1>d, <2>1, <2>2 DEF Others, SameToken
      <3>3. \A q \in Procs : proc'[q].pc \in {"sync", "answer", "connect"} => proc'[q].token # Absent
        BY <2>1, <2>2 DEF ShownInv, HubKnown, Others, SameToken
      <3>4. QED
        BY <3>1, <3>2, <3>3 DEF HubKnown, HubFor, ConfiguredToken
    <2>5. Stored'
      BY <2>1, <2>2 DEF ShownInv, Stored, Others
    <2>6. QED
      BY <1>t, <2>3, <2>4, <2>5 DEF ShownInv
  <1>12. ASSUME NEW p \in Procs, AnswerPaired(p) PROVE ShownInv'
    <2>1. KeepDisk /\ UNCHANGED presented /\ proc[p].pc = "answer" /\ told' \in {told, TRUE}
      BY <1>12 DEF AnswerPaired
    <2>2. proc'[p].pc = "connect" /\ Others(p) /\ SameIdentity(p) /\ SameToken(p)
      BY <1>12, <1>t, StepFields DEF AnswerPaired
    <2>3. HoldsPair' /\ PresentedTogether'
      BY <2>1, <2>2 DEF ShownInv, HoldsPair, Holding, Others, SameIdentity, PresentedTogether,
                        ConfiguredToken
    <2>4. HubKnown'
      <3>1. \A v \in Possible("credentials")' : v = Absent \/ hubOf'[v] = Home
        BY <1>k, <2>1 DEF ShownInv, HubKnown
      <3>2. \A q \in Procs : proc'[q].pc # "down" => proc'[q].hub = HubFor(proc'[q].token)
        BY <1>d, <2>1, <2>2 DEF Others, SameToken
      <3>3. \A q \in Procs : proc'[q].pc \in {"sync", "answer", "connect"} => proc'[q].token # Absent
        BY <2>1, <2>2 DEF ShownInv, HubKnown, Others, SameToken
      <3>4. QED
        BY <3>1, <3>2, <3>3 DEF HubKnown, HubFor, ConfiguredToken
    <2>5. Stored'
      BY <1>k, <2>1, <2>2 DEF ShownInv, Stored, Others
    <2>6. QED
      BY <1>t, <2>3, <2>4, <2>5 DEF ShownInv
  <1>13. ASSUME NEW p \in Procs, WriteFails(p) PROVE ShownInv'
    <2>1. KeepDisk /\ UNCHANGED <<presented, told>>
      BY <1>13 DEF WriteFails, historyVars
    <2>2. CASE Stops(p)
      BY <1>t, <1>k, <2>1, <2>2, StopsFields, ShownKept
    <2>3. CASE /\ proc[p].pc \in {"store", "sync"}
               /\ proc' = [proc EXCEPT ![p].pc = "listen", ![p].token = Absent, ![p].hub = Nowhere]
      <3>1. /\ proc'[p].pc = "listen" /\ Others(p) /\ SameIdentity(p)
            /\ proc'[p].token = Absent /\ proc'[p].hub = Nowhere
        BY <1>t, <2>3 DEF IdentityType, ProcType, Others, SameIdentity
      <3>5. HoldsPair'
        BY <2>3, <3>1 DEF ShownInv, HoldsPair, Holding, Others, SameIdentity
      <3>6. Stored'
        BY <1>k, <2>1, <3>1 DEF ShownInv, Stored, Others
      <3>2. HoldsPair' /\ Stored' /\ PresentedTogether'
        BY <2>1, <3>5, <3>6 DEF ShownInv, PresentedTogether, ConfiguredToken
      <3>3. HubKnown'
        <4>0. HubFor(Absent) = Nowhere
          BY IdentityAssumption DEF HubFor, Absent, ConfiguredToken
        <4>1. \A v \in Possible("credentials")' : v = Absent \/ hubOf'[v] = Home
          BY <1>k, <2>1 DEF ShownInv, HubKnown
        <4>2. \A q \in Procs : proc'[q].pc # "down" => proc'[q].hub = HubFor(proc'[q].token)
          BY <1>d, <3>1, <4>0 DEF Others
        <4>3. \A q \in Procs : proc'[q].pc \in {"sync", "answer", "connect"} => proc'[q].token # Absent
          BY <3>1 DEF ShownInv, HubKnown, Others
        <4>4. QED
          BY <4>1, <4>2, <4>3 DEF HubKnown, HubFor, ConfiguredToken
      <3>4. QED
        BY <1>t, <3>2, <3>3 DEF ShownInv
    <2>4. QED
      BY <1>13, <2>2, <2>3 DEF WriteFails
  <1>14. ASSUME NEW p \in Procs, Ends(p) PROVE ShownInv'
    BY <1>14, <1>t, <1>k, StopsFields, ShownKept DEF Ends, historyVars
  <1>15. CASE PowerLoss
    <2>1. /\ file'["credentials"] \in Possible("credentials")
          /\ Possible("credentials")' = {file'["credentials"]}
          /\ hubOf' = hubOf /\ told' = told /\ presented' = presented
          /\ \A q \in Procs : proc'[q].pc = "down"
      BY <1>15 DEF PowerLoss, Possible, Files, historyVars, Down
    <2>2. QED
      BY <1>t, <2>1 DEF ShownInv, HoldsPair, HubKnown, Stored, Holding, PresentedTogether,
                        ConfiguredToken
  <1>16. ASSUME NEW p \in Procs, WriteKey(p) \/ SyncKey(p) \/ WriteCert(p) \/ SyncCert(p)
         PROVE ShownInv'
    BY <1>4, <1>16 DEF WriteKey, SyncKey, WriteCert, SyncCert, Holding
  <1>17. QED
    BY <1>1, <1>2, <1>3, <1>5, <1>6, <1>7, <1>8, <1>9, <1>10, <1>11, <1>12, <1>13, <1>14, <1>15,
       <1>16 DEF Next, Work

-----------------------------------------------------------------------------
(* The device keeps its identity.  As long as first starts do not overlap, *)
(* at most one process generates; it writes the key only when there is     *)
(* none, and the certificate only when the key is durable.                 *)

KeyDurable(k) == older["key"] = {} /\ file["key"] = k

OneGenerates ==
    /\ \A p, q \in Procs : Generating(p) /\ Generating(q) => p = q
    /\ \A p \in Procs : Generating(p) => proc[p].pair # Absent /\ proc[p].cert = Absent
    /\ \A p \in Procs : proc[p].pc = "write_key" => file["key"] = Absent
    /\ \A p \in Procs : proc[p].pc = "sync_key" => file["key"] = proc[p].pair
    /\ \A p \in Procs : proc[p].pc \in {"write_cert", "sync_cert"} => KeyDurable(proc[p].pair)

KeyFirst ==
    /\ file["key"] = Absent => older["key"] = {}
    /\ \A v \in Possible("cert") : v = Absent \/ KeyDurable(v)
    /\ \A p \in Procs : proc[p].cert = Absent \/ KeyDurable(proc[p].cert)
    /\ \A shown \in presented : shown.key # Absent /\ KeyDurable(shown.key)

StableInv == raced \/ (OneGenerates /\ KeyFirst)

LEMMA StableInit == Init => StableInv
  <1> SUFFICES ASSUME Init PROVE StableInv
    OBVIOUS
  <1>1. \A p \in Procs : proc[p].pc = "down" /\ proc[p].cert = Absent
    BY DEF Init, Down
  <1>2. QED
    BY <1>1 DEF Init, StableInv, OneGenerates, KeyFirst, Generating, Possible, Files

(* A step of p that keeps the two files preserves it, if p generates       *)
(* afterwards only what it generated before and has a certificate that it  *)
(* had or that is on disk.                                                 *)
LEMMA StableKept ==
    ASSUME StableInv, NEW p \in Procs, Others(p), raced' = raced,
           \A f \in {"key", "cert"} : file'[f] = file[f] /\ older'[f] = older[f],
           \A shown \in presented' :
             shown \in presented \/ (shown.key = proc[p].cert /\ proc[p].cert # Absent),
           proc'[p].cert \in {proc[p].cert, Absent, file["cert"]},
           proc'[p].pc \notin {"write_key", "sync_key", "write_cert", "sync_cert"}
    PROVE  StableInv'
  <1> SUFFICES ASSUME ~raced PROVE StableInv'
    BY DEF StableInv
  <1>1. OneGenerates'
    BY DEF StableInv, OneGenerates, Generating, Others, KeyDurable
  <1>2. KeyFirst'
    <2>1. \A k : KeyDurable(k)' <=> KeyDurable(k)
      BY DEF KeyDurable
    <2>2. \A q \in Procs : proc'[q].cert = Absent \/ KeyDurable(proc'[q].cert)
      BY DEF StableInv, KeyFirst, Others, Possible
    <2>3. \A shown \in presented' : shown.key # Absent /\ KeyDurable(shown.key)
      BY DEF StableInv, KeyFirst
    <2>4. Possible("cert")' = Possible("cert")
      BY DEF Possible
    <2>5. QED
      BY <2>1, <2>2, <2>3, <2>4 DEF StableInv, KeyFirst, KeyDurable
  <1>3. QED
    BY <1>1, <1>2 DEF StableInv

LEMMA StableNext == ShownInv /\ StableInv /\ [Next]_vars => StableInv'
  <1> SUFFICES ASSUME ShownInv, StableInv, [Next]_vars PROVE StableInv'
    OBVIOUS
  <1>t. IdentityType
    BY DEF ShownInv
  <1>k. KeepDisk => \A f \in {"key", "cert"} : file'[f] = file[f] /\ older'[f] = older[f]
    BY DEF KeepDisk
  <1>1. CASE UNCHANGED vars
    BY <1>1 DEF vars, historyVars, StableInv, OneGenerates, KeyFirst, Generating, KeyDurable, Possible
  <1>2. ASSUME NEW p \in Procs, Start(p) PROVE StableInv'
    <2>1. proc'[p].pc = "find_cert" /\ proc'[p].cert = Absent /\ Others(p)
      BY <1>2, <1>t DEF Start, IdentityType, Others, Down
    <2>2. QED
      BY <1>2, <1>k, <2>1, StableKept DEF Start, historyVars
  <1>3. ASSUME NEW p \in Procs, CertificateExists(p) \/ ReadCert(p) PROVE StableInv'
    <2>1. PICK pc \in {"find_key", "read_key"} :
            proc' = [proc EXCEPT ![p].pc = pc, ![p].cert = file["cert"]]
      BY <1>3 DEF CertificateExists, ReadCert
    <2>2. proc'[p].pc = pc /\ proc'[p].cert = file["cert"] /\ Others(p)
      BY <1>t, <2>1 DEF IdentityType, ProcType, Others
    <2>3. QED
      BY <1>3, <1>k, <2>2, StableKept DEF CertificateExists, ReadCert, historyVars
  <1>4. ASSUME NEW p \in Procs, KeyExists(p) PROVE StableInv'
    <2>1. CASE Step(p, "read_cert") /\ raced' = raced
      BY <1>4, <1>t, <1>k, <2>1, StepFields, StableKept DEF KeyExists, SameIdentity
    <2>2. CASE Stops(p) /\ raced' = raced
      BY <1>4, <1>t, <1>k, <2>2, StopsFields, StableKept DEF KeyExists
    <2>3. CASE /\ proc[p].cert = Absent /\ file["key"] = Absent
               /\ proc' = [proc EXCEPT ![p].pc = "write_key", ![p].pair = pairs + 1]
               /\ raced' = (raced \/ \E q \in Procs \ {p} : Generating(q))
      <3> SUFFICES ASSUME ~raced' PROVE StableInv'
        BY DEF StableInv
      <3>0. ~raced /\ \A q \in Procs \ {p} : ~Generating(q)
        BY <2>3
      <3>1. pairs + 1 # Absent
        BY <1>t DEF IdentityType, Absent
      <3> DEFINE new == pairs + 1
      <3> HIDE DEF new
      <3>2. /\ proc'[p].pc = "write_key" /\ proc'[p].pair = new /\ Others(p)
            /\ proc'[p].cert = Absent /\ new # Absent
        <4>1. proc' = [proc EXCEPT ![p].pc = "write_key", ![p].pair = new] /\ new # Absent
          BY <2>3, <3>1 DEF new
        <4>2. QED
          BY <1>t, <2>3, <4>1 DEF IdentityType, ProcType, Others
      <3>3. \A q \in Procs : Generating(q)' => q = p
        BY <3>0, <3>2 DEF Generating, Others
      <3>4. file' = file /\ older' = older /\ presented' = presented
        BY <1>4 DEF KeyExists, KeepDisk
      <3>5. OneGenerates'
        BY <2>3, <3>2, <3>3, <3>4 DEF OneGenerates, Generating, Others
      <3>6. KeyFirst'
        BY <3>0, <3>2, <3>4 DEF StableInv, KeyFirst, KeyDurable, Others, Possible
      <3>7. QED
        BY <3>5, <3>6 DEF StableInv
    <2>4. QED
      BY <1>4, <2>1, <2>2, <2>3 DEF KeyExists
  <1>5. ASSUME NEW p \in Procs, WriteKey(p) PROVE StableInv'
    <2> SUFFICES ASSUME ~raced PROVE StableInv'
      BY <1>5 DEF StableInv, WriteKey, WriteIdentity, historyVars
    <2>1. /\ proc[p].pc = "write_key" /\ presented' = presented /\ raced' = raced
          /\ file'["key"] = proc[p].pair /\ older'["key"] = older["key"] \union {file["key"]}
          /\ file'["cert"] = file["cert"] /\ older'["cert"] = older["cert"]
      BY <1>5, <1>t DEF WriteKey, WriteIdentity, Rename, historyVars, IdentityType, Files
    <2>2. /\ proc'[p].pc = "sync_key" /\ proc'[p].pair = proc[p].pair /\ Others(p)
          /\ proc'[p].cert = proc[p].cert
      BY <1>5, <1>t, StepFields DEF WriteKey, WriteIdentity, SameIdentity
    <2>3. /\ proc[p].pair # Absent /\ file["key"] = Absent
          /\ \A q \in Procs : Generating(q) => q = p
      BY <2>1 DEF StableInv, OneGenerates, Generating
    <2>4. OneGenerates'
      BY <2>1, <2>2, <2>3 DEF StableInv, OneGenerates, Generating, Others
    <2>5. \A k : KeyDurable(k) => k = Absent
      BY <2>3 DEF KeyDurable
    <2>6. KeyFirst'
      <3>1. \A v \in Possible("cert")' : v = Absent
        BY <2>1, <2>5 DEF StableInv, KeyFirst, Possible
      <3>2. \A q \in Procs : proc'[q].cert = Absent
        BY <2>2, <2>5 DEF StableInv, KeyFirst, Others
      <3>3. presented = {}
        <4>1. \A shown \in presented : shown.key # Absent /\ KeyDurable(shown.key)
          BY DEF StableInv, KeyFirst
        <4>2. QED
          BY <2>5, <4>1
      <3>4. QED
        BY <2>1, <2>3, <3>1, <3>2, <3>3 DEF KeyFirst
    <2>7. QED
      BY <2>4, <2>6 DEF StableInv
  <1>6. ASSUME NEW p \in Procs, SyncKey(p) PROVE StableInv'
    <2> SUFFICES ASSUME ~raced PROVE StableInv'
      BY <1>6 DEF StableInv, SyncKey, SyncIdentity, historyVars
    <2>1. /\ proc[p].pc = "sync_key" /\ presented' = presented /\ raced' = raced
          /\ file' = file /\ older'["key"] = {} /\ older'["cert"] = older["cert"]
      BY <1>6, <1>t DEF SyncKey, SyncIdentity, SyncParent, historyVars, IdentityType, Files
    <2>2. /\ proc'[p].pc = "write_cert" /\ proc'[p].pair = proc[p].pair /\ Others(p)
          /\ proc'[p].cert = proc[p].cert
      BY <1>6, <1>t, StepFields DEF SyncKey, SyncIdentity, SameIdentity
    <2>3. /\ file["key"] = proc[p].pair
          /\ \A q \in Procs : Generating(q) => q = p
      BY <2>1 DEF StableInv, OneGenerates, Generating
    <2>4. \A k : KeyDurable(k) => KeyDurable(k)'
      BY <2>1 DEF KeyDurable
    <2>5. OneGenerates'
      BY <2>1, <2>2, <2>3 DEF StableInv, OneGenerates, Generating, Others, KeyDurable
    <2>6. KeyFirst'
      <3>1. Possible("cert")' = Possible("cert")
        BY <2>1 DEF Possible
      <3>2. QED
        BY <2>1, <2>2, <2>4, <3>1 DEF StableInv, KeyFirst, Others
    <2>7. QED
      BY <2>5, <2>6 DEF StableInv
  <1>7. ASSUME NEW p \in Procs, WriteCert(p) \/ SyncCert(p) PROVE StableInv'
    <2> SUFFICES ASSUME ~raced PROVE StableInv'
      BY <1>7 DEF StableInv, WriteCert, SyncCert, WriteIdentity, SyncIdentity, historyVars
    <2>1. /\ proc[p].pc \in {"write_cert", "sync_cert"}
          /\ presented' = presented /\ raced' = raced
          /\ file'["key"] = file["key"] /\ older'["key"] = older["key"]
          /\ Possible("cert")' \subseteq Possible("cert") \union {proc[p].pair}
      BY <1>7, <1>t DEF WriteCert, SyncCert, WriteIdentity, SyncIdentity, Rename, SyncParent,
                        historyVars, IdentityType, Files, Possible
    <2>2. /\ proc'[p].pc \in {"sync_cert", "read_cert"} /\ proc'[p].pair = proc[p].pair
          /\ Others(p) /\ proc'[p].cert = proc[p].cert
      BY <1>7, <1>t, StepFields DEF WriteCert, SyncCert, WriteIdentity, SyncIdentity, SameIdentity
    <2>3. /\ KeyDurable(proc[p].pair)
          /\ \A q \in Procs : Generating(q) => q = p
      BY <2>1 DEF StableInv, OneGenerates, Generating
    <2>4. \A k : KeyDurable(k)' <=> KeyDurable(k)
      BY <2>1 DEF KeyDurable
    <2>5. OneGenerates'
      BY <2>1, <2>2, <2>3, <2>4 DEF StableInv, OneGenerates, Generating, Others
    <2>6. KeyFirst'
      <3>1. \A v \in Possible("cert")' : v = Absent \/ KeyDurable(v)
        BY <2>1, <2>3 DEF StableInv, KeyFirst
      <3>2. \A q \in Procs : proc'[q].cert = Absent \/ KeyDurable(proc'[q].cert)
        BY <2>2 DEF StableInv, KeyFirst, Others
      <3>3. QED
        BY <2>1, <2>4, <3>1, <3>2 DEF StableInv, KeyFirst
    <2>7. QED
      BY <2>5, <2>6 DEF StableInv
  <1>8. ASSUME NEW p \in Procs, ReadKey(p) PROVE StableInv'
    <2>1. KeepDisk /\ UNCHANGED <<presented, raced>>
      BY <1>8 DEF ReadKey, historyVars
    <2>2. CASE Stops(p)
      BY <1>t, <1>k, <2>1, <2>2, StopsFields, StableKept
    <2>3. ASSUME NEW pc \in {"listen", "connect"},
                 proc' = [proc EXCEPT ![p].key = file["key"], ![p].pc = pc]
          PROVE StableInv'
      <3>1. Others(p) /\ proc'[p].pc = pc /\ proc'[p].cert = proc[p].cert
        BY <1>t, <2>3 DEF IdentityType, ProcType, Others
      <3>2. QED
        BY <1>k, <2>1, <3>1, StableKept
    <2>4. QED
      BY <1>8, <2>2, <2>3 DEF ReadKey
  <1>9. ASSUME NEW p \in Procs, Connect(p) PROVE StableInv'
    <2>1. KeepDisk /\ raced' = raced /\ proc[p].pc = "connect"
      BY <1>9 DEF Connect
    <2>2. CASE Stops(p) /\ UNCHANGED presented
      BY <1>t, <1>k, <2>1, <2>2, StopsFields, StableKept
    <2>3. CASE /\ presented' = presented \union
                    {[hub |-> proc[p].hub, token |-> proc[p].token,
                      key |-> proc[p].key, cert |-> proc[p].cert]}
               /\ Step(p, "run")
      <3>1. proc[p].key = proc[p].cert /\ proc[p].cert # Absent
        BY <2>1 DEF ShownInv, HoldsPair, Holding
      <3>2. QED
        BY <1>t, <1>k, <2>1, <2>3, <3>1, StepFields, StableKept DEF SameIdentity
    <2>4. QED
      BY <1>9, <2>2, <2>3 DEF Connect
  <1>10. ASSUME NEW p \in Procs,
                AcceptClient(p) \/ AnswerOther(p) \/ RedeemFails(p) \/ AnswerPaired(p)
         PROVE StableInv'
    <2>1. PICK pc \in {"read", "listen", "connect"} :
            Step(p, pc) /\ KeepDisk /\ UNCHANGED <<presented, raced>>
      BY <1>10 DEF AcceptClient, AnswerOther, RedeemFails, AnswerPaired, historyVars
    <2>2. QED
      BY <1>t, <1>k, <2>1, StepFields, StableKept DEF SameIdentity
  <1>11. ASSUME NEW p \in Procs, (\E key \in 1..MaxKeys : PostPair(p, key)) \/ RedeemAt(p)
         PROVE StableInv'
    <2>1. Others(p) /\ proc'[p].pc \in {"redeem", "store"} /\ proc'[p].cert = proc[p].cert
      <3>1. ASSUME NEW key, NEW list,
                   proc' = [proc EXCEPT ![p].pc = "redeem", ![p].pairing = key, ![p].left = list]
            PROVE  Others(p) /\ proc'[p].pc = "redeem" /\ proc'[p].cert = proc[p].cert
        BY <1>t, <3>1 DEF IdentityType, ProcType, Others
      <3>2. ASSUME NEW token, NEW hub,
                   proc' = [proc EXCEPT ![p].pc = "store", ![p].token = token, ![p].hub = hub]
            PROVE  Others(p) /\ proc'[p].pc = "store" /\ proc'[p].cert = proc[p].cert
        BY <1>t, <3>2 DEF IdentityType, ProcType, Others
      <3>3. ASSUME proc[p].pc = "redeem", proc' = [proc EXCEPT ![p].left = Tail(proc[p].left)]
            PROVE  Others(p) /\ proc'[p].pc = "redeem" /\ proc'[p].cert = proc[p].cert
        BY <1>t, <3>3 DEF IdentityType, ProcType, Others
      <3>4. CASE \E key \in 1..MaxKeys : PostPair(p, key)
        BY <3>1, <3>4 DEF PostPair
      <3>5. CASE RedeemAt(p)
        BY <3>2, <3>3, <3>5 DEF RedeemAt
      <3>6. QED
        BY <1>11, <3>4, <3>5
    <2>2. QED
      BY <1>11, <1>k, <2>1, StableKept DEF PostPair, RedeemAt, historyVars
  <1>12. ASSUME NEW p \in Procs, StoreCredentials(p) \/ SyncCredentials(p) PROVE StableInv'
    <2>1. /\ \A f \in {"key", "cert"} : file'[f] = file[f] /\ older'[f] = older[f]
          /\ UNCHANGED <<presented, raced>>
      BY <1>12, <1>t DEF StoreCredentials, SyncCredentials, Rename, SyncParent, historyVars,
                         IdentityType, Files
    <2>2. \E pc \in {"sync", "answer"} : Step(p, pc)
      BY <1>12 DEF StoreCredentials, SyncCredentials
    <2>3. QED
      BY <1>t, <2>1, <2>2, StepFields, StableKept DEF SameIdentity
  <1>13. ASSUME NEW p \in Procs, WriteFails(p) PROVE StableInv'
    <2>1. Others(p) /\ proc'[p].pc \in {"down", "listen"} /\ proc'[p].cert \in {proc[p].cert, Absent}
      <3>1. CASE Stops(p)
        BY <1>t, <3>1, StopsFields
      <3>2. CASE proc' = [proc EXCEPT ![p].pc = "listen", ![p].token = Absent, ![p].hub = Nowhere]
        BY <1>t, <3>2 DEF IdentityType, ProcType, Others
      <3>3. QED
        BY <1>13, <3>1, <3>2 DEF WriteFails
    <2>2. QED
      BY <1>13, <1>k, <2>1, StableKept DEF WriteFails, historyVars
  <1>14. ASSUME NEW p \in Procs, Ends(p) PROVE StableInv'
    BY <1>14, <1>t, <1>k, StopsFields, StableKept DEF Ends, historyVars
  <1>15. CASE PowerLoss
    <2> SUFFICES ASSUME ~raced PROVE StableInv'
      BY <1>15 DEF StableInv, PowerLoss, historyVars
    <2>1. /\ \A f \in Files : file'[f] \in Possible(f) /\ older'[f] = {}
          /\ \A q \in Procs : proc'[q].pc = "down" /\ proc'[q].cert = Absent
          /\ presented' = presented
      BY <1>15 DEF PowerLoss, Possible, historyVars, Down
    <2>2. \A k : KeyDurable(k) => KeyDurable(k)'
      BY <2>1 DEF KeyDurable, Possible, Files
    <2>3. Possible("cert")' \subseteq Possible("cert")
      BY <2>1 DEF Possible, Files
    <2>4. KeyFirst'
      BY <2>1, <2>2, <2>3 DEF StableInv, KeyFirst, Files
    <2>5. OneGenerates'
      BY <2>1 DEF OneGenerates, Generating
    <2>6. QED
      BY <2>4, <2>5 DEF StableInv
  <1>16. QED
    BY <1>1, <1>2, <1>3, <1>4, <1>5, <1>6, <1>7, <1>8, <1>9, <1>10, <1>11, <1>12, <1>13, <1>14,
       <1>15 DEF Next, Work

-----------------------------------------------------------------------------
(* The theorems.                                                           *)

IdentityInv == ShownInv /\ StableInv

LEMMA IdentityInvariant == Spec => []IdentityInv
  <1>1. Init => IdentityInv
    BY ShownInit, StableInit DEF IdentityInv
  <1>2. IdentityInv /\ [Next]_vars => IdentityInv'
    BY ShownNext, StableNext DEF IdentityInv
  <1>3. QED
    BY <1>1, <1>2, PTL DEF Spec

(* Files, processes and credentials have their types in every behaviour.   *)
THEOREM IdentityTyped == Spec => []IdentityType
  <1>1. IdentityInv => IdentityType
    BY DEF IdentityInv, ShownInv
  <1>2. QED
    BY <1>1, IdentityInvariant, PTL

(* However many processes start, stop and pair, and wherever they are      *)
(* interrupted: connect_with_identity shows a hub a key with the           *)
(* certificate made for it, and a token to the hub that issued it.         *)
THEOREM Presented == Spec => []PresentedTogether
  <1>1. IdentityInv => PresentedTogether
    BY DEF IdentityInv, ShownInv
  <1>2. QED
    BY <1>1, IdentityInvariant, PTL

(* handle_client reports "paired" only when the credentials outlast a loss *)
(* of power, for any number of pairing keys and services.                  *)
THEOREM PairedDurably == Spec => []PairedForGood
  <1>1. IdentityInv => PairedForGood
    BY DEF IdentityInv, ShownInv, Stored, PairedForGood, Possible
  <1>2. QED
    BY <1>1, IdentityInvariant, PTL

(* load_device_identity keeps the identity that a hub knows, through any   *)
(* number of failed writes, crashes and power losses.                      *)
THEOREM Stable == Spec => []IdentityStable
  <1>1. IdentityInv => IdentityStable
    <2> SUFFICES ASSUME IdentityInv, ~raced
                 PROVE  Cardinality({shown.key : shown \in presented}) <= 1
      BY DEF IdentityStable
    <2>1. {shown.key : shown \in presented} \in SUBSET {file["key"]}
      BY DEF IdentityInv, StableInv, KeyFirst, KeyDurable
    <2>2. IsFiniteSet({file["key"]}) /\ Cardinality({file["key"]}) = 1
      BY FS_Singleton
    <2>3. QED
      BY <2>1, <2>2, FS_Subset
  <1>2. QED
    BY <1>1, IdentityInvariant, PTL

-----------------------------------------------------------------------------
(* Around the local API the processes do nothing else.                     *)

(* Every behaviour of services and one-shot commands around the socket is  *)
(* one of the processes that share the files: the local API adds nothing   *)
(* to what may happen to them.                                             *)
THEOREM LocalImplements == LocalSpec => Spec
  <1>1. LocalInit => Init
    BY DEF LocalInit
  <1>2. [LocalNext]_allVars => [Next]_vars
    <2> SUFFICES ASSUME [LocalNext]_allVars PROVE [Next]_vars
      OBVIOUS
    <2>1. CASE UNCHANGED allVars
      BY <2>1 DEF allVars
    <2>2. ASSUME NEW p \in Procs,
                 \/ Look(p) \/ Probe(p) \/ RemoveStale(p) \/ Bind(p) \/ SetMode(p) \/ ServeEnds(p)
                 \/ OtherConnects(p) \/ OtherLeaves(p)
                 \/ OpenLocal(p) \/ Admit(p) \/ HandleClient(p) \/ SessionEnds(p)
          PROVE  UNCHANGED vars
      BY <2>2 DEF Look, Probe, RemoveStale, Bind, SetMode, ServeEnds, OtherConnects, OtherLeaves,
                  OpenLocal, Admit, HandleClient, SessionEnds
    <2>3. ASSUME NEW p \in Procs, StartService(p) \/ OpenRemote(p) \/ HostWork(p) \/ HostEnds(p)
          PROVE  [Next]_vars
      BY <2>3 DEF StartService, OpenRemote, HostWork, HostEnds, Next
    <2>4. CASE HostPowerLoss
      BY <2>4 DEF HostPowerLoss, Next
    <2>5. QED
      BY <2>1, <2>2, <2>3, <2>4 DEF LocalNext
  <1>3. QED
    BY <1>1, <1>2, PTL DEF LocalSpec, Spec

(* While nobody else sets up and no connection to a listener failed: a process that has removed what it took for  *)
(* stale finds no other that serves, and the path leads to its listener    *)
(* from bind on.                                                           *)
ReachInv ==
    /\ api \in [Procs -> {"off", "probe", "remove", "bind", "restrict", "serving", "failed"}]
    /\ contended \/ misjudged \/
         /\ \A p, q \in Procs : SettingUp(p) /\ SettingUp(q) => p = q
         /\ \A p \in Procs : api[p] \in {"restrict", "serving"} => socket = p
         /\ (\E p \in Procs : api[p] \in {"remove", "bind"}) => \A q \in Procs : api[q] # "serving"

LEMMA ReachNext == ReachInv /\ [LocalNext]_allVars => ReachInv'
  <1> SUFFICES ASSUME ReachInv, [LocalNext]_allVars PROVE ReachInv'
    OBVIOUS
  <1>1. ASSUME UNCHANGED <<api, socket, contended, misjudged>> PROVE ReachInv'
    BY <1>1 DEF ReachInv, SettingUp
  <1>2. ASSUME NEW p \in Procs, Look(p) PROVE ReachInv'
    <2>1. CASE socket = Missing
      BY <1>2, <2>1, LocalAssumption DEF Look, Api, ReachInv, SettingUp
    <2>2. CASE socket # Missing
      BY <1>2, <2>2, LocalAssumption DEF Look, Api, ReachInv, SettingUp
    <2>3. QED
      BY <2>1, <2>2
  <1>3. ASSUME NEW p \in Procs, Probe(p) PROVE ReachInv'
    BY <1>3 DEF Probe, Api, ReachInv, SettingUp
  <1>4. ASSUME NEW p \in Procs, RemoveStale(p) PROVE ReachInv'
    BY <1>4 DEF RemoveStale, Api, ReachInv, SettingUp
  <1>5. ASSUME NEW p \in Procs, Bind(p) PROVE ReachInv'
    BY <1>5 DEF Bind, Api, ReachInv, SettingUp
  <1>6. ASSUME NEW p \in Procs, SetMode(p) PROVE ReachInv'
    BY <1>6, LocalAssumption DEF SetMode, Api, ReachInv, SettingUp
  <1>7. ASSUME NEW p \in Procs, ServeEnds(p) PROVE ReachInv'
    BY <1>7 DEF ServeEnds, AfterServe, Unbound, Api, ReachInv, SettingUp
  <1>8. ASSUME NEW p \in Procs, HostEnds(p) PROVE ReachInv'
    BY <1>8, LocalAssumption DEF HostEnds, AfterServe, Unbound, ReachInv, SettingUp
  <1>9. CASE HostPowerLoss
    BY <1>9 DEF HostPowerLoss, ReachInv, SettingUp
  <1>10. ASSUME NEW p \in Procs,
                \/ OtherConnects(p) \/ OtherLeaves(p) \/ OpenLocal(p) \/ Admit(p)
                \/ HandleClient(p) \/ SessionEnds(p) \/ StartService(p) \/ OpenRemote(p) \/ HostWork(p)
         PROVE  ReachInv'
    BY <1>1, <1>10 DEF OtherConnects, OtherLeaves, OpenLocal, Admit, HandleClient, SessionEnds,
                       StartService, OpenRemote, HostWork, localVars
  <1>11. CASE UNCHANGED allVars
    BY <1>1, <1>11 DEF allVars, localVars
  <1>12. QED
    BY <1>2, <1>3, <1>4, <1>5, <1>6, <1>7, <1>8, <1>9, <1>10, <1>11 DEF LocalNext

(* local_api::serve in any number of services, with crashes anywhere: the  *)
(* path leads to the one that serves, as long as no two have set up at     *)
(* once and no connection to a process that listens has failed in serve.   *)
THEOREM Reachable == LocalSpec => []ServerReachable
  <1>1. LocalInit => ReachInv
    BY DEF LocalInit, ReachInv, SettingUp
  <1>2. ReachInv => ServerReachable
    BY DEF ReachInv, ServerReachable
  <1>3. QED
    BY <1>1, <1>2, ReachNext, PTL DEF LocalSpec

(* The three invariants of the shared files hold around the local API.     *)
THEOREM LocalKeeps == LocalSpec => [](PresentedTogether /\ IdentityStable /\ PairedForGood)
  BY LocalImplements, Presented, Stable, PairedDurably, PTL
=============================================================================
