----------------------------- MODULE DeviceIdentity -----------------------------
(***************************************************************************)
(* What agent processes do with the three files that make a device known   *)
(* to the hub: the credentials, which pairing stores, the private key and  *)
(* the certificate.  Every file is replaced by a rename; the entry is      *)
(* durable once the directory is synced.  The service and one-shot commands*)
(* share the files, without a lock.  A process may stop anywhere, the      *)
(* machine may lose power, a write may fail before or after its rename.    *)
(* The directory is there from the start: one that prepare_parent creates  *)
(* is not synced into its own parent, so that losing power could take it   *)
(* away with everything in it.                                             *)
(*                                                                         *)
(* The hub and the client of the provisioning endpoint are external: a     *)
(* pairing key is good for one token, and an answer may be lost.           *)
(***************************************************************************)
EXTENDS Naturals, FiniteSets, Sequences

CONSTANTS
    Procs,      \* processes: the service and one-shot commands
    Service,    \* those that may provision
    Endpoints,  \* provisioning endpoints that are tried in turn
    Domains,    \* endpoints that clients name, always with https
    Schemes,    \* the URL scheme of each endpoint and of the configured hub
    Home,       \* the endpoint that knows the pairing keys
    OwnHub,     \* the hub of the configuration
    MaxPairs,   \* bound: key pairs ever generated
    MaxKeys     \* bound: pairing keys ever issued

ASSUME IdentityAssumption ==
    /\ Service \subseteq Procs /\ MaxPairs \in Nat /\ MaxKeys \in Nat
    /\ Endpoints \in Seq(DOMAIN Schemes) /\ OwnHub \in DOMAIN Schemes
    /\ \A domain \in Domains : domain \in DOMAIN Schemes /\ Schemes[domain] = "https"

VARIABLES
    configured, \* the configuration names a hub and a token
    plaintext,  \* the configuration allows plaintext connections
    file,       \* what each file holds; a key and its certificate have one number
    older,      \* what a power loss may bring back instead
    proc,       \* each process
    pairs,      \* key pairs generated
    redeemed,   \* pairing keys the hub has exchanged for tokens
    hubOf,      \* the hub that the credentials with each token name
    presented,  \* history: what was shown to which hub
    told,       \* history: a client has been told that the device is paired
    raced       \* history: two processes generated an identity at the same time

configVars == <<configured, plaintext>>
historyVars == <<presented, told, raced>>
vars == <<configVars, file, older, proc, pairs, redeemed, hubOf, historyVars>>

Files == {"credentials", "key", "cert"}
Absent == 0
ConfiguredToken == MaxKeys + 1
Nowhere == "nowhere"
Down == [pc |-> "down", hub |-> Nowhere, token |-> Absent, pair |-> 0, cert |-> Absent, key |-> Absent,
         pairing |-> 0, left |-> <<>>]

Init ==
    /\ configured \in BOOLEAN /\ plaintext \in BOOLEAN
    /\ file = [f \in Files |-> Absent] /\ older = [f \in Files |-> {}]
    /\ proc = [p \in Procs |-> Down]
    /\ pairs = 0 /\ redeemed = {} /\ hubOf = [token \in 1..MaxKeys |-> Nowhere]
    /\ presented = {} /\ told = FALSE /\ raced = FALSE

Step(p, pc) == proc' = [proc EXCEPT ![p].pc = pc]
Stops(p) == proc' = [proc EXCEPT ![p] = Down]
KeepDisk == UNCHANGED <<file, older, hubOf>>
KeepHub == UNCHANGED <<configVars, pairs, redeemed>>

-----------------------------------------------------------------------------
(* secure_file::write_private and write_public.                            *)

(* The temporary file, complete and synced, takes the place of f.          *)
Rename(f, value) ==
    /\ file' = [file EXCEPT ![f] = value]
    /\ older' = [older EXCEPT ![f] = @ \union {file[f]}]

(* Mutation: the directory is not synced.                                  *)
SyncNothing(f) == UNCHANGED older

(* Nothing but the entry of f in its directory becomes durable.            *)
SyncParent(f) == older' = [older EXCEPT ![f] = {}]

-----------------------------------------------------------------------------
(* resolve_credentials: those of the configuration come first.             *)
Credentials == IF configured THEN ConfiguredToken ELSE file["credentials"]

HubOf(token) ==
    IF token = ConfiguredToken THEN OwnHub
    ELSE IF token = Absent THEN Nowhere ELSE hubOf[token]

(* A process starts.  Without credentials only the service goes on, if     *)
(* provisioning is enabled.                                                *)
Start(p) ==
    /\ proc[p].pc = "down"
    /\ Credentials # Absent \/ p \in Service
    /\ proc' = [proc EXCEPT ![p] = [Down EXCEPT !.pc = "find_cert", !.token = Credentials,
                                               !.hub = HubOf(Credentials)]]
    /\ KeepDisk /\ KeepHub /\ UNCHANGED historyVars

(* load_device_identity looks for the two files one after the other.       *)
CertificateExists(p) ==
    /\ proc[p].pc = "find_cert"
    /\ proc' = [proc EXCEPT ![p].pc = "find_key", ![p].cert = file["cert"]]
    /\ KeepDisk /\ KeepHub /\ UNCHANGED historyVars

Generating(p) == proc[p].pc \in {"write_key", "sync_key", "write_cert", "sync_cert"}

(* Both or none, or the process gives up for good.  Without both it makes  *)
(* a pair.                                                                 *)
KeyExists(p) ==
    /\ proc[p].pc = "find_key"
    /\ \/ /\ proc[p].cert # Absent /\ file["key"] # Absent
          /\ Step(p, "read_cert")
          /\ UNCHANGED <<pairs, raced>>
       \/ /\ proc[p].cert = Absent /\ file["key"] = Absent /\ pairs < MaxPairs
          /\ proc' = [proc EXCEPT ![p].pc = "write_key", ![p].pair = pairs + 1]
          /\ pairs' = pairs + 1
          /\ raced' = (raced \/ \E q \in Procs \ {p} : Generating(q))
       \/ /\ (proc[p].cert = Absent) # (file["key"] = Absent)
          /\ Stops(p)
          /\ UNCHANGED <<pairs, raced>>
    /\ KeepDisk /\ UNCHANGED <<configVars, redeemed, presented, told>>

(* generate_device_identity_files: the key, then the certificate.          *)
WriteIdentity(p, f, now, next) ==
    /\ proc[p].pc = now
    /\ Rename(f, proc[p].pair)
    /\ Step(p, next)
    /\ KeepHub /\ UNCHANGED <<hubOf, historyVars>>

SyncIdentity(p, f, now, next) ==
    /\ proc[p].pc = now
    /\ SyncParent(f)
    /\ Step(p, next)
    /\ KeepHub /\ UNCHANGED <<file, hubOf, historyVars>>

WriteKey(p) == WriteIdentity(p, "key", "write_key", "sync_key")
SyncKey(p) == SyncIdentity(p, "key", "sync_key", "write_cert")
WriteCert(p) == WriteIdentity(p, "cert", "write_cert", "sync_cert")
SyncCert(p) == SyncIdentity(p, "cert", "sync_cert", "read_cert")

(* Then both are read, whoever wrote them, a certificate first.            *)
ReadCert(p) ==
    /\ proc[p].pc = "read_cert"
    /\ proc' = [proc EXCEPT ![p].pc = "read_key", ![p].cert = file["cert"]]
    /\ KeepDisk /\ KeepHub /\ UNCHANGED historyVars

(* Mutation: the key is not compared with the certificate.                 *)
ParsesAnyPair(key, cert) == key # Absent /\ cert # Absent

(* ClientIdentity::from_pem.                                               *)
ParsesPair(key, cert) == key # Absent /\ key = cert

(* One process has the port of the provisioning endpoint.                  *)
Provisioning(p) == proc[p].pc \in {"listen", "read", "redeem", "store", "sync", "answer"}
PortTaken == \E p \in Procs : Provisioning(p)

ReadKey(p) ==
    /\ proc[p].pc = "read_key"
    /\ IF /\ ParsesPair(file["key"], proc[p].cert)
          /\ proc[p].token = Absent => ~PortTaken
         THEN proc' = [proc EXCEPT ![p].key = file["key"],
                                   ![p].pc = IF proc[p].token = Absent THEN "listen" ELSE "connect"]
         ELSE Stops(p)
    /\ KeepDisk /\ KeepHub /\ UNCHANGED historyVars

(* validate_endpoint_transport and websocket_url: a secret is sent with TLS*)
(* unless the configuration allows otherwise.                              *)
Allowed(endpoint) ==
    \/ Schemes[endpoint] = "https"
    \/ Schemes[endpoint] = "http" /\ plaintext

(* connect_with_identity: ClientBuilder::connect shows the hub the token   *)
(* and the identity, in the TLS handshake or in a header.                  *)
Connect(p) ==
    /\ proc[p].pc = "connect"
    /\ IF Allowed(proc[p].hub)
         THEN /\ presented' = presented \union
                   {[hub |-> proc[p].hub, token |-> proc[p].token,
                     key |-> proc[p].key, cert |-> proc[p].cert]}
              /\ Step(p, "run")
         ELSE Stops(p) /\ UNCHANGED presented
    /\ KeepDisk /\ KeepHub /\ UNCHANGED <<told, raced>>

-----------------------------------------------------------------------------
(* provisioning::serve_until_paired serves one client at a time.           *)

AcceptClient(p) ==
    /\ proc[p].pc = "listen"
    /\ Step(p, "read")
    /\ KeepDisk /\ KeepHub /\ UNCHANGED historyVars

(* read_request and handle_client: the client asks for the status, sends   *)
(* something that is no request or too much, or nothing in time.           *)
AnswerOther(p) ==
    /\ proc[p].pc = "read"
    /\ Step(p, "listen")
    /\ KeepDisk /\ KeepHub /\ UNCHANGED historyVars

(* parse_pairing_request: a pairing key with the domain of its endpoint, or*)
(* without.                                                                *)
Targets == {Endpoints} \union {<<domain>> : domain \in Domains}

(* A client posts a pairing key.                                           *)
PostPair(p, key) ==
    /\ proc[p].pc = "read"
    /\ \E list \in Targets :
         proc' = [proc EXCEPT ![p].pc = "redeem", ![p].pairing = key, ![p].left = list]
    /\ KeepDisk /\ KeepHub /\ UNCHANGED historyVars

(* redeem_pairing_key tries the endpoints in turn and takes every failure  *)
(* for a refusal, also an answer that is lost or comes too late.  The one  *)
(* that grants the token becomes the hub of the credentials.               *)
RedeemAt(p) ==
    /\ proc[p].pc = "redeem" /\ proc[p].left # <<>>
    /\ LET key == proc[p].pairing
           granted == Head(proc[p].left) = Home /\ Allowed(Home) /\ key \notin redeemed
       IN  \/ /\ granted
              /\ redeemed' = redeemed \union {key}
              /\ proc' = [proc EXCEPT ![p].pc = "store", ![p].token = key,
                                      ![p].hub = Head(proc[p].left)]
           \/ /\ redeemed' = IF granted THEN redeemed \union {key} ELSE redeemed
              /\ proc' = [proc EXCEPT ![p].left = Tail(@)]
           \/ /\ proc' = [proc EXCEPT ![p].left = Tail(@)]
              /\ UNCHANGED redeemed
    /\ KeepDisk /\ UNCHANGED <<configVars, pairs, historyVars>>

(* No endpoint is left: the client is told that pairing failed.            *)
RedeemFails(p) ==
    /\ proc[p].pc = "redeem" /\ proc[p].left = <<>>
    /\ Step(p, "listen")
    /\ KeepDisk /\ KeepHub /\ UNCHANGED historyVars

(* Mutation: the client gets its answer before the credentials are stored. *)
StoreAnswered(p) ==
    /\ proc[p].pc = "store"
    /\ Rename("credentials", proc[p].token)
    /\ hubOf' = [hubOf EXCEPT ![proc[p].token] = proc[p].hub]
    /\ told' = TRUE
    /\ Step(p, "sync")
    /\ KeepHub /\ UNCHANGED <<presented, raced>>

StoreCredentials(p) ==
    /\ proc[p].pc = "store"
    /\ Rename("credentials", proc[p].token)
    /\ hubOf' = [hubOf EXCEPT ![proc[p].token] = proc[p].hub]
    /\ Step(p, "sync")
    /\ KeepHub /\ UNCHANGED historyVars

SyncCredentials(p) ==
    /\ proc[p].pc = "sync"
    /\ SyncParent("credentials")
    /\ Step(p, "answer")
    /\ KeepHub /\ UNCHANGED <<file, hubOf, historyVars>>

(* The success is reported, as far as the client still listens; then the   *)
(* agent connects with the credentials it has in memory.                   *)
AnswerPaired(p) ==
    /\ proc[p].pc = "answer"
    /\ told' \in {told, TRUE}
    /\ Step(p, "connect")
    /\ KeepDisk /\ KeepHub /\ UNCHANGED <<presented, raced>>

-----------------------------------------------------------------------------
(* Failures.                                                               *)

(* A write fails before its rename, or the sync after it: the process ends *)
(* while it generates an identity; while it stores credentials it drops    *)
(* them, without an answer, and serves the next client.                    *)
WriteFails(p) ==
    /\ Generating(p) \/ proc[p].pc \in {"store", "sync"}
    /\ IF Generating(p) THEN Stops(p)
       ELSE proc' = [proc EXCEPT ![p].pc = "listen", ![p].token = Absent, ![p].hub = Nowhere]
    /\ KeepDisk /\ KeepHub /\ UNCHANGED historyVars

(* The process ends: on an error, a shutdown, the loss of its connection,  *)
(* or a crash.                                                             *)
Ends(p) ==
    /\ proc[p].pc # "down"
    /\ Stops(p)
    /\ KeepDisk /\ KeepHub /\ UNCHANGED historyVars

PowerLoss ==
    /\ \E lost \in [Files -> 0..(MaxPairs + MaxKeys)] :
         /\ \A f \in Files : lost[f] \in older[f] \union {file[f]}
         /\ file' = lost
    /\ older' = [f \in Files |-> {}]
    /\ proc' = [p \in Procs |-> Down]
    /\ KeepHub /\ UNCHANGED <<hubOf, historyVars>>

(* What a process that runs does.                                          *)
Work(p) ==
    \/ CertificateExists(p) \/ KeyExists(p)
    \/ WriteKey(p) \/ SyncKey(p) \/ WriteCert(p) \/ SyncCert(p)
    \/ ReadCert(p) \/ ReadKey(p) \/ Connect(p)
    \/ AcceptClient(p) \/ AnswerOther(p) \/ \E key \in 1..MaxKeys : PostPair(p, key)
    \/ RedeemAt(p) \/ RedeemFails(p) \/ StoreCredentials(p) \/ SyncCredentials(p)
    \/ AnswerPaired(p) \/ WriteFails(p)

Next ==
    \/ \E p \in Procs : Start(p) \/ Work(p) \/ Ends(p)
    \/ PowerLoss

Spec == Init /\ [][Next]_vars

-----------------------------------------------------------------------------
(* Whatever is on disk, a process shows a hub a key only with the          *)
(* certificate that was made for it, and a token only to the hub that      *)
(* issued it.                                                              *)
PresentedTogether ==
    \A shown \in presented :
      /\ shown.key = shown.cert
      /\ shown.hub = IF shown.token = ConfiguredToken THEN OwnHub ELSE Home

(* Unless first starts overlapped, the device has one identity for ever:   *)
(* no failure, crash or power loss makes it forget one that a hub knows.   *)
IdentityStable == raced \/ Cardinality({shown.key : shown \in presented}) <= 1

(* A client that was told "paired" is right: the credentials are on disk,  *)
(* and a power loss cannot take them away.                                 *)
PairedForGood == told => Absent \notin older["credentials"] \union {file["credentials"]}
=============================================================================
