-------------------------------- MODULE LocalApi --------------------------------
(***************************************************************************)
(* The processes of DeviceIdentity around the socket of the local API.  A  *)
(* service that runs serves it; a one-shot command goes through it when it *)
(* can, and otherwise becomes a process that connects by itself.           *)
(*                                                                         *)
(* The socket is a path that leads to a listener.  A process that stops in *)
(* order removes the path; one that crashes leaves it, and it is stale.    *)
(* A connection to the path may fail although somebody listens: the queue  *)
(* of the listener is full, the caller has no rights or no descriptors.    *)
(***************************************************************************)
EXTENDS DeviceIdentity

CONSTANTS MaxClients  \* MAX_CONCURRENT_LOCAL_API_CLIENTS

Missing == "missing"
Stale == "stale"

ASSUME LocalAssumption == MaxClients \in Nat /\ Missing \notin Procs /\ Stale \notin Procs

VARIABLES
    socket,    \* the process whose listener the path leads to, Missing or Stale
    api,       \* what serve does in each process
    link,      \* each one-shot command: where it is, and the process it talks to
    others,    \* other clients of each process
    contended, \* history: two processes have set up the local API at the same time
    misjudged  \* history: a connection to a process that listens failed in serve

localVars == <<socket, api, link, others, contended, misjudged>>
allVars == <<vars, localVars>>

NoLink == [at |-> "off", to |-> Missing]
Direct == [at |-> "direct", to |-> Missing]

LocalInit ==
    /\ Init
    /\ socket = Missing /\ api = [p \in Procs |-> "off"]
    /\ link = [p \in Procs |-> NoLink] /\ others = [p \in Procs |-> 0]
    /\ contended = FALSE /\ misjudged = FALSE

Api(p, now, next) == api[p] = now /\ api' = [api EXCEPT ![p] = next]

-----------------------------------------------------------------------------
(* local_api::serve.                                                       *)

SettingUp(p) == api[p] \in {"probe", "remove", "bind", "restrict"}

(* A service that runs begins to serve, if that is enabled: does the path  *)
(* exist?                                                                  *)
Look(p) ==
    /\ proc[p].pc = "run" /\ link[p] = NoLink
    /\ Api(p, "off", IF socket = Missing THEN "bind" ELSE "probe")
    /\ contended' = (contended \/ \E q \in Procs \ {p} : SettingUp(q))
    /\ UNCHANGED <<vars, socket, link, others, misjudged>>

(* Mutation: whatever the path leads to is taken for stale.                *)
ProbeNothing(p) ==
    /\ Api(p, "probe", "remove")
    /\ UNCHANGED <<vars, socket, link, others, contended, misjudged>>

(* When somebody listens the local API of this process fails: the process  *)
(* goes on without.  Every error of the connection is taken for a stale    *)
(* path.                                                                   *)
Probe(p) ==
    /\ \/ Api(p, "probe", "failed") /\ socket \in Procs /\ UNCHANGED misjudged
       \/ Api(p, "probe", "remove") /\ misjudged' = (misjudged \/ socket \in Procs)
    /\ UNCHANGED <<vars, socket, link, others, contended>>

(* Whatever the path leads to now is removed.  If there is nothing it fails*)
RemoveStale(p) ==
    /\ Api(p, "remove", IF socket = Missing THEN "failed" ELSE "bind")
    /\ socket' = Missing
    /\ UNCHANGED <<vars, link, others, contended, misjudged>>

Bind(p) ==
    /\ Api(p, "bind", IF socket = Missing THEN "restrict" ELSE "failed")
    /\ socket' = IF socket = Missing THEN p ELSE socket
    /\ UNCHANGED <<vars, link, others, contended, misjudged>>

(* Those who are connected to p lose it.                                   *)
Dropped(p) ==
    [q \in Procs |->
       IF q = p \/ (link[q].to = p /\ link[q].at = "session") THEN NoLink
       ELSE IF link[q].to = p THEN Direct ELSE link[q]]

(* SocketGuard removes the path, wherever it leads by then; without it, or *)
(* in a crash, the path stays.                                             *)
Unbound(p) == IF socket = p THEN Stale ELSE socket
AfterServe(p) == IF api[p] = "serving" THEN Missing ELSE Unbound(p)

(* The permissions are set; if that fails the listener is closed again,    *)
(* and no guard removes the path yet.                                      *)
SetMode(p) ==
    /\ \/ Api(p, "restrict", "serving") /\ socket # Missing /\ UNCHANGED <<socket, link>>
       \/ Api(p, "restrict", "failed") /\ socket' = Unbound(p) /\ link' = Dropped(p)
    /\ UNCHANGED <<vars, others, contended, misjudged>>

(* accept fails, or the service is about to stop: serve ends.              *)
ServeEnds(p) ==
    /\ Api(p, "serving", "failed")
    /\ socket' = AfterServe(p)
    /\ others' = [others EXCEPT ![p] = 0] /\ link' = Dropped(p)
    /\ UNCHANGED <<vars, contended, misjudged>>

-----------------------------------------------------------------------------
(* Clients.                                                                *)

ClientsOf(p) == others[p] + Cardinality({q \in Procs : link[q] \in [at : {"asking", "session"}, to : {p}]})

(* A program connects and may say nothing for as long as it likes.         *)
OtherConnects(p) ==
    /\ socket = p /\ api[p] = "serving" /\ ClientsOf(p) < MaxClients
    /\ others' = [others EXCEPT ![p] = @ + 1]
    /\ UNCHANGED <<vars, socket, api, link, contended, misjudged>>

OtherLeaves(p) ==
    /\ others[p] > 0
    /\ others' = [others EXCEPT ![p] = @ - 1]
    /\ UNCHANGED <<vars, socket, api, link, contended, misjudged>>

(* OneShot::open tries the local API first; whatever fails there, the      *)
(* command connects by itself.                                             *)
OpenLocal(p) ==
    /\ proc[p].pc = "down" /\ link[p] = NoLink
    /\ \/ socket \in Procs /\ link' = [link EXCEPT ![p] = [at |-> "queued", to |-> socket]]
       \/ link' = [link EXCEPT ![p] = Direct]
    /\ UNCHANGED <<vars, socket, api, others, contended, misjudged>>

(* serve accepts the client, or drops it at the limit.                     *)
Admit(p) ==
    /\ link[p].at = "queued" /\ api[link[p].to] = "serving"
    /\ link' = [link EXCEPT ![p] = IF ClientsOf(link[p].to) < MaxClients
                                     THEN [at |-> "asking", to |-> link[p].to] ELSE Direct]
    /\ UNCHANGED <<vars, socket, api, others, contended, misjudged>>

(* handle_client: only when the hub has opened its channel the client gets *)
(* an answer that lets it go on; otherwise, or without one, it connects    *)
(* by itself.                                                              *)
HandleClient(p) ==
    /\ link[p].at = "asking"
    /\ \/ link' = [link EXCEPT ![p].at = "session"]
       \/ link' = [link EXCEPT ![p] = Direct]
    /\ UNCHANGED <<vars, socket, api, others, contended, misjudged>>

(* The command is done, or loses its session.                              *)
SessionEnds(p) ==
    /\ link[p].at = "session"
    /\ link' = [link EXCEPT ![p] = NoLink]
    /\ UNCHANGED <<vars, socket, api, others, contended, misjudged>>

-----------------------------------------------------------------------------
(* The processes.                                                          *)

StartService(p) ==
    /\ link[p] = NoLink
    /\ Start(p)
    /\ UNCHANGED localVars

(* OneShot::open_remote: without credentials the command fails.            *)
OpenRemote(p) ==
    /\ link[p] = Direct /\ proc[p].pc = "down"
    /\ \/ Credentials # Absent /\ Start(p) /\ UNCHANGED link
       \/ Credentials = Absent /\ link' = [link EXCEPT ![p] = NoLink] /\ UNCHANGED vars
    /\ UNCHANGED <<socket, api, others, contended, misjudged>>

(* A process that gives up is one that ends.                               *)
HostWork(p) ==
    /\ Work(p)
    /\ link' = IF proc'[p].pc = "down" THEN [link EXCEPT ![p] = NoLink] ELSE link
    /\ UNCHANGED <<socket, api, others, contended, misjudged>>

(* In order, or in a crash.                                                *)
HostEnds(p) ==
    /\ Ends(p)
    /\ socket' \in {AfterServe(p), Unbound(p)}
    /\ api' = [api EXCEPT ![p] = "off"] /\ others' = [others EXCEPT ![p] = 0]
    /\ link' = Dropped(p)
    /\ UNCHANGED <<contended, misjudged>>

HostPowerLoss ==
    /\ PowerLoss
    /\ socket' \in {Missing} \union (IF socket = Missing THEN {} ELSE {Stale})
    /\ api' = [p \in Procs |-> "off"] /\ others' = [p \in Procs |-> 0]
    /\ link' = [p \in Procs |-> NoLink]
    /\ UNCHANGED <<contended, misjudged>>

LocalNext ==
    \/ \E p \in Procs :
        \/ Look(p) \/ Probe(p) \/ RemoveStale(p) \/ Bind(p) \/ SetMode(p) \/ ServeEnds(p)
        \/ OtherConnects(p) \/ OtherLeaves(p)
        \/ OpenLocal(p) \/ Admit(p) \/ HandleClient(p) \/ SessionEnds(p)
        \/ StartService(p) \/ OpenRemote(p) \/ HostWork(p) \/ HostEnds(p)
    \/ HostPowerLoss

LocalSpec == LocalInit /\ [][LocalNext]_allVars

-----------------------------------------------------------------------------
(* One that serves the local API can be reached: no restart, crash, stale  *)
(* path or second service takes the path away from a process that listens, *)
(* with two exceptions.  Two processes set it up at the same time, or a    *)
(* connection to a listener failed, which serve takes for a stale path and *)
(* removes; from then on nothing is promised, since the guard of one       *)
(* process may remove the path of the other.                               *)
ServerReachable ==
    ~contended /\ ~misjudged => \A p \in Procs : api[p] = "serving" => socket = p
=============================================================================
