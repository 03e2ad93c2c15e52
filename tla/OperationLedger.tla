--------------------------- MODULE OperationLedger ---------------------------
(***************************************************************************)
(* The operation loop of the agent (apps/nexigon-agent/src/run.rs) and the *)
(* durable ledger of executions behind it (operation_ledger.rs).           *)
(*                                                                         *)
(* A work item is one step of one device operation.  The ledger keeps one  *)
(* file per work item in one directory; a file is replaced by writing a    *)
(* temporary file, syncing it, renaming it and syncing the directory.      *)
(* After a power loss a file holds any version that was renamed into place *)
(* since the last successful directory sync, or the synced one.            *)
(*                                                                         *)
(* The hub is external: it leases a work item that has no verdict and no   *)
(* current lease, accepts a report only under the current lease, and       *)
(* acknowledges only once it has a verdict.  Leases expire at any time.    *)
(***************************************************************************)
EXTENDS Naturals, FiniteSets

CONSTANTS
    Works,       \* the work items
    Tasks,       \* those whose step is a DeviceTask, not a DeviceCommand
    MaxAttempts, \* attempts of report_operation_step_with_retry (5 in the code)
    MaxFaults,   \* bound: number of faults
    MaxClaims    \* bound: number of leases the hub gives

ASSUME LedgerAssumption ==
    /\ Tasks \subseteq Works
    /\ MaxAttempts \in Nat \ {0}
    /\ MaxFaults \in Nat
    /\ MaxClaims \in Nat

VARIABLES
    pc,        \* where the operation loop is; "down": the process is not running
    work,      \* the claimed work item
    claim,     \* its claim_id
    draft,     \* the entry being persisted, then the report being sent
    attempt,   \* the attempt of report_operation_step_with_retry
    reply,     \* the hub's answer to the pending report
    cancelled, \* operation_cancellation
    mem,       \* OperationLedger.entries
    disk,      \* the files in the ledger directory
    possible,  \* the versions of each file that may survive a power loss
    verdict,   \* hub: the recorded result of each work item
    lease,     \* hub: the current claim on each work item, 0 if none
    nextClaim, \* hub: the next claim id
    inflight,  \* reports on their way to the hub
    executed,  \* history: how often the command of each work item was started
    outcome,   \* history: how the started command of each work item ended
    faults     \* history: number of faults so far

loopVars == <<pc, work, claim, draft, attempt>>
ledgerVars == <<mem, disk, possible>>
hubVars == <<verdict, lease, nextClaim>>
execVars == <<executed, outcome>>
vars == <<loopVars, reply, cancelled, ledgerVars, hubVars, inflight, execVars, faults>>

Statuses == {"succeeded", "failed", "interrupted"}
(* A file or an entry: absent, InProgress, or Completed with its report. *)
Entries == {"none", "inProgress"} \union Statuses
(* The program points between the claim and the report. *)
BeforeReport == {"dispatch", "persist", "sync", "execute", "running"}
Points == BeforeReport \union {"down", "top", "report", "await", "remove", "removeSync"}

Report == [work |-> work, claim |-> claim, status |-> draft, attempt |-> attempt]

Init ==
    /\ pc = "down" /\ work \in Works /\ claim = 0 /\ draft = "none" /\ attempt = 1
    /\ reply = "none" /\ cancelled = FALSE
    /\ mem = [w \in Works |-> "none"] /\ disk = [w \in Works |-> "none"]
    /\ possible = [w \in Works |-> {"none"}]
    /\ verdict = [w \in Works |-> "none"] /\ lease = [w \in Works |-> 0]
    /\ nextClaim = 1 /\ inflight = {}
    /\ executed = [w \in Works |-> 0] /\ outcome = [w \in Works |-> "none"]
    /\ faults = 0

Fault == faults < MaxFaults /\ faults' = faults + 1

(* The loop continues with the next poll. *)
Continue ==
    /\ pc' = "top" /\ attempt' = 1 /\ reply' = "none"
    /\ UNCHANGED <<work, claim, draft>>

-----------------------------------------------------------------------------
(* Start of the process and of the loop. *)

(* The agent starts and loads the ledger; temporary files are discarded. *)
Load ==
    /\ pc = "down"
    /\ mem' = disk
    /\ cancelled' = FALSE
    /\ Continue
    /\ UNCHANGED <<disk, possible, hubVars, inflight, execVars, faults>>

(* Cancellation seen at the head of the loop, or when a command has ended. *)
Return ==
    /\ pc = "top" /\ cancelled
    /\ pc' = "down"
    /\ mem' = [w \in Works |-> "none"]
    /\ UNCHANGED <<work, claim, draft, attempt, reply, cancelled, disk, possible,
                   hubVars, inflight, execVars, faults>>

(* The hub's side of ClaimDeviceOperationWork. *)
Lease(w) ==
    /\ verdict[w] = "none" /\ lease[w] = 0
    /\ nextClaim <= MaxClaims
    /\ lease' = [lease EXCEPT ![w] = nextClaim]
    /\ nextClaim' = nextClaim + 1
    /\ UNCHANGED verdict

Claim(w) ==
    /\ pc = "top" /\ ~cancelled
    /\ Lease(w)
    /\ pc' = "dispatch" /\ work' = w /\ claim' = nextClaim
    /\ UNCHANGED <<draft, attempt, reply, cancelled, ledgerVars, inflight, execVars, faults>>

(* The hub leased the work, the answer was lost. *)
ClaimLost(w) ==
    /\ pc = "top" /\ ~cancelled
    /\ Lease(w)
    /\ Fault
    /\ UNCHANGED <<loopVars, reply, cancelled, ledgerVars, inflight, execVars>>

-----------------------------------------------------------------------------
(* OperationLedger::previous and what the loop does with it. *)

(* Mutation: a completed result is not sent again. *)
DispatchForgetful ==
    /\ pc = "dispatch" /\ work \notin Tasks
    /\ mem[work] \notin Statuses
    /\ draft' = IF mem[work] = "none" THEN "inProgress" ELSE "interrupted"
    /\ pc' = "persist"
    /\ UNCHANGED <<work, claim, attempt, reply, cancelled, ledgerVars, hubVars,
                   inflight, execVars, faults>>

Dispatch ==
    /\ pc = "dispatch"
    /\ \/ (* PreviousExecution::Completed: renew the claim, send the result again *)
          /\ mem[work] \in Statuses
          /\ draft' = mem[work]
       \/ (* PreviousExecution::InProgress: refuse to replay *)
          /\ mem[work] = "inProgress"
          /\ draft' = "interrupted"
       \/ (* PreviousExecution::None *)
          /\ mem[work] = "none" /\ work \notin Tasks
          /\ draft' = "inProgress"
    /\ pc' = "persist"
    /\ UNCHANGED <<work, claim, attempt, reply, cancelled, ledgerVars, hubVars,
                   inflight, execVars, faults>>

(* Device tasks are not handled by the agent. *)
DispatchTask ==
    /\ pc = "dispatch" /\ mem[work] = "none" /\ work \in Tasks
    /\ Continue
    /\ UNCHANGED <<cancelled, ledgerVars, hubVars, inflight, execVars, faults>>

-----------------------------------------------------------------------------
(* OperationLedger::replace: persist_entry, then the in-memory entry. *)

(* Creating, writing, syncing or renaming the temporary file fails. *)
PersistFails ==
    /\ pc = "persist"
    /\ Fault
    /\ Continue
    /\ UNCHANGED <<cancelled, ledgerVars, hubVars, inflight, execVars>>

Rename ==
    /\ pc = "persist"
    /\ disk' = [disk EXCEPT ![work] = draft]
    /\ possible' = [possible EXCEPT ![work] = @ \union {draft}]
    /\ pc' = "sync"
    /\ UNCHANGED <<work, claim, draft, attempt, reply, cancelled, mem, hubVars,
                   inflight, execVars, faults>>

(* sync_directory fails, after a rename or after a removal. *)
SyncFails ==
    /\ pc \in {"sync", "removeSync"}
    /\ Fault
    /\ Continue
    /\ UNCHANGED <<cancelled, ledgerVars, hubVars, inflight, execVars>>

Synced == possible' = [w \in Works |-> {disk[w]}]

(* Mutation: the directory is not synced. *)
SyncDoneUnsynced ==
    /\ pc = "sync"
    /\ mem' = [mem EXCEPT ![work] = draft]
    /\ pc' = IF draft = "inProgress" THEN "execute" ELSE "report"
    /\ UNCHANGED <<work, claim, draft, attempt, reply, cancelled, disk, possible,
                   hubVars, inflight, execVars, faults>>

SyncDone ==
    /\ pc = "sync"
    /\ Synced
    /\ mem' = [mem EXCEPT ![work] = draft]
    /\ pc' = IF draft = "inProgress" THEN "execute" ELSE "report"
    /\ UNCHANGED <<work, claim, draft, attempt, reply, cancelled, disk, hubVars,
                   inflight, execVars, faults>>

-----------------------------------------------------------------------------
(* The execution of the command. *)

Execute ==
    /\ pc = "execute"
    /\ executed' = [executed EXCEPT ![work] = @ + 1]
    /\ pc' = "running"
    /\ UNCHANGED <<work, claim, draft, attempt, reply, cancelled, ledgerVars, hubVars,
                   inflight, outcome, faults>>

(* The command ended, or could not be started ("execute"): commands not    *)
(* enabled, unknown command, invalid input.                                *)
Complete(s) ==
    /\ ~cancelled
    /\ \/ pc = "running" /\ outcome' = [outcome EXCEPT ![work] = s]
       \/ pc = "execute" /\ s = "failed" /\ UNCHANGED outcome
    /\ draft' = s
    /\ pc' = "persist"
    /\ UNCHANGED <<work, claim, attempt, reply, cancelled, ledgerVars, hubVars,
                   inflight, executed, faults>>

(* Cancellation ends the command and the loop without a result. *)
CompleteCancelled ==
    /\ pc \in {"running", "execute"} /\ cancelled
    /\ pc' = "down"
    /\ mem' = [w \in Works |-> "none"]
    /\ UNCHANGED <<work, claim, draft, attempt, reply, cancelled, disk, possible,
                   hubVars, inflight, execVars, faults>>

-----------------------------------------------------------------------------
(* report_operation_step_with_retry *)

SendReport ==
    /\ pc = "report" /\ ~cancelled
    /\ inflight' = inflight \union {Report}
    /\ reply' = "none"
    /\ pc' = "await"
    /\ UNCHANGED <<work, claim, draft, attempt, cancelled, ledgerVars, hubVars,
                   execVars, faults>>

(* The hub handles a report, and answers unless nobody waits any more. *)
Deliver(r) ==
    /\ r \in inflight
    /\ inflight' = inflight \ {r}
    /\ IF verdict[r.work] = "none" /\ lease[r.work] = r.claim
       THEN /\ verdict' = [verdict EXCEPT ![r.work] = r.status]
            /\ lease' = [lease EXCEPT ![r.work] = 0]
       ELSE UNCHANGED <<verdict, lease>>
    /\ IF pc = "await" /\ r = Report
       THEN reply' \in {"reject"} \union (IF verdict'[r.work] # "none" THEN {"ack"} ELSE {})
       ELSE UNCHANGED reply
    /\ UNCHANGED <<loopVars, cancelled, ledgerVars, nextClaim, execVars, faults>>

Acknowledged ==
    /\ pc = "await" /\ ~cancelled /\ reply = "ack"
    /\ pc' = "remove"
    /\ reply' = "none"
    /\ UNCHANGED <<work, claim, draft, attempt, cancelled, ledgerVars, hubVars,
                   inflight, execVars, faults>>

(* Mutation: the entry is removed although the hub rejected the report. *)
RejectedRemoves ==
    /\ pc = "await" /\ ~cancelled /\ reply = "reject"
    /\ pc' = "remove"
    /\ reply' = "none"
    /\ UNCHANGED <<work, claim, draft, attempt, cancelled, ledgerVars, hubVars,
                   inflight, execVars, faults>>

Rejected ==
    /\ pc = "await" /\ ~cancelled /\ reply = "reject"
    /\ Continue
    /\ UNCHANGED <<cancelled, ledgerVars, hubVars, inflight, execVars, faults>>

(* The report, or the answer, is lost or late. *)
TransportFailed ==
    /\ pc = "await" /\ ~cancelled
    /\ Fault
    /\ inflight' \in {inflight, inflight \ {Report}}
    /\ IF attempt < MaxAttempts
       THEN /\ attempt' = attempt + 1 /\ pc' = "report" /\ reply' = "none"
            /\ UNCHANGED <<work, claim, draft>>
       ELSE Continue
    /\ UNCHANGED <<cancelled, ledgerVars, hubVars, execVars>>

ReportCancelled ==
    /\ pc \in {"report", "await"} /\ cancelled
    /\ Continue
    /\ UNCHANGED <<cancelled, ledgerVars, hubVars, inflight, execVars, faults>>

-----------------------------------------------------------------------------
(* OperationLedger::remove *)

RemoveFails ==
    /\ pc = "remove"
    /\ Fault
    /\ Continue
    /\ UNCHANGED <<cancelled, ledgerVars, hubVars, inflight, execVars>>

RemoveFile ==
    /\ pc = "remove"
    /\ disk' = [disk EXCEPT ![work] = "none"]
    /\ possible' = [possible EXCEPT ![work] = @ \union {"none"}]
    /\ pc' = "removeSync"
    /\ UNCHANGED <<work, claim, draft, attempt, reply, cancelled, mem, hubVars,
                   inflight, execVars, faults>>

Removed ==
    /\ pc = "removeSync"
    /\ Synced
    /\ mem' = [mem EXCEPT ![work] = "none"]
    /\ Continue
    /\ UNCHANGED <<cancelled, disk, hubVars, inflight, execVars, faults>>

-----------------------------------------------------------------------------
(* The environment. *)

(* A lease runs out: too early for the agent (a fault), or after the agent *)
(* gave up the work.  Bound: a device task is leased once (the agent asks  *)
(* for device commands only).                                              *)
Expire(w) ==
    /\ lease[w] # 0 /\ w \notin Tasks
    /\ lease' = [lease EXCEPT ![w] = 0]
    /\ IF pc \notin {"down", "top"} /\ lease[w] = claim THEN Fault ELSE UNCHANGED faults
    /\ UNCHANGED <<loopVars, reply, cancelled, ledgerVars, verdict, nextClaim,
                   inflight, execVars>>

Shutdown ==
    /\ pc # "down" /\ ~cancelled
    /\ Fault
    /\ cancelled' = TRUE
    /\ UNCHANGED <<loopVars, reply, ledgerVars, hubVars, inflight, execVars>>

(* The process ends anywhere: a kill, an abort after the shutdown grace    *)
(* period, a lost connection.                                              *)
Crash ==
    /\ pc # "down"
    /\ Fault
    /\ pc' = "down"
    /\ mem' = [w \in Works |-> "none"]
    /\ UNCHANGED <<work, claim, draft, attempt, reply, cancelled, disk, possible,
                   hubVars, inflight, execVars>>

(* The whole device fails. *)
PowerLoss ==
    /\ Fault
    /\ pc' = "down"
    /\ mem' = [w \in Works |-> "none"]
    /\ disk' \in [Works -> Entries]
    /\ \A w \in Works : disk'[w] \in possible[w]
    /\ possible' = [w \in Works |-> {disk'[w]}]
    /\ UNCHANGED <<work, claim, draft, attempt, reply, cancelled, hubVars, inflight, execVars>>

-----------------------------------------------------------------------------
Agent ==
    \/ Load \/ Return
    \/ Dispatch \/ DispatchTask
    \/ Rename \/ SyncDone
    \/ Execute \/ (\E s \in {"succeeded", "failed"} : Complete(s)) \/ CompleteCancelled
    \/ SendReport \/ Acknowledged \/ Rejected \/ ReportCancelled
    \/ RemoveFile \/ Removed

Faulty ==
    \/ PersistFails \/ SyncFails \/ RemoveFails \/ TransportFailed
    \/ Shutdown \/ Crash \/ PowerLoss
    \/ \E w \in Works : ClaimLost(w)

Hub ==
    \/ \E w \in Works : Claim(w) \/ Expire(w)
    \/ \E r \in inflight : Deliver(r)

Next == Agent \/ Faulty \/ Hub

Spec == Init /\ [][Next]_vars

(* The agent is restarted by its service manager and its loop runs on; the *)
(* transport delivers what it accepted; the hub leases what is due.        *)
FairSpec ==
    /\ Spec
    /\ WF_vars(Agent)
    /\ WF_vars(\E r \in inflight : Deliver(r))
    /\ \A w \in Works : SF_vars(Claim(w)) /\ WF_vars(Expire(w))

-----------------------------------------------------------------------------
TypeOK ==
    /\ pc \in Points /\ work \in Works /\ claim \in Nat
    /\ draft \in Entries /\ attempt \in 1..MaxAttempts
    /\ reply \in {"none", "ack", "reject"} /\ cancelled \in BOOLEAN
    /\ mem \in [Works -> Entries] /\ disk \in [Works -> Entries]
    /\ possible \in [Works -> SUBSET Entries]
    /\ verdict \in [Works -> Statuses \union {"none"}]
    /\ lease \in [Works -> Nat] /\ nextClaim \in Nat \ {0}
    /\ inflight \subseteq [work : Works, claim : Nat, status : Statuses, attempt : 1..MaxAttempts]
    /\ executed \in [Works -> Nat]
    /\ outcome \in [Works -> {"none", "succeeded", "failed"}]
    /\ faults \in Nat

(* The command of a work item is started at most once, whatever is lost,   *)
(* fails or crashes on the way (operation_ledger.rs, module documentation).*)
AtMostOnce == \A w \in Works : executed[w] <= 1

(* As long as the hub has no verdict on a work item whose command was      *)
(* started, every version of its ledger file that may survive a power loss *)
(* remembers the execution.                                                *)
NeverForgotten ==
    \A w \in Works : executed[w] > 0 /\ verdict[w] = "none" =>
        "none" \notin possible[w] /\ disk[w] # "none"

(* A report is sent only once no crash can take it back: while the hub has *)
(* no verdict, the reports under way for a work item are exactly what the  *)
(* ledger will hold after any crash.  Hence all reports of a work item     *)
(* agree, also across leases and restarts.                                 *)
ReportsStable ==
    \A r \in inflight : verdict[r.work] = "none" => possible[r.work] = {r.status}

(* The ledger comes first: before an execution, and before a report.       *)
LedgerFirst == NeverForgotten /\ ReportsStable

(* The hub records a success only of a command that ran and succeeded, and *)
(* its acknowledgement is believed only when it has a verdict: the agent   *)
(* removes an entry only of a work item that is finished.                  *)
VerdictTrue ==
    /\ \A w \in Works : verdict[w] = "succeeded" => outcome[w] = "succeeded"
    /\ pc \in {"remove", "removeSync"} => verdict[work] # "none"

(* Each work item is executed and decided as WorkOutcome promises. *)
Outcome == INSTANCE WorkOutcome WITH
    Success <- "succeeded", NoVerdict <- "none", started <- executed
OutcomeSpec == Outcome!Spec

(* Once the faults are over, every command has a verdict: a result is      *)
(* reported, also one that was persisted before a crash or a lost report.  *)
EventuallyDecided == \A w \in Works \ Tasks : <>(verdict[w] # "none")

==============================================================================
