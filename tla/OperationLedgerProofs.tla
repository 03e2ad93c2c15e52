------------------------ MODULE OperationLedgerProofs ------------------------
(***************************************************************************)
(* Proofs about the operation loop and its ledger: commands run at most    *)
(* once, reports are stable under crashes, and the loop implements         *)
(* WorkOutcome; and about the calls by which it reaches the hub: the       *)
(* memory of bodies stays within its limits, and the two ends of a         *)
(* connection agree where messages begin.                                  *)
(***************************************************************************)
EXTENDS OperationLedger, RpcExchange, FiniteSetTheorems, SequenceTheorems, TLAPS

ReportSet == [work : Works, claim : Nat, status : Statuses, attempt : 1..MaxAttempts]

(* The draft is an entry that may be persisted or reported at this point.  *)
DraftKind ==
    /\ pc \in {"persist", "sync"} => draft # "none"
    /\ pc \in {"report", "await", "remove", "removeSync"} => draft \in Statuses

(* Claims are given once. *)
ClaimsOrdered ==
    /\ claim < nextClaim
    /\ \A w \in Works : lease[w] < nextClaim
    /\ \A r \in inflight : 0 < r.claim /\ r.claim < nextClaim
    /\ pc \notin {"down", "top"} => 0 < claim /\ lease[work] \in {0, claim}

(* Before the report of a claim is sent, no report under it is under way,  *)
(* so the hub cannot decide the work.                                      *)
Undecided ==
    pc \in BeforeReport =>
        /\ verdict[work] = "none"
        /\ \A r \in inflight : r.work = work => r.claim # claim

(* A lost entry would allow a second execution. *)
Remembered ==
    /\ \A w \in Works : disk[w] \in possible[w]
    /\ \A w \in Works : executed[w] > 0 /\ verdict[w] = "none" =>
           "none" \notin possible[w] /\ (pc # "down" => mem[w] # "none")

(* What the loop knows of the work at each point. *)
AtPoint ==
    /\ pc = "execute" \/ (pc \in {"persist", "sync"} /\ draft = "inProgress") =>
           executed[work] = 0
    /\ pc = "sync" => disk[work] = draft
    /\ pc \in {"execute", "running"} =>
           /\ mem[work] = "inProgress"
           /\ outcome[work] = "none"
           /\ "none" \notin possible[work]
    /\ pc = "running" => executed[work] > 0
    /\ pc \in {"report", "await"} => possible[work] = {draft} /\ mem[work] = draft
    /\ pc \in {"remove", "removeSync"} => verdict[work] # "none"
    /\ pc = "await" /\ reply = "ack" => verdict[work] # "none"

(* All versions of a reported result agree. *)
Agreed ==
    \A r \in inflight : verdict[r.work] = "none" =>
        /\ possible[r.work] = {r.status}
        /\ pc # "down" => mem[r.work] = r.status
        /\ pc \in {"persist", "sync"} /\ r.work = work => draft = r.status

(* "succeeded" is written down only of a command that succeeded. *)
Truthful ==
    /\ \A w \in Works : executed[w] = 0 => outcome[w] = "none"
    /\ \A w \in Works : "succeeded" \in possible[w] \/ mem[w] = "succeeded"
                            \/ verdict[w] = "succeeded" => outcome[w] = "succeeded"
    /\ \A r \in inflight : r.status = "succeeded" => outcome[r.work] = "succeeded"
    /\ pc \in {"persist", "sync"} /\ draft = "succeeded" => outcome[work] = "succeeded"

IInv ==
    /\ TypeOK /\ DraftKind /\ ClaimsOrdered /\ Undecided
    /\ Remembered /\ AtPoint /\ Agreed /\ Truthful /\ AtMostOnce

USE LedgerAssumption DEF Statuses, Entries, BeforeReport, Points, loopVars, ledgerVars,
                         hubVars, execVars

LEMMA InitInv == Init => IInv
<1> SUFFICES ASSUME Init PROVE IInv
  OBVIOUS
<1>1. TypeOK
  <2>1. /\ mem \in [Works -> Entries] /\ disk \in [Works -> Entries]
        /\ possible \in [Works -> SUBSET Entries]
        /\ verdict \in [Works -> Statuses \union {"none"}]
        /\ outcome \in [Works -> {"none", "succeeded", "failed"}]
    BY DEF Init
  <2>2. /\ pc \in Points /\ draft \in Entries
        /\ reply \in {"none", "ack", "reject"} /\ cancelled \in BOOLEAN
    BY DEF Init
  <2>3. /\ claim \in Nat /\ attempt \in 1..MaxAttempts /\ nextClaim \in Nat \ {0}
        /\ lease \in [Works -> Nat] /\ executed \in [Works -> Nat] /\ faults \in Nat
    BY DEF Init
  <2> QED
    BY <2>1, <2>2, <2>3 DEF Init, TypeOK
<1>2. DraftKind /\ ClaimsOrdered /\ Undecided /\ AtPoint
  BY DEF Init, DraftKind, ClaimsOrdered, Undecided, AtPoint
<1>3. Remembered /\ AtMostOnce
  BY DEF Init, Remembered, AtMostOnce
<1>4. Agreed /\ Truthful
  BY DEF Init, Agreed, Truthful
<1> QED
  BY <1>1, <1>2, <1>3, <1>4 DEF IInv

-----------------------------------------------------------------------------
(* Steps of the loop up to the report. *)

(* A file read at the start is a version that survived. *)
LEMMA LoadStep == ASSUME IInv, Load PROVE IInv'
<1>1. TypeOK'
  <2>1. mem' \in [Works -> Entries] /\ cancelled' \in BOOLEAN
    BY Zenon DEF Load, IInv, TypeOK
  <2> QED
    BY <2>1 DEF Load, Continue, IInv, TypeOK
<1>2. DraftKind'
  BY DEF Load, Continue, IInv, TypeOK, DraftKind
<1>3. ClaimsOrdered'
  BY DEF Load, Continue, IInv, TypeOK, ClaimsOrdered
<1>4. Undecided'
  BY DEF Load, Continue, IInv, TypeOK, Undecided, ClaimsOrdered
<1>5. Remembered'
  BY DEF Load, Continue, IInv, TypeOK, Remembered
<1>6. AtPoint'
  BY DEF Load, Continue, IInv, TypeOK, AtPoint
<1>7. Agreed'
  BY DEF Load, Continue, IInv, TypeOK, Agreed, Remembered
<1>8. Truthful'
  BY DEF Load, Continue, IInv, TypeOK, Truthful, Remembered
<1>9. AtMostOnce'
  BY DEF Load, Continue, IInv, TypeOK, AtMostOnce
<1> QED  BY <1>1, <1>2, <1>3, <1>4, <1>5, <1>6, <1>7, <1>8, <1>9 DEF IInv

LEMMA ReturnStep == ASSUME IInv, Return PROVE IInv'
BY DEF Return, IInv, TypeOK, DraftKind, ClaimsOrdered, Undecided,
       Remembered, AtPoint, Agreed, Truthful, AtMostOnce

LEMMA ClaimStep == ASSUME NEW w \in Works, IInv, Claim(w) PROVE IInv'
BY DEF Claim, Lease, IInv, TypeOK, DraftKind, ClaimsOrdered, Undecided,
       Remembered, AtPoint, Agreed, Truthful, AtMostOnce

LEMMA ClaimLostStep == ASSUME NEW w \in Works, IInv, ClaimLost(w) PROVE IInv'
BY DEF ClaimLost, Lease, Fault, IInv, TypeOK, DraftKind, ClaimsOrdered, Undecided,
       Remembered, AtPoint, Agreed, Truthful, AtMostOnce

(* Only a work item without an entry is executed, and it was never started. *)
LEMMA DispatchStep == ASSUME IInv, Dispatch PROVE IInv'
<1>1. TypeOK'
  BY DEF Dispatch, IInv, TypeOK
<1>2. DraftKind'
  BY DEF Dispatch, IInv, TypeOK, DraftKind
<1>3. ClaimsOrdered'
  BY DEF Dispatch, IInv, TypeOK, ClaimsOrdered
<1>4. Undecided'
  BY DEF Dispatch, IInv, TypeOK, Undecided, ClaimsOrdered
<1>5. Remembered'
  BY DEF Dispatch, IInv, TypeOK, Remembered
<1>6. AtPoint'
  BY DEF Dispatch, IInv, TypeOK, AtPoint, Undecided, Remembered
<1>7. Agreed'
  BY DEF Dispatch, IInv, TypeOK, Agreed
<1>8. Truthful'
  BY DEF Dispatch, IInv, TypeOK, Truthful
<1>9. AtMostOnce'
  BY DEF Dispatch, IInv, TypeOK, AtMostOnce
<1> QED  BY <1>1, <1>2, <1>3, <1>4, <1>5, <1>6, <1>7, <1>8, <1>9 DEF IInv

LEMMA DispatchTaskStep == ASSUME IInv, DispatchTask PROVE IInv'
BY DEF DispatchTask, Continue, IInv, TypeOK, DraftKind, ClaimsOrdered, Undecided,
       Remembered, AtPoint, Agreed, Truthful, AtMostOnce

LEMMA PersistFailsStep == ASSUME IInv, PersistFails PROVE IInv'
BY DEF PersistFails, Continue, Fault, IInv, TypeOK, DraftKind, ClaimsOrdered, Undecided,
       Remembered, AtPoint, Agreed, Truthful, AtMostOnce

LEMMA RenameStep == ASSUME IInv, Rename PROVE IInv'
BY DEF Rename, IInv, TypeOK, DraftKind, ClaimsOrdered, Undecided,
       Remembered, AtPoint, Agreed, Truthful, AtMostOnce

LEMMA SyncFailsStep == ASSUME IInv, SyncFails PROVE IInv'
BY DEF SyncFails, Continue, Fault, IInv, TypeOK, DraftKind, ClaimsOrdered, Undecided,
       Remembered, AtPoint, Agreed, Truthful, AtMostOnce

(* The synced entry is the only version that survives. *)
LEMMA SyncDoneStep == ASSUME IInv, SyncDone PROVE IInv'
<1>1. TypeOK'
  BY DEF SyncDone, Synced, IInv, TypeOK
<1>2. DraftKind'
  BY DEF SyncDone, Synced, IInv, TypeOK, DraftKind
<1>3. ClaimsOrdered'
  BY DEF SyncDone, Synced, IInv, TypeOK, ClaimsOrdered
<1>4. Undecided'
  BY DEF SyncDone, Synced, IInv, TypeOK, Undecided, ClaimsOrdered
<1>5. Remembered'
  BY DEF SyncDone, Synced, IInv, TypeOK, Remembered, AtPoint, DraftKind
<1>6. AtPoint'
  BY DEF SyncDone, Synced, IInv, TypeOK, AtPoint, Truthful, DraftKind
<1>7. Agreed'
  BY DEF SyncDone, Synced, IInv, TypeOK, Agreed, Remembered, AtPoint
<1>8. Truthful'
  BY DEF SyncDone, Synced, IInv, TypeOK, Truthful, Remembered
<1>9. AtMostOnce'
  BY DEF SyncDone, Synced, IInv, TypeOK, AtMostOnce
<1> QED  BY <1>1, <1>2, <1>3, <1>4, <1>5, <1>6, <1>7, <1>8, <1>9 DEF IInv

(* The command starts for the first time, and its entry is durable. *)
LEMMA ExecuteStep == ASSUME IInv, Execute PROVE IInv'
<1>1. TypeOK'
  BY DEF Execute, IInv, TypeOK
<1>2. DraftKind'
  BY DEF Execute, IInv, TypeOK, DraftKind
<1>3. ClaimsOrdered'
  BY DEF Execute, IInv, TypeOK, ClaimsOrdered
<1>4. Undecided'
  BY DEF Execute, IInv, TypeOK, Undecided, ClaimsOrdered
<1>5. Remembered'
  BY DEF Execute, IInv, TypeOK, Remembered, AtPoint
<1>6. AtPoint'
  BY DEF Execute, IInv, TypeOK, AtPoint
<1>7. Agreed'
  BY DEF Execute, IInv, TypeOK, Agreed
<1>8. Truthful'
  BY DEF Execute, IInv, TypeOK, Truthful
<1>9. AtMostOnce'
  BY DEF Execute, IInv, TypeOK, AtMostOnce, AtPoint
<1> QED  BY <1>1, <1>2, <1>3, <1>4, <1>5, <1>6, <1>7, <1>8, <1>9 DEF IInv

LEMMA CompleteStep == ASSUME NEW s \in {"succeeded", "failed"}, IInv, Complete(s) PROVE IInv'
BY DEF Complete, IInv, TypeOK, DraftKind, ClaimsOrdered, Undecided,
       Remembered, AtPoint, Agreed, Truthful, AtMostOnce

LEMMA CompleteCancelledStep == ASSUME IInv, CompleteCancelled PROVE IInv'
BY DEF CompleteCancelled, IInv, TypeOK, DraftKind, ClaimsOrdered, Undecided,
       Remembered, AtPoint, Agreed, Truthful, AtMostOnce

-----------------------------------------------------------------------------
(* The report and the removal of the entry. *)

LEMMA SendReportStep == ASSUME IInv, SendReport PROVE IInv'
BY DEF SendReport, Report, IInv, TypeOK, DraftKind, ClaimsOrdered, Undecided,
       Remembered, AtPoint, Agreed, Truthful, AtMostOnce

(* The hub decides by a report of the current claim, which was sent. *)
LEMMA DeliverStep == ASSUME NEW r \in inflight, IInv, Deliver(r) PROVE IInv'
<1>1. TypeOK'
  BY DEF Deliver, Report, IInv, TypeOK
<1>2. DraftKind'
  BY DEF Deliver, Report, IInv, TypeOK, DraftKind
<1>3. ClaimsOrdered'
  BY DEF Deliver, Report, IInv, TypeOK, ClaimsOrdered
<1>4. Undecided'
  BY DEF Deliver, Report, IInv, TypeOK, Undecided, ClaimsOrdered
<1>5. Remembered'
  BY DEF Deliver, Report, IInv, TypeOK, Remembered
<1>6. AtPoint'
  BY DEF Deliver, Report, IInv, TypeOK, AtPoint, Undecided, ClaimsOrdered
<1>7. Agreed'
  BY DEF Deliver, Report, IInv, TypeOK, Agreed
<1>8. Truthful'
  BY DEF Deliver, Report, IInv, TypeOK, Truthful
<1>9. AtMostOnce'
  BY DEF Deliver, Report, IInv, TypeOK, AtMostOnce
<1> QED  BY <1>1, <1>2, <1>3, <1>4, <1>5, <1>6, <1>7, <1>8, <1>9 DEF IInv

LEMMA AcknowledgedStep == ASSUME IInv, Acknowledged PROVE IInv'
BY DEF Acknowledged, IInv, TypeOK, DraftKind, ClaimsOrdered, Undecided,
       Remembered, AtPoint, Agreed, Truthful, AtMostOnce

LEMMA RejectedStep == ASSUME IInv, Rejected PROVE IInv'
BY DEF Rejected, Continue, IInv, TypeOK, DraftKind, ClaimsOrdered, Undecided,
       Remembered, AtPoint, Agreed, Truthful, AtMostOnce

LEMMA TransportFailedStep == ASSUME IInv, TransportFailed PROVE IInv'
BY DEF TransportFailed, Continue, Fault, Report, IInv, TypeOK, DraftKind, ClaimsOrdered, Undecided,
       Remembered, AtPoint, Agreed, Truthful, AtMostOnce

LEMMA ReportCancelledStep == ASSUME IInv, ReportCancelled PROVE IInv'
BY DEF ReportCancelled, Continue, IInv, TypeOK, DraftKind, ClaimsOrdered, Undecided,
       Remembered, AtPoint, Agreed, Truthful, AtMostOnce

LEMMA RemoveFailsStep == ASSUME IInv, RemoveFails PROVE IInv'
BY DEF RemoveFails, Continue, Fault, IInv, TypeOK, DraftKind, ClaimsOrdered, Undecided,
       Remembered, AtPoint, Agreed, Truthful, AtMostOnce

LEMMA RemoveFileStep == ASSUME IInv, RemoveFile PROVE IInv'
BY DEF RemoveFile, IInv, TypeOK, DraftKind, ClaimsOrdered, Undecided,
       Remembered, AtPoint, Agreed, Truthful, AtMostOnce

(* An entry is forgotten only after the verdict. *)
LEMMA RemovedStep == ASSUME IInv, Removed PROVE IInv'
<1>1. TypeOK'
  BY DEF Removed, Continue, Synced, IInv, TypeOK
<1>2. DraftKind'
  BY DEF Removed, Continue, Synced, IInv, TypeOK, DraftKind
<1>3. ClaimsOrdered'
  BY DEF Removed, Continue, Synced, IInv, TypeOK, ClaimsOrdered
<1>4. Undecided'
  BY DEF Removed, Continue, Synced, IInv, TypeOK, Undecided, ClaimsOrdered
<1>5. Remembered'
  BY DEF Removed, Continue, Synced, IInv, TypeOK, Remembered, AtPoint
<1>6. AtPoint'
  BY DEF Removed, Continue, Synced, IInv, TypeOK, AtPoint
<1>7. Agreed'
  BY DEF Removed, Continue, Synced, IInv, TypeOK, Agreed, Remembered, AtPoint
<1>8. Truthful'
  BY DEF Removed, Continue, Synced, IInv, TypeOK, Truthful, Remembered
<1>9. AtMostOnce'
  BY DEF Removed, Continue, Synced, IInv, TypeOK, AtMostOnce
<1> QED  BY <1>1, <1>2, <1>3, <1>4, <1>5, <1>6, <1>7, <1>8, <1>9 DEF IInv

-----------------------------------------------------------------------------
(* The environment. *)

LEMMA ExpireStep == ASSUME NEW w \in Works, IInv, Expire(w) PROVE IInv'
BY DEF Expire, Fault, IInv, TypeOK, DraftKind, ClaimsOrdered, Undecided,
       Remembered, AtPoint, Agreed, Truthful, AtMostOnce

LEMMA ShutdownStep == ASSUME IInv, Shutdown PROVE IInv'
BY DEF Shutdown, Fault, IInv, TypeOK, DraftKind, ClaimsOrdered, Undecided,
       Remembered, AtPoint, Agreed, Truthful, AtMostOnce

LEMMA CrashStep == ASSUME IInv, Crash PROVE IInv'
BY DEF Crash, Fault, IInv, TypeOK, DraftKind, ClaimsOrdered, Undecided,
       Remembered, AtPoint, Agreed, Truthful, AtMostOnce

(* Whatever survives, it is one of the possible versions. *)
LEMMA PowerLossStep == ASSUME IInv, PowerLoss PROVE IInv'
<1>1. TypeOK'
  BY DEF PowerLoss, Fault, IInv, TypeOK
<1>2. DraftKind'
  BY DEF PowerLoss, Fault, IInv, TypeOK, DraftKind
<1>3. ClaimsOrdered'
  BY DEF PowerLoss, Fault, IInv, TypeOK, ClaimsOrdered
<1>4. Undecided'
  BY DEF PowerLoss, Fault, IInv, TypeOK, Undecided, ClaimsOrdered
<1>5. Remembered'
  BY DEF PowerLoss, Fault, IInv, TypeOK, Remembered
<1>6. AtPoint'
  BY DEF PowerLoss, Fault, IInv, TypeOK, AtPoint
<1>7. Agreed'
  BY DEF PowerLoss, Fault, IInv, TypeOK, Agreed
<1>8. Truthful'
  BY DEF PowerLoss, Fault, IInv, TypeOK, Truthful
<1>9. AtMostOnce'
  BY DEF PowerLoss, Fault, IInv, TypeOK, AtMostOnce
<1> QED  BY <1>1, <1>2, <1>3, <1>4, <1>5, <1>6, <1>7, <1>8, <1>9 DEF IInv

-----------------------------------------------------------------------------
LEMMA NextInv == IInv /\ [Next]_vars => IInv'
<1> SUFFICES ASSUME IInv, [Next]_vars PROVE IInv'
  OBVIOUS
<1>1. CASE Agent
  BY <1>1, LoadStep, ReturnStep, DispatchStep, DispatchTaskStep, RenameStep, SyncDoneStep,
     ExecuteStep, CompleteStep, CompleteCancelledStep, SendReportStep, AcknowledgedStep,
     RejectedStep, ReportCancelledStep, RemoveFileStep, RemovedStep DEF Agent
<1>2. CASE Faulty
  BY <1>2, PersistFailsStep, SyncFailsStep, RemoveFailsStep, TransportFailedStep,
     ShutdownStep, CrashStep, PowerLossStep, ClaimLostStep DEF Faulty
<1>3. CASE Hub
  BY <1>3, ClaimStep, ExpireStep, DeliverStep DEF Hub
<1>4. CASE UNCHANGED vars
  BY <1>4 DEF vars, IInv, TypeOK, DraftKind, ClaimsOrdered, Undecided,
     Remembered, AtPoint, Agreed, Truthful, AtMostOnce
<1> QED
  BY <1>1, <1>2, <1>3, <1>4 DEF Next

(* The invariant holds in every reachable state. *)
THEOREM Invariance == Spec => []IInv
<1>1. Init => IInv
  BY InitInv
<1>2. IInv /\ [Next]_vars => IInv'
  BY NextInv
<1> QED
  BY <1>1, <1>2, PTL DEF Spec

(* Every variable keeps its type. *)
THEOREM TypeCorrect == Spec => []TypeOK
<1>1. IInv => TypeOK
  BY DEF IInv
<1> QED
  BY <1>1, Invariance, PTL

(* Whatever fails, a command is started at most once. *)
THEOREM ExecutedOnce == Spec => []AtMostOnce
<1>1. IInv => AtMostOnce
  BY DEF IInv
<1> QED
  BY <1>1, Invariance, PTL

(* An execution without a verdict is remembered by every surviving file. *)
THEOREM Durable == Spec => []NeverForgotten
<1>1. IInv => NeverForgotten
  BY DEF IInv, NeverForgotten, Remembered, TypeOK
<1> QED
  BY <1>1, Invariance, PTL

(* Reports under way are what the ledger holds after any crash. *)
THEOREM Stable == Spec => []ReportsStable
<1>1. IInv => ReportsStable
  BY DEF IInv, ReportsStable, Agreed
<1> QED
  BY <1>1, Invariance, PTL

(* Whatever fails, the ledger has an execution before it starts and a      *)
(* result before it is reported, in every version that may survive.        *)
THEOREM LedgerLeads == Spec => []LedgerFirst
<1>1. NeverForgotten /\ ReportsStable => LedgerFirst
  BY DEF LedgerFirst
<1> QED
  BY <1>1, Durable, Stable, PTL

(* A recorded success happened, and only decided work is removed. *)
THEOREM Honest == Spec => []VerdictTrue
<1>1. IInv => VerdictTrue
  BY DEF IInv, VerdictTrue, Truthful, AtPoint
<1> QED
  BY <1>1, Invariance, PTL

-----------------------------------------------------------------------------
(* Refinement of WorkOutcome: Execute is Start, an accepted report is      *)
(* Record, and nothing else is seen.                                       *)

LEMMA ExecuteStarts == ASSUME IInv, Execute PROVE Outcome!Next
<1>1. work \in Works /\ executed[work] = 0 /\ verdict[work] = "none"
  BY DEF Execute, IInv, TypeOK, AtPoint, Undecided
<1>2. executed' = [executed EXCEPT ![work] = 1] /\ UNCHANGED verdict
  BY <1>1 DEF Execute, IInv, TypeOK
<1>3. Outcome!Start(work)
  BY <1>1, <1>2 DEF Outcome!Start
<1> QED
  BY <1>1, <1>3 DEF Outcome!Next

LEMMA DeliverRecords ==
    ASSUME IInv, NEW r \in inflight, Deliver(r)
    PROVE  Outcome!Next \/ UNCHANGED <<executed, verdict>>
<1>1. r.work \in Works /\ r.status \in Statuses /\ UNCHANGED executed
  BY DEF Deliver, IInv, TypeOK
<1>2. CASE verdict[r.work] = "none" /\ lease[r.work] = r.claim
  <2>1. r.status = "succeeded" => executed[r.work] > 0
    BY <1>1 DEF IInv, TypeOK, Truthful
  <2>2. verdict' = [verdict EXCEPT ![r.work] = r.status]
    BY <1>2 DEF Deliver
  <2>3. Outcome!Record(r.work, r.status)
    BY <1>1, <1>2, <2>1, <2>2 DEF Outcome!Record
  <2> QED
    BY <1>1, <2>3 DEF Outcome!Next
<1>3. CASE ~(verdict[r.work] = "none" /\ lease[r.work] = r.claim)
  BY <1>1, <1>3 DEF Deliver
<1> QED
  BY <1>2, <1>3

(* The operation loop implements WorkOutcome. *)
THEOREM Refinement == Spec => OutcomeSpec
<1>1. Init => Outcome!Init
  BY DEF Init, Outcome!Init
<1>2. IInv /\ [Next]_vars => [Outcome!Next]_<<executed, verdict>>
  <2> SUFFICES ASSUME IInv, [Next]_vars PROVE Outcome!Next \/ UNCHANGED <<executed, verdict>>
    OBVIOUS
  <2>1. CASE Execute
    BY <2>1, ExecuteStarts
  <2>2. CASE \E r \in inflight : Deliver(r)
    BY <2>2, DeliverRecords
  <2>3. CASE Agent /\ ~Execute
    BY <2>3 DEF Agent, Load, Return, Dispatch, DispatchTask, Rename, SyncDone, Complete,
       CompleteCancelled, SendReport, Acknowledged, Rejected, ReportCancelled, RemoveFile,
       Removed
  <2>4. CASE Faulty
    BY <2>4 DEF Faulty, PersistFails, SyncFails, RemoveFails, TransportFailed, Shutdown,
       Crash, PowerLoss, ClaimLost, Lease
  <2>5. CASE \E w \in Works : Claim(w) \/ Expire(w)
    BY <2>5 DEF Claim, Lease, Expire
  <2>6. CASE UNCHANGED vars
    BY <2>6 DEF vars
  <2> QED
    BY <2>1, <2>2, <2>3, <2>4, <2>5, <2>6 DEF Next, Hub
<1> QED
  BY <1>1, <1>2, Invariance, PTL DEF Spec, OutcomeSpec, Outcome!Spec

-----------------------------------------------------------------------------
(***************************************************************************)
(* RpcExchange.  First the pools of permits: what an operation of a pool   *)
(* does to the task it is for, that it leaves the others alone, and that   *)
(* no semaphore ever gives out more than it has.                           *)
(***************************************************************************)

(* The keys of the registry, the semaphores, and what a pool consists of.  *)
Keys == Actors \union {ClientKey}
Semaphores == Keys \union {"global", "overflow"}
PoolEntries == [at : {"none", "actor", "global", "held"}, via : Semaphores, bytes : 0..MaxBody]
PoolSpace == [entry : [Tickets -> PoolEntries], line : [Semaphores -> Seq(Tickets)], tracked : SUBSET Keys]

(* A pool that gives out no more than it has.                              *)
GoodPool(p) ==
    /\ p \in PoolSpace
    /\ \A t \in Tickets : p.entry[t].at = "none" => p.entry[t] = NoPermit
    /\ \A s \in Semaphores : Used(p, s) <= Capacity(s)
    /\ IsFiniteSet(p.tracked) /\ Cardinality(p.tracked) <= MaxTracked

(* Only the request of t is another one.                                   *)
OnlyTouches(p, q, t) == \A x \in Tickets \ {t} : q.entry[x] = p.entry[x]

-----------------------------------------------------------------------------
(* Counting permits.                                                       *)

LEMMA LimitsTyped ==
    /\ GlobalCapacity \in Nat /\ ActorCapacity \in Nat /\ MaxBody \in Nat /\ MaxTracked \in Nat
    /\ \A s : Capacity(s) \in Nat
  BY PoolAssumption DEF ValidLimits, Capacity

LEMMA TicketsFinite == IsFiniteSet(Tickets)
<1> DEFINE f == [k \in Conns |-> Request(k)]
           g == [k \in Conns |-> Response(k)]
<1>1. /\ f \in Surjection(Conns, {Request(k) : k \in Conns})
      /\ g \in Surjection(Conns, {Response(k) : k \in Conns})
  BY DEF Surjection
<1>2. IsFiniteSet({Request(k) : k \in Conns}) /\ IsFiniteSet({Response(k) : k \in Conns})
  <2> HIDE DEF f, g
  <2> QED  BY <1>1, FS_Surjection, ExchangeAssumption
<1> QED  BY <1>2, FS_Union DEF Tickets

LEMMA OneLess ==
    /\ \A x \in 0..MaxBody : x > 0 => x - 1 \in 0..MaxBody
    /\ \A x, y \in 0..MaxBody : x <= y => x - 1 <= y
  BY LimitsTyped

LEMMA PermitsFinite ==
    ASSUME NEW p \in PoolSpace, NEW T \in SUBSET Tickets
    PROVE  /\ IsFiniteSet(Permits(p, T)) /\ Cardinality(Permits(p, T)) \in Nat
           /\ Permits(p, T) \subseteq Tickets \X (1..MaxBody)
<1>1. IsFiniteSet(Tickets \X (1..MaxBody))
  <2>1. 1 \in Int /\ MaxBody \in Int
    BY LimitsTyped
  <2>2. IsFiniteSet(1..MaxBody)
    BY <2>1, FS_Interval
  <2> QED  BY <2>2, TicketsFinite, FS_Product
<1>2. Permits(p, T) \subseteq Tickets \X (1..MaxBody)
  BY DEF Permits
<1> QED  BY <1>1, <1>2, FS_Subset, FS_CardinalityType

LEMMA PermitsOf ==
    ASSUME NEW p, NEW T, NEW t \in T, NEW n \in 1..MaxBody
    PROVE  <<t, n>> \in Permits(p, T) <=> n <= p.entry[t].bytes
  BY DEF Permits

LEMMA FewerPermits ==
    ASSUME NEW p \in PoolSpace, NEW q \in PoolSpace, NEW T \in SUBSET Tickets, NEW S \in SUBSET T,
           \A t \in S : q.entry[t].bytes <= p.entry[t].bytes
    PROVE  Cardinality(Permits(q, S)) <= Cardinality(Permits(p, T))
<1>1. \A t \in S : p.entry[t].bytes \in Nat /\ q.entry[t].bytes \in Nat
  BY LimitsTyped DEF PoolSpace, PoolEntries
<1>2. Permits(q, S) \subseteq Permits(p, T)
  <2> SUFFICES ASSUME NEW u \in S \X (1..MaxBody), u[2] <= q.entry[u[1]].bytes
               PROVE  u[2] <= p.entry[u[1]].bytes
    BY DEF Permits
  <2>1. u[1] \in S /\ u[2] \in Nat
    BY LimitsTyped
  <2> QED  BY <1>1, <2>1
<1> QED  BY <1>2, PermitsFinite, FS_Subset

LEMMA MorePermits ==
    ASSUME NEW p \in PoolSpace, NEW q \in PoolSpace, NEW T \in SUBSET Tickets,
           NEW t \in Tickets, NEW S \in SUBSET (T \union {t}),
           \A x \in S \ {t} : q.entry[x].bytes <= p.entry[x].bytes
    PROVE  Cardinality(Permits(q, S)) <= Cardinality(Permits(p, T)) + q.entry[t].bytes
<1> DEFINE b == q.entry[t].bytes
           New == {t} \X (1..b)
           Old == Permits(p, T)
<1>1. b \in Nat /\ b <= MaxBody /\ \A x \in S : p.entry[x].bytes \in Nat /\ q.entry[x].bytes \in Nat
  BY LimitsTyped DEF PoolSpace, PoolEntries
<1>2. IsFiniteSet(New) /\ Cardinality(New) = b
  <2>1. IsFiniteSet({t}) /\ Cardinality({t}) = 1
    BY FS_Singleton
  <2>2. IsFiniteSet(1..b) /\ Cardinality(1..b) = b
    <3>1. 1 \in Int /\ b \in Int
      BY <1>1
    <3> HIDE DEF b
    <3>2. IsFiniteSet(1..b) /\ Cardinality(1..b) = IF 1 > b THEN 0 ELSE b - 1 + 1
      BY <3>1, FS_Interval
    <3> QED  BY <1>1, <3>2
  <2>3. IsFiniteSet(New) /\ Cardinality(New) = Cardinality({t}) * Cardinality(1..b)
    BY <2>1, <2>2, FS_Product
  <2> HIDE DEF b, New
  <2> QED  BY <1>1, <2>1, <2>2, <2>3
<1>3. IsFiniteSet(Old) /\ Cardinality(Old) \in Nat
  BY PermitsFinite
<1>4. Permits(q, S) \subseteq Old \union New
  <2> SUFFICES ASSUME NEW u \in S \X (1..MaxBody), u[2] <= q.entry[u[1]].bytes
               PROVE  u \in Old \union New
    BY DEF Permits
  <2>1. u[1] \in S /\ u[2] \in 1..MaxBody /\ u[2] \in Nat /\ u = <<u[1], u[2]>> /\ u[2] >= 1
    BY LimitsTyped
  <2>2. CASE u[1] = t
    BY <1>1, <2>1, <2>2
  <2>3. CASE u[1] # t
    <3>1. u[1] \in T /\ u[2] <= p.entry[u[1]].bytes
      BY <1>1, <2>1, <2>3
    <3> QED  BY <2>1, <3>1 DEF Permits
  <2> QED  BY <2>2, <2>3
<1>5. IsFiniteSet(Old \union New) /\ Cardinality(Old \union New) <= Cardinality(Old) + b
  <2>1. /\ IsFiniteSet(Old \union New)
        /\ Cardinality(Old \union New) = Cardinality(Old) + Cardinality(New) - Cardinality(Old \intersect New)
    BY <1>2, <1>3, FS_Union
  <2>2. Cardinality(Old \intersect New) \in Nat
    BY <1>3, FS_Subset, FS_CardinalityType
  <2> HIDE DEF Old, New, b
  <2> QED  BY <1>1, <1>2, <1>3, <2>1, <2>2
<1>6. Cardinality(Permits(q, S)) <= Cardinality(Old \union New)
  BY <1>4, <1>5, FS_Subset
<1>7. Cardinality(Permits(q, S)) \in Nat /\ Cardinality(Old \union New) \in Nat
  <2>1. IsFiniteSet(Permits(q, S))
    BY <1>4, <1>5, FS_Subset
  <2> QED  BY <1>5, <2>1, FS_CardinalityType
<1> HIDE DEF Old, New, b
<1>8. Cardinality(Permits(q, S)) <= Cardinality(Old) + b
  BY <1>1, <1>3, <1>5, <1>6, <1>7
<1> QED  BY <1>8 DEF Old, b

-----------------------------------------------------------------------------
(* The operations of a pool.                                               *)

LEMMA PoolParts ==
    ASSUME NEW p \in PoolSpace
    PROVE  /\ p.entry \in [Tickets -> PoolEntries] /\ p.line \in [Semaphores -> Seq(Tickets)]
           /\ p.tracked \in SUBSET Keys /\ DOMAIN p.entry = Tickets /\ DOMAIN p.line = Semaphores
           /\ \A e \in [Tickets -> PoolEntries], l \in [Semaphores -> Seq(Tickets)] :
                 /\ [p EXCEPT !.entry = e, !.line = l] \in PoolSpace
                 /\ [p EXCEPT !.entry = e] \in PoolSpace
  BY DEF PoolSpace

LEMMA EntryTyped ==
    /\ \A n \in 0..MaxBody : n \in Nat /\ n <= MaxBody
    /\ \A p \in PoolSpace, t \in Tickets :
          /\ p.entry[t] \in PoolEntries /\ p.entry[t].bytes \in 0..MaxBody /\ p.entry[t].bytes \in Nat
          /\ p.entry[t].at \in {"none", "actor", "global", "held"} /\ p.entry[t].via \in Semaphores
<1>1. \A n \in 0..MaxBody : n \in Nat /\ n <= MaxBody
  BY LimitsTyped
<1>2. ASSUME NEW p \in PoolSpace, NEW t \in Tickets
      PROVE  p.entry[t] \in PoolEntries
  BY PoolParts
<1> QED  BY <1>1, <1>2 DEF PoolEntries

LEMMA HoldersKnown ==
    ASSUME NEW p \in PoolSpace, NEW s
    PROVE  Holders(p, s) \in SUBSET Tickets
  BY PoolParts DEF Holders

(* A pool in which the request of t alone has changed, and is with no      *)
(* semaphore it was not with, for no more permits.                         *)
LEMMA GivesBack ==
    ASSUME NEW p, GoodPool(p), NEW q \in PoolSpace, NEW t \in Tickets, OnlyTouches(p, q, t),
           q.entry[t].at = "none" => q.entry[t] = NoPermit,
           \A s \in Semaphores :
              t \in Holders(q, s) => t \in Holders(p, s) /\ q.entry[t].bytes <= p.entry[t].bytes,
           q.tracked = p.tracked
    PROVE  GoodPool(q)
<1>1. p \in PoolSpace
  BY DEF GoodPool
<1>2. ASSUME NEW s \in Semaphores
      PROVE  Used(q, s) <= Capacity(s)
  <2>1. Holders(q, s) \subseteq Holders(p, s)
    <3> SUFFICES ASSUME NEW x \in Holders(q, s), x # t
                 PROVE  x \in Holders(p, s)
      BY <1>2
    <3>1. x \in Tickets /\ q.entry[x] = p.entry[x]
      BY HoldersKnown DEF OnlyTouches
    <3> QED  BY <1>1, <3>1, PoolParts DEF Holders
  <2>2. \A x \in Holders(q, s) : q.entry[x].bytes <= p.entry[x].bytes
    <3> SUFFICES ASSUME NEW x \in Holders(q, s), x # t
                 PROVE  q.entry[x].bytes <= p.entry[x].bytes
      BY <1>2
    <3>1. x \in Tickets /\ q.entry[x] = p.entry[x]
      BY HoldersKnown DEF OnlyTouches
    <3>2. p.entry[x].bytes \in Nat
      BY <1>1, <3>1, EntryTyped
    <3> QED  BY <3>1, <3>2
  <2>3. Cardinality(Permits(q, Holders(q, s))) <= Cardinality(Permits(p, Holders(p, s)))
    BY <1>1, <2>1, <2>2, HoldersKnown, FewerPermits
  <2>4. /\ Cardinality(Permits(q, Holders(q, s))) \in Nat
        /\ Cardinality(Permits(p, Holders(p, s))) \in Nat
    BY <1>1, HoldersKnown, PermitsFinite
  <2>5. Used(p, s) <= Capacity(s)
    BY DEF GoodPool
  <2> QED  BY <2>3, <2>4, <2>5, LimitsTyped DEF Used
<1>3. \A x \in Tickets : q.entry[x].at = "none" => q.entry[x] = NoPermit
  BY DEF GoodPool, OnlyTouches
<1> QED  BY <1>2, <1>3 DEF GoodPool

(* What a semaphore gives is there.                                        *)
LEMMA PassGood ==
    ASSUME NEW p, GoodPool(p), NEW t \in Tickets, CanPass(p, t)
    PROVE  /\ GoodPool(Pass(p, t)) /\ OnlyTouches(p, Pass(p, t), t)
           /\ Pass(p, t).entry[t].bytes = p.entry[t].bytes
           /\ p.entry[t].at = "actor" => Pass(p, t).entry[t].at = "global"
           /\ p.entry[t].at = "global" => Pass(p, t).entry[t].at = "held"
<1> DEFINE q == Pass(p, t)
           e == p.entry[t]
           next == IF e.at = "global" THEN "held" ELSE "global"
           w == Waits(p, t)
<1>1. /\ p \in PoolSpace /\ e \in PoolEntries /\ e.at \in {"actor", "global"} /\ e.bytes \in Nat
      /\ p.entry \in [Tickets -> PoolEntries] /\ p.line \in [Semaphores -> Seq(Tickets)]
      /\ w \in Semaphores /\ p.line[w] # <<>> /\ p.line[w] \in Seq(Tickets)
      /\ Used(p, w) + e.bytes <= Capacity(w)
  <2>1. p \in PoolSpace
    BY DEF GoodPool
  <2>2. /\ e \in PoolEntries /\ e.at \in {"actor", "global"} /\ e.bytes \in Nat
        /\ p.entry \in [Tickets -> PoolEntries] /\ p.line \in [Semaphores -> Seq(Tickets)]
        /\ e.via \in Semaphores
    BY <2>1, EntryTyped, PoolParts DEF CanPass
  <2>3. w \in Semaphores
    BY <2>2 DEF Waits, Semaphores
  <2> QED  BY <2>1, <2>2, <2>3 DEF CanPass
<1>2. Tail(p.line[w]) \in Seq(Tickets)
  BY <1>1, HeadTailProperties
<1>3. q.entry = [p.entry EXCEPT ![t].at = next] /\ q.tracked = p.tracked /\ q.line \in [Semaphores -> Seq(Tickets)]
      /\ q \in PoolSpace
  <2>1. CASE e.at = "global"
    <3>1. q = [p EXCEPT !.entry[t].at = "held", !.line["global"] = Tail(@)] /\ w = "global"
      BY <2>1 DEF Pass, Waits
    <3>2. [p.entry EXCEPT ![t].at = "held"] \in [Tickets -> PoolEntries]
      BY <1>1 DEF PoolEntries
    <3>3. [p.line EXCEPT !["global"] = Tail(@)] \in [Semaphores -> Seq(Tickets)]
      BY <1>1, <1>2, <3>1
    <3>4. q = [p EXCEPT !.entry = [p.entry EXCEPT ![t].at = "held"],
                        !.line = [p.line EXCEPT !["global"] = Tail(@)]]
      BY <1>1, <3>1 DEF PoolSpace
    <3> HIDE DEF q
    <3> QED  BY <1>1, <2>1, <3>2, <3>3, <3>4 DEF PoolSpace
  <2>2. CASE e.at = "actor"
    <3> DEFINE l == [p.line EXCEPT ![p.entry[t].via] = Tail(@), !["global"] = Append(@, t)]
               en == [p.entry EXCEPT ![t].at = "global"]
    <3>1. w = e.via /\ q = [p EXCEPT !.entry[t].at = "global", !.line = l]
      BY <2>2 DEF Pass, Waits
    <3>2. en \in [Tickets -> PoolEntries]
      BY <1>1 DEF PoolEntries
    <3>3. l \in [Semaphores -> Seq(Tickets)]
      <4>1. [p.line EXCEPT ![w] = Tail(@)] \in [Semaphores -> Seq(Tickets)]
        BY <1>1, <1>2
      <4>2. "global" \in Semaphores
        BY DEF Semaphores
      <4> DEFINE m == [p.line EXCEPT ![w] = Tail(@)]
      <4>3. Append(m["global"], t) \in Seq(Tickets)
        BY <4>1, <4>2
      <4>4. l = [m EXCEPT !["global"] = Append(@, t)]
        <5>1. m = [p.line EXCEPT ![p.entry[t].via] = Tail(@)]
          BY <3>1
        <5> HIDE DEF m
        <5> QED  BY <5>1
      <4> HIDE DEF m, l
      <4> QED  BY <4>1, <4>2, <4>3, <4>4 DEF m
    <3>4. q = [p EXCEPT !.entry = en, !.line = l]
      <4> HIDE DEF l
      <4> QED  BY <1>1, <3>1 DEF PoolSpace
    <3>5. q \in PoolSpace /\ q.entry = en /\ q.line = l /\ q.tracked = p.tracked
      <4> HIDE DEF q, l, en
      <4> QED  BY <1>1, <3>2, <3>3, <3>4 DEF PoolSpace
    <3> QED  BY <2>2, <3>3, <3>5
  <2> QED  BY <1>1, <2>1, <2>2
<1> HIDE DEF q
<1>4. /\ OnlyTouches(p, q, t) /\ q.entry[t].bytes = e.bytes /\ q.entry[t].at = next
      /\ q.entry[t].via = e.via
  BY <1>1, <1>3 DEF OnlyTouches, PoolEntries
<1>5. ASSUME NEW s \in Semaphores
      PROVE  Used(q, s) <= Capacity(s)
  <2>1. /\ Holders(p, s) \in SUBSET Tickets /\ Holders(q, s) \in SUBSET Tickets
        /\ \A x \in Tickets \ {t} : x \in Holders(q, s) <=> x \in Holders(p, s)
    <3>1. \A x \in Tickets \ {t} : q.entry[x] = p.entry[x]
      BY <1>4 DEF OnlyTouches
    <3> QED  BY <1>1, <1>3, <3>1, HoldersKnown, PoolParts DEF Holders
  <2>2. \A x \in Holders(q, s) \ {t} : q.entry[x].bytes <= p.entry[x].bytes
    <3> SUFFICES ASSUME NEW x \in Holders(q, s) \ {t}
                 PROVE  q.entry[x].bytes <= p.entry[x].bytes
      OBVIOUS
    <3>1. q.entry[x] = p.entry[x] /\ p.entry[x].bytes \in Nat
      BY <1>1, <1>4, <2>1, LimitsTyped DEF OnlyTouches, PoolEntries
    <3> QED  BY <3>1
  <2>3. Used(p, s) <= Capacity(s) /\ Used(p, s) \in Nat /\ Used(q, s) \in Nat
    BY <1>1, <1>3, <2>1, PermitsFinite DEF GoodPool, Used
  <2>4. CASE s = w
    <3>1. Holders(q, s) \in SUBSET (Holders(p, s) \union {t})
      BY <2>1
    <3>2. Used(q, s) <= Used(p, s) + e.bytes
      <4>1. Cardinality(Permits(q, Holders(q, s)))
              <= Cardinality(Permits(p, Holders(p, s))) + q.entry[t].bytes
        BY <1>1, <1>3, <2>1, <2>2, <3>1, MorePermits
      <4> QED  BY <1>4, <4>1 DEF Used
    <3> QED  BY <1>1, <2>3, <2>4, <3>2, LimitsTyped
  <2>5. CASE s # w
    <3>1. t \in Holders(q, s) => t \in Holders(p, s)
      <4>1. CASE e.at = "global"
        <5>1. w = "global"
          BY <4>1 DEF Waits
        <5> QED  BY <1>1, <1>3, <1>4, <2>5, <4>1, <5>1, PoolParts DEF Holders
      <4>2. CASE e.at = "actor"
        <5>1. w = e.via /\ q.entry[t].at = "global"
          BY <1>4, <4>2 DEF Waits
        <5> QED  BY <1>1, <1>3, <1>4, <2>5, <4>2, <5>1, PoolParts DEF Holders
      <4> QED  BY <1>1, <4>1, <4>2
    <3>2. Holders(q, s) \in SUBSET Holders(p, s)
      BY <2>1, <3>1
    <3>3. \A x \in Holders(q, s) : q.entry[x].bytes <= p.entry[x].bytes
      BY <1>1, <1>4, <2>2
    <3>4. Used(q, s) <= Used(p, s)
      BY <1>1, <1>3, <2>1, <3>2, <3>3, FewerPermits DEF Used
    <3> QED  BY <2>3, <3>4, LimitsTyped
  <2> QED  BY <2>4, <2>5
<1>6. \A x \in Tickets : q.entry[x].at = "none" => q.entry[x] = NoPermit
  BY <1>4 DEF OnlyTouches, GoodPool
<1>7. GoodPool(q)
  BY <1>3, <1>5, <1>6 DEF GoodPool
<1> QED  BY <1>1, <1>4, <1>7 DEF q

LEMMA AdvanceGood ==
    ASSUME NEW p, GoodPool(p), NEW t \in Tickets
    PROVE  /\ GoodPool(Advance(p, t)) /\ OnlyTouches(p, Advance(p, t), t)
           /\ Advance(p, t).entry[t].bytes = p.entry[t].bytes
           /\ p.entry[t].at # "none" => Advance(p, t).entry[t].at # "none"
           /\ p.entry[t].at \in {"none", "held"} => Advance(p, t) = p
<1>1. CASE ~CanPass(p, t)
  BY <1>1 DEF Advance, OnlyTouches
<1>2. CASE CanPass(p, t)
  <2> DEFINE q == Pass(p, t)
  <2>1. /\ GoodPool(q) /\ OnlyTouches(p, q, t) /\ q.entry[t].bytes = p.entry[t].bytes
        /\ q.entry[t].at \in {"global", "held"} /\ p.entry[t].at \in {"actor", "global"}
    BY <1>2, PassGood DEF CanPass
  <2>2. CASE ~CanPass(q, t)
    BY <1>2, <2>1, <2>2 DEF Advance
  <2>3. CASE CanPass(q, t)
    <3> HIDE DEF q
    <3>1. /\ GoodPool(Pass(q, t)) /\ OnlyTouches(q, Pass(q, t), t)
          /\ Pass(q, t).entry[t].bytes = q.entry[t].bytes
          /\ Pass(q, t).entry[t].at \in {"global", "held"}
      BY <2>1, <2>3, PassGood DEF CanPass
    <3>2. OnlyTouches(p, Pass(q, t), t)
      BY <2>1, <3>1 DEF OnlyTouches
    <3>3. Advance(p, t) = Pass(q, t)
      BY <1>2, <2>3 DEF Advance, q
    <3> QED  BY <2>1, <3>1, <3>2, <3>3
  <2> QED  BY <2>2, <2>3
<1> QED  BY <1>1, <1>2

LEMMA AcquireGood ==
    ASSUME NEW p, GoodPool(p), NEW t \in Tickets, p.entry[t] = NoPermit,
           NEW key \in Keys, NEW bytes \in 0..MaxBody
    PROVE  /\ GoodPool(Acquire(p, t, key, bytes)) /\ OnlyTouches(p, Acquire(p, t, key, bytes), t)
           /\ Acquire(p, t, key, bytes).entry[t].bytes = bytes
           /\ Acquire(p, t, key, bytes).entry[t].at # "none"
<1>1. /\ p \in PoolSpace /\ p.entry \in [Tickets -> PoolEntries]
      /\ p.line \in [Semaphores -> Seq(Tickets)] /\ p.tracked \in SUBSET Keys
      /\ bytes \in Nat /\ bytes <= MaxBody
  BY PoolParts, EntryTyped DEF GoodPool
<1>2. CASE bytes = 0
  <2> DEFINE q == [p EXCEPT !.entry[t].at = "held"]
  <2>1. Acquire(p, t, key, bytes) = q
    BY <1>2 DEF Acquire
  <2>2. [p.entry EXCEPT ![t].at = "held"] \in [Tickets -> PoolEntries]
    BY <1>1 DEF PoolEntries
  <2>3. q = [p EXCEPT !.entry = [p.entry EXCEPT ![t].at = "held"]]
    BY <1>1 DEF PoolSpace
  <2>4. q \in PoolSpace /\ q.tracked = p.tracked /\ q.entry = [p.entry EXCEPT ![t].at = "held"]
    <3> HIDE DEF q
    <3> QED  BY <1>1, <2>2, <2>3 DEF PoolSpace
  <2> HIDE DEF q
  <2>5. /\ OnlyTouches(p, q, t) /\ q.entry[t] = [NoPermit EXCEPT !.at = "held"]
    BY <1>1, <2>4 DEF OnlyTouches
  <2>6. q.entry[t].at = "held" /\ q.entry[t].bytes = 0 /\ q.entry[t].via = "global"
    BY <2>5 DEF NoPermit
  <2>7. ASSUME NEW s \in Semaphores  PROVE Used(q, s) <= Capacity(s)
    <3>1. /\ Holders(q, s) \in SUBSET Tickets /\ Holders(p, s) \in SUBSET Tickets
      BY <1>1, <2>4, HoldersKnown
    <3>2. \A x \in Holders(q, s) \ {t} : x \in Holders(p, s) /\ q.entry[x].bytes <= p.entry[x].bytes
      <4> SUFFICES ASSUME NEW x \in Holders(q, s) \ {t}
                   PROVE  x \in Holders(p, s) /\ q.entry[x].bytes <= p.entry[x].bytes
        OBVIOUS
      <4>1. x \in Tickets /\ q.entry[x] = p.entry[x] /\ p.entry[x].bytes \in Nat
        BY <1>1, <2>5, <3>1, EntryTyped DEF OnlyTouches
      <4>2. x \in Holders(p, s)
        BY <1>1, <2>4, <4>1, PoolParts DEF Holders
      <4> QED  BY <4>1, <4>2
    <3>3. Used(q, s) <= Used(p, s) + q.entry[t].bytes
      BY <1>1, <2>4, <3>1, <3>2, MorePermits DEF Used
    <3>4. Used(p, s) \in Nat /\ Used(q, s) \in Nat /\ Used(p, s) <= Capacity(s)
      BY <1>1, <2>4, <3>1, PermitsFinite DEF Used, GoodPool
    <3> QED  BY <2>6, <3>3, <3>4, LimitsTyped
  <2>8. \A x \in Tickets : q.entry[x].at = "none" => q.entry[x] = NoPermit
    BY <2>5, <2>6 DEF OnlyTouches, GoodPool
  <2>9. GoodPool(q)
    BY <2>4, <2>7, <2>8 DEF GoodPool
  <2> QED  BY <1>2, <2>1, <2>5, <2>6, <2>9
<1>3. CASE bytes # 0
  <2> DEFINE kept == IF Cardinality(p.tracked) >= CleanupThreshold
                       THEN {b \in p.tracked : Alive(p, b)} ELSE p.tracked
             via == IF (key \in kept /\ Alive(p, key)) \/ Cardinality(kept) < MaxTracked
                      THEN key ELSE "overflow"
             e == [at |-> "actor", via |-> via, bytes |-> bytes]
             q == [entry |-> [p.entry EXCEPT ![t] = e],
                   line |-> [p.line EXCEPT ![via] = Append(@, t)],
                   tracked |-> (kept \union {via}) \ {"overflow"}]
  <2>1. Acquire(p, t, key, bytes) = Advance(q, t)
    BY <1>3 DEF Acquire
  <2>2. via \in Semaphores /\ (via = key \/ via = "overflow") /\ kept \subseteq p.tracked
    BY DEF Semaphores
  <2>3. q \in PoolSpace
    <3> HIDE DEF kept, via
    <3>1. e \in PoolEntries
      BY <2>2 DEF PoolEntries
    <3>2. [p.line EXCEPT ![via] = Append(@, t)] \in [Semaphores -> Seq(Tickets)]
      BY <1>1, <2>2
    <3>3. (kept \union {via}) \ {"overflow"} \in SUBSET Keys
      BY <1>1, <2>2
    <3> HIDE DEF e
    <3> QED  BY <1>1, <3>1, <3>2, <3>3 DEF PoolSpace
  <2>4. OnlyTouches(p, q, t) /\ q.entry[t] = e
    BY <1>1 DEF OnlyTouches
  <2>5. ASSUME NEW s \in Semaphores  PROVE Used(q, s) <= Capacity(s)
    <3> HIDE DEF q, via, kept
    <3>0. q.entry[t].at = "actor"
      BY <2>4
    <3>1. /\ Holders(q, s) \in SUBSET Tickets /\ Holders(p, s) \in SUBSET Tickets /\ t \notin Holders(q, s)
      BY <1>1, <2>3, <3>0, HoldersKnown DEF Holders
    <3>2. \A x \in Holders(q, s) : x \in Holders(p, s) /\ q.entry[x].bytes <= p.entry[x].bytes
      <4> SUFFICES ASSUME NEW x \in Holders(q, s)
                   PROVE  x \in Holders(p, s) /\ q.entry[x].bytes <= p.entry[x].bytes
        OBVIOUS
      <4>1. x \in Tickets /\ q.entry[x] = p.entry[x] /\ p.entry[x].bytes \in Nat
        BY <1>1, <2>4, <3>1, EntryTyped DEF OnlyTouches
      <4>2. x \in Holders(p, s)
        BY <1>1, <2>3, <4>1, PoolParts DEF Holders
      <4> QED  BY <4>1, <4>2
    <3>3. Used(q, s) <= Used(p, s)
      BY <1>1, <2>3, <3>1, <3>2, FewerPermits DEF Used
    <3>4. Used(p, s) \in Nat /\ Used(q, s) \in Nat /\ Used(p, s) <= Capacity(s)
      BY <1>1, <2>3, <3>1, PermitsFinite DEF Used, GoodPool
    <3> QED  BY <3>3, <3>4, LimitsTyped
  <2>6. IsFiniteSet(q.tracked) /\ Cardinality(q.tracked) <= MaxTracked
    <3>1. q.tracked = (kept \union {via}) \ {"overflow"}
      OBVIOUS
    <3>2. IsFiniteSet(p.tracked) /\ Cardinality(p.tracked) <= MaxTracked /\ Cardinality(p.tracked) \in Nat
      BY FS_CardinalityType DEF GoodPool
    <3>3. IsFiniteSet(kept) /\ Cardinality(kept) <= MaxTracked /\ Cardinality(kept) \in Nat
      <4> HIDE DEF kept
      <4>1. IsFiniteSet(kept) /\ Cardinality(kept) <= Cardinality(p.tracked) /\ Cardinality(kept) \in Nat
        BY <2>2, <3>2, FS_Subset, FS_CardinalityType
      <4> QED  BY <3>2, <4>1, LimitsTyped
    <3>4. CASE via = "overflow" \/ via \in kept
      <4> HIDE DEF kept, via, q
      <4>1. q.tracked \in SUBSET kept
        BY <3>1, <3>4
      <4>2. IsFiniteSet(q.tracked) /\ Cardinality(q.tracked) <= Cardinality(kept)
            /\ Cardinality(q.tracked) \in Nat
        BY <3>3, <4>1, FS_Subset, FS_CardinalityType
      <4> QED  BY <3>3, <4>2, LimitsTyped
    <3>5. CASE via # "overflow" /\ via \notin kept
      <4>1. via = key /\ Cardinality(kept) < MaxTracked
        BY <3>5
      <4> HIDE DEF kept, via, q
      <4>2. IsFiniteSet(kept \union {via}) /\ Cardinality(kept \union {via}) = Cardinality(kept) + 1
        BY <3>3, <3>5, FS_AddElement
      <4>3. q.tracked \in SUBSET (kept \union {via})
        BY <3>1
      <4>4. IsFiniteSet(q.tracked) /\ Cardinality(q.tracked) <= Cardinality(kept \union {via})
            /\ Cardinality(q.tracked) \in Nat
        BY <4>2, <4>3, FS_Subset, FS_CardinalityType
      <4> QED  BY <3>3, <4>1, <4>2, <4>4, LimitsTyped
    <3> QED  BY <3>4, <3>5
  <2>7. q.entry[t].at = "actor" /\ q.entry[t].bytes = bytes
    BY <2>4
  <2> HIDE DEF q
  <2>8. GoodPool(q)
    <3>1. \A x \in Tickets : q.entry[x].at = "none" => q.entry[x] = NoPermit
      BY <2>4, <2>7 DEF OnlyTouches, GoodPool
    <3> QED  BY <2>3, <2>5, <2>6, <3>1 DEF GoodPool
  <2>9. /\ GoodPool(Advance(q, t)) /\ OnlyTouches(q, Advance(q, t), t)
        /\ Advance(q, t).entry[t].bytes = q.entry[t].bytes
        /\ Advance(q, t).entry[t].at # "none"
    BY <2>7, <2>8, AdvanceGood
  <2>10. OnlyTouches(p, Advance(q, t), t)
    BY <2>4, <2>9 DEF OnlyTouches
  <2> QED  BY <2>1, <2>7, <2>9, <2>10
<1> QED  BY <1>2, <1>3

LEMMA LeaveTyped ==
    ASSUME NEW q \in Seq(Tickets), NEW t
    PROVE  Leave(q, t) \in Seq(Tickets)
<1>1. CASE \E i \in DOMAIN q : q[i] = t
  <2> DEFINE i == CHOOSE j \in DOMAIN q : q[j] = t
  <2>1. i \in 1..Len(q) /\ Len(q) \in Nat
    BY <1>1
  <2>2. Leave(q, t) = SubSeq(q, 1, i - 1) \o SubSeq(q, i + 1, Len(q))
    BY <1>1 DEF Leave
  <2> HIDE DEF i
  <2>3. SubSeq(q, 1, i - 1) \in Seq(Tickets) /\ SubSeq(q, i + 1, Len(q)) \in Seq(Tickets)
    <3>1. /\ 1 \in 1..(Len(q) + 1) /\ i - 1 \in (1 - 1)..Len(q)
          /\ i + 1 \in 1..(Len(q) + 1) /\ Len(q) \in ((i + 1) - 1)..Len(q)
      BY <2>1
    <3> QED  BY <3>1, SubSeqProperties
  <2> QED  BY <2>2, <2>3, ConcatProperties
<1>2. CASE ~\E i \in DOMAIN q : q[i] = t
  BY <1>2 DEF Leave
<1> QED  BY <1>1, <1>2

LEMMA ReleaseGood ==
    ASSUME NEW p, GoodPool(p), NEW t \in Tickets
    PROVE  /\ GoodPool(Release(p, t)) /\ OnlyTouches(p, Release(p, t), t)
           /\ Release(p, t).entry[t] = NoPermit
<1> DEFINE q == Release(p, t)
           l == [s \in Semaphores |-> Leave(p.line[s], t)]
<1>1. /\ p \in PoolSpace /\ p.entry \in [Tickets -> PoolEntries]
      /\ p.line \in [Semaphores -> Seq(Tickets)] /\ DOMAIN p.line = Semaphores
  BY PoolParts DEF GoodPool
<1>2. l \in [Semaphores -> Seq(Tickets)]
  BY <1>1, LeaveTyped
<1>3. NoPermit \in PoolEntries
  BY LimitsTyped DEF NoPermit, PoolEntries, Semaphores
<1>4. q = [p EXCEPT !.entry = [p.entry EXCEPT ![t] = NoPermit], !.line = l]
  BY <1>1 DEF Release, PoolSpace
<1>5. /\ q \in PoolSpace /\ q.tracked = p.tracked /\ q.entry = [p.entry EXCEPT ![t] = NoPermit]
  <2> HIDE DEF q, l
  <2> QED  BY <1>1, <1>2, <1>3, <1>4 DEF PoolSpace
<1> HIDE DEF q
<1>6. OnlyTouches(p, q, t) /\ q.entry[t] = NoPermit
  BY <1>1, <1>5 DEF OnlyTouches
<1>7. \A s \in Semaphores : t \notin Holders(q, s)
  BY <1>6 DEF Holders, NoPermit
<1>8. GoodPool(q)
  BY <1>5, <1>6, <1>7, GivesBack
<1> QED  BY <1>6, <1>8 DEF q

LEMMA ShrinkGood ==
    ASSUME NEW p, GoodPool(p), NEW t \in Tickets, Held(p, t),
           NEW bytes \in 1..MaxBody, bytes <= p.entry[t].bytes
    PROVE  /\ GoodPool(ShrinkTo(p, t, bytes)) /\ OnlyTouches(p, ShrinkTo(p, t, bytes), t)
           /\ Held(ShrinkTo(p, t, bytes), t) /\ ShrinkTo(p, t, bytes).entry[t].bytes = bytes
<1> DEFINE q == ShrinkTo(p, t, bytes)
           e == [p.entry[t] EXCEPT !.bytes = bytes]
<1>1. /\ p \in PoolSpace /\ p.entry \in [Tickets -> PoolEntries] /\ p.entry[t] \in PoolEntries
      /\ p.entry[t].at = "held" /\ bytes # 0 /\ bytes \in 0..MaxBody
  <2>1. bytes # 0 /\ bytes \in 0..MaxBody
    BY LimitsTyped
  <2> QED  BY <2>1, PoolParts DEF GoodPool, Held
<1>2. e \in PoolEntries /\ e.at = "held" /\ e.bytes = bytes /\ e.via = p.entry[t].via
  BY <1>1 DEF PoolEntries
<1>3. q = [p EXCEPT !.entry = [p.entry EXCEPT ![t] = e]]
  BY <1>1 DEF ShrinkTo, PoolSpace
<1>4. q \in PoolSpace /\ q.tracked = p.tracked /\ q.entry = [p.entry EXCEPT ![t] = e]
  <2> HIDE DEF q, e
  <2> QED  BY <1>1, <1>2, <1>3 DEF PoolSpace
<1> HIDE DEF q, e
<1>5. OnlyTouches(p, q, t) /\ q.entry[t] = e
  BY <1>1, <1>4 DEF OnlyTouches
<1>6. \A s \in Semaphores : t \in Holders(q, s) => t \in Holders(p, s)
  BY <1>1, <1>2, <1>5, PoolParts DEF Holders
<1>7. GoodPool(q)
  BY <1>2, <1>4, <1>5, <1>6, GivesBack
<1> QED  BY <1>2, <1>5, <1>7 DEF q, Held

-----------------------------------------------------------------------------
(* What the ends of a connection hold.                                     *)

Messages == [kind : {"header", "unit", "broken"}, call : Nat, size : 0..MaxBody]
Clients == [pc : {"idle", "reserve", "exchange"}, tx : {"none", "header", "body", "done"},
            rx : {"none", "header", "body"}, call : Nat, size : 0..MaxBody, left : 0..MaxBody,
            rsize : 0..MaxBody, rleft : 0..MaxBody, got : SUBSET Nat]
Servers == [pc : {"header", "body", "discard", "reserve", "length", "output", "closed"},
            call : Nat, size : 0..MaxBody, left : 0..MaxBody, rsize : 0..MaxBody]

Streams == {q \in Seq(Messages) : Len(q) <= StreamCap}

ExchangeTyped ==
    /\ plan \in [Conns -> Nat] /\ actor \in [Conns -> Actors]
    /\ client \in [Conns -> Clients] /\ server \in [Conns -> Servers]
    /\ up \in [Conns -> Streams] /\ down \in [Conns -> Streams]
    /\ tainted \subseteq Conns /\ confused \subseteq Conns

(* An executor c, the request e of its writer and r of its reader.         *)
ClientCharge(c, e, r) ==
    /\ c.left <= c.size /\ c.rleft <= c.rsize
    /\ c.pc = "exchange" <=> c.tx # "none"
    /\ c.pc = "exchange" <=> c.rx # "none"
    /\ c.pc = "reserve" => e.at # "none" /\ e.bytes = MaxBody
    /\ c.tx \in {"header", "body"} => e.at = "held" /\ e.bytes = c.size
    /\ c.pc = "idle" \/ c.tx = "done" => e = NoPermit
    /\ c.rx = "body" => r.at # "none" /\ r.bytes = c.rsize
    /\ c.rleft < c.rsize => r.at = "held"
    /\ c.rx # "body" => r = NoPermit /\ c.rsize = 0

(* A handler h, its request e for what it reads and r for what it answers. *)
ServerCharge(h, e, r) ==
    /\ h.pc \in {"header", "discard", "closed"} => e = NoPermit /\ h.size = 0
    /\ h.pc = "body" => e.at # "none" /\ e.bytes = h.size /\ h.left <= h.size
    /\ h.pc = "body" /\ h.left < h.size => e.at = "held"
    /\ h.pc \in {"reserve", "length", "output"} =>
         e.bytes = h.size /\ (h.size > 0 => e.at = "held")
    /\ h.pc = "reserve" => r.at # "none" /\ r.bytes = MaxBody /\ h.rsize = 0
    /\ h.pc \in {"length", "output"} => r.at = "held" /\ r.bytes = h.rsize
    /\ h.pc \in {"header", "body", "discard", "closed"} => r = NoPermit /\ h.rsize = 0

PoolsGood == pool \in [Pools -> PoolSpace] /\ \A d \in Pools : GoodPool(pool[d])

Charged ==
    \A k \in Conns :
        /\ ClientCharge(client[k], pool["creq"].entry[Request(k)], pool["cresp"].entry[Response(k)])
        /\ ServerCharge(server[k], pool["sreq"].entry[Request(k)], pool["sresp"].entry[Response(k)])
        /\ pool["creq"].entry[Response(k)] = NoPermit /\ pool["cresp"].entry[Request(k)] = NoPermit
        /\ pool["sreq"].entry[Response(k)] = NoPermit /\ pool["sresp"].entry[Request(k)] = NoPermit

MemoryInv == ExchangeTyped /\ PoolsGood /\ Charged

LEMMA TicketsApart ==
    /\ \A k \in Conns : Request(k) \in Tickets /\ Response(k) \in Tickets
    /\ \A j, k : Request(j) # Response(k)
    /\ \A j, k : (Request(j) = Request(k) => j = k) /\ (Response(j) = Response(k) => j = k)
  BY DEF Tickets, Request, Response

(* A step of the executor of k.                                            *)
LEMMA ClientStep ==
    ASSUME MemoryInv, NEW k \in Conns, NEW c \in Clients, NEW p, NEW r,
           GoodPool(p), OnlyTouches(pool["creq"], p, Request(k)),
           GoodPool(r), OnlyTouches(pool["cresp"], r, Response(k)),
           ClientCharge(c, p.entry[Request(k)], r.entry[Response(k)]),
           client' = [client EXCEPT ![k] = c],
           pool' = [pool EXCEPT !["creq"] = p, !["cresp"] = r],
           plan' = plan, actor' = actor, server' = server,
           up' \in [Conns -> Streams], down' \in [Conns -> Streams],
           tainted' \subseteq Conns, confused' \subseteq Conns
    PROVE  MemoryInv'
<1>1. ExchangeTyped'
  BY DEF MemoryInv, ExchangeTyped
<1>2. /\ pool' \in [Pools -> PoolSpace] /\ pool'["creq"] = p /\ pool'["cresp"] = r
      /\ pool'["sreq"] = pool["sreq"] /\ pool'["sresp"] = pool["sresp"]
  <2>1. p \in PoolSpace /\ r \in PoolSpace
    BY DEF GoodPool
  <2> QED  BY <2>1 DEF MemoryInv, PoolsGood, Pools
<1>3. PoolsGood'
  <2>1. \A d \in Pools : GoodPool(pool'[d])
    BY <1>2 DEF MemoryInv, PoolsGood, Pools
  <2> QED  BY <1>2, <2>1 DEF PoolsGood
<1>4. Charged'
  <2> SUFFICES ASSUME NEW j \in Conns
               PROVE
        /\ ClientCharge(client'[j], p.entry[Request(j)], r.entry[Response(j)])
        /\ ServerCharge(server[j], pool["sreq"].entry[Request(j)], pool["sresp"].entry[Response(j)])
        /\ p.entry[Response(j)] = NoPermit /\ r.entry[Request(j)] = NoPermit
        /\ pool["sreq"].entry[Response(j)] = NoPermit /\ pool["sresp"].entry[Request(j)] = NoPermit
    BY <1>2 DEF Charged
  <2>1. /\ p.entry[Response(j)] = pool["creq"].entry[Response(j)]
        /\ r.entry[Request(j)] = pool["cresp"].entry[Request(j)]
    BY TicketsApart DEF OnlyTouches
  <2>2. CASE j = k
    BY <2>1, <2>2 DEF MemoryInv, Charged, ExchangeTyped
  <2>3. CASE j # k
    <3>1. /\ p.entry[Request(j)] = pool["creq"].entry[Request(j)]
          /\ r.entry[Response(j)] = pool["cresp"].entry[Response(j)]
      BY <2>3, TicketsApart DEF OnlyTouches
    <3>2. client'[j] = client[j]
      BY <2>3 DEF MemoryInv, ExchangeTyped
    <3> QED  BY <2>1, <3>1, <3>2 DEF MemoryInv, Charged
  <2> QED  BY <2>2, <2>3
<1> QED  BY <1>1, <1>3, <1>4 DEF MemoryInv

(* A step of the handler of k.                                             *)
LEMMA ServerStep ==
    ASSUME MemoryInv, NEW k \in Conns, NEW h \in Servers, NEW p, NEW r,
           GoodPool(p), OnlyTouches(pool["sreq"], p, Request(k)),
           GoodPool(r), OnlyTouches(pool["sresp"], r, Response(k)),
           ServerCharge(h, p.entry[Request(k)], r.entry[Response(k)]),
           server' = [server EXCEPT ![k] = h],
           pool' = [pool EXCEPT !["sreq"] = p, !["sresp"] = r],
           plan' = plan, actor' = actor, client' = client,
           up' \in [Conns -> Streams], down' \in [Conns -> Streams],
           tainted' \subseteq Conns, confused' \subseteq Conns
    PROVE  MemoryInv'
<1>1. ExchangeTyped'
  BY DEF MemoryInv, ExchangeTyped
<1>2. /\ pool' \in [Pools -> PoolSpace] /\ pool'["sreq"] = p /\ pool'["sresp"] = r
      /\ pool'["creq"] = pool["creq"] /\ pool'["cresp"] = pool["cresp"]
  <2>1. p \in PoolSpace /\ r \in PoolSpace
    BY DEF GoodPool
  <2> QED  BY <2>1 DEF MemoryInv, PoolsGood, Pools
<1>3. PoolsGood'
  <2>1. \A d \in Pools : GoodPool(pool'[d])
    BY <1>2 DEF MemoryInv, PoolsGood, Pools
  <2> QED  BY <1>2, <2>1 DEF PoolsGood
<1>4. Charged'
  <2> SUFFICES ASSUME NEW j \in Conns
               PROVE
        /\ ClientCharge(client[j], pool["creq"].entry[Request(j)], pool["cresp"].entry[Response(j)])
        /\ ServerCharge(server'[j], p.entry[Request(j)], r.entry[Response(j)])
        /\ pool["creq"].entry[Response(j)] = NoPermit /\ pool["cresp"].entry[Request(j)] = NoPermit
        /\ p.entry[Response(j)] = NoPermit /\ r.entry[Request(j)] = NoPermit
    BY <1>2 DEF Charged
  <2>1. /\ p.entry[Response(j)] = pool["sreq"].entry[Response(j)]
        /\ r.entry[Request(j)] = pool["sresp"].entry[Request(j)]
    BY TicketsApart DEF OnlyTouches
  <2>2. CASE j = k
    BY <2>1, <2>2 DEF MemoryInv, Charged, ExchangeTyped
  <2>3. CASE j # k
    <3>1. /\ p.entry[Request(j)] = pool["sreq"].entry[Request(j)]
          /\ r.entry[Response(j)] = pool["sresp"].entry[Response(j)]
      BY <2>3, TicketsApart DEF OnlyTouches
    <3>2. server'[j] = server[j]
      BY <2>3 DEF MemoryInv, ExchangeTyped
    <3> QED  BY <2>1, <3>1, <3>2 DEF MemoryInv, Charged
  <2> QED  BY <2>2, <2>3
<1> QED  BY <1>1, <1>3, <1>4 DEF MemoryInv

(* The pools where no semaphore is asked.                                  *)
LEMMA SamePools ==
    ASSUME MemoryInv, NEW k
    PROVE  /\ pool = [pool EXCEPT !["creq"] = pool["creq"], !["cresp"] = pool["cresp"]]
           /\ pool = [pool EXCEPT !["sreq"] = pool["sreq"], !["sresp"] = pool["sresp"]]
           /\ \A d \in Pools : GoodPool(pool[d])
           /\ \A p, t : OnlyTouches(p, p, t)
  BY DEF MemoryInv, PoolsGood, Pools, OnlyTouches

(* What is known of connection k.                                          *)
LEMMA ConnectionParts ==
    ASSUME MemoryInv, NEW k \in Conns
    PROVE  /\ client[k] \in Clients /\ server[k] \in Servers
           /\ up[k] \in Streams /\ down[k] \in Streams /\ plan[k] \in Nat /\ actor[k] \in Keys
           /\ ClientCharge(client[k], pool["creq"].entry[Request(k)], pool["cresp"].entry[Response(k)])
           /\ ServerCharge(server[k], pool["sreq"].entry[Request(k)], pool["sresp"].entry[Response(k)])
           /\ ClientKey \in Keys /\ {"creq", "cresp", "sreq", "sresp"} = Pools
  BY DEF MemoryInv, ExchangeTyped, Charged, Keys, Pools

LEMMA StreamParts ==
    /\ \A q \in Streams : q \in Seq(Messages) /\ Len(q) <= StreamCap /\ Len(q) \in Nat
    /\ \A q \in Streams : q # <<>> => Head(q) \in Messages /\ Tail(q) \in Streams
    /\ \A q \in Streams, m \in Messages : Room(q) => Append(q, m) \in Streams
    /\ \A f \in [Conns -> Streams], k \in Conns, q \in Streams : [f EXCEPT ![k] = q] \in [Conns -> Streams]
<1>0. StreamCap \in Nat
  BY ExchangeAssumption
<1>1. \A q \in Streams : q \in Seq(Messages) /\ Len(q) <= StreamCap /\ Len(q) \in Nat
  BY LenProperties DEF Streams
<1>2. ASSUME NEW q \in Streams, q # <<>>
      PROVE  Head(q) \in Messages /\ Tail(q) \in Streams
  <2>1. Head(q) \in Messages /\ Tail(q) \in Seq(Messages) /\ Len(Tail(q)) = Len(q) - 1
    BY <1>1, <1>2, HeadTailProperties
  <2> QED  BY <1>0, <1>1, <2>1 DEF Streams
<1>3. ASSUME NEW q \in Streams, NEW m \in Messages, Room(q)
      PROVE  Append(q, m) \in Streams
  <2>1. Append(q, m) \in Seq(Messages) /\ Len(Append(q, m)) = Len(q) + 1
    BY <1>1, AppendProperties
  <2>2. Len(q) < StreamCap
    BY <1>3 DEF Room
  <2> QED  BY <1>0, <1>1, <2>1, <2>2 DEF Streams
<1>4. ASSUME NEW f \in [Conns -> Streams], NEW k \in Conns, NEW q \in Streams
      PROVE  [f EXCEPT ![k] = q] \in [Conns -> Streams]
  BY <1>4
<1> QED  BY <1>1, <1>2, <1>3, <1>4

LEMMA MessageParts ==
    /\ \A n \in Nat, s \in 0..MaxBody : Header(n, s) \in Messages
    /\ \A n \in Nat : Unit(n) \in Messages /\ Broken(n) \in Messages
  BY LimitsTyped DEF Header, Unit, Broken, Messages

-----------------------------------------------------------------------------
(* The executor's steps.                                                   *)

LEMMA AdmitKeeps ==
    ASSUME MemoryInv, NEW k \in Conns, NEW d \in Pools, NEW t \in {Request(k), Response(k)}, Admit(d, t)
    PROVE  MemoryInv'
<1> DEFINE q == Advance(pool[d], t)
<1>1. /\ t \in Tickets /\ GoodPool(pool[d]) /\ pool' = [pool EXCEPT ![d] = q]
      /\ pool[d].entry[t].at \in {"actor", "global"} /\ pool \in [Pools -> PoolSpace]
      /\ UNCHANGED <<plan, actor, client, server, up, down, tainted, confused>>
  BY TicketsApart DEF Admit, CanPass, MemoryInv, PoolsGood, historyVars
<1>2. /\ GoodPool(q) /\ OnlyTouches(pool[d], q, t) /\ q.entry[t].bytes = pool[d].entry[t].bytes
      /\ q.entry[t].at # "none" /\ q \in PoolSpace
  <2>1. GoodPool(q) /\ OnlyTouches(pool[d], q, t) /\ q.entry[t].bytes = pool[d].entry[t].bytes
        /\ q.entry[t].at # "none"
    BY <1>1, AdvanceGood
  <2> QED  BY <2>1 DEF GoodPool
<1> HIDE DEF q
<1>3. PoolsGood'
  BY <1>1, <1>2 DEF MemoryInv, PoolsGood
<1>4. ExchangeTyped'
  BY <1>1 DEF MemoryInv, ExchangeTyped
<1>5. ASSUME NEW x \in Tickets, NEW e \in Pools, e # d \/ x # t
      PROVE  pool'[e].entry[x] = pool[e].entry[x]
  BY <1>1, <1>2, <1>5 DEF OnlyTouches
<1>6. pool'[d].entry[t] = q.entry[t]
  BY <1>1
<1>7. Charged'
  <2> SUFFICES ASSUME NEW j \in Conns
      PROVE
        /\ ClientCharge(client[j], pool'["creq"].entry[Request(j)], pool'["cresp"].entry[Response(j)])
        /\ ServerCharge(server[j], pool'["sreq"].entry[Request(j)], pool'["sresp"].entry[Response(j)])
        /\ pool'["creq"].entry[Response(j)] = NoPermit /\ pool'["cresp"].entry[Request(j)] = NoPermit
        /\ pool'["sreq"].entry[Response(j)] = NoPermit /\ pool'["sresp"].entry[Request(j)] = NoPermit
    BY <1>1 DEF Charged, ClientCharge, ServerCharge
  <2>1. /\ ClientCharge(client[j], pool["creq"].entry[Request(j)], pool["cresp"].entry[Response(j)])
        /\ ServerCharge(server[j], pool["sreq"].entry[Request(j)], pool["sresp"].entry[Response(j)])
        /\ pool["creq"].entry[Response(j)] = NoPermit /\ pool["cresp"].entry[Request(j)] = NoPermit
        /\ pool["sreq"].entry[Response(j)] = NoPermit /\ pool["sresp"].entry[Request(j)] = NoPermit
    BY DEF MemoryInv, Charged
  <2>2. /\ Request(j) \in Tickets /\ Response(j) \in Tickets
        /\ "creq" \in Pools /\ "cresp" \in Pools /\ "sreq" \in Pools /\ "sresp" \in Pools
    BY TicketsApart DEF Pools
  <2>3. NoPermit.at = "none"
    BY DEF NoPermit
  <2>4. /\ pool'["creq"].entry[Response(j)] = NoPermit /\ pool'["cresp"].entry[Request(j)] = NoPermit
        /\ pool'["sreq"].entry[Response(j)] = NoPermit /\ pool'["sresp"].entry[Request(j)] = NoPermit
    BY <1>1, <1>5, <2>1, <2>2, <2>3
  <2>5. \A e \in Pools, x \in {Request(j), Response(j)} :
          \/ pool'[e].entry[x] = pool[e].entry[x]
          \/ /\ pool[e].entry[x].at \in {"actor", "global"} /\ pool[e].entry[x] # NoPermit
             /\ pool'[e].entry[x].at # "none"
             /\ pool'[e].entry[x].bytes = pool[e].entry[x].bytes
    BY <1>1, <1>2, <1>5, <1>6, <2>2, <2>3
  <2>6. ClientCharge(client[j], pool'["creq"].entry[Request(j)], pool'["cresp"].entry[Response(j)])
    <3> DEFINE e == pool["creq"].entry[Request(j)]
               r == pool["cresp"].entry[Response(j)]
               f == pool'["creq"].entry[Request(j)]
               s == pool'["cresp"].entry[Response(j)]
    <3>1. /\ f = e \/ (e.at \in {"actor", "global"} /\ e # NoPermit /\ f.at # "none" /\ f.bytes = e.bytes)
          /\ s = r \/ (r.at \in {"actor", "global"} /\ r # NoPermit /\ s.at # "none" /\ s.bytes = r.bytes)
      BY <2>2, <2>5
    <3>2. ClientCharge(client[j], e, r)
      BY <2>1
    <3> HIDE DEF e, r, f, s
    <3> QED  BY <3>1, <3>2 DEF e, r, f, s, ClientCharge
  <2>7. ServerCharge(server[j], pool'["sreq"].entry[Request(j)], pool'["sresp"].entry[Response(j)])
    <3> DEFINE e == pool["sreq"].entry[Request(j)]
               r == pool["sresp"].entry[Response(j)]
               f == pool'["sreq"].entry[Request(j)]
               s == pool'["sresp"].entry[Response(j)]
    <3>1. /\ f = e \/ (e.at \in {"actor", "global"} /\ e # NoPermit /\ f.at # "none" /\ f.bytes = e.bytes)
          /\ s = r \/ (r.at \in {"actor", "global"} /\ r # NoPermit /\ s.at # "none" /\ s.bytes = r.bytes)
      BY <2>2, <2>5
    <3>2. ServerCharge(server[j], e, r)
      BY <2>1
    <3> HIDE DEF e, r, f, s
    <3> QED  BY <3>1, <3>2 DEF e, r, f, s, ServerCharge
  <2> QED  BY <2>4, <2>6, <2>7
<1> QED  BY <1>3, <1>4, <1>7 DEF MemoryInv

LEMMA EndCallKeeps ==
    ASSUME MemoryInv, NEW k \in Conns, EndCall(k),
           up' \in [Conns -> Streams], down' \in [Conns -> Streams],
           tainted' \subseteq Conns, confused' \subseteq Conns
    PROVE  MemoryInv'
<1> DEFINE c == IdleClient(client[k].call)
           p == Release(pool["creq"], Request(k))
           r == Release(pool["cresp"], Response(k))
<1>1. /\ client' = [client EXCEPT ![k] = c] /\ pool' = [pool EXCEPT !["creq"] = p, !["cresp"] = r]
      /\ plan' = plan /\ actor' = actor /\ server' = server
  BY DEF EndCall, MemoryInv, ExchangeTyped, PoolsGood, Pools
<1>2. /\ GoodPool(p) /\ OnlyTouches(pool["creq"], p, Request(k)) /\ p.entry[Request(k)] = NoPermit
      /\ GoodPool(r) /\ OnlyTouches(pool["cresp"], r, Response(k)) /\ r.entry[Response(k)] = NoPermit
  BY SamePools, TicketsApart, ReleaseGood DEF Pools
<1>3. c \in Clients
  BY ConnectionParts, LimitsTyped DEF IdleClient, Clients
<1> HIDE DEF p, r
<1>4. ClientCharge(c, p.entry[Request(k)], r.entry[Response(k)])
  BY <1>2 DEF ClientCharge, IdleClient
<1> HIDE DEF c
<1> QED  BY <1>1, <1>2, <1>3, <1>4, ClientStep

LEMMA FailCallKeeps ==
    ASSUME MemoryInv, NEW k \in Conns, FailCall(k),
           up' \in [Conns -> Streams], down' \in [Conns -> Streams], confused' \subseteq Conns
    PROVE  MemoryInv'
  BY EndCallKeeps DEF FailCall, MemoryInv, ExchangeTyped

(* The steps in which a call ends.                                         *)
LEMMA EndingsKeep ==
    ASSUME MemoryInv, NEW k \in Conns,
           SerializeInputFails(k) \/ DecodeResult(k) \/ TransportFails(k) \/ WriteTimeout(k) \/ ReadTimeout(k)
    PROVE  MemoryInv'
<1>1. /\ up \in [Conns -> Streams] /\ down \in [Conns -> Streams]
      /\ tainted \subseteq Conns /\ confused \subseteq Conns
  BY DEF MemoryInv, ExchangeTyped
<1>2. CASE SerializeInputFails(k)
  BY <1>1, <1>2, FailCallKeeps DEF SerializeInputFails
<1>3. CASE DecodeResult(k)
  <2>1. up' = up /\ down' = down /\ (confused' = confused \/ Misread(k))
    BY <1>3 DEF DecodeResult
  <2>2. confused' \subseteq Conns
    BY <1>1, <2>1 DEF Misread
  <2>3. (EndCall(k) /\ tainted' = tainted) \/ FailCall(k)
    BY <1>3 DEF DecodeResult
  <2> QED  BY <1>1, <2>1, <2>2, <2>3, EndCallKeeps, FailCallKeeps
<1>4. CASE TransportFails(k)
  BY <1>1, <1>4, FailCallKeeps DEF TransportFails
<1>5. CASE WriteTimeout(k)
  <2>1. FailCall(k) /\ down' = down /\ confused' = confused
    BY <1>5 DEF WriteTimeout
  <2>2. up' \in [Conns -> Streams]
    <3>1. \/ up' = up
          \/ Room(up[k]) /\ up' = [up EXCEPT ![k] = Append(@, Broken(client[k].call))]
      BY <1>5 DEF WriteTimeout
    <3>2. ASSUME Room(up[k])
          PROVE  Append(up[k], Broken(client[k].call)) \in Streams
      <4>1. Broken(client[k].call) \in Messages
        BY ConnectionParts, MessageParts DEF Clients
      <4> QED  BY <3>2, <4>1, ConnectionParts, StreamParts
    <3> QED  BY <1>1, <3>1, <3>2
  <2> QED  BY <1>1, <2>1, <2>2, FailCallKeeps
<1>6. CASE ReadTimeout(k)
  BY <1>1, <1>6, FailCallKeeps DEF ReadTimeout
<1> QED  BY <1>2, <1>3, <1>4, <1>5, <1>6

LEMMA StartCallKeeps ==
    ASSUME MemoryInv, NEW k \in Conns, StartCall(k)
    PROVE  MemoryInv'
<1> DEFINE c == [client[k] EXCEPT !.pc = "reserve", !.call = @ + 1]
           p == Acquire(pool["creq"], Request(k), ClientKey, MaxBody)
           r == pool["cresp"]
<1>1. /\ client' = [client EXCEPT ![k] = c] /\ pool' = [pool EXCEPT !["creq"] = p]
      /\ plan' = plan /\ actor' = actor /\ server' = server
      /\ client[k].pc = "idle"
      /\ up' = up /\ down' = down /\ tainted' = tainted /\ confused' = confused
  BY DEF StartCall, MemoryInv, ExchangeTyped, historyVars
<1>2. client[k] \in Clients
      /\ ClientCharge(client[k], pool["creq"].entry[Request(k)], r.entry[Response(k)])
  BY ConnectionParts
<1>3. pool["creq"].entry[Request(k)] = NoPermit
  BY <1>1, <1>2 DEF ClientCharge
<1>4. /\ GoodPool(p) /\ OnlyTouches(pool["creq"], p, Request(k))
      /\ p.entry[Request(k)].bytes = MaxBody /\ p.entry[Request(k)].at # "none"
  <2>1. MaxBody \in 0..MaxBody
    BY LimitsTyped
  <2> QED  BY <1>3, <2>1, AcquireGood, SamePools, TicketsApart, ConnectionParts DEF Pools
<1>5. c \in Clients /\ c.pc = "reserve" /\ c.tx = client[k].tx /\ c.rx = client[k].rx
      /\ c.size = client[k].size /\ c.left = client[k].left
      /\ c.rsize = client[k].rsize /\ c.rleft = client[k].rleft
  <2>1. client[k].call \in Nat
    BY <1>2 DEF Clients
  <2>2. client[k].call + 1 \in Nat
    BY <2>1
  <2> QED  BY <1>2, <2>2 DEF Clients
<1> HIDE DEF c, p
<1>6. ClientCharge(c, p.entry[Request(k)], r.entry[Response(k)])
  BY <1>1, <1>2, <1>4, <1>5 DEF ClientCharge, Clients
<1>7. pool' = [pool EXCEPT !["creq"] = p, !["cresp"] = r]
  BY <1>1 DEF MemoryInv, PoolsGood, Pools
<1>8. GoodPool(r) /\ OnlyTouches(pool["cresp"], r, Response(k))
  BY SamePools DEF Pools
<1>9. /\ up' \in [Conns -> Streams] /\ down' \in [Conns -> Streams]
      /\ tainted' \subseteq Conns /\ confused' \subseteq Conns
  BY <1>1 DEF MemoryInv, ExchangeTyped
<1> HIDE DEF r
<1> QED  BY <1>1, <1>4, <1>5, <1>6, <1>7, <1>8, <1>9, ClientStep

(* A step of the executor that asks no semaphore.                          *)
LEMMA ClientAlone ==
    ASSUME MemoryInv, NEW k \in Conns, NEW c \in Clients,
           ClientCharge(c, pool["creq"].entry[Request(k)], pool["cresp"].entry[Response(k)]),
           client' = [client EXCEPT ![k] = c],
           pool' = pool, plan' = plan, actor' = actor, server' = server,
           up' \in [Conns -> Streams], down' \in [Conns -> Streams],
           tainted' = tainted, confused' = confused
    PROVE  MemoryInv'
<1>1. tainted' \subseteq Conns /\ confused' \subseteq Conns
  BY DEF MemoryInv, ExchangeTyped
<1>2. GoodPool(pool["creq"]) /\ GoodPool(pool["cresp"])
  BY SamePools DEF Pools
<1> QED  BY <1>1, <1>2, SamePools, ClientStep

LEMMA SerializeInputKeeps ==
    ASSUME MemoryInv, NEW k \in Conns, SerializeInput(k)
    PROVE  MemoryInv'
<1>1. PICK n \in Sizes :
        /\ n <= MaxBody
        /\ client' = [client EXCEPT ![k].pc = "exchange", ![k].tx = "header",
                                    ![k].rx = "header", ![k].size = n, ![k].left = n]
        /\ pool' = [pool EXCEPT !["creq"] = ShrinkTo(@, Request(k), n)]
  BY DEF SerializeInput
<1> DEFINE c == [client[k] EXCEPT !.pc = "exchange", !.tx = "header", !.rx = "header",
                                  !.size = n, !.left = n]
           p == ShrinkTo(pool["creq"], Request(k), n)
           r == pool["cresp"]
<1>2. /\ client' = [client EXCEPT ![k] = c] /\ pool' = [pool EXCEPT !["creq"] = p]
      /\ plan' = plan /\ actor' = actor /\ server' = server
      /\ client[k].pc = "reserve" /\ Held(pool["creq"], Request(k))
      /\ up' = up /\ down' = down /\ tainted' = tainted /\ confused' = confused
  BY <1>1 DEF SerializeInput, MemoryInv, ExchangeTyped, historyVars
<1>3. client[k] \in Clients
      /\ ClientCharge(client[k], pool["creq"].entry[Request(k)], r.entry[Response(k)])
  BY ConnectionParts
<1>4. n \in 1..MaxBody /\ n \in 0..MaxBody
  BY <1>1, ExchangeAssumption, LimitsTyped
<1>5. /\ GoodPool(p) /\ OnlyTouches(pool["creq"], p, Request(k))
      /\ p.entry[Request(k)].bytes = n /\ p.entry[Request(k)].at = "held"
  <2>1. n <= pool["creq"].entry[Request(k)].bytes
    BY <1>1, <1>2, <1>3 DEF ClientCharge
  <2> QED  BY <1>2, <1>4, <2>1, ShrinkGood, SamePools, TicketsApart DEF Pools, Held
<1>6. c \in Clients /\ c.pc = "exchange" /\ c.tx = "header" /\ c.rx = "header"
      /\ c.size = n /\ c.left = n
      /\ c.rsize = client[k].rsize /\ c.rleft = client[k].rleft
  BY <1>3, <1>4 DEF Clients
<1> HIDE DEF c, p
<1>7. ClientCharge(c, p.entry[Request(k)], r.entry[Response(k)])
  <2>1. client[k].rx # "body"
    BY <1>2, <1>3 DEF ClientCharge, Clients
  <2>2. n <= n
    BY <1>4, LimitsTyped
  <2> QED  BY <1>2, <1>3, <1>5, <1>6, <2>1, <2>2 DEF ClientCharge
<1>8. pool' = [pool EXCEPT !["creq"] = p, !["cresp"] = r]
  BY <1>2 DEF MemoryInv, PoolsGood, Pools
<1>9. GoodPool(r) /\ OnlyTouches(pool["cresp"], r, Response(k))
  BY SamePools DEF Pools
<1>10. /\ up' \in [Conns -> Streams] /\ down' \in [Conns -> Streams]
       /\ tainted' \subseteq Conns /\ confused' \subseteq Conns
  BY <1>2 DEF MemoryInv, ExchangeTyped
<1> HIDE DEF r
<1> QED  BY <1>2, <1>5, <1>6, <1>7, <1>8, <1>9, <1>10, ClientStep

LEMMA WriterKeeps ==
    ASSUME MemoryInv, NEW k \in Conns, WriteHeader(k) \/ WriteBody(k)
    PROVE  MemoryInv'
<1> DEFINE e == pool["creq"].entry[Request(k)]
           r == pool["cresp"].entry[Response(k)]
<1>1. /\ client[k] \in Clients /\ client[k].call \in Nat /\ client[k].size \in 0..MaxBody
      /\ up[k] \in Streams /\ down \in [Conns -> Streams] /\ up \in [Conns -> Streams]
      /\ ClientCharge(client[k], e, r) /\ client \in [Conns -> Clients]
  BY ConnectionParts DEF Clients, MemoryInv, ExchangeTyped
<1>2. CASE WriteHeader(k)
  <2> DEFINE c == [client[k] EXCEPT !.tx = "body"]
             m == Header(client[k].call, client[k].size)
  <2>1. /\ client' = [client EXCEPT ![k] = c] /\ up' = [up EXCEPT ![k] = Append(up[k], m)]
        /\ Room(up[k]) /\ client[k].tx = "header"
        /\ pool' = pool /\ plan' = plan /\ actor' = actor /\ server' = server /\ down' = down
        /\ tainted' = tainted /\ confused' = confused
    BY <1>1, <1>2 DEF WriteHeader, historyVars
  <2>2. m \in Messages
    BY <1>1, MessageParts
  <2> HIDE DEF m
  <2>3. up' \in [Conns -> Streams]
    BY <1>1, <2>1, <2>2, StreamParts
  <2>4. c \in Clients /\ c.pc = client[k].pc /\ c.tx = "body" /\ c.rx = client[k].rx
        /\ c.size = client[k].size /\ c.left = client[k].left
        /\ c.rsize = client[k].rsize /\ c.rleft = client[k].rleft
    BY <1>1 DEF Clients
  <2> HIDE DEF c
  <2>5. ClientCharge(c, e, r)
    BY <1>1, <2>1, <2>4 DEF ClientCharge
  <2> QED  BY <1>1, <2>1, <2>3, <2>4, <2>5, ClientAlone
<1>3. CASE WriteBody(k)
  <2> DEFINE c == [client[k] EXCEPT !.left = @ - 1]
             m == Unit(client[k].call)
  <2>1. /\ client' = [client EXCEPT ![k] = c] /\ up' = [up EXCEPT ![k] = Append(up[k], m)]
        /\ Room(up[k]) /\ client[k].left > 0
        /\ pool' = pool /\ plan' = plan /\ actor' = actor /\ server' = server /\ down' = down
        /\ tainted' = tainted /\ confused' = confused
    BY <1>1, <1>3 DEF WriteBody, historyVars
  <2>2. m \in Messages
    BY <1>1, MessageParts
  <2> HIDE DEF m
  <2>3. up' \in [Conns -> Streams]
    BY <1>1, <2>1, <2>2, StreamParts
  <2>4. client[k].left - 1 \in 0..MaxBody /\ client[k].left - 1 <= client[k].size
    <3>1. client[k].left \in 0..MaxBody /\ client[k].size \in 0..MaxBody /\ client[k].left <= client[k].size
      BY <1>1 DEF Clients, ClientCharge
    <3> QED  BY <2>1, <3>1, LimitsTyped
  <2>5. c \in Clients /\ c.pc = client[k].pc /\ c.tx = client[k].tx /\ c.rx = client[k].rx
        /\ c.size = client[k].size /\ c.left = client[k].left - 1
        /\ c.rsize = client[k].rsize /\ c.rleft = client[k].rleft
    BY <1>1, <2>4 DEF Clients
  <2> HIDE DEF c
  <2>6. ClientCharge(c, e, r)
    BY <1>1, <2>4, <2>5 DEF ClientCharge
  <2> QED  BY <1>1, <2>1, <2>3, <2>5, <2>6, ClientAlone
<1> QED  BY <1>2, <1>3

LEMMA FlushKeeps ==
    ASSUME MemoryInv, NEW k \in Conns, FlushRequest(k)
    PROVE  MemoryInv'
<1> DEFINE c == [client[k] EXCEPT !.tx = "done"]
           p == Release(pool["creq"], Request(k))
           r == pool["cresp"]
<1>1. /\ client' = [client EXCEPT ![k] = c] /\ pool' = [pool EXCEPT !["creq"] = p]
      /\ plan' = plan /\ actor' = actor /\ server' = server /\ client[k].tx = "body"
      /\ up' = up /\ down' = down /\ tainted' = tainted /\ confused' = confused
  BY DEF FlushRequest, MemoryInv, ExchangeTyped, historyVars
<1>2. client[k] \in Clients
      /\ ClientCharge(client[k], pool["creq"].entry[Request(k)], r.entry[Response(k)])
  BY ConnectionParts
<1>3. /\ GoodPool(p) /\ OnlyTouches(pool["creq"], p, Request(k)) /\ p.entry[Request(k)] = NoPermit
  BY SamePools, TicketsApart, ReleaseGood DEF Pools
<1>4. c \in Clients /\ c.pc = client[k].pc /\ c.tx = "done" /\ c.rx = client[k].rx
      /\ c.size = client[k].size /\ c.left = client[k].left
      /\ c.rsize = client[k].rsize /\ c.rleft = client[k].rleft
  BY <1>2 DEF Clients
<1> HIDE DEF c, p
<1>5. ClientCharge(c, p.entry[Request(k)], r.entry[Response(k)])
  BY <1>1, <1>2, <1>3, <1>4 DEF ClientCharge
<1>6. pool' = [pool EXCEPT !["creq"] = p, !["cresp"] = r]
  BY <1>1 DEF MemoryInv, PoolsGood, Pools
<1>7. GoodPool(r) /\ OnlyTouches(pool["cresp"], r, Response(k))
  BY SamePools DEF Pools
<1>8. /\ up' \in [Conns -> Streams] /\ down' \in [Conns -> Streams]
      /\ tainted' \subseteq Conns /\ confused' \subseteq Conns
  BY <1>1 DEF MemoryInv, ExchangeTyped
<1> HIDE DEF r
<1> QED  BY <1>1, <1>3, <1>4, <1>5, <1>6, <1>7, <1>8, ClientStep

LEMMA ReadLengthKeeps ==
    ASSUME MemoryInv, NEW k \in Conns, ReadLength(k)
    PROVE  MemoryInv'
<1> DEFINE m == Head(down[k])
           e == pool["creq"]
<1>1. /\ client[k] \in Clients /\ client[k].rx = "header" /\ client \in [Conns -> Clients]
      /\ ClientCharge(client[k], e.entry[Request(k)], pool["cresp"].entry[Response(k)])
      /\ down[k] # <<>> /\ down' = [down EXCEPT ![k] = Tail(@)] /\ up' = up
  BY ConnectionParts DEF MemoryInv, ExchangeTyped, ReadLength
<1>2. /\ m \in Messages /\ m.size \in 0..MaxBody /\ m.size \in Nat
      /\ up' \in [Conns -> Streams] /\ down' \in [Conns -> Streams]
  <2>1. m \in Messages /\ Tail(down[k]) \in Streams
    BY <1>1, ConnectionParts, StreamParts
  <2>2. m.size \in 0..MaxBody
    BY <2>1 DEF Messages
  <2> HIDE DEF m
  <2>3. m.size \in Nat
    BY <2>2, LimitsTyped
  <2> QED  BY <1>1, <2>1, <2>2, <2>3 DEF MemoryInv, ExchangeTyped
<1>3. CASE m.kind # "header"
  <2>1. FailCall(k) /\ Misread(k)
    BY <1>3 DEF ReadLength
  <2>2. confused' \subseteq Conns
    BY <2>1 DEF Misread, MemoryInv, ExchangeTyped
  <2> QED  BY <1>2, <2>1, <2>2, FailCallKeeps
<1>4. CASE m.kind = "header"
  <2> DEFINE c == [client[k] EXCEPT !.rx = "body", !.rsize = m.size, !.rleft = m.size]
             r == Acquire(pool["cresp"], Response(k), ClientKey, m.size)
  <2>1. /\ client' = [client EXCEPT ![k] = c] /\ pool' = [pool EXCEPT !["cresp"] = r]
        /\ plan' = plan /\ actor' = actor /\ server' = server
        /\ tainted' = tainted /\ confused' = confused
    BY <1>1, <1>4 DEF ReadLength, historyVars
  <2>2. pool["cresp"].entry[Response(k)] = NoPermit
    BY <1>1 DEF ClientCharge
  <2>3. /\ GoodPool(r) /\ OnlyTouches(pool["cresp"], r, Response(k))
        /\ r.entry[Response(k)].bytes = m.size /\ r.entry[Response(k)].at # "none"
    <3> HIDE DEF m
    <3> QED  BY <1>2, <2>2, AcquireGood, SamePools, TicketsApart, ConnectionParts DEF Pools
  <2> HIDE DEF m
  <2>4. c \in Clients /\ c.pc = client[k].pc /\ c.tx = client[k].tx /\ c.rx = "body"
        /\ c.size = client[k].size /\ c.left = client[k].left
        /\ c.rsize = m.size /\ c.rleft = m.size
    BY <1>1, <1>2 DEF Clients
  <2> HIDE DEF c, r
  <2>5. ClientCharge(c, e.entry[Request(k)], r.entry[Response(k)])
    <3>1. m.size <= m.size /\ ~(m.size < m.size)
      BY <1>2
    <3> QED  BY <1>1, <1>2, <2>3, <2>4, <3>1 DEF ClientCharge, Clients
  <2>6. pool' = [pool EXCEPT !["creq"] = e, !["cresp"] = r]
    BY <2>1 DEF MemoryInv, PoolsGood, Pools
  <2>7. GoodPool(e) /\ OnlyTouches(pool["creq"], e, Request(k))
    BY SamePools DEF Pools
  <2>8. tainted' \subseteq Conns /\ confused' \subseteq Conns
    BY <2>1 DEF MemoryInv, ExchangeTyped
  <2> HIDE DEF e
  <2> QED  BY <1>2, <2>1, <2>3, <2>4, <2>5, <2>6, <2>7, <2>8, ClientStep
<1> QED  BY <1>3, <1>4

LEMMA ReadBodyKeeps ==
    ASSUME MemoryInv, NEW k \in Conns, ReadBody(k)
    PROVE  MemoryInv'
<1> DEFINE e == pool["creq"].entry[Request(k)]
           r == pool["cresp"].entry[Response(k)]
           m == Head(down[k])
           c == [client[k] EXCEPT !.rleft = @ - 1, !.got = @ \union {m.call}]
<1>1. /\ client[k] \in Clients /\ client[k].rleft > 0 /\ ClientCharge(client[k], e, r)
      /\ client[k].rx = "body" /\ r.at = "held"
      /\ client \in [Conns -> Clients] /\ down[k] # <<>> /\ down[k] \in Streams
      /\ down \in [Conns -> Streams] /\ up' = up /\ up \in [Conns -> Streams]
      /\ down' = [down EXCEPT ![k] = Tail(down[k])]
      /\ pool' = pool /\ plan' = plan /\ actor' = actor /\ server' = server
      /\ tainted' = tainted /\ confused' = confused
  BY ConnectionParts DEF MemoryInv, ExchangeTyped, ReadBody, historyVars, Held
<1>2. client' = [client EXCEPT ![k] = c]
  BY <1>1 DEF ReadBody
<1>3. m.call \in Nat /\ Tail(down[k]) \in Streams
  BY <1>1, StreamParts DEF Messages
<1> HIDE DEF m
<1>4. client[k].rleft - 1 \in 0..MaxBody /\ client[k].rleft - 1 <= client[k].rsize
  <2>1. client[k].rleft \in 0..MaxBody /\ client[k].rsize \in 0..MaxBody /\ client[k].rleft <= client[k].rsize
    BY <1>1 DEF Clients, ClientCharge
  <2> QED  BY <1>1, <2>1, LimitsTyped
<1>5. c \in Clients /\ c.pc = client[k].pc /\ c.tx = client[k].tx /\ c.rx = client[k].rx
      /\ c.size = client[k].size /\ c.left = client[k].left
      /\ c.rsize = client[k].rsize /\ c.rleft = client[k].rleft - 1
  BY <1>1, <1>3, <1>4 DEF Clients
<1> HIDE DEF c
<1>6. ClientCharge(c, e, r)
  BY <1>1, <1>4, <1>5 DEF ClientCharge
<1>7. down' \in [Conns -> Streams] /\ up' \in [Conns -> Streams]
  BY <1>1, <1>3
<1> QED  BY <1>1, <1>2, <1>5, <1>6, <1>7, ClientAlone

-----------------------------------------------------------------------------
(* The handler's steps.                                                    *)

(* A step of the handler that asks no semaphore.                           *)
LEMMA ServerAlone ==
    ASSUME MemoryInv, NEW k \in Conns, NEW h \in Servers,
           ServerCharge(h, pool["sreq"].entry[Request(k)], pool["sresp"].entry[Response(k)]),
           server' = [server EXCEPT ![k] = h],
           pool' = pool, plan' = plan, actor' = actor, client' = client,
           up' \in [Conns -> Streams], down' \in [Conns -> Streams],
           tainted' = tainted, confused' = confused
    PROVE  MemoryInv'
<1>1. tainted' \subseteq Conns /\ confused' \subseteq Conns
  BY DEF MemoryInv, ExchangeTyped
<1>2. GoodPool(pool["sreq"]) /\ GoodPool(pool["sresp"])
  BY SamePools DEF Pools
<1> QED  BY <1>1, <1>2, SamePools, ServerStep

(* A handler that holds nothing.                                           *)
LEMMA NothingHeld ==
    /\ IdleServer \in Servers /\ [IdleServer EXCEPT !.pc = "closed"] \in Servers
    /\ ServerCharge(IdleServer, NoPermit, NoPermit)
    /\ ServerCharge([IdleServer EXCEPT !.pc = "closed"], NoPermit, NoPermit)
<1>1. IdleServer \in Servers /\ [IdleServer EXCEPT !.pc = "closed"] \in Servers
  BY LimitsTyped DEF IdleServer, Servers
<1> QED  BY <1>1 DEF ServerCharge, IdleServer

LEMMA LettingGo ==
    ASSUME MemoryInv, NEW k \in Conns,
           NEW h \in {IdleServer, [IdleServer EXCEPT !.pc = "closed"]},
           server' = [server EXCEPT ![k] = h],
           pool' = [pool EXCEPT !["sreq"] = Release(@, Request(k)),
                                !["sresp"] = Release(@, Response(k))],
           plan' = plan, actor' = actor, client' = client,
           up' \in [Conns -> Streams], down' \in [Conns -> Streams],
           tainted' \subseteq Conns, confused' \subseteq Conns
    PROVE  MemoryInv'
<1> DEFINE p == Release(pool["sreq"], Request(k))
           r == Release(pool["sresp"], Response(k))
<1>1. pool' = [pool EXCEPT !["sreq"] = p, !["sresp"] = r]
  BY DEF MemoryInv, PoolsGood, Pools
<1>2. /\ GoodPool(p) /\ OnlyTouches(pool["sreq"], p, Request(k)) /\ p.entry[Request(k)] = NoPermit
      /\ GoodPool(r) /\ OnlyTouches(pool["sresp"], r, Response(k)) /\ r.entry[Response(k)] = NoPermit
  BY SamePools, TicketsApart, ReleaseGood DEF Pools
<1> HIDE DEF p, r
<1>3. h \in Servers /\ ServerCharge(h, p.entry[Request(k)], r.entry[Response(k)])
  BY <1>2, NothingHeld
<1> QED  BY <1>1, <1>2, <1>3, ServerStep

LEMMA ShutKeeps ==
    ASSUME MemoryInv, NEW k \in Conns, Shut(k),
           up' \in [Conns -> Streams], down' \in [Conns -> Streams], confused' \subseteq Conns
    PROVE  MemoryInv'
<1>1. tainted' \subseteq Conns
  BY DEF MemoryInv, ExchangeTyped, Shut
<1> QED  BY <1>1, LettingGo DEF Shut, Step, ResponsePool

LEMMA HandlerEndsKeep ==
    ASSUME MemoryInv, NEW k \in Conns, FinishResult(k) \/ HandlerFails(k)
    PROVE  MemoryInv'
<1>1. /\ up \in [Conns -> Streams] /\ down \in [Conns -> Streams]
      /\ tainted \subseteq Conns /\ confused \subseteq Conns
  BY DEF MemoryInv, ExchangeTyped
<1>2. CASE FinishResult(k)
  BY <1>1, <1>2, LettingGo DEF FinishResult, Step, ResponsePool, historyVars
<1>3. CASE HandlerFails(k)
  BY <1>1, <1>3, ShutKeeps DEF HandlerFails
<1> QED  BY <1>2, <1>3

LEMMA ReadHeaderKeeps ==
    ASSUME MemoryInv, NEW k \in Conns, ReadHeader(k)
    PROVE  MemoryInv'
<1> DEFINE m == Head(up[k])
           e == pool["sreq"].entry[Request(k)]
           r == pool["sresp"].entry[Response(k)]
<1>1. /\ server[k] \in Servers /\ server[k].pc = "header" /\ up[k] # <<>> /\ up[k] \in Streams
      /\ ServerCharge(server[k], e, r) /\ actor[k] \in Keys
      /\ up' = [up EXCEPT ![k] = Tail(up[k])] /\ down' = down
  BY ConnectionParts DEF ReadHeader, MemoryInv, ExchangeTyped
<1>2. e = NoPermit /\ r = NoPermit
  BY <1>1 DEF ServerCharge
<1>3. m \in Messages /\ m.size \in 0..MaxBody /\ m.call \in Nat
  BY <1>1, StreamParts DEF Messages
<1>4. up' \in [Conns -> Streams] /\ down' \in [Conns -> Streams]
  <2>1. Tail(up[k]) \in Streams
    BY <1>1, StreamParts
  <2> QED  BY <1>1, <2>1 DEF MemoryInv, ExchangeTyped
<1>5. CASE Shut(k) /\ Misread(k)
  <2>1. confused' \subseteq Conns
    BY <1>5 DEF Misread, MemoryInv, ExchangeTyped
  <2> QED  BY <1>4, <1>5, <2>1, ShutKeeps
<1>6. CASE /\ AdmitAction(k, m) \/ DiscardAction(k, m)
           /\ UNCHANGED <<plan, actor, client, historyVars>>
  <2>1. /\ plan' = plan /\ actor' = actor /\ client' = client
        /\ tainted' = tainted /\ confused' = confused
        /\ tainted' \subseteq Conns /\ confused' \subseteq Conns
    BY <1>6 DEF historyVars, MemoryInv, ExchangeTyped
  <2>2. CASE AdmitAction(k, m)
    <3> DEFINE h == [IdleServer EXCEPT !.pc = "body", !.call = m.call, !.size = m.size, !.left = m.size]
               p == Acquire(pool["sreq"], Request(k), actor[k], m.size)
               o == pool["sresp"]
    <3>1. server' = [server EXCEPT ![k] = h] /\ pool' = [pool EXCEPT !["sreq"] = p]
      BY <2>2 DEF AdmitAction, Step
    <3>2. /\ GoodPool(p) /\ OnlyTouches(pool["sreq"], p, Request(k))
          /\ p.entry[Request(k)].bytes = m.size /\ p.entry[Request(k)].at # "none"
      <4> HIDE DEF m
      <4> QED  BY <1>1, <1>2, <1>3, AcquireGood, SamePools, TicketsApart DEF Pools
    <3> HIDE DEF m
    <3>3. h \in Servers /\ h.pc = "body" /\ h.size = m.size /\ h.left = m.size /\ h.rsize = 0
      <4>1. IdleServer \in Servers /\ IdleServer.rsize = 0
        BY NothingHeld DEF IdleServer
      <4> QED  BY <1>3, <4>1 DEF Servers
    <3> HIDE DEF h, p
    <3>4. ServerCharge(h, p.entry[Request(k)], o.entry[Response(k)])
      <4>1. m.size <= m.size /\ ~(m.size < m.size)
        BY <1>3, LimitsTyped
      <4> QED  BY <1>2, <3>2, <3>3, <4>1 DEF ServerCharge
    <3>5. pool' = [pool EXCEPT !["sreq"] = p, !["sresp"] = o]
      BY <3>1 DEF MemoryInv, PoolsGood, Pools
    <3>6. GoodPool(o) /\ OnlyTouches(pool["sresp"], o, Response(k))
      BY SamePools DEF Pools
    <3> HIDE DEF o
    <3> QED  BY <1>4, <2>1, <3>1, <3>2, <3>3, <3>4, <3>5, <3>6, ServerStep
  <2>3. CASE DiscardAction(k, m)
    <3> DEFINE h == [IdleServer EXCEPT !.pc = "discard", !.call = m.call, !.left = m.size]
    <3>1. server' = [server EXCEPT ![k] = h] /\ pool' = pool
      BY <2>3 DEF DiscardAction, Step
    <3> HIDE DEF m
    <3>2. h \in Servers /\ h.pc = "discard" /\ h.size = 0 /\ h.rsize = 0
      <4>1. IdleServer \in Servers /\ IdleServer.size = 0 /\ IdleServer.rsize = 0
        BY NothingHeld DEF IdleServer
      <4> QED  BY <1>3, <4>1 DEF Servers
    <3> HIDE DEF h
    <3>3. ServerCharge(h, e, r)
      BY <1>2, <3>2 DEF ServerCharge
    <3> QED  BY <1>4, <2>1, <3>1, <3>2, <3>3, ServerAlone
  <2> QED  BY <1>6, <2>2, <2>3
<1> QED  BY <1>5, <1>6 DEF ReadHeader

LEMMA ReadInputKeeps ==
    ASSUME MemoryInv, NEW k \in Conns, ReadInput(k)
    PROVE  MemoryInv'
<1> DEFINE e == pool["sreq"].entry[Request(k)]
           r == pool["sresp"].entry[Response(k)]
           h == [server[k] EXCEPT !.left = @ - 1]
<1>1. /\ server[k] \in Servers /\ server[k].pc \in {"body", "discard"} /\ server[k].left > 0
      /\ server[k].pc = "body" => e.at = "held"
      /\ ServerCharge(server[k], e, r) /\ server' = [server EXCEPT ![k] = h]
      /\ up[k] # <<>> /\ up[k] \in Streams
      /\ up' = [up EXCEPT ![k] = Tail(up[k])] /\ down' = down
      /\ pool' = pool /\ plan' = plan /\ actor' = actor /\ client' = client
      /\ tainted' = tainted /\ confused' = confused
  BY ConnectionParts DEF ReadInput, MemoryInv, ExchangeTyped, historyVars, Step, Held
<1>2. up' \in [Conns -> Streams] /\ down' \in [Conns -> Streams]
  <2>1. Tail(up[k]) \in Streams
    BY <1>1, StreamParts
  <2> QED  BY <1>1, <2>1 DEF MemoryInv, ExchangeTyped
<1>3. /\ server[k].left - 1 \in 0..MaxBody
      /\ server[k].left <= server[k].size => server[k].left - 1 <= server[k].size
  <2>1. server[k].left \in 0..MaxBody /\ server[k].size \in 0..MaxBody
    BY <1>1 DEF Servers
  <2> QED  BY <1>1, <2>1, OneLess
<1>4. h \in Servers /\ h.pc = server[k].pc /\ h.size = server[k].size
      /\ h.left = server[k].left - 1 /\ h.rsize = server[k].rsize
  BY <1>1, <1>3 DEF Servers
<1> HIDE DEF h
<1>5. ServerCharge(h, e, r)
  BY <1>1, <1>3, <1>4 DEF ServerCharge
<1> QED  BY <1>1, <1>2, <1>4, <1>5, ServerAlone

LEMMA StartResultKeeps ==
    ASSUME MemoryInv, NEW k \in Conns, StartResult(k)
    PROVE  MemoryInv'
<1> DEFINE e == pool["sreq"]
           r == Acquire(pool["sresp"], Response(k), actor[k], MaxBody)
           h == [server[k] EXCEPT !.pc = "reserve"]
<1>1. /\ server[k] \in Servers /\ server[k].pc \in {"body", "discard"} /\ server[k].left = 0
      /\ ServerCharge(server[k], e.entry[Request(k)], pool["sresp"].entry[Response(k)])
      /\ server' = [server EXCEPT ![k] = h] /\ pool' = [pool EXCEPT !["sresp"] = r]
      /\ up' = up /\ down' = down /\ actor[k] \in Keys
      /\ plan' = plan /\ actor' = actor /\ client' = client
      /\ tainted' = tainted /\ confused' = confused
  BY ConnectionParts DEF StartResult, historyVars, Step, ResponsePool
<1>2. /\ GoodPool(r) /\ OnlyTouches(pool["sresp"], r, Response(k))
      /\ r.entry[Response(k)].bytes = MaxBody /\ r.entry[Response(k)].at # "none"
  <2>1. pool["sresp"].entry[Response(k)] = NoPermit /\ MaxBody \in 0..MaxBody
    BY <1>1, LimitsTyped DEF ServerCharge
  <2> QED  BY <1>1, <2>1, AcquireGood, SamePools, TicketsApart DEF Pools
<1>3. h \in Servers /\ h.pc = "reserve" /\ h.size = server[k].size
      /\ h.left = 0 /\ h.rsize = server[k].rsize
  BY <1>1 DEF Servers
<1> HIDE DEF h, r
<1>4. ServerCharge(h, e.entry[Request(k)], r.entry[Response(k)])
  <2>1. /\ e.entry[Request(k)].bytes = server[k].size
        /\ server[k].size > 0 => e.entry[Request(k)].at = "held"
    <3>1. CASE server[k].pc = "body"
      BY <1>1, <3>1 DEF ServerCharge
    <3>2. CASE server[k].pc = "discard"
      BY <1>1, <3>2 DEF ServerCharge, NoPermit
    <3> QED  BY <1>1, <3>1, <3>2
  <2>2. server[k].rsize = 0
    BY <1>1 DEF ServerCharge
  <2> QED  BY <1>2, <1>3, <2>1, <2>2 DEF ServerCharge
<1>5. pool' = [pool EXCEPT !["sreq"] = e, !["sresp"] = r]
  BY <1>1 DEF MemoryInv, PoolsGood, Pools
<1>6. GoodPool(e) /\ OnlyTouches(pool["sreq"], e, Request(k))
  BY SamePools DEF Pools
<1>7. /\ up' \in [Conns -> Streams] /\ down' \in [Conns -> Streams]
      /\ tainted' \subseteq Conns /\ confused' \subseteq Conns
  BY <1>1 DEF MemoryInv, ExchangeTyped
<1> HIDE DEF e
<1> QED  BY <1>1, <1>2, <1>3, <1>4, <1>5, <1>6, <1>7, ServerStep

LEMMA SerializeResultKeeps ==
    ASSUME MemoryInv, NEW k \in Conns, SerializeResult(k)
    PROVE  MemoryInv'
<1>1. PICK n \in Sizes :
        /\ n <= MaxBody
        /\ Step(k, [server[k] EXCEPT !.pc = "length", !.rsize = n, !.left = n])
        /\ pool' = [pool EXCEPT !["sresp"] = ShrinkTo(@, Response(k), n)]
  BY DEF SerializeResult, ResponsePool
<1> DEFINE e == pool["sreq"]
           r == ShrinkTo(pool["sresp"], Response(k), n)
           h == [server[k] EXCEPT !.pc = "length", !.rsize = n, !.left = n]
<1>2. /\ server[k] \in Servers /\ server[k].pc = "reserve" /\ Held(pool["sresp"], Response(k))
      /\ ServerCharge(server[k], e.entry[Request(k)], pool["sresp"].entry[Response(k)])
      /\ server' = [server EXCEPT ![k] = h] /\ pool' = [pool EXCEPT !["sresp"] = r]
      /\ up' = up /\ down' = down
      /\ plan' = plan /\ actor' = actor /\ client' = client
      /\ tainted' = tainted /\ confused' = confused
  BY <1>1, ConnectionParts DEF SerializeResult, historyVars, Step, ResponsePool
<1>3. n \in 1..MaxBody /\ n \in 0..MaxBody
  BY <1>1, ExchangeAssumption, LimitsTyped
<1>4. /\ GoodPool(r) /\ OnlyTouches(pool["sresp"], r, Response(k))
      /\ r.entry[Response(k)].bytes = n /\ r.entry[Response(k)].at = "held"
  <2>1. n <= pool["sresp"].entry[Response(k)].bytes
    BY <1>1, <1>2 DEF ServerCharge
  <2> QED  BY <1>2, <1>3, <2>1, ShrinkGood, SamePools, TicketsApart DEF Pools, Held
<1>5. h \in Servers /\ h.pc = "length" /\ h.size = server[k].size /\ h.rsize = n
  BY <1>2, <1>3 DEF Servers
<1> HIDE DEF h, r
<1>6. ServerCharge(h, e.entry[Request(k)], r.entry[Response(k)])
  BY <1>2, <1>4, <1>5 DEF ServerCharge
<1>7. pool' = [pool EXCEPT !["sreq"] = e, !["sresp"] = r]
  BY <1>2 DEF MemoryInv, PoolsGood, Pools
<1>8. GoodPool(e) /\ OnlyTouches(pool["sreq"], e, Request(k))
  BY SamePools DEF Pools
<1>9. /\ up' \in [Conns -> Streams] /\ down' \in [Conns -> Streams]
      /\ tainted' \subseteq Conns /\ confused' \subseteq Conns
  BY <1>2 DEF MemoryInv, ExchangeTyped
<1> HIDE DEF e
<1> QED  BY <1>2, <1>4, <1>5, <1>6, <1>7, <1>8, <1>9, ServerStep

LEMMA AnswererKeeps ==
    ASSUME MemoryInv, NEW k \in Conns, WriteLength(k) \/ WriteOutput(k)
    PROVE  MemoryInv'
<1> DEFINE e == pool["sreq"].entry[Request(k)]
           r == pool["sresp"].entry[Response(k)]
<1>1. /\ server[k] \in Servers /\ server[k].call \in Nat /\ server[k].rsize \in 0..MaxBody
      /\ down[k] \in Streams /\ down \in [Conns -> Streams] /\ up \in [Conns -> Streams]
      /\ ServerCharge(server[k], e, r) /\ Room(down[k]) /\ up' = up
      /\ pool' = pool /\ plan' = plan /\ actor' = actor /\ client' = client
      /\ tainted' = tainted /\ confused' = confused
  BY ConnectionParts
  DEF Servers, MemoryInv, ExchangeTyped, WriteLength, WriteOutput, historyVars
<1>2. CASE WriteLength(k)
  <2> DEFINE h == [server[k] EXCEPT !.pc = "output"]
             m == Header(server[k].call, server[k].rsize)
  <2>1. /\ server' = [server EXCEPT ![k] = h] /\ down' = [down EXCEPT ![k] = Append(down[k], m)]
        /\ server[k].pc = "length"
    BY <1>1, <1>2 DEF WriteLength, Step
  <2>2. m \in Messages
    BY <1>1, MessageParts
  <2> HIDE DEF m
  <2>3. down' \in [Conns -> Streams] /\ up' \in [Conns -> Streams]
    BY <1>1, <2>1, <2>2, StreamParts
  <2>4. h \in Servers /\ h.pc = "output" /\ h.size = server[k].size /\ h.rsize = server[k].rsize
    BY <1>1 DEF Servers
  <2> HIDE DEF h
  <2>5. ServerCharge(h, e, r)
    BY <1>1, <2>1, <2>4 DEF ServerCharge
  <2> QED  BY <1>1, <2>1, <2>3, <2>4, <2>5, ServerAlone
<1>3. CASE WriteOutput(k)
  <2> DEFINE h == [server[k] EXCEPT !.left = @ - 1]
             m == Unit(server[k].call)
  <2>1. /\ server' = [server EXCEPT ![k] = h] /\ down' = [down EXCEPT ![k] = Append(down[k], m)]
        /\ server[k].pc = "output" /\ server[k].left > 0
    BY <1>1, <1>3 DEF WriteOutput, Step
  <2>2. m \in Messages
    BY <1>1, MessageParts
  <2> HIDE DEF m
  <2>3. down' \in [Conns -> Streams] /\ up' \in [Conns -> Streams]
    BY <1>1, <2>1, <2>2, StreamParts
  <2>4. server[k].left - 1 \in 0..MaxBody
    <3>1. server[k].left \in 0..MaxBody
      BY <1>1 DEF Servers
    <3> QED  BY <2>1, <3>1, LimitsTyped
  <2>5. h \in Servers /\ h.pc = "output" /\ h.size = server[k].size /\ h.rsize = server[k].rsize
    BY <1>1, <2>1, <2>4 DEF Servers
  <2> HIDE DEF h
  <2>6. ServerCharge(h, e, r)
    BY <1>1, <2>1, <2>5 DEF ServerCharge
  <2> QED  BY <1>1, <2>1, <2>3, <2>5, <2>6, ServerAlone
<1> QED  BY <1>2, <1>3

-----------------------------------------------------------------------------
(* The memory of bodies.                                                   *)

LEMMA EmptyPoolGood ==
    LET p == EmptyPool(Tickets, Actors \union {ClientKey})
    IN  GoodPool(p) /\ \A t \in Tickets : p.entry[t] = NoPermit
<1> DEFINE p == EmptyPool(Tickets, Actors \union {ClientKey})
<1>1. /\ p.entry = [t \in Tickets |-> NoPermit] /\ p.line = [s \in Semaphores |-> <<>>]
      /\ p.tracked = {} /\ p = [entry |-> p.entry, line |-> p.line, tracked |-> p.tracked]
  BY DEF EmptyPool, Semaphores, Keys
<1> HIDE DEF p
<1>2. p \in PoolSpace
  <2>1. NoPermit \in PoolEntries
    BY LimitsTyped DEF NoPermit, PoolEntries, Semaphores
  <2>2. p.entry \in [Tickets -> PoolEntries]
    BY <1>1, <2>1
  <2>3. p.line \in [Semaphores -> Seq(Tickets)] /\ p.tracked \in SUBSET Keys
    BY <1>1
  <2> QED  BY <1>1, <2>2, <2>3 DEF PoolSpace
<1>3. \A t \in Tickets : p.entry[t] = NoPermit
  BY <1>1
<1>4. ASSUME NEW s \in Semaphores
      PROVE  Used(p, s) <= Capacity(s)
  <2>1. Holders(p, s) = {}
    <3>1. DOMAIN p.entry = Tickets /\ \A t \in Tickets : p.entry[t].at = "none"
      BY <1>1 DEF NoPermit
    <3> QED  BY <3>1 DEF Holders
  <2>2. Permits(p, Holders(p, s)) = {}
    BY <2>1 DEF Permits
  <2> QED  BY <2>2, FS_EmptySet, LimitsTyped DEF Used
<1>5. IsFiniteSet(p.tracked) /\ Cardinality(p.tracked) <= MaxTracked
  BY <1>1, FS_EmptySet, LimitsTyped
<1> QED  BY <1>2, <1>3, <1>4, <1>5 DEF GoodPool, p

LEMMA MemoryInit == ExchangeInit => MemoryInv
<1> SUFFICES ASSUME ExchangeInit
             PROVE  MemoryInv
  OBVIOUS
<1> DEFINE p == EmptyPool(Tickets, Actors \union {ClientKey})
<1>1. GoodPool(p) /\ p \in PoolSpace /\ \A t \in Tickets : p.entry[t] = NoPermit
  <2>1. GoodPool(p) /\ \A t \in Tickets : p.entry[t] = NoPermit
    BY EmptyPoolGood
  <2> QED  BY <2>1 DEF GoodPool
<1>2. pool = [d \in Pools |-> p]
  BY DEF ExchangeInit
<1> HIDE DEF p
<1>3. PoolsGood
  BY <1>1, <1>2 DEF PoolsGood
<1>4. ExchangeTyped
  <2>1. IdleClient(0) \in Clients
    BY LimitsTyped DEF IdleClient, Clients
  <2>2. IdleServer \in Servers
    BY NothingHeld
  <2>3. <<>> \in Streams
    BY ExchangeAssumption DEF Streams
  <2>4. plan \in [Conns -> Nat] /\ actor \in [Conns -> Actors]
    BY ExchangeAssumption DEF ExchangeInit
  <2> QED  BY <2>1, <2>2, <2>3, <2>4 DEF ExchangeInit, ExchangeTyped
<1>5. Charged
  <2> SUFFICES ASSUME NEW k \in Conns
               PROVE
        /\ ClientCharge(client[k], NoPermit, NoPermit) /\ ServerCharge(server[k], NoPermit, NoPermit)
    <3>1. \A d \in {"creq", "cresp", "sreq", "sresp"}, j \in Conns :
            pool[d].entry[Request(j)] = NoPermit /\ pool[d].entry[Response(j)] = NoPermit
      BY <1>1, <1>2, TicketsApart DEF Pools
    <3> QED  BY <3>1 DEF Charged
  <2>1. client[k] = IdleClient(0) /\ server[k] = IdleServer
    BY DEF ExchangeInit
  <2>2. ClientCharge(IdleClient(0), NoPermit, NoPermit)
    BY DEF ClientCharge, IdleClient
  <2> QED  BY <2>1, <2>2, NothingHeld
<1> QED  BY <1>3, <1>4, <1>5 DEF MemoryInv

LEMMA MemoryNext == MemoryInv /\ [ExchangeNext]_exchangeVars => MemoryInv'
<1> SUFFICES ASSUME MemoryInv, [ExchangeNext]_exchangeVars
             PROVE  MemoryInv'
  OBVIOUS
<1>1. CASE UNCHANGED exchangeVars
  BY <1>1
  DEF exchangeVars, MemoryInv, ExchangeTyped, PoolsGood, Charged, ClientCharge, ServerCharge
<1>2. ASSUME NEW k \in Conns, Progress(k)
      PROVE  MemoryInv'
  BY <1>2, AdmitKeeps, SerializeInputKeeps, WriterKeeps, FlushKeeps, ReadLengthKeeps,
     ReadBodyKeeps, EndingsKeep, ReadHeaderKeeps, ReadInputKeeps, StartResultKeeps,
     SerializeResultKeeps, AnswererKeeps, HandlerEndsKeep
  DEF Progress
<1>3. ASSUME NEW k \in Conns,
             StartCall(k) \/ SerializeInputFails(k) \/ WriteTimeout(k) \/ ReadTimeout(k) \/ HandlerFails(k)
      PROVE  MemoryInv'
  BY <1>3, StartCallKeeps, EndingsKeep, HandlerEndsKeep
<1> QED  BY <1>1, <1>2, <1>3 DEF ExchangeNext

LEMMA MemoryAlways == ExchangeSpec => []MemoryInv
  BY MemoryInit, MemoryNext, PTL DEF ExchangeSpec

(* Each body is covered by the permit of its own task, or has outlived it. *)
LEMMA Covered ==
    ASSUME MemoryInv, NEW d \in Pools, NEW t \in Tickets
    PROVE  /\ Buffered(d, t) \in Nat
           /\ Buffered(d, t) <= MaxBody
           /\ Buffered(d, t) > 0 /\ ~Outlives(d, t) =>
                 Held(pool[d], t) /\ Buffered(d, t) <= pool[d].entry[t].bytes
           /\ pool[d].entry[t].at # "none" =>
                 IF d \in {"creq", "cresp"} THEN client[t[1]].pc # "idle"
                 ELSE server[t[1]].pc \notin {"header", "closed"}
<1>1. PICK k \in Conns : t = Request(k) \/ t = Response(k)
  BY DEF Tickets
<1>2. t[1] = k /\ t[2] \in {"request", "response"}
      /\ (t[2] = "request" <=> t = Request(k)) /\ (t[2] = "response" <=> t = Response(k))
  BY <1>1 DEF Request, Response
<1> DEFINE c == client[k]
           h == server[k]
           e == pool[d].entry[t]
<1>3. /\ c.size \in Nat /\ c.rsize \in Nat /\ c.rleft \in Nat /\ h.size \in Nat /\ h.left \in Nat
      /\ h.rsize \in Nat /\ c \in Clients /\ h \in Servers
      /\ c.size <= MaxBody /\ c.rsize <= MaxBody /\ h.size <= MaxBody /\ h.rsize <= MaxBody
      /\ MaxBody \in Nat
  <2>1. c \in Clients /\ h \in Servers
    BY ConnectionParts
  <2>2. /\ c.size \in 0..MaxBody /\ c.rsize \in 0..MaxBody /\ c.rleft \in 0..MaxBody
        /\ h.size \in 0..MaxBody /\ h.left \in 0..MaxBody /\ h.rsize \in 0..MaxBody
    BY <2>1 DEF Clients, Servers
  <2> HIDE DEF c, h
  <2> QED  BY <2>1, <2>2, LimitsTyped
<1>4. /\ ClientCharge(c, pool["creq"].entry[Request(k)], pool["cresp"].entry[Response(k)])
      /\ ServerCharge(h, pool["sreq"].entry[Request(k)], pool["sresp"].entry[Response(k)])
      /\ pool["creq"].entry[Response(k)] = NoPermit /\ pool["cresp"].entry[Request(k)] = NoPermit
      /\ pool["sreq"].entry[Response(k)] = NoPermit /\ pool["sresp"].entry[Request(k)] = NoPermit
  BY DEF MemoryInv, Charged
<1>5. Buffered(d, t) =
        (CASE d = "creq" /\ t[2] = "request" -> IF c.pc = "exchange" THEN c.size ELSE 0
           [] d = "cresp" /\ t[2] = "response" -> c.rsize - c.rleft
           [] d = "sreq" /\ t[2] = "request" -> IF h.pc = "body" THEN h.size - h.left ELSE h.size
           [] d = "sresp" /\ t[2] = "response" -> h.rsize
           [] OTHER -> 0)
  BY <1>2 DEF Buffered
<1>6. NoPermit.at = "none"
  BY DEF NoPermit
<1> SUFFICES /\ Buffered(d, t) \in Nat
             /\ Buffered(d, t) <= MaxBody
             /\ Buffered(d, t) > 0 /\ ~(d = "creq" /\ c.tx = "done") =>
                  e.at = "held" /\ Buffered(d, t) <= e.bytes
             /\ e.at # "none" =>
                 IF d \in {"creq", "cresp"} THEN c.pc # "idle" ELSE h.pc \notin {"header", "closed"}
  BY <1>2 DEF Held, Outlives
<1> HIDE DEF c, h, e
<1>7. CASE d = "creq" /\ t = Request(k)
  <2>1. Buffered(d, t) = IF c.pc = "exchange" THEN c.size ELSE 0
    BY <1>2, <1>5, <1>7
  <2>2. e = pool["creq"].entry[Request(k)]
    BY <1>7 DEF e
  <2>3. /\ c.pc = "exchange" <=> c.tx # "none"
        /\ c.tx \in {"header", "body"} => e.at = "held" /\ e.bytes = c.size
        /\ c.pc = "idle" => e = NoPermit
    BY <1>4, <2>2 DEF ClientCharge
  <2>4. c.tx \in {"none", "header", "body", "done"}
    BY <1>3 DEF Clients
  <2> QED  BY <1>3, <1>6, <1>7, <2>1, <2>3, <2>4
<1>8. CASE d = "cresp" /\ t = Response(k)
  <2>1. Buffered(d, t) = c.rsize - c.rleft
    BY <1>2, <1>5, <1>8
  <2>2. e = pool["cresp"].entry[Response(k)]
    BY <1>8 DEF e
  <2>3. c.rleft <= c.rsize /\ (c.rleft < c.rsize => e.at = "held")
        /\ (c.rx = "body" => e.bytes = c.rsize) /\ (c.rx # "body" => e = NoPermit /\ c.rsize = 0)
        /\ (c.rx = "body" => c.pc = "exchange")
    BY <1>4, <2>2 DEF ClientCharge
  <2>4. c.rleft < c.rsize => c.rx = "body"
    BY <1>3, <2>3
  <2> QED  BY <1>3, <1>6, <1>8, <2>1, <2>3, <2>4
<1>9. CASE d = "sreq" /\ t = Request(k)
  <2>1. Buffered(d, t) = IF h.pc = "body" THEN h.size - h.left ELSE h.size
    BY <1>2, <1>5, <1>9
  <2>2. e = pool["sreq"].entry[Request(k)]
    BY <1>9 DEF e
  <2>3. /\ h.pc \in {"header", "discard", "closed"} => e = NoPermit /\ h.size = 0
        /\ h.pc = "body" => e.bytes = h.size /\ h.left <= h.size
        /\ h.pc = "body" /\ h.left < h.size => e.at = "held"
        /\ h.pc \in {"reserve", "length", "output"} =>
             e.bytes = h.size /\ (h.size > 0 => e.at = "held")
    BY <1>4, <2>2 DEF ServerCharge
  <2>4. CASE h.pc = "body"
    BY <1>3, <1>6, <1>9, <2>1, <2>3, <2>4
  <2>5. CASE h.pc # "body"
    <3>1. h.pc \in {"header", "discard", "closed", "reserve", "length", "output"}
      BY <1>3, <2>5 DEF Servers
    <3> QED  BY <1>3, <1>6, <1>9, <2>1, <2>3, <2>5, <3>1
  <2> QED  BY <2>4, <2>5
<1>10. CASE d = "sresp" /\ t = Response(k)
  <2>1. Buffered(d, t) = h.rsize
    BY <1>2, <1>5, <1>10
  <2>2. e = pool["sresp"].entry[Response(k)]
    BY <1>10 DEF e
  <2>3. h.pc \in {"reserve", "length", "output"} \/ h.pc \in {"header", "body", "discard", "closed"}
    BY <1>3 DEF Servers
  <2> QED  BY <1>3, <1>4, <1>6, <1>10, <2>1, <2>2, <2>3 DEF ServerCharge
<1>11. CASE \/ d \in {"creq", "sreq"} /\ t = Response(k)
            \/ d \in {"cresp", "sresp"} /\ t = Request(k)
  <2>1. Buffered(d, t) = 0
    BY <1>2, <1>5, <1>11, TicketsApart
  <2>2. e = NoPermit
    BY <1>4, <1>11 DEF e
  <2>3. Buffered(d, t) \in Nat /\ Buffered(d, t) <= MaxBody /\ ~(Buffered(d, t) > 0)
    BY <1>3, <2>1
  <2> QED  BY <1>6, <2>2, <2>3
<1> QED  BY <1>1, <1>7, <1>8, <1>9, <1>10, <1>11 DEF Pools

LEMMA BoundedNow ==
    ASSUME MemoryInv
    PROVE  MemoryBounded
<1>1. ASSUME NEW d \in Pools
      PROVE  Cardinality({u \in Tickets \X (1..MaxBody) :
                            ~Outlives(d, u[1]) /\ u[2] <= Buffered(d, u[1])}) <= GlobalCapacity
  <2> DEFINE units == {u \in Tickets \X (1..MaxBody) :
                         ~Outlives(d, u[1]) /\ u[2] <= Buffered(d, u[1])}
             p == pool[d]
             holders == Holders(p, "global")
  <2>1. p \in PoolSpace /\ Used(p, "global") <= Capacity("global")
    BY DEF MemoryInv, PoolsGood, GoodPool, Semaphores
  <2>2. holders \in SUBSET Tickets
    BY <2>1, HoldersKnown
  <2>3. units \subseteq Permits(p, holders)
    <3> SUFFICES ASSUME NEW u \in Tickets \X (1..MaxBody),
                        ~Outlives(d, u[1]), u[2] <= Buffered(d, u[1])
                 PROVE  u \in Permits(p, holders)
      OBVIOUS
    <3>1. u[1] \in Tickets /\ u[2] \in 1..MaxBody /\ u[2] \in Nat /\ u[2] > 0 /\ u = <<u[1], u[2]>>
      BY LimitsTyped
    <3>2. Buffered(d, u[1]) \in Nat /\ Buffered(d, u[1]) > 0
      BY <3>1, Covered
    <3>3. Held(p, u[1]) /\ Buffered(d, u[1]) <= p.entry[u[1]].bytes
      BY <3>1, <3>2, Covered
    <3>4. p.entry[u[1]].bytes \in Nat
      BY <2>1, <3>1, EntryTyped
    <3> HIDE DEF p, holders
    <3>5. u[2] <= p.entry[u[1]].bytes
      BY <3>1, <3>2, <3>3, <3>4
    <3>6. u[1] \in holders
      BY <2>1, <3>1, <3>3, PoolParts DEF holders, Holders, Held
    <3> QED  BY <3>1, <3>5, <3>6 DEF Permits
  <2> HIDE DEF units
  <2>4. IsFiniteSet(Permits(p, holders)) /\ Cardinality(Permits(p, holders)) \in Nat
    BY <2>1, <2>2, PermitsFinite
  <2>5. Cardinality(units) <= Cardinality(Permits(p, holders)) /\ Cardinality(units) \in Nat
    BY <2>3, <2>4, FS_Subset, FS_CardinalityType
  <2>6. Used(p, "global") = Cardinality(Permits(p, holders)) /\ Capacity("global") = GlobalCapacity
    BY DEF Used, Capacity
  <2> HIDE DEF p, holders
  <2>7. Cardinality(units) <= GlobalCapacity
    BY <2>1, <2>4, <2>5, <2>6, LimitsTyped
  <2> QED  BY <2>7 DEF units
<1>2. ASSUME NEW d \in Pools, NEW s \in DOMAIN pool[d].line
      PROVE  Used(pool[d], s) <= Capacity(s)
  <2>1. pool[d] \in PoolSpace /\ GoodPool(pool[d])
    BY DEF MemoryInv, PoolsGood
  <2>2. s \in Semaphores
    BY <2>1, PoolParts
  <2> QED  BY <2>1, <2>2 DEF GoodPool
<1>3. ExchangeTypeOK
  <2>1. ASSUME NEW d \in Pools
        PROVE  /\ \A t \in Tickets : pool[d].entry[t] \in
                    [at : {"none", "actor", "global", "held"},
                     via : DOMAIN pool[d].line, bytes : 0..MaxBody]
               /\ \A s \in DOMAIN pool[d].line : pool[d].line[s] \in Seq(Tickets)
               /\ Cardinality(pool[d].tracked) <= MaxTracked
    <3>1. pool[d] \in PoolSpace /\ GoodPool(pool[d])
      BY DEF MemoryInv, PoolsGood
    <3>2. DOMAIN pool[d].line = Semaphores /\ pool[d].line \in [Semaphores -> Seq(Tickets)]
          /\ pool[d].entry \in [Tickets -> PoolEntries]
      BY <3>1, PoolParts
    <3>3. Cardinality(pool[d].tracked) <= MaxTracked
      BY <3>1 DEF GoodPool
    <3> QED  BY <3>2, <3>3 DEF PoolEntries
  <2>2. \A k \in Conns : Len(up[k]) <= StreamCap /\ Len(down[k]) <= StreamCap
    BY ConnectionParts, StreamParts
  <2>3. tainted \subseteq Conns /\ confused \subseteq Conns
    BY DEF MemoryInv, ExchangeTyped
  <2> QED  BY <2>1, <2>2, <2>3 DEF ExchangeTypeOK
<1> QED  BY <1>1, <1>2, <1>3, Covered DEF MemoryBounded

(* RpcAdmission bounds the memory of the bodies it has admitted: over all  *)
(* connections they stay within the global limit, each is covered by a     *)
(* permit of its own task, no semaphore gives out more than it has, the    *)
(* registry of actors keeps its bound, and who is in no call holds and     *)
(* waits for nothing.  A flushed input, which no permit covers any more,   *)
(* is no larger than one body.                                             *)
THEOREM BodiesStayInBudget == ExchangeSpec => []MemoryBounded
<1>1. MemoryInv => MemoryBounded
  BY BoundedNow
<1> QED  BY <1>1, MemoryAlways, PTL

-----------------------------------------------------------------------------
(* Where a connection stands between its two ends.  The messages of a call *)
(* are counted from its header on, its body's units one by one: what the   *)
(* executor has written and what it has got, and, with what is under way,  *)
(* what the handler has seen and what it has answered.                     *)

Written(c) == IF c.tx \in {"body", "done"} THEN 1 + c.size - c.left ELSE 0
Got(c) == IF c.rx = "body" THEN 1 + c.rsize - c.rleft ELSE 0

(* A stream brings what is left of a call's message of so many units, when *)
(* its first ones are gone.                                                *)
Carries(q, gone, call, units) ==
    \A i \in DOMAIN q : q[i] = IF gone + i = 1 THEN Header(call, units) ELSE Unit(call)

(* How far the handler h is, when it has seen so many messages of a call   *)
(* with a body of size units, and answered so many of a result of n units. *)
Stage(call, size, h, seen, answered, n) ==
    \/ /\ seen = 0 /\ answered = 0
       /\ h.pc \in {"header", "closed"} \/ (h.pc = "output" /\ h.left = 0)
    \/ /\ h.pc \in {"body", "discard"} /\ h.call = call /\ h.left <= size
       /\ seen = 1 + size - h.left /\ answered = 0
    \/ /\ h.pc = "reserve" /\ h.call = call /\ seen = 1 + size /\ answered = 0
    \/ /\ h.pc = "length" /\ h.call = call /\ seen = 1 + size /\ answered = 0
       /\ h.rsize = n /\ h.left = n
    \/ /\ h.pc = "output" /\ h.call = call /\ h.rsize = n /\ h.left <= n
       /\ seen = 1 + size /\ answered = 1 + n - h.left
    \/ h.pc = "header" /\ seen = 1 + size /\ answered = 1 + n
    \/ h.pc = "closed" /\ (answered > 0 => seen = 1 + size)

(* The two streams, with a result of n units on its way back.              *)
Between(c, h, u, d, n) ==
    /\ Len(u) <= Written(c) /\ Carries(u, Written(c) - Len(u), c.call, c.size)
    /\ Got(c) + Len(d) <= 1 + n /\ Carries(d, Got(c), c.call, n)
    /\ Stage(c.call, c.size, h, Written(c) - Len(u), Got(c) + Len(d), n)
    /\ c.rx = "body" => c.rsize = n

InStep(c, h, u, d) ==
    /\ c.tx = "header" => c.left = c.size
    /\ c.tx = "done" => c.left = 0
    /\ c.got \subseteq {c.call}
    /\ c.pc # "exchange" => c.got = {}
    /\ c.rleft < c.rsize => c.got = {c.call}
    /\ \E n \in Nat \ {0} : Between(c, h, u, d, n)

AlignedInv ==
    /\ MemoryInv /\ confused = {}
    /\ \A k \in Conns \ tainted : InStep(client[k], server[k], up[k], down[k])

Elsewhere(k) ==
    \A j \in Conns \ {k} :
        client'[j] = client[j] /\ server'[j] = server[j] /\ up'[j] = up[j] /\ down'[j] = down[j]

LEMMA OneConnection ==
    ASSUME AlignedInv, NEW k \in Conns, MemoryInv', Elsewhere(k),
           confused' = confused, tainted \subseteq tainted',
           k \in tainted' \/ InStep(client'[k], server'[k], up'[k], down'[k])
    PROVE  AlignedInv'
<1>1. ASSUME NEW j \in Conns, j \notin tainted'
      PROVE  InStep(client'[j], server'[j], up'[j], down'[j])
  <2>1. CASE j = k
    BY <1>1, <2>1
  <2>2. CASE j # k
    BY <1>1, <2>2 DEF Elsewhere, AlignedInv
  <2> QED  BY <2>1, <2>2
<1> QED  BY <1>1 DEF AlignedInv, InStep, Between, Stage, Carries, Written, Got

LEMMA CarriesNothing == \A gone, call, units : Carries(<<>>, gone, call, units)
  BY DEF Carries

LEMMA CarriesHead ==
    ASSUME NEW q \in Streams, q # <<>>, NEW gone \in Nat, NEW call, NEW units,
           Carries(q, gone, call, units)
    PROVE  /\ Head(q) = IF gone = 0 THEN Header(call, units) ELSE Unit(call)
           /\ Carries(Tail(q), gone + 1, call, units)
           /\ Tail(q) \in Streams /\ Len(Tail(q)) = Len(q) - 1 /\ Len(q) \in Nat /\ Len(q) > 0
<1>1. /\ q \in Seq(Messages) /\ Tail(q) \in Streams /\ Len(q) \in Nat
      /\ Len(Tail(q)) = Len(q) - 1 /\ \A i \in 1..Len(Tail(q)) : Tail(q)[i] = q[i + 1]
      /\ Head(q) = q[1] /\ Len(q) > 0 /\ DOMAIN q = 1..Len(q)
      /\ DOMAIN Tail(q) = 1..(Len(q) - 1)
  <2>1. q \in Seq(Messages) /\ Tail(q) \in Streams /\ Len(q) \in Nat
    BY StreamParts
  <2>2. Len(q) > 0 /\ DOMAIN q = 1..Len(q)
    BY <2>1, EmptySeq, LenProperties
  <2> QED  BY <2>1, <2>2, HeadTailProperties, LenProperties
<1>2. Head(q) = IF gone = 0 THEN Header(call, units) ELSE Unit(call)
  <2>1. 1 \in DOMAIN q /\ (gone + 1 = 1 <=> gone = 0)
    BY <1>1
  <2> QED  BY <1>1, <2>1 DEF Carries
<1>3. Carries(Tail(q), gone + 1, call, units)
  <2> SUFFICES ASSUME NEW i \in 1..(Len(q) - 1)
               PROVE  q[i + 1] = IF (gone + 1) + i = 1 THEN Header(call, units) ELSE Unit(call)
    BY <1>1 DEF Carries
  <2>1. i + 1 \in DOMAIN q /\ gone + (i + 1) = (gone + 1) + i
    BY <1>1
  <2> QED  BY <2>1 DEF Carries
<1> QED  BY <1>1, <1>2, <1>3

LEMMA CarriesMore ==
    ASSUME NEW q \in Streams, NEW gone \in Nat, NEW call, NEW units, Carries(q, gone, call, units),
           NEW m \in Messages, Room(q),
           m = IF gone + Len(q) = 0 THEN Header(call, units) ELSE Unit(call)
    PROVE  /\ Carries(Append(q, m), gone, call, units)
           /\ Len(Append(q, m)) = Len(q) + 1 /\ Len(q) \in Nat
<1>1. /\ q \in Seq(Messages) /\ Len(q) \in Nat /\ Len(Append(q, m)) = Len(q) + 1
      /\ \A i \in 1..Len(q) : Append(q, m)[i] = q[i]
      /\ Append(q, m)[Len(q) + 1] = m
      /\ DOMAIN q = 1..Len(q) /\ DOMAIN Append(q, m) = 1..(Len(q) + 1)
  <2>1. q \in Seq(Messages) /\ Len(q) \in Nat
    BY StreamParts
  <2> QED  BY <2>1, AppendProperties, LenProperties
<1>2. ASSUME NEW i \in 1..(Len(q) + 1)
      PROVE  Append(q, m)[i] = IF gone + i = 1 THEN Header(call, units) ELSE Unit(call)
  <2>1. CASE i \in 1..Len(q)
    BY <1>1, <2>1 DEF Carries
  <2>2. CASE i = Len(q) + 1
    <3>1. gone + i = 1 <=> gone + Len(q) = 0
      BY <1>1, <2>2
    <3> QED  BY <1>1, <2>2, <3>1
  <2> QED  BY <1>1, <1>2, <2>1, <2>2
<1> QED  BY <1>1, <1>2 DEF Carries

(* The numbers at connection k.                                            *)
LEMMA Counts ==
    ASSUME MemoryInv, NEW k \in Conns
    PROVE  /\ client[k] \in Clients /\ server[k] \in Servers /\ up[k] \in Streams /\ down[k] \in Streams
           /\ client[k].size \in Nat /\ client[k].left \in Nat /\ client[k].left <= client[k].size
           /\ client[k].rsize \in Nat /\ client[k].rleft \in Nat /\ client[k].rleft <= client[k].rsize
           /\ client[k].call \in Nat /\ server[k].call \in Nat
           /\ server[k].left \in Nat /\ server[k].rsize \in Nat
           /\ Len(up[k]) \in Nat /\ Len(down[k]) \in Nat
           /\ Written(client[k]) \in Nat /\ Got(client[k]) \in Nat
           /\ client[k].pc = "exchange" <=> client[k].tx # "none"
           /\ client[k].pc = "exchange" <=> client[k].rx # "none"
           /\ client[k].rx # "body" => client[k].rsize = 0
<1> DEFINE c == client[k]
           h == server[k]
<1>1. /\ c \in Clients /\ h \in Servers /\ up[k] \in Streams /\ down[k] \in Streams
      /\ ClientCharge(c, pool["creq"].entry[Request(k)], pool["cresp"].entry[Response(k)])
      /\ Len(up[k]) \in Nat /\ Len(down[k]) \in Nat
  BY ConnectionParts, StreamParts
<1> HIDE DEF c, h
<1>2. /\ c.size \in 0..MaxBody /\ c.left \in 0..MaxBody /\ c.rsize \in 0..MaxBody
      /\ c.rleft \in 0..MaxBody /\ c.call \in Nat
      /\ h.left \in 0..MaxBody /\ h.rsize \in 0..MaxBody /\ h.call \in Nat
  BY <1>1 DEF Clients, Servers
<1>3. /\ c.size \in Nat /\ c.left \in Nat /\ c.rsize \in Nat /\ c.rleft \in Nat
      /\ h.left \in Nat /\ h.rsize \in Nat
  BY <1>2, LimitsTyped
<1>4. /\ c.left <= c.size /\ c.rleft <= c.rsize
      /\ c.pc = "exchange" <=> c.tx # "none"
      /\ c.pc = "exchange" <=> c.rx # "none"
      /\ c.rx # "body" => c.rsize = 0
  BY <1>1 DEF ClientCharge
<1>5. Written(c) \in Nat /\ Got(c) \in Nat
  BY <1>3, <1>4 DEF Written, Got
<1> QED  BY <1>1, <1>2, <1>3, <1>4, <1>5 DEF c, h

(* A handler that waits for a call, or is through with the last one.       *)
Ready(h) == h.pc \in {"header", "closed"} \/ (h.pc = "output" /\ h.left = 0)

LEMMA NothingSeen ==
    ASSUME NEW call, NEW size \in Nat, NEW h \in Servers, h.left \in Nat,
           NEW seen \in Nat, NEW answered \in Nat, NEW n \in Nat \ {0},
           Stage(call, size, h, seen, answered, n), seen = 0
    PROVE  answered = 0 /\ Ready(h)
  BY DEF Stage, Ready

LEMMA AtRest ==
    ASSUME NEW c, NEW h, c.tx \in {"none", "header"}, c.rx # "body", c.got = {}, c.rleft = 0, c.rsize = 0,
           c.tx = "header" => c.left = c.size, Ready(h)
    PROVE  InStep(c, h, <<>>, <<>>)
<1>1. Len(<<>>) = 0 /\ Written(c) = 0 /\ Got(c) = 0 /\ c.tx # "done"
  BY DEF Written, Got
<1>2. Between(c, h, <<>>, <<>>, 1)
  <2>1. Stage(c.call, c.size, h, 0, 0, 1)
    BY DEF Stage, Ready
  <2>2. 0 - 0 = 0 /\ 0 + 0 = 0 /\ 0 <= 0 /\ 0 <= 1 + 1
    OBVIOUS
  <2> QED  BY <1>1, <2>1, <2>2, CarriesNothing DEF Between
<1>3. 1 \in Nat \ {0}
  OBVIOUS
<1> QED  BY <1>1, <1>2, <1>3 DEF InStep

LEMMA RestOf ==
    ASSUME AlignedInv, NEW k \in Conns, k \notin tainted, client[k].pc # "exchange"
    PROVE  /\ up[k] = <<>> /\ down[k] = <<>> /\ Ready(server[k]) /\ client[k].got = {}
           /\ client[k].tx = "none" /\ client[k].rx = "none"
           /\ client[k].rsize = 0 /\ client[k].rleft = 0
<1> DEFINE c == client[k]
           h == server[k]
<1>1. MemoryInv /\ InStep(c, h, up[k], down[k])
  BY DEF AlignedInv
<1>2. PICK n \in Nat \ {0} : Between(c, h, up[k], down[k], n)
  BY <1>1 DEF InStep
<1>3. /\ c.tx = "none" /\ c.rx = "none" /\ c.size \in Nat /\ h \in Servers /\ h.left \in Nat
      /\ c.rsize = 0 /\ c.rleft \in Nat /\ c.rleft <= c.rsize
      /\ Len(up[k]) \in Nat /\ Len(down[k]) \in Nat /\ up[k] \in Streams /\ down[k] \in Streams
  BY <1>1, Counts DEF Clients
<1>4. Written(c) = 0 /\ Got(c) = 0
  BY <1>3 DEF Written, Got
<1> HIDE DEF c, h
<1>5. /\ Len(up[k]) <= Written(c)
      /\ Stage(c.call, c.size, h, Written(c) - Len(up[k]), Got(c) + Len(down[k]), n)
  BY <1>2 DEF Between
<1>6. Len(up[k]) = 0 /\ Written(c) - Len(up[k]) = 0 /\ Got(c) + Len(down[k]) = Len(down[k])
  BY <1>3, <1>4, <1>5
<1>7. Len(down[k]) = 0 /\ Ready(h)
  BY <1>3, <1>5, <1>6, NothingSeen
<1>8. up[k] = <<>> /\ down[k] = <<>>
  BY <1>3, <1>6, <1>7, EmptySeq, StreamParts
<1>9. c.got = {}
  <2>1. c.pc # "exchange"
    BY DEF c
  <2> QED  BY <1>1, <2>1 DEF InStep, c
<1> QED  BY <1>3, <1>7, <1>8, <1>9 DEF c, h

(* A call that ends in the middle is remembered.                           *)
LEMMA FailCallAligned ==
    ASSUME AlignedInv, MemoryInv', NEW k \in Conns, FailCall(k), down' = down,
           up' = up \/ (client[k].pc = "exchange" /\ \A j \in Conns \ {k} : up'[j] = up[j]),
           confused' = confused
    PROVE  AlignedInv'
<1>1. MemoryInv /\ client \in [Conns -> Clients]
  BY DEF AlignedInv, MemoryInv, ExchangeTyped
<1>2. /\ client' = [client EXCEPT ![k] = IdleClient(client[k].call)] /\ server' = server
      /\ tainted' = IF client[k].pc = "exchange" THEN tainted \union {k} ELSE tainted
  BY <1>1 DEF FailCall, EndCall
<1>3. Elsewhere(k)
  BY <1>1, <1>2 DEF Elsewhere
<1>4. CASE client[k].pc = "exchange" \/ k \in tainted
  <2>1. k \in tainted' /\ tainted \subseteq tainted'
    BY <1>2, <1>4
  <2> QED  BY <1>3, <2>1, OneConnection
<1>5. CASE client[k].pc # "exchange" /\ k \notin tainted
  <2>1. up[k] = <<>> /\ down[k] = <<>> /\ Ready(server[k])
    BY <1>5, RestOf
  <2>2. client'[k] = IdleClient(client[k].call) /\ tainted' = tainted /\ up' = up
    BY <1>1, <1>2, <1>5
  <2>3. InStep(IdleClient(client[k].call), server[k], <<>>, <<>>)
    BY <2>1, AtRest DEF IdleClient
  <2>4. InStep(client'[k], server'[k], up'[k], down'[k])
    BY <1>2, <2>1, <2>2, <2>3
  <2> QED  BY <1>3, <2>2, <2>4, OneConnection
<1> QED  BY <1>4, <1>5

LEMMA StartCallAligned ==
    ASSUME AlignedInv, MemoryInv', NEW k \in Conns, StartCall(k) \/ SerializeInput(k)
    PROVE  AlignedInv'
<1>1. MemoryInv /\ client \in [Conns -> Clients] /\ client[k] \in Clients
  BY DEF AlignedInv, MemoryInv, ExchangeTyped
<1>2. /\ server' = server /\ up' = up /\ down' = down /\ tainted' = tainted /\ confused' = confused
      /\ client[k].pc # "exchange"
  BY DEF StartCall, SerializeInput, historyVars
<1>3. Elsewhere(k)
  <2>1. CASE StartCall(k)
    BY <1>1, <1>2, <2>1 DEF StartCall, Elsewhere
  <2>2. CASE SerializeInput(k)
    <3>1. \A j \in Conns \ {k} : client'[j] = client[j]
      BY <1>1, <2>2 DEF SerializeInput
    <3> QED  BY <1>2, <3>1 DEF Elsewhere
  <2> QED  BY <2>1, <2>2
<1>4. ASSUME k \notin tainted
      PROVE  InStep(client'[k], server'[k], up'[k], down'[k])
  <2>1. /\ up[k] = <<>> /\ down[k] = <<>> /\ Ready(server[k]) /\ client[k].got = {}
        /\ client[k].tx = "none" /\ client[k].rx = "none"
        /\ client[k].rsize = 0 /\ client[k].rleft = 0
    BY <1>2, <1>4, RestOf
  <2>2. /\ client'[k].tx \in {"none", "header"} /\ client'[k].rx \in {"none", "header"}
        /\ client'[k].got = {} /\ client'[k].rsize = 0 /\ client'[k].rleft = 0
        /\ client'[k].tx = "header" => client'[k].left = client'[k].size
    <3>1. CASE StartCall(k)
      <4>1. client'[k] = [client[k] EXCEPT !.pc = "reserve", !.call = @ + 1]
        BY <1>1, <3>1 DEF StartCall
      <4> QED  BY <1>1, <2>1, <4>1 DEF Clients
    <3>2. CASE SerializeInput(k)
      <4>1. PICK n \in Sizes :
              client' = [client EXCEPT ![k].pc = "exchange", ![k].tx = "header",
                                       ![k].rx = "header", ![k].size = n, ![k].left = n]
        BY <3>2 DEF SerializeInput
      <4>2. client'[k] = [client[k] EXCEPT !.pc = "exchange", !.tx = "header",
                                           !.rx = "header", !.size = n, !.left = n]
        BY <1>1, <4>1
      <4> QED  BY <1>1, <2>1, <4>2 DEF Clients
    <3> QED  BY <3>1, <3>2
  <2> QED  BY <1>2, <2>1, <2>2, AtRest
<1> QED  BY <1>2, <1>3, <1>4, OneConnection

LEMMA WriterAligned ==
    ASSUME AlignedInv, MemoryInv', NEW k \in Conns, WriteHeader(k) \/ WriteBody(k)
    PROVE  AlignedInv'
<1> DEFINE c == client[k]
           b == client'[k]
           h == server[k]
           u == up[k]
           d == down[k]
           m == IF client[k].tx = "header" THEN Header(client[k].call, client[k].size)
                ELSE Unit(client[k].call)
<1>1. /\ MemoryInv /\ client \in [Conns -> Clients] /\ up \in [Conns -> Streams] /\ c \in Clients
      /\ server' = server /\ down' = down /\ tainted' = tainted /\ confused' = confused
      /\ c.tx \in {"header", "body"} /\ Room(u) /\ u \in Streams
      /\ c.tx = "body" => c.left > 0
  BY DEF AlignedInv, MemoryInv, ExchangeTyped, WriteHeader, WriteBody, historyVars
<1>2. /\ Elsewhere(k) /\ up'[k] = Append(u, m)
      /\ c.tx = "header" => b = [c EXCEPT !.tx = "body"]
      /\ c.tx = "body" => b = [c EXCEPT !.left = @ - 1]
  <2>1. CASE WriteHeader(k)
    BY <1>1, <2>1 DEF WriteHeader, Elsewhere
  <2>2. CASE WriteBody(k)
    BY <1>1, <2>2 DEF WriteBody, Elsewhere
  <2> QED  BY <2>1, <2>2
<1>3. /\ b.tx = "body" /\ b.call = c.call /\ b.size = c.size /\ b.rx = c.rx /\ b.rsize = c.rsize
      /\ b.rleft = c.rleft /\ b.got = c.got /\ b.pc = c.pc
      /\ c.tx = "header" => b.left = c.left
      /\ c.tx = "body" => b.left = c.left - 1
  BY <1>1, <1>2 DEF Clients
<1>4. ASSUME k \notin tainted
      PROVE  InStep(b, h, up'[k], d)
  <2>1. InStep(c, h, u, d)
    BY <1>4 DEF AlignedInv
  <2>2. PICK n \in Nat \ {0} : Between(c, h, u, d, n)
    BY <2>1 DEF InStep
  <2>3. /\ c.size \in Nat /\ c.left \in Nat /\ c.left <= c.size /\ Len(u) \in Nat
        /\ Written(c) \in Nat /\ c.call \in Nat
    BY <1>1, Counts
  <2>4. /\ Written(b) = Written(c) + 1
        /\ Written(c) = 0 <=> c.tx = "header"
    <3>1. c.tx = "header" => c.left = c.size
      BY <2>1 DEF InStep
    <3> HIDE DEF b, c
    <3>2. Written(b) = 1 + c.size - b.left
      BY <1>3 DEF Written
    <3>3. Written(c) = IF c.tx = "body" THEN 1 + c.size - c.left ELSE 0
      BY <1>1 DEF Written
    <3> QED  BY <1>1, <1>3, <2>3, <3>1, <3>2, <3>3
  <2>5. m \in Messages
    <3>1. c.size \in 0..MaxBody
      BY <1>1 DEF Clients
    <3> QED  BY <2>3, <3>1, MessageParts
  <2>6. Len(u) <= Written(c) /\ Carries(u, Written(c) - Len(u), c.call, c.size)
    BY <2>2 DEF Between
  <2>7. Written(c) - Len(u) \in Nat /\ (Written(c) - Len(u)) + Len(u) = Written(c)
    BY <2>3, <2>6
  <2>8. m = IF (Written(c) - Len(u)) + Len(u) = 0 THEN Header(c.call, c.size) ELSE Unit(c.call)
    BY <2>4, <2>7
  <2> HIDE DEF b, c, m, h, u, d
  <2>9. /\ Carries(Append(u, m), Written(c) - Len(u), c.call, c.size)
        /\ Len(Append(u, m)) = Len(u) + 1
    BY <1>1, <2>5, <2>6, <2>7, <2>8, CarriesMore
  <2>10. Written(b) - Len(Append(u, m)) = Written(c) - Len(u) /\ Len(Append(u, m)) <= Written(b)
    BY <2>3, <2>4, <2>6, <2>9
  <2>11. Got(b) = Got(c)
    BY <1>3 DEF Got
  <2>12. Between(b, h, Append(u, m), d, n)
    BY <1>3, <2>2, <2>9, <2>10, <2>11 DEF Between
  <2> QED  BY <1>2, <1>3, <2>1, <2>12 DEF InStep
<1> QED  BY <1>1, <1>2, <1>4, OneConnection

LEMMA FlushAligned ==
    ASSUME AlignedInv, MemoryInv', NEW k \in Conns, FlushRequest(k)
    PROVE  AlignedInv'
<1> DEFINE c == client[k]
           b == [client[k] EXCEPT !.tx = "done"]
<1>1. /\ MemoryInv /\ client \in [Conns -> Clients] /\ c \in Clients
      /\ client' = [client EXCEPT ![k] = b] /\ c.tx = "body" /\ c.left = 0
      /\ server' = server /\ up' = up /\ down' = down /\ tainted' = tainted /\ confused' = confused
  BY DEF AlignedInv, MemoryInv, ExchangeTyped, FlushRequest, historyVars
<1>2. Elsewhere(k) /\ client'[k] = b
  BY <1>1 DEF Elsewhere
<1>3. /\ b.tx = "done" /\ b.call = c.call /\ b.size = c.size /\ b.left = 0 /\ b.rx = c.rx
      /\ b.rsize = c.rsize /\ b.rleft = c.rleft /\ b.got = c.got /\ b.pc = c.pc
  BY <1>1 DEF Clients
<1> HIDE DEF b
<1>4. Written(b) = Written(c) /\ Got(b) = Got(c)
  BY <1>1, <1>3 DEF Written, Got
<1>5. ASSUME k \notin tainted
      PROVE  InStep(b, server[k], up[k], down[k])
  <2>1. InStep(c, server[k], up[k], down[k])
    BY <1>5 DEF AlignedInv
  <2> HIDE DEF c
  <2> QED  BY <1>3, <1>4, <2>1 DEF InStep, Between
<1> QED  BY <1>1, <1>2, <1>5, OneConnection

LEMMA ReadLengthAligned ==
    ASSUME AlignedInv, MemoryInv', NEW k \in Conns, ReadLength(k)
    PROVE  AlignedInv'
<1> DEFINE c == client[k]
           h == server[k]
           u == up[k]
           d == down[k]
<1>1. /\ MemoryInv /\ client \in [Conns -> Clients] /\ down \in [Conns -> Streams] /\ c \in Clients
      /\ c.rx = "header" /\ c.pc = "exchange" /\ d # <<>> /\ d \in Streams
      /\ down' = [down EXCEPT ![k] = Tail(d)] /\ up' = up /\ server' = server
      /\ tainted \subseteq tainted'
  <2>1. MemoryInv /\ client \in [Conns -> Clients] /\ down \in [Conns -> Streams] /\ c \in Clients
    BY DEF AlignedInv, MemoryInv, ExchangeTyped
  <2>2. c.rx = "header" /\ d # <<>> /\ down' = [down EXCEPT ![k] = Tail(d)] /\ up' = up
    BY DEF ReadLength
  <2>3. c.pc = "exchange"
    BY <2>1, <2>2, Counts
  <2>4. server' = server /\ tainted \subseteq tainted'
    BY DEF ReadLength, FailCall, EndCall, historyVars
  <2> QED  BY <2>1, <2>2, <2>3, <2>4
<1>2. Elsewhere(k)
  BY <1>1 DEF ReadLength, FailCall, EndCall, Elsewhere
<1>3. CASE k \in tainted
  <2>1. confused' = confused
    BY <1>3 DEF ReadLength, Misread, historyVars
  <2> QED  BY <1>1, <1>2, <1>3, <2>1, OneConnection
<1>4. CASE k \notin tainted
  <2>1. InStep(c, h, u, d)
    BY <1>4 DEF AlignedInv
  <2>2. PICK n \in Nat \ {0} : Between(c, h, u, d, n)
    BY <2>1 DEF InStep
  <2>3. Got(c) = 0 /\ c.size \in Nat /\ c.call \in Nat /\ Len(d) \in Nat
    BY <1>1, Counts DEF Got
  <2>4. Carries(d, 0, c.call, n) /\ Got(c) + Len(d) <= 1 + n
    BY <2>2, <2>3 DEF Between
  <2>5. /\ Head(d) = Header(c.call, n) /\ Carries(Tail(d), 1, c.call, n)
        /\ Len(Tail(d)) = Len(d) - 1
    <3>1. 0 \in Nat /\ 0 + 1 = 1
      OBVIOUS
    <3> QED  BY <1>1, <2>4, <3>1, CarriesHead
  <2>6. Head(d).kind = "header" /\ Head(d).size = n
    BY <2>5 DEF Header
  <2> DEFINE b == [c EXCEPT !.rx = "body", !.rsize = n, !.rleft = n]
  <2>7. client'[k] = b /\ tainted' = tainted /\ confused' = confused
    BY <1>1, <2>6 DEF ReadLength, historyVars
  <2>8. /\ b.tx = c.tx /\ b.call = c.call /\ b.size = c.size /\ b.left = c.left /\ b.rx = "body"
        /\ b.rsize = n /\ b.rleft = n /\ b.got = c.got /\ b.pc = c.pc
    BY <1>1 DEF Clients
  <2> HIDE DEF b, c, h, u, d
  <2>9. Written(b) = Written(c) /\ Got(b) = 1
    BY <2>8 DEF Written, Got
  <2>10. Got(b) + Len(Tail(d)) = Got(c) + Len(d)
    BY <2>3, <2>5, <2>9
  <2>11. Between(b, h, u, Tail(d), n)
    BY <2>2, <2>5, <2>8, <2>9, <2>10 DEF Between
  <2>12. ~(n < n)
    OBVIOUS
  <2>13. InStep(b, h, u, Tail(d))
    BY <2>1, <2>8, <2>11, <2>12 DEF InStep
  <2>14. down'[k] = Tail(d) /\ up'[k] = u /\ server'[k] = h
    BY <1>1 DEF u, h
  <2> QED  BY <1>1, <1>2, <2>7, <2>13, <2>14, OneConnection
<1> QED  BY <1>3, <1>4

LEMMA ReadBodyAligned ==
    ASSUME AlignedInv, MemoryInv', NEW k \in Conns, ReadBody(k)
    PROVE  AlignedInv'
<1> DEFINE c == client[k]
           h == server[k]
           u == up[k]
           d == down[k]
           b == [client[k] EXCEPT !.rleft = @ - 1, !.got = @ \union {Head(down[k]).call}]
<1>1. /\ MemoryInv /\ client \in [Conns -> Clients] /\ down \in [Conns -> Streams] /\ c \in Clients
      /\ c.rx = "body" /\ c.rleft > 0 /\ d # <<>> /\ d \in Streams
      /\ client' = [client EXCEPT ![k] = b]
      /\ down' = [down EXCEPT ![k] = Tail(d)] /\ up' = up /\ server' = server
      /\ tainted' = tainted /\ confused' = confused
  BY DEF AlignedInv, MemoryInv, ExchangeTyped, ReadBody, historyVars
<1>2. Elsewhere(k) /\ client'[k] = b
  BY <1>1 DEF Elsewhere
<1>3. ASSUME k \notin tainted
      PROVE  InStep(b, h, u, Tail(d))
  <2>1. InStep(c, h, u, d)
    BY <1>3 DEF AlignedInv
  <2>2. PICK n \in Nat \ {0} : Between(c, h, u, d, n)
    BY <2>1 DEF InStep
  <2>3. /\ c.size \in Nat /\ c.call \in Nat /\ Len(d) \in Nat
        /\ c.rsize \in Nat /\ c.rleft \in Nat /\ c.rleft <= c.rsize /\ c.pc = "exchange"
    BY <1>1, Counts
  <2>4. Got(c) = 1 + c.rsize - c.rleft /\ Got(c) \in Nat /\ Got(c) # 0
    BY <1>1, <2>3 DEF Got
  <2>5. /\ Head(d) = Unit(c.call) /\ Carries(Tail(d), Got(c) + 1, c.call, n)
        /\ Len(Tail(d)) = Len(d) - 1
    <3>1. Carries(d, Got(c), c.call, n)
      BY <2>2 DEF Between
    <3> QED  BY <1>1, <2>4, <3>1, CarriesHead
  <2>6. /\ b.tx = c.tx /\ b.call = c.call /\ b.size = c.size /\ b.left = c.left /\ b.rx = "body"
        /\ b.rsize = c.rsize /\ b.rleft = c.rleft - 1 /\ b.pc = c.pc
        /\ b.got = c.got \union {c.call}
    BY <1>1, <2>5 DEF Clients, Unit
  <2> HIDE DEF b, c, h, u, d
  <2>7. Written(b) = Written(c) /\ Got(b) = Got(c) + 1
    <3>1. Got(b) = 1 + c.rsize - (c.rleft - 1)
      BY <2>6 DEF Got
    <3> QED  BY <2>3, <2>4, <2>6, <3>1 DEF Written
  <2>8. Got(b) + Len(Tail(d)) = Got(c) + Len(d)
    BY <2>3, <2>4, <2>5, <2>7
  <2>9. Between(b, h, u, Tail(d), n)
    BY <1>1, <2>2, <2>5, <2>6, <2>7, <2>8 DEF Between
  <2>10. b.got = {c.call}
    BY <2>1, <2>6 DEF InStep
  <2> QED  BY <2>1, <2>3, <2>6, <2>9, <2>10 DEF InStep
<1> QED  BY <1>1, <1>2, <1>3, OneConnection

LEMMA DecodeAligned ==
    ASSUME AlignedInv, MemoryInv', NEW k \in Conns, DecodeResult(k)
    PROVE  AlignedInv'
<1> DEFINE c == client[k]
           h == server[k]
           u == up[k]
           d == down[k]
           b == IdleClient(client[k].call)
<1>1. /\ MemoryInv /\ client \in [Conns -> Clients] /\ c \in Clients
      /\ c.tx = "done" /\ c.rx = "body" /\ c.rleft = 0
      /\ client' = [client EXCEPT ![k] = b]
      /\ down' = down /\ up' = up /\ server' = server /\ tainted \subseteq tainted'
  BY DEF AlignedInv, MemoryInv, ExchangeTyped, DecodeResult, FailCall, EndCall
<1>2. Elsewhere(k) /\ client'[k] = b
  BY <1>1 DEF Elsewhere
<1>3. CASE k \in tainted
  <2>1. confused' = confused
    BY <1>3 DEF DecodeResult, Misread
  <2> QED  BY <1>1, <1>2, <1>3, <2>1, OneConnection
<1>4. CASE k \notin tainted
  <2>1. InStep(c, h, u, d)
    BY <1>4 DEF AlignedInv
  <2>2. PICK n \in Nat \ {0} : Between(c, h, u, d, n)
    BY <2>1 DEF InStep
  <2>3. /\ c.size \in Nat /\ c.rsize = n /\ Len(d) \in Nat /\ Len(u) \in Nat
        /\ c.left = 0 /\ h.left \in Nat /\ u \in Streams /\ d \in Streams /\ h \in Servers
    <3>1. c.left = 0
      BY <1>1, <2>1 DEF InStep
    <3>2. c.rsize = n
      BY <1>1, <2>2 DEF Between
    <3> QED  BY <1>1, <3>1, <3>2, Counts
  <2>4. c.got = {c.call}
    <3>1. c.rleft < c.rsize
      BY <1>1, <2>3
    <3> QED  BY <2>1, <3>1 DEF InStep
  <2>5. confused' = confused
    BY <2>4 DEF DecodeResult
  <2> HIDE DEF b, c, h, u, d
  <2>6. Written(c) = 1 + c.size /\ Got(c) = 1 + n
    BY <1>1, <2>3 DEF Written, Got
  <2>7. /\ Len(u) <= 1 + c.size /\ (1 + n) + Len(d) <= 1 + n
        /\ Stage(c.call, c.size, h, (1 + c.size) - Len(u), (1 + n) + Len(d), n)
    BY <2>2, <2>6 DEF Between
  <2>8. Len(d) = 0 /\ (1 + n) + Len(d) = 1 + n
    BY <2>3, <2>7
  <2>9. (1 + c.size) - Len(u) = 1 + c.size /\ Ready(h)
    <3> DEFINE seen == (1 + c.size) - Len(u)
    <3>1. Stage(c.call, c.size, h, seen, 1 + n, n) /\ 1 + n > 0 /\ 1 + n # 0
      BY <2>7, <2>8
    <3>2. 1 + n = 1 + n - h.left => h.left = 0
      BY <2>3
    <3> HIDE DEF seen
    <3>3. seen = 1 + c.size /\ Ready(h)
      BY <3>1, <3>2 DEF Stage, Ready
    <3> QED  BY <3>3 DEF seen
  <2>10. Len(u) = 0
    BY <2>3, <2>9
  <2>11. u = <<>> /\ d = <<>>
    BY <2>3, <2>8, <2>10, EmptySeq, StreamParts
  <2>12. InStep(b, h, <<>>, <<>>)
    BY <2>9, AtRest DEF b, IdleClient
  <2>13. down'[k] = d /\ up'[k] = u /\ server'[k] = h
    BY <1>1 DEF u, h, d
  <2> QED  BY <1>1, <1>2, <2>5, <2>11, <2>12, <2>13, OneConnection
<1> QED  BY <1>3, <1>4

LEMMA EndingsAligned ==
    ASSUME AlignedInv, MemoryInv', NEW k \in Conns,
           SerializeInputFails(k) \/ TransportFails(k) \/ WriteTimeout(k) \/ ReadTimeout(k)
    PROVE  AlignedInv'
<1>1. MemoryInv /\ up \in [Conns -> Streams]
  BY DEF AlignedInv, MemoryInv, ExchangeTyped
<1>2. FailCall(k) /\ down' = down /\ confused' = confused
  BY DEF SerializeInputFails, TransportFails, WriteTimeout, ReadTimeout
<1>3. up' = up \/ (client[k].pc = "exchange" /\ \A j \in Conns \ {k} : up'[j] = up[j])
  <2>1. up' = up \/ WriteTimeout(k)
    BY DEF SerializeInputFails, TransportFails, ReadTimeout
  <2>2. CASE WriteTimeout(k)
    <3>1. \/ up' = up
          \/ client[k].tx = "header" /\ up' = [up EXCEPT ![k] = Append(@, Broken(client[k].call))]
      BY <2>2 DEF WriteTimeout
    <3>2. client[k].tx = "header" => client[k].pc = "exchange"
      BY <1>1, Counts
    <3> QED  BY <1>1, <3>1, <3>2
  <2> QED  BY <2>1, <2>2
<1> QED  BY <1>2, <1>3, FailCallAligned

(* A step of the handler which leaves what is known of the executor.       *)
LEMMA HandlerAligned ==
    ASSUME AlignedInv, MemoryInv', NEW k \in Conns, NEW h, Step(k, h),
           client' = client, tainted' = tainted, confused' = confused,
           \A j \in Conns \ {k} : up'[j] = up[j] /\ down'[j] = down[j],
           ASSUME NEW n \in Nat \ {0}, Between(client[k], server[k], up[k], down[k], n)
           PROVE  \E i \in Nat \ {0} : Between(client[k], h, up'[k], down'[k], i)
    PROVE  AlignedInv'
<1>1. server \in [Conns -> Servers]
  BY DEF AlignedInv, MemoryInv, ExchangeTyped
<1>2. Elsewhere(k) /\ server'[k] = h
  BY <1>1 DEF Elsewhere, Step
<1>3. ASSUME k \notin tainted
      PROVE  InStep(client'[k], server'[k], up'[k], down'[k])
  <2>1. InStep(client[k], server[k], up[k], down[k])
    BY <1>3 DEF AlignedInv
  <2>2. \E i \in Nat \ {0} : Between(client[k], h, up'[k], down'[k], i)
    BY <2>1 DEF InStep
  <2> QED  BY <1>2, <2>1, <2>2 DEF InStep
<1> QED  BY <1>2, <1>3, OneConnection

LEMMA ReadHeaderAligned ==
    ASSUME AlignedInv, MemoryInv', NEW k \in Conns, ReadHeader(k)
    PROVE  AlignedInv'
<1> DEFINE c == client[k]
           h == server[k]
           u == up[k]
           d == down[k]
<1>1. /\ MemoryInv /\ server \in [Conns -> Servers] /\ up \in [Conns -> Streams] /\ h \in Servers
      /\ h.pc = "header" /\ u # <<>> /\ u \in Streams
      /\ up' = [up EXCEPT ![k] = Tail(u)] /\ down' = down /\ client' = client /\ tainted' = tainted
  BY DEF AlignedInv, MemoryInv, ExchangeTyped, ReadHeader, Shut, historyVars
<1>2. PICK g : server' = [server EXCEPT ![k] = g]
  BY DEF ReadHeader, Shut, AdmitAction, DiscardAction, Step
<1>3. Elsewhere(k) /\ server'[k] = g /\ up'[k] = Tail(u)
  BY <1>1, <1>2 DEF Elsewhere
<1>4. CASE k \in tainted
  <2>1. confused' = confused
    BY <1>4 DEF ReadHeader, Misread, historyVars
  <2> QED  BY <1>1, <1>3, <1>4, <2>1, OneConnection
<1>5. CASE k \notin tainted
  <2>1. InStep(c, h, u, d)
    BY <1>5 DEF AlignedInv
  <2>2. PICK n \in Nat \ {0} : Between(c, h, u, d, n)
    BY <2>1 DEF InStep
  <2>3. /\ c.size \in Nat /\ Len(u) \in Nat /\ Len(d) \in Nat /\ h.left \in Nat /\ c.left \in Nat
        /\ Written(c) \in Nat /\ Got(c) \in Nat /\ c.left <= c.size
    BY <1>1, Counts
  <2>4. Len(u) > 0
    BY <1>1, EmptySeq, StreamParts
  <2>5. Written(c) <= 1 + c.size
    BY <2>3 DEF Written
  <2> HIDE DEF c, h, u, d
  <2>6. /\ Len(u) <= Written(c) /\ Carries(u, Written(c) - Len(u), c.call, c.size)
        /\ Stage(c.call, c.size, h, Written(c) - Len(u), Got(c) + Len(d), n)
    BY <2>2 DEF Between
  <2>7. Written(c) - Len(u) # 1 + c.size /\ Written(c) - Len(u) \in Nat
    BY <2>3, <2>4, <2>5, <2>6
  <2>8. Written(c) - Len(u) = 0 /\ Got(c) + Len(d) = 0
    BY <1>1, <2>6, <2>7 DEF Stage
  <2>9. /\ Head(u) = Header(c.call, c.size) /\ Carries(Tail(u), 1, c.call, c.size)
        /\ Len(Tail(u)) = Len(u) - 1
    <3>1. Carries(u, 0, c.call, c.size) /\ 0 \in Nat /\ 0 + 1 = 1
      BY <2>6, <2>8
    <3> QED  BY <1>1, <3>1, CarriesHead
  <2>10. Head(u).kind = "header" /\ Head(u).call = c.call /\ Head(u).size = c.size
    BY <2>9 DEF Header
  <2>11. (AdmitAction(k, Head(u)) \/ DiscardAction(k, Head(u))) /\ confused' = confused
    BY <2>10 DEF ReadHeader, historyVars, u
  <2>12. g.pc \in {"body", "discard"} /\ g.call = c.call /\ g.left = c.size
    <3> DEFINE a == [IdleServer EXCEPT !.pc = "body", !.call = Head(u).call,
                                       !.size = Head(u).size, !.left = Head(u).size]
               r == [IdleServer EXCEPT !.pc = "discard", !.call = Head(u).call, !.left = Head(u).size]
    <3>1. a.pc = "body" /\ a.call = c.call /\ a.left = c.size
          /\ r.pc = "discard" /\ r.call = c.call /\ r.left = c.size
      BY <2>10 DEF IdleServer
    <3>2. server'[k] = a \/ server'[k] = r
      <4> HIDE DEF a, r
      <4> QED  BY <1>1, <2>11 DEF AdmitAction, DiscardAction, Step, a, r
    <3> HIDE DEF a, r
    <3> QED  BY <1>3, <3>1, <3>2
  <2>13. Written(c) - Len(Tail(u)) = 1 /\ Len(Tail(u)) <= Written(c)
    <3> DEFINE w == Written(c)
               x == Len(u)
               y == Len(Tail(u))
    <3>1. w \in Nat /\ x \in Nat /\ w - x = 0 /\ y = x - 1
      BY <2>3, <2>8, <2>9
    <3> HIDE DEF w, x, y
    <3>2. w - y = 1 /\ y <= w
      BY <3>1
    <3> QED  BY <3>2 DEF w, y
  <2>14. Stage(c.call, c.size, g, 1, Got(c) + Len(d), n)
    <3>1. 1 = 1 + c.size - c.size /\ c.size <= c.size
      BY <2>3
    <3> QED  BY <2>8, <2>12, <3>1 DEF Stage
  <2>15. Between(c, g, Tail(u), d, n)
    BY <2>2, <2>9, <2>13, <2>14 DEF Between
  <2>16. InStep(c, g, Tail(u), d)
    BY <2>1, <2>15 DEF InStep
  <2>17. client'[k] = c /\ down'[k] = d
    BY <1>1 DEF c, d
  <2> QED  BY <1>1, <1>3, <2>11, <2>16, <2>17, OneConnection
<1> QED  BY <1>4, <1>5

LEMMA ReadInputAligned ==
    ASSUME AlignedInv, MemoryInv', NEW k \in Conns, ReadInput(k)
    PROVE  AlignedInv'
<1> DEFINE c == client[k]
           h == server[k]
           g == [server[k] EXCEPT !.left = @ - 1]
           u == up[k]
           d == down[k]
<1>1. /\ MemoryInv /\ up \in [Conns -> Streams] /\ h \in Servers
      /\ h.pc \in {"body", "discard"} /\ h.left > 0 /\ u # <<>> /\ u \in Streams
      /\ up' = [up EXCEPT ![k] = Tail(u)] /\ down' = down
      /\ client' = client /\ tainted' = tainted /\ confused' = confused /\ Step(k, g)
  BY DEF AlignedInv, MemoryInv, ExchangeTyped, ReadInput, historyVars
<1>2. ASSUME NEW n \in Nat \ {0}, Between(c, h, u, d, n)
      PROVE  Between(c, g, Tail(u), d, n)
  <2>1. /\ c.size \in Nat /\ Len(u) \in Nat /\ Len(d) \in Nat /\ h.left \in Nat
        /\ Written(c) \in Nat /\ Got(c) \in Nat
    BY <1>1, Counts
  <2>2. g.pc = h.pc /\ g.call = h.call /\ g.left = h.left - 1
    BY <1>1 DEF Servers
  <2> HIDE DEF c, h, u, d, g
  <2>3. /\ Len(u) <= Written(c) /\ Carries(u, Written(c) - Len(u), c.call, c.size)
        /\ Stage(c.call, c.size, h, Written(c) - Len(u), Got(c) + Len(d), n)
    BY <1>2 DEF Between
  <2>4. Written(c) - Len(u) \in Nat
    BY <2>1, <2>3
  <2>5. /\ Carries(Tail(u), (Written(c) - Len(u)) + 1, c.call, c.size)
        /\ Len(Tail(u)) = Len(u) - 1
    BY <1>1, <2>3, <2>4, CarriesHead
  <2>6. Written(c) - Len(Tail(u)) = (Written(c) - Len(u)) + 1 /\ Len(Tail(u)) <= Written(c)
    <3> DEFINE w == Written(c)
               x == Len(u)
               y == Len(Tail(u))
    <3>1. w \in Nat /\ x \in Nat /\ x <= w /\ y = x - 1
      BY <2>1, <2>3, <2>5
    <3> HIDE DEF w, x, y
    <3>2. w - y = (w - x) + 1 /\ y <= w
      BY <3>1
    <3> QED  BY <3>2 DEF w, x, y
  <2>7. /\ h.call = c.call /\ h.left <= c.size /\ Written(c) - Len(u) = 1 + c.size - h.left
        /\ Got(c) + Len(d) = 0
    BY <1>1, <2>3 DEF Stage
  <2>8. (Written(c) - Len(u)) + 1 = 1 + c.size - g.left /\ g.left <= c.size
    BY <1>1, <2>1, <2>2, <2>7
  <2>9. Stage(c.call, c.size, g, (Written(c) - Len(u)) + 1, Got(c) + Len(d), n)
    BY <1>1, <2>2, <2>7, <2>8 DEF Stage
  <2> QED  BY <1>2, <2>5, <2>6, <2>9 DEF Between
<1>3. \A j \in Conns \ {k} : up'[j] = up[j] /\ down'[j] = down[j]
  BY <1>1
<1>4. up'[k] = Tail(u) /\ down'[k] = d
  BY <1>1
<1>5. ASSUME NEW n \in Nat \ {0}, Between(client[k], server[k], up[k], down[k], n)
      PROVE  \E i \in Nat \ {0} : Between(client[k], g, up'[k], down'[k], i)
  BY <1>2, <1>4, <1>5
<1> HIDE DEF g
<1> QED  BY <1>1, <1>3, <1>5, HandlerAligned

LEMMA ResultAligned ==
    ASSUME AlignedInv, MemoryInv', NEW k \in Conns, StartResult(k) \/ SerializeResult(k)
    PROVE  AlignedInv'
<1> DEFINE c == client[k]
           h == server[k]
           u == up[k]
           d == down[k]
<1>1. /\ MemoryInv /\ h \in Servers /\ up' = up /\ down' = down
      /\ client' = client /\ tainted' = tainted /\ confused' = confused
  BY DEF AlignedInv, MemoryInv, ExchangeTyped, StartResult, SerializeResult, historyVars
<1>2. /\ c.size \in Nat /\ Len(u) \in Nat /\ Len(d) \in Nat /\ h.left \in Nat
      /\ Written(c) \in Nat /\ Got(c) \in Nat
  BY <1>1, Counts
<1>3. CASE StartResult(k)
  <2> DEFINE g == [server[k] EXCEPT !.pc = "reserve"]
  <2>1. Step(k, g) /\ h.pc \in {"body", "discard"} /\ h.left = 0
    BY <1>3 DEF StartResult
  <2>2. g.pc = "reserve" /\ g.call = h.call
    BY <1>1 DEF Servers
  <2>3. ASSUME NEW n \in Nat \ {0}, Between(c, h, u, d, n)
        PROVE  Between(c, g, u, d, n)
    <3> HIDE DEF c, h, u, d, g
    <3>1. Stage(c.call, c.size, h, Written(c) - Len(u), Got(c) + Len(d), n)
      BY <2>3 DEF Between
    <3>2. h.call = c.call /\ Written(c) - Len(u) = 1 + c.size - h.left /\ Got(c) + Len(d) = 0
      BY <2>1, <3>1 DEF Stage
    <3>3. Written(c) - Len(u) = 1 + c.size
      BY <1>2, <2>1, <3>2
    <3>4. Stage(c.call, c.size, g, Written(c) - Len(u), Got(c) + Len(d), n)
      BY <2>2, <3>2, <3>3 DEF Stage
    <3> QED  BY <2>3, <3>4 DEF Between
  <2> HIDE DEF g
  <2>4. ASSUME NEW n \in Nat \ {0}, Between(client[k], server[k], up[k], down[k], n)
        PROVE  \E i \in Nat \ {0} : Between(client[k], g, up'[k], down'[k], i)
    BY <1>1, <2>3, <2>4
  <2> QED  BY <1>1, <2>1, <2>4, HandlerAligned
<1>4. CASE SerializeResult(k)
  <2>1. PICK s \in Sizes : Step(k, [server[k] EXCEPT !.pc = "length", !.rsize = s, !.left = s])
    BY <1>4 DEF SerializeResult
  <2> DEFINE g == [server[k] EXCEPT !.pc = "length", !.rsize = s, !.left = s]
  <2>2. g.pc = "length" /\ g.call = h.call /\ g.rsize = s /\ g.left = s /\ h.pc = "reserve"
        /\ s \in Nat \ {0} /\ Step(k, g)
    BY <1>1, <1>4, <2>1, ExchangeAssumption DEF Servers, SerializeResult
  <2>3. ASSUME NEW n \in Nat \ {0}, Between(c, h, u, d, n)
        PROVE  Between(c, g, u, d, s)
    <3>1. d \in Streams
      BY <1>1, Counts
    <3> HIDE DEF c, h, u, d, g
    <3>2. Stage(c.call, c.size, h, Written(c) - Len(u), Got(c) + Len(d), n)
      BY <2>3 DEF Between
    <3>3. h.call = c.call /\ Written(c) - Len(u) = 1 + c.size /\ Got(c) + Len(d) = 0
      BY <2>2, <3>2 DEF Stage
    <3>4. Got(c) = 0 /\ Len(d) = 0
      BY <1>2, <3>3
    <3>5. d = <<>>
      BY <3>1, <3>4, EmptySeq, StreamParts
    <3>6. c.rx # "body"
      <4>1. c.rsize \in Nat /\ c.rleft \in Nat /\ c.rleft <= c.rsize
        BY <1>1, Counts DEF c
      <4> QED  BY <3>4, <4>1 DEF Got
    <3>7. Stage(c.call, c.size, g, Written(c) - Len(u), Got(c) + Len(d), s)
      BY <2>2, <3>3 DEF Stage
    <3>8. Got(c) + Len(d) <= 1 + s
      BY <2>2, <3>3
    <3> QED  BY <2>3, <3>5, <3>6, <3>7, <3>8, CarriesNothing DEF Between
  <2> HIDE DEF g
  <2>4. ASSUME NEW n \in Nat \ {0}, Between(client[k], server[k], up[k], down[k], n)
        PROVE  \E i \in Nat \ {0} : Between(client[k], g, up'[k], down'[k], i)
    BY <1>1, <2>2, <2>3, <2>4
  <2> QED  BY <1>1, <2>2, <2>4, HandlerAligned
<1> QED  BY <1>3, <1>4

LEMMA AnswererAligned ==
    ASSUME AlignedInv, MemoryInv', NEW k \in Conns, WriteLength(k) \/ WriteOutput(k)
    PROVE  AlignedInv'
<1> DEFINE c == client[k]
           h == server[k]
           u == up[k]
           d == down[k]
           m == IF h.pc = "length" THEN Header(h.call, h.rsize) ELSE Unit(h.call)
<1>1. /\ MemoryInv /\ h \in Servers /\ d \in Streams /\ up' = up /\ down \in [Conns -> Streams]
      /\ Room(d) /\ down' = [down EXCEPT ![k] = Append(d, m)]
      /\ client' = client /\ tainted' = tainted /\ confused' = confused
      /\ h.pc \in {"length", "output"} /\ (h.pc = "output" => h.left > 0)
  BY DEF AlignedInv, MemoryInv, ExchangeTyped, WriteLength, WriteOutput, historyVars
<1>2. /\ c.size \in Nat /\ Len(u) \in Nat /\ Len(d) \in Nat /\ h.left \in Nat
      /\ Written(c) \in Nat /\ Got(c) \in Nat /\ h.call \in Nat /\ h.rsize \in 0..MaxBody
      /\ c.rsize \in Nat /\ c.rleft \in Nat /\ c.rleft <= c.rsize
  <2>1. h.rsize \in 0..MaxBody
    BY <1>1 DEF Servers
  <2> QED  BY <1>1, <2>1, Counts
<1> DEFINE g == IF h.pc = "length" THEN [server[k] EXCEPT !.pc = "output"]
                ELSE [server[k] EXCEPT !.left = @ - 1]
<1>3. Step(k, g)
  BY DEF WriteLength, WriteOutput
<1>4. /\ g.pc = "output" /\ g.call = h.call /\ g.rsize = h.rsize
      /\ g.left = IF h.pc = "length" THEN h.left ELSE h.left - 1
  BY <1>1 DEF Servers
<1>5. m \in Messages
  BY <1>2, MessageParts
<1>6. ASSUME NEW n \in Nat \ {0}, Between(c, h, u, d, n)
      PROVE  Between(c, g, u, Append(d, m), n)
  <2> HIDE DEF g, c, h, u, d
  <2>1. /\ Got(c) + Len(d) <= 1 + n /\ Carries(d, Got(c), c.call, n)
        /\ Stage(c.call, c.size, h, Written(c) - Len(u), Got(c) + Len(d), n)
    BY <1>6 DEF Between
  <2>2. h.pc = "output" => h.left > 0
    BY <1>1
  <2>3. /\ h.call = c.call /\ h.rsize = n /\ Written(c) - Len(u) = 1 + c.size
        /\ h.left <= n /\ g.left <= n /\ g.left \in Nat
        /\ Got(c) + Len(d) = IF h.pc = "length" THEN 0 ELSE 1 + n - h.left
        /\ Got(c) + Len(d) + 1 = 1 + n - g.left
    <3>1. CASE h.pc = "length"
      <4>1. h.call = c.call /\ h.rsize = n /\ Written(c) - Len(u) = 1 + c.size
            /\ h.left = n /\ Got(c) + Len(d) = 0
        BY <2>1, <3>1 DEF Stage
      <4>2. g.left = n /\ n <= n /\ 0 + 1 = 1 + n - n
        BY <1>4, <3>1, <4>1
      <4> QED  BY <3>1, <4>1, <4>2
    <3>2. CASE h.pc = "output"
      <4>1. /\ h.call = c.call /\ h.rsize = n /\ Written(c) - Len(u) = 1 + c.size
            /\ h.left <= n /\ Got(c) + Len(d) = 1 + n - h.left
        <5>1. \/ Written(c) - Len(u) = 0 /\ Got(c) + Len(d) = 0 /\ h.left = 0
              \/ /\ h.call = c.call /\ h.rsize = n /\ h.left <= n
                 /\ Written(c) - Len(u) = 1 + c.size /\ Got(c) + Len(d) = 1 + n - h.left
          BY <2>1, <3>2 DEF Stage
        <5>2. h.left # 0
          BY <1>2, <2>2, <3>2
        <5> QED  BY <5>1, <5>2
      <4>2. g.left = h.left - 1
        BY <1>4, <3>2
      <4>3. g.left <= n /\ g.left \in Nat /\ Got(c) + Len(d) + 1 = 1 + n - g.left
        <5>1. ASSUME NEW x \in Nat, x > 0, x <= n
              PROVE  x - 1 <= n /\ x - 1 \in Nat /\ (1 + n - x) + 1 = 1 + n - (x - 1)
          BY <5>1
        <5>2. h.left \in Nat /\ h.left > 0 /\ h.left <= n
          BY <1>2, <2>2, <3>2, <4>1
        <5>3. Got(c) + Len(d) = 1 + n - h.left
          BY <4>1
        <5> QED  BY <4>2, <5>1, <5>2, <5>3
      <4> QED  BY <3>2, <4>1, <4>3
    <3> QED  BY <1>1, <3>1, <3>2
  <2>4. m = IF Got(c) + Len(d) = 0 THEN Header(c.call, n) ELSE Unit(c.call)
    <3>1. h.pc # "length" => Got(c) + Len(d) # 0
      BY <1>2, <2>3
    <3> QED  BY <2>3, <3>1
  <2> HIDE DEF m
  <2>5. /\ Carries(Append(d, m), Got(c), c.call, n)
        /\ Len(Append(d, m)) = Len(d) + 1
    BY <1>1, <1>2, <1>5, <2>1, <2>4, CarriesMore
  <2>6. Got(c) + Len(Append(d, m)) = Got(c) + Len(d) + 1 /\ Got(c) + Len(d) + 1 <= 1 + n
    BY <1>2, <2>3, <2>5
  <2>7. Stage(c.call, c.size, g, Written(c) - Len(u), Got(c) + Len(d) + 1, n)
    BY <1>4, <2>3 DEF Stage
  <2> QED  BY <1>6, <2>5, <2>6, <2>7 DEF Between
<1> HIDE DEF g, m
<1>7. ASSUME NEW n \in Nat \ {0}, Between(client[k], server[k], up[k], down[k], n)
      PROVE  \E i \in Nat \ {0} : Between(client[k], g, up'[k], down'[k], i)
  BY <1>1, <1>6, <1>7
<1>8. \A j \in Conns \ {k} : up'[j] = up[j] /\ down'[j] = down[j]
  BY <1>1
<1> QED  BY <1>1, <1>3, <1>7, <1>8, HandlerAligned

LEMMA HandlerEndsAligned ==
    ASSUME AlignedInv, MemoryInv', NEW k \in Conns, FinishResult(k) \/ HandlerFails(k)
    PROVE  AlignedInv'
<1> DEFINE c == client[k]
           h == server[k]
           u == up[k]
           d == down[k]
<1>1. /\ MemoryInv /\ h \in Servers /\ up' = up /\ down' = down
      /\ client' = client /\ tainted' = tainted /\ confused' = confused
  BY DEF AlignedInv, MemoryInv, ExchangeTyped, FinishResult, HandlerFails, Shut, historyVars
<1>2. /\ c.size \in Nat /\ Len(u) \in Nat /\ Len(d) \in Nat /\ h.left \in Nat
      /\ Written(c) \in Nat /\ Got(c) \in Nat
  BY <1>1, Counts
<1>3. CASE FinishResult(k)
  <2>1. Step(k, IdleServer) /\ h.pc = "output" /\ h.left = 0 /\ IdleServer.pc = "header"
    BY <1>3 DEF FinishResult, IdleServer
  <2>2. ASSUME NEW n \in Nat \ {0}, Between(c, h, u, d, n)
        PROVE  Between(c, IdleServer, u, d, n)
    <3> HIDE DEF c, h, u, d
    <3>1. Stage(c.call, c.size, h, Written(c) - Len(u), Got(c) + Len(d), n)
      BY <2>2 DEF Between
    <3>2. 1 + n - h.left = 1 + n
      BY <1>2, <2>1
    <3>3. Stage(c.call, c.size, IdleServer, Written(c) - Len(u), Got(c) + Len(d), n)
      BY <2>1, <3>1, <3>2 DEF Stage
    <3> QED  BY <2>2, <3>3 DEF Between
  <2>3. ASSUME NEW n \in Nat \ {0}, Between(client[k], server[k], up[k], down[k], n)
        PROVE  \E i \in Nat \ {0} : Between(client[k], IdleServer, up'[k], down'[k], i)
    BY <1>1, <2>2, <2>3
  <2> QED  BY <1>1, <2>1, <2>3, HandlerAligned
<1>4. CASE HandlerFails(k)
  <2> DEFINE f == [IdleServer EXCEPT !.pc = "closed"]
  <2>1. Step(k, f) /\ f.pc = "closed" /\ h.pc # "closed"
    BY <1>4 DEF HandlerFails, Shut, IdleServer
  <2> HIDE DEF f
  <2>2. ASSUME NEW n \in Nat \ {0}, Between(c, h, u, d, n)
        PROVE  Between(c, f, u, d, n)
    <3> HIDE DEF c, h, u, d
    <3>1. Stage(c.call, c.size, h, Written(c) - Len(u), Got(c) + Len(d), n)
      BY <2>2 DEF Between
    <3>2. ~(0 > 0)
      OBVIOUS
    <3>3. Stage(c.call, c.size, f, Written(c) - Len(u), Got(c) + Len(d), n)
      BY <2>1, <3>1, <3>2 DEF Stage
    <3> QED  BY <2>2, <3>3 DEF Between
  <2>3. ASSUME NEW n \in Nat \ {0}, Between(client[k], server[k], up[k], down[k], n)
        PROVE  \E i \in Nat \ {0} : Between(client[k], f, up'[k], down'[k], i)
    BY <1>1, <2>2, <2>3
  <2> QED  BY <1>1, <2>1, <2>3, HandlerAligned
<1> QED  BY <1>3, <1>4

LEMMA AlignedNext == AlignedInv /\ [ExchangeNext]_exchangeVars => AlignedInv'
<1> SUFFICES ASSUME AlignedInv, [ExchangeNext]_exchangeVars
             PROVE  AlignedInv'
  OBVIOUS
<1>1. MemoryInv'
  BY MemoryNext DEF AlignedInv
<1>2. CASE UNCHANGED exchangeVars
  BY <1>1, <1>2 DEF exchangeVars, AlignedInv, InStep, Between, Stage, Carries, Written, Got
<1>3. ASSUME NEW k \in Conns, NEW d \in Pools, NEW t \in {Request(k), Response(k)}, Admit(d, t)
      PROVE  AlignedInv'
  BY <1>1, <1>3
  DEF Admit, historyVars, AlignedInv, InStep, Between, Stage, Carries, Written, Got
<1>4. ASSUME NEW k \in Conns, Progress(k)
      PROVE  AlignedInv'
  BY <1>1, <1>3, <1>4, StartCallAligned, WriterAligned, FlushAligned, ReadLengthAligned,
     ReadBodyAligned, DecodeAligned, EndingsAligned, ReadHeaderAligned, ReadInputAligned,
     ResultAligned, AnswererAligned, HandlerEndsAligned
  DEF Progress
<1>5. ASSUME NEW k \in Conns,
             StartCall(k) \/ SerializeInputFails(k) \/ WriteTimeout(k) \/ ReadTimeout(k) \/ HandlerFails(k)
      PROVE  AlignedInv'
  BY <1>1, <1>5, StartCallAligned, EndingsAligned, HandlerEndsAligned
<1> QED  BY <1>2, <1>4, <1>5 DEF ExchangeNext

LEMMA AlignedInit == ExchangeInit => AlignedInv
<1> SUFFICES ASSUME ExchangeInit
             PROVE  AlignedInv
  OBVIOUS
<1>1. ASSUME NEW k \in Conns
      PROVE  InStep(client[k], server[k], up[k], down[k])
  <2>1. client[k] = IdleClient(0) /\ server[k] = IdleServer /\ up[k] = <<>> /\ down[k] = <<>>
    BY DEF ExchangeInit
  <2>2. InStep(IdleClient(0), IdleServer, <<>>, <<>>)
    BY AtRest DEF IdleClient, IdleServer, Ready
  <2> QED  BY <2>1, <2>2
<1> QED  BY <1>1, MemoryInit DEF AlignedInv, ExchangeInit

(* As long as no call on a connection failed in the middle, the executor   *)
(* and the handler agree where messages begin, and a result is the answer  *)
(* to the call it is returned for.                                         *)
THEOREM EndsAgree == ExchangeSpec => []Aligned
<1>1. AlignedInv => Aligned
  BY DEF AlignedInv, Aligned
<1> QED  BY <1>1, AlignedInit, AlignedNext, PTL DEF ExchangeSpec
=============================================================================
