----------------------------- MODULE WorkOutcome -----------------------------
(***************************************************************************)
(* What the operation execution of the agent promises about each work item *)
(* (one step of one device operation): the command runs at most once, the  *)
(* hub records at most one verdict, a command never starts after the       *)
(* verdict, and the verdict "succeeded" is recorded only of a command that *)
(* ran.                                                                    *)
(***************************************************************************)
EXTENDS Naturals

CONSTANTS
    Works,    \* work items
    Statuses, \* verdicts
    Success,  \* the verdict of a command that ran and succeeded
    NoVerdict

VARIABLES
    started, \* how often the command of each work item was started
    verdict  \* what the hub recorded of each work item

Init ==
    /\ started = [w \in Works |-> 0]
    /\ verdict = [w \in Works |-> NoVerdict]

(* The command of w starts, for the only time. *)
Start(w) ==
    /\ started[w] = 0 /\ verdict[w] = NoVerdict
    /\ started' = [started EXCEPT ![w] = 1]
    /\ UNCHANGED verdict

(* The hub records the verdict on w, for the only time. *)
Record(w, s) ==
    /\ verdict[w] = NoVerdict
    /\ s = Success => started[w] > 0
    /\ verdict' = [verdict EXCEPT ![w] = s]
    /\ UNCHANGED started

Next == \E w \in Works : Start(w) \/ \E s \in Statuses : Record(w, s)

Spec == Init /\ [][Next]_<<started, verdict>>
==============================================================================
