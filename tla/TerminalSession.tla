--------------------------- MODULE TerminalSession ---------------------------
(***************************************************************************)
(* One terminal session of the agent (terminal.rs, terminal/child.rs): the *)
(* shell is forked onto a PTY, takes the requested user's credentials and  *)
(* is executed; the session relays between PTY and channel until the first *)
(* of four ends - shell, PTY, channel, cancellation - and then cleans up   *)
(* against its timers while the supervisor's grace period runs.            *)
(*                                                                         *)
(* Time passes in ticks.  The agent is prompt: no tick passes while one of *)
(* its timers or a cancellation is due.  The shell, a descendant in its    *)
(* process group, the hub and the relays take as long as they like.        *)
(***************************************************************************)
EXTENDS Naturals, Sequences

CONSTANTS DrainGrace,    \* PTY_DRAIN_GRACE
          TermGrace,     \* CHILD_TERMINATION_GRACE
          ShutdownGrace, \* TASK_SHUTDOWN_GRACE of the supervisor
          MaxOutput,     \* pieces of output the PTY carries
          MaxInput,      \* input frames of the hub
          WindowSize     \* frame parts the hub's window admits

\* 2 s, 5 s and 8 s: one termination fits in the shutdown grace, two do not.
ASSUME GraceAssumption ==
    /\ {DrainGrace, TermGrace, ShutdownGrace, MaxOutput, MaxInput} \subseteq Nat
    /\ DrainGrace < TermGrace /\ TermGrace < ShutdownGrace /\ WindowSize \in Nat \ {0}

VARIABLES
    stage,     \* where handle_terminal_session_with_cancellation stands
    after,     \* what follows terminate_terminal_child: "exit" frame or "closing"
    agent,     \* credentials of the agent process
    shell,     \* the forked child, with its credentials and exit status
    kin,       \* a descendant in the shell's process group
    pty,       \* [printed, unread]: output written to the PTY, and what is left of it
    input,     \* [sent, typed]: frames of the hub read so far, and those the shell has not
    hub,       \* "open"; "mute": its half ended or broke the framing; "gone": the channel did
    writing,   \* parts of the frame being written
    sent,      \* parts written to the channel, in order
    taken,     \* how many of them the hub has read
    timer,     \* ticks left of the session's running timer
    signalled, \* the task group's token
    grace,     \* ticks until the supervisor aborts the task
    outcome    \* how the session ended, "none" while it runs

wire == <<hub, writing, sent, taken>>
supervisor == <<signalled, grace>>
sessionVars == <<stage, after, agent, shell, kin, pty, input, wire, timer, supervisor, outcome>>

Root == [uid |-> "root", gid |-> "root", groups |-> {"root", "adm"}]
Target == [uid |-> "user", gid |-> "user", groups |-> {"user"}]
NoProcess == [state |-> "none", holds |-> FALSE, stubborn |-> FALSE, termed |-> FALSE]

SessionInit ==
    /\ stage = "starting" /\ after = "closing" /\ outcome = "none"
    /\ agent \in {Root, Target, [Target EXCEPT !.groups = {"user", "adm"}]}
    /\ shell = [proc |-> NoProcess, creds |-> agent, status |-> "none"]
    /\ kin = NoProcess
    /\ pty = [printed |-> 0, unread |-> <<>>] /\ input = [sent |-> 0, typed |-> 0]
    /\ hub = "open" /\ writing = <<>> /\ sent = <<>> /\ taken = 0
    /\ timer = 0 /\ signalled = FALSE /\ grace = ShutdownGrace

(***************************************************************************)
(* The child between forkpty and execve                                    *)
(***************************************************************************)
\* credential_mode: a root agent sets the credentials, any other must have them already.
Prepared == agent.uid = "root" \/ agent = Target

SetupSteps == <<"set_groups", "set_gid", "verify_gid", "set_uid", "verify_uid",
                "verify_groups", "chdir", "exec">>

\* Every call may fail; one that sets a credential may also succeed without effect.
Faults == {f \in [1..8 -> {"works", "fails", "lies"}] :
              \A k \in 1..8 : SetupSteps[k] \notin {"set_groups", "set_gid", "set_uid"} =>
                  f[k] # "lies"}

Setting(k, f) == agent.uid = "root" /\ f[k] = "works"
CredsAfter(f) == [groups |-> IF Setting(1, f) THEN Target.groups ELSE agent.groups,
                  gid |-> IF Setting(2, f) THEN Target.gid ELSE agent.gid,
                  uid |-> IF Setting(4, f) THEN Target.uid ELSE agent.uid]

(* Mutation: the supplementary groups are not compared. *)
VerifiedIds(k, creds) ==
    CASE SetupSteps[k] = "verify_gid" -> creds.gid = Target.gid
      [] SetupSteps[k] = "verify_uid" -> creds.uid = Target.uid
      [] OTHER -> TRUE

Verified(k, creds) ==
    CASE SetupSteps[k] = "verify_gid" -> creds.gid = Target.gid
      [] SetupSteps[k] = "verify_uid" -> creds.uid = Target.uid
      [] SetupSteps[k] = "verify_groups" -> creds.groups = Target.groups
      [] OTHER -> TRUE

\* In VerifyOnly mode the three setting steps are left out.
Passes(k, f) ==
    \/ SetupSteps[k] \in {"set_groups", "set_gid", "set_uid"} /\ agent.uid # "root"
    \/ f[k] # "fails" /\ Verified(k, CredsAfter(f))

\* configure_and_exec: the first step that does not pass ends the child (exit 120 to 127).
ChildSetup ==
    /\ shell.proc.state = "setup"
    /\ \E f \in Faults, stubborn \in BOOLEAN :
          shell' = IF \A k \in 1..8 : Passes(k, f)
                   THEN [shell EXCEPT !.proc.state = "alive", !.proc.stubborn = stubborn,
                                      !.creds = CredsAfter(f)]
                   ELSE [shell EXCEPT !.proc.state = "dead", !.status = "setup"]
    /\ UNCHANGED <<stage, after, agent, kin, pty, input, wire, timer, supervisor, outcome>>

(***************************************************************************)
(* The session's start                                                     *)
(***************************************************************************)
End(why) == stage' = "over" /\ outcome' = why

\* Cancelled already, user not allowed or unknown, or the child cannot be prepared: the
\* channel is dropped.
Refuse ==
    /\ stage = "starting" /\ End("refused")
    /\ UNCHANGED <<after, agent, shell, kin, pty, input, wire, timer, supervisor>>

Fork ==
    /\ stage = "starting" /\ ~signalled /\ Prepared /\ stage' = "relay"
    /\ shell' = [shell EXCEPT !.proc.state = "setup", !.proc.holds = TRUE]
    /\ UNCHANGED <<after, agent, kin, pty, input, wire, timer, supervisor, outcome>>

(***************************************************************************)
(* Signals                                                                 *)
(***************************************************************************)
Up(p) == p.state \in {"setup", "alive"}
Killed(p) == [p EXCEPT !.state = IF Up(p) THEN "dead" ELSE @]
Termed(p) == [p EXCEPT !.termed = @ \/ Up(p)]

KillGroup ==
    /\ kin' = Killed(kin)
    /\ shell' = [shell EXCEPT !.proc = Killed(@),
                              !.status = IF Up(shell.proc) THEN "kill" ELSE @]

\* terminate_terminal_child: SIGTERM to the group, with the relays dropped before.
Terminate(what) ==
    /\ stage' = "terminating" /\ after' = what /\ timer' = TermGrace /\ writing' = <<>>
    /\ kin' = Termed(kin) /\ shell' = [shell EXCEPT !.proc = Termed(@)]
    /\ UNCHANGED <<agent, pty, input, hub, sent, taken, supervisor, outcome>>

ParentSetupFails ==
    /\ stage = "relay" /\ writing = <<>> /\ sent = <<>> /\ input.sent = 0
    /\ Terminate("closing")

(***************************************************************************)
(* The relays                                                              *)
(***************************************************************************)
PtyEof == pty.unread = <<>> /\ ~\E p \in {shell.proc, kin} : p.holds /\ Up(p)

\* One piece of output becomes one data frame.
ReadPty ==
    /\ stage \in {"relay", "drain"} /\ writing = <<>> /\ pty.unread # <<>>
    /\ pty' = [pty EXCEPT !.unread = Tail(@)]
    /\ writing' = LET n == Head(pty.unread) IN <<<<"Data", n, "head">>, <<"Data", n, "body">>>>
    /\ UNCHANGED <<stage, after, agent, shell, kin, input, hub, sent, taken, timer,
                   supervisor, outcome>>

WritePart ==
    /\ writing # <<>> /\ hub # "gone" /\ Len(sent) - taken < WindowSize
    /\ sent' = Append(sent, Head(writing)) /\ writing' = Tail(writing)

WriteData ==
    /\ stage \in {"relay", "drain"} /\ WritePart
    /\ UNCHANGED <<stage, after, agent, shell, kin, pty, input, hub, taken, timer,
                   supervisor, outcome>>

\* The PTY takes one input frame; with the shell not reading, pty_write waits, and the
\* reader of the channel with it.
TypeInput ==
    /\ stage = "relay" /\ hub = "open" /\ input.sent < MaxInput /\ input.typed = 0
    /\ input' = [sent |-> input.sent + 1, typed |-> 1]
    /\ UNCHANGED <<stage, after, agent, shell, kin, pty, wire, timer, supervisor, outcome>>

(***************************************************************************)
(* The four ends                                                           *)
(***************************************************************************)
Cancelled == stage = "relay" /\ signalled /\ Terminate("closing")

\* Noticed only when the relay of the input is not busy with the PTY.
ChannelEnds == stage = "relay" /\ hub # "open" /\ input.typed = 0 /\ Terminate("closing")

PtyFails == stage = "relay" /\ writing # <<>> /\ hub = "gone" /\ Terminate("closing")

PtyEnds ==
    /\ stage = "relay" /\ PtyEof /\ writing = <<>>
    /\ stage' = "awaiting" /\ timer' = TermGrace
    /\ UNCHANGED <<after, agent, shell, kin, pty, input, wire, supervisor, outcome>>

Reaped == shell.proc.state = "dead" /\ shell' = [shell EXCEPT !.proc.state = "reaped"]

ShellEnds ==
    /\ stage = "relay" /\ Reaped /\ stage' = "drain" /\ timer' = DrainGrace
    /\ UNCHANGED <<after, agent, kin, pty, input, wire, supervisor, outcome>>

(***************************************************************************)
(* Clean-up                                                                *)
(***************************************************************************)
ExitFrame == << <<"Exit", shell.status, "head">>, <<"Exit", shell.status, "body">> >>

\* The killpg behind the match, for what the shell left behind; then the one status frame.
Report == stage' = "exit" /\ writing' = ExitFrame /\ kin' = Killed(kin)

Drained ==
    /\ stage = "drain" /\ PtyEof /\ writing = <<>> /\ Report
    /\ UNCHANGED <<after, agent, shell, pty, input, hub, sent, taken, timer, supervisor, outcome>>

(* Mutation: the status is reported although the output was not drained. *)
DrainFailsReporting ==
    /\ stage = "drain"
    /\ timer = 0 \/ (writing # <<>> /\ hub = "gone")
    /\ Report
    /\ UNCHANGED <<after, agent, shell, pty, input, hub, sent, taken, timer, supervisor, outcome>>

\* Both branches return without the killpg.
DrainFails ==
    /\ stage = "drain"
    /\ timer = 0 \/ (writing # <<>> /\ hub = "gone")
    /\ stage' = "closing" /\ outcome' = "undrained" /\ writing' = <<>>
    /\ UNCHANGED <<after, agent, shell, kin, pty, input, hub, sent, taken, timer, supervisor>>

AwaitedShell ==
    /\ stage = "awaiting" /\ Reaped /\ Report
    /\ UNCHANGED <<after, agent, pty, input, hub, sent, taken, timer, supervisor, outcome>>

AwaitTimesOut == stage = "awaiting" /\ timer = 0 /\ Terminate("exit")

\* What follows terminate_terminal_child.
Proceed == /\ stage' = after
           /\ writing' = IF after = "exit" THEN ExitFrame ELSE <<>>

(* Mutation: only the leader is waited for. *)
TerminatedLeader ==
    /\ stage = "terminating" /\ Reaped /\ Proceed
    /\ UNCHANGED <<after, agent, kin, pty, input, hub, sent, taken, timer, supervisor, outcome>>

Terminated ==
    /\ stage = "terminating" /\ Reaped /\ kin' = Killed(kin) /\ Proceed
    /\ UNCHANGED <<after, agent, pty, input, hub, sent, taken, timer, supervisor, outcome>>

TermTimesOut ==
    /\ stage = "terminating" /\ timer = 0
    /\ KillGroup /\ stage' = "killing"
    /\ UNCHANGED <<after, agent, pty, input, wire, timer, supervisor, outcome>>

KilledReaped ==
    /\ stage = "killing" /\ Reaped /\ Proceed
    /\ UNCHANGED <<after, agent, kin, pty, input, hub, sent, taken, timer, supervisor, outcome>>

WriteExit ==
    /\ stage = "exit"
    /\ \/ /\ WritePart /\ stage' = IF Len(writing) = 1 THEN "closing" ELSE stage
          /\ UNCHANGED <<hub, taken, outcome>>
       \/ hub = "gone" /\ End("unreported") /\ UNCHANGED wire
    /\ UNCHANGED <<after, agent, shell, kin, pty, input, timer, supervisor>>

Shutdown ==
    /\ stage = "closing" /\ End(IF outcome = "none" THEN "clean" ELSE outcome)
    /\ UNCHANGED <<after, agent, shell, kin, pty, input, wire, timer, supervisor>>

Session ==
    \/ Refuse \/ Fork \/ ParentSetupFails \/ ReadPty \/ WriteData \/ Cancelled \/ ChannelEnds
    \/ PtyFails \/ PtyEnds \/ ShellEnds \/ Drained \/ DrainFails \/ AwaitedShell
    \/ AwaitTimesOut \/ Terminated \/ TermTimesOut \/ KilledReaped \/ WriteExit \/ Shutdown

(***************************************************************************)
(* The environment                                                         *)
(***************************************************************************)
Prints ==
    /\ pty.printed < MaxOutput /\ \E p \in {shell.proc, kin} : p.state = "alive" /\ p.holds
    /\ pty' = [printed |-> pty.printed + 1, unread |-> Append(pty.unread, pty.printed + 1)]
    /\ UNCHANGED <<stage, after, agent, shell, kin, input, wire, timer, supervisor, outcome>>

ShellReads ==
    /\ shell.proc.state = "alive" /\ input.typed = 1 /\ input' = [input EXCEPT !.typed = 0]
    /\ UNCHANGED <<stage, after, agent, shell, kin, pty, wire, timer, supervisor, outcome>>

ShellForks ==
    /\ shell.proc.state = "alive" /\ kin.state = "none"
    /\ \E holds \in {shell.proc.holds, FALSE}, stubborn \in BOOLEAN :
          kin' = [NoProcess EXCEPT !.state = "alive", !.holds = holds, !.stubborn = stubborn]
    /\ UNCHANGED <<stage, after, agent, shell, pty, input, wire, timer, supervisor, outcome>>

\* It closes the PTY and goes on, exits, or obeys SIGTERM (or, behind the session, SIGHUP).
Obeys(p) == Up(p) /\ ~p.stubborn /\ (p.termed \/ stage = "over")
ShellMoves ==
    /\ \/ /\ shell.proc.state = "alive"
          /\ \/ shell' = [shell EXCEPT !.proc.holds = FALSE]
             \/ shell' = [shell EXCEPT !.proc.state = "dead", !.status = "ok"]
       \/ Obeys(shell.proc) /\ shell' = [shell EXCEPT !.proc.state = "dead", !.status = "term"]
    /\ UNCHANGED <<stage, after, agent, kin, pty, input, wire, timer, supervisor, outcome>>

KinMoves ==
    /\ kin.state = "alive"
    /\ kin' \in {[kin EXCEPT !.state = "dead"], [kin EXCEPT !.holds = FALSE]}
    /\ UNCHANGED <<stage, after, agent, shell, pty, input, wire, timer, supervisor, outcome>>

HubReads ==
    /\ hub # "gone" /\ taken < Len(sent) /\ taken' = taken + 1
    /\ UNCHANGED <<stage, after, agent, shell, kin, pty, input, hub, writing, sent, timer,
                   supervisor, outcome>>

HubEnds ==
    /\ hub' \in {"mute", "gone"} \ {hub} /\ hub # "gone"
    /\ UNCHANGED <<stage, after, agent, shell, kin, pty, input, writing, sent, taken, timer,
                   supervisor, outcome>>

CancelSession ==
    /\ ~signalled /\ signalled' = TRUE
    /\ UNCHANGED <<stage, after, agent, shell, kin, pty, input, wire, timer, grace, outcome>>

\* The event loop ends with the task group, and every channel with the connection.
ConnectionDrops ==
    /\ signalled /\ hub # "gone" /\ hub' = "gone"
    /\ UNCHANGED <<stage, after, agent, shell, kin, pty, input, writing, sent, taken, timer,
                   supervisor, outcome>>

\* shutdown_tasks: the task is dropped where it stands; nothing of the child is dropped with it.
AbortSession ==
    /\ signalled /\ grace = 0 /\ stage # "over" /\ End("aborted")
    /\ UNCHANGED <<after, agent, shell, kin, pty, input, wire, timer, supervisor>>

Prompt == Session \/ ConnectionDrops \/ AbortSession

\* What waits for nothing but the agent: an expired timer, the token in the relay's select,
\* the code between two awaits, and the wait for a process that was killed.
Due ==
    \/ stage \in {"starting", "killing", "closing"}
    \/ stage = "relay" /\ signalled
    \/ stage \in {"drain", "awaiting", "terminating"} /\ timer = 0

Tick ==
    /\ ~Due /\ (timer > 0 \/ (signalled /\ grace > 0))
    /\ timer' = IF stage \in {"drain", "awaiting", "terminating"} /\ timer > 0
                THEN timer - 1 ELSE 0
    /\ grace' = IF signalled /\ grace > 0 THEN grace - 1 ELSE grace
    /\ UNCHANGED <<stage, after, agent, shell, kin, pty, input, wire, signalled, outcome>>

Environment ==
    \/ ChildSetup \/ TypeInput \/ Prints \/ ShellReads \/ ShellForks \/ ShellMoves \/ KinMoves
    \/ HubReads \/ HubEnds \/ CancelSession

SessionNext == Prompt \/ Environment \/ Tick

SessionSpec == SessionInit /\ [][SessionNext]_sessionVars

(***************************************************************************)
(* Properties                                                              *)
(***************************************************************************)
\* Types, the window of the channel, and the timers.
SessionTypeOK ==
    /\ stage \in {"starting", "relay", "drain", "awaiting", "terminating", "killing", "exit",
                  "closing", "over"}
    /\ after \in {"exit", "closing"}
    /\ \A p \in {shell.proc, kin} : p.state \in {"none", "setup", "alive", "dead", "reaped"}
    /\ shell.status \in {"none", "setup", "ok", "term", "kill"}
    /\ pty.printed \in 0..MaxOutput /\ Len(pty.unread) <= pty.printed
    /\ input.sent \in 0..MaxInput /\ input.typed \in 0..1 /\ hub \in {"open", "mute", "gone"}
    /\ taken \in 0..Len(sent) /\ Len(sent) - taken <= WindowSize
    /\ timer \in 0..TermGrace /\ grace \in 0..ShutdownGrace

\* What the hub sees: whole frames with the output in order and nothing left out, and one
\* last frame with the status the reaped shell really had, sent only when everything the
\* terminal printed went before it.  A relay cut by a timer or an end of the session is
\* therefore never followed by a status frame.
HubStream ==
    \A i \in 1..Len(sent) :
        LET part == sent[i] IN
        /\ part[3] = IF i % 2 = 1 THEN "head" ELSE "body"
        /\ part[1] = "Data" => part[2] = (i + 1) \div 2
        /\ part[1] = "Exit" =>
              /\ (i + 1) \div 2 = pty.printed + 1
              /\ part[2] = shell.status /\ shell.proc.state = "reaped"

\* A finished session leaves no process of its group and no zombie, but in two cases: the
\* relay of the last output failed or ran into its timer, which returns without the killpg,
\* or the shell closed its terminal, was waited for, and the agent stopped meanwhile; the
\* second termination grace then exceeds the supervisor's.  A cancellation in any other
\* place leaves time to reap the shell.
LeavesNothing ==
    SessionTypeOK /\ (stage = "over" =>
        \/ ~Up(shell.proc) /\ ~Up(kin) /\ shell.proc.state # "dead"
        \/ outcome = "undrained" /\ shell.proc.state = "reaped"
        \/ outcome = "aborted" /\ after = "exit")

\* The shell runs with the credentials of the requested user and no others, whatever system
\* call fails or succeeds without effect, and whoever the agent runs as.
RunsAsUser == shell.proc.state = "alive" => shell.creds = Target

=============================================================================
