-------------------------- MODULE MCCommandSession --------------------------
(* One invocation of each of seven commands, under every request. *)
EXTENDS CommandSession

MCPrograms == {
    [steps |-> <<"err", "read", "err", "out">>, code |-> 0],
    [steps |-> <<"out", "out", "read", "read", "chat">>, code |-> 0],
    [steps |-> <<"daemon", "err", "err", "err">>, code |-> 1],
    [steps |-> <<"fork", "out", "err">>, code |-> 0],
    [steps |-> <<"err", "hang">>, code |-> 0],
    [steps |-> <<"err", "long">>, code |-> 0],
    [steps |-> <<"out", "err", "chat", "err", "out", "err">>, code |-> 0]}

=============================================================================
