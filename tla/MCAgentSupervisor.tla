-------------------------- MODULE MCAgentSupervisor --------------------------
(* Three requests, one permit of each kind and one slot: permits and slots *)
(* run out, separately and together.                                       *)
EXTENDS AgentSupervisor
=============================================================================
