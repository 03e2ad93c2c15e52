---------------------------- MODULE MCRpcExchange ----------------------------
(* One connection that calls twice, or two that call once, whose   *)
(* handlers admit them for one actor or for two.                           *)
EXTENDS RpcExchange, TLC

MCPlans == {("k1" :> 2) @@ ("k2" :> 0), ("k1" :> 1) @@ ("k2" :> 1)}
=============================================================================
