---------------------------- MODULE MCSubagents ----------------------------
(***************************************************************************)
(* Two agents; two dispatches share a key, one of them detached.           *)
(***************************************************************************)
EXTENDS Subagents, TLC

CONSTANTS i1, i2, i3, a1, a2, k1, k2, k3, k4

AgentsOf == (i1 :> a1) @@ (i2 :> a1) @@ (i3 :> a2)
KeysOf == (k1 :> i1) @@ (k2 :> i1) @@ (k3 :> i2) @@ (k4 :> i3)
=============================================================================
