----------------------------- MODULE MCPeerWake -----------------------------
(* PeerWake for TLC: the model values are in the configurations.           *)
EXTENDS PeerWake, TLC

CONSTANTS s1, s2, c1, c2, c3

Kinds == (c1 :> "wake") @@ (c2 :> "notify") @@ (c3 :> "tui")
Targets == [c \in Caller |-> s1]
=============================================================================
