------------------------- MODULE MCGracefulShutdown -------------------------
(***************************************************************************)
(* GracefulShutdown for TLC: two handlers of one device on one instance.   *)
(***************************************************************************)
EXTENDS GracefulShutdown, TLC

CONSTANTS c1, c2, i1

TwoConns == {c1, c2}
OneInstance == {i1}
OneHost == (c1 :> i1) @@ (c2 :> i1)
=============================================================================
