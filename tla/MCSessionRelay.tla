--------------------------- MODULE MCSessionRelay ---------------------------
(***************************************************************************)
(* SessionRelay for TLC: a device that connects twice, one instance.       *)
(***************************************************************************)
EXTENDS SessionRelay, TLC

CONSTANTS c1, c2, i1, s1

TwoConns == {c1, c2}
OneInstance == {i1}
OneHost == (c1 :> i1) @@ (c2 :> i1)
OneSession == {s1}
Interchangeable == Permutations(TwoConns)
=============================================================================
