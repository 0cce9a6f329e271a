--------------------------- MODULE MCRefreshRotation ---------------------------
(***************************************************************************)
(* Instances of RefreshRotation for TLC.                                    *)
(***************************************************************************)
EXTENDS RefreshRotation, TLC

\* Tokens are random and requests are alike.
Symmetric == Permutations(Tokens) \cup Permutations(Calls)
=============================================================================
