---------------------------- MODULE MCPaidBooking ----------------------------
(***************************************************************************)
(* Instances of PaidBooking for TLC.  Time is counted in units of the      *)
(* shortest window; two start times one unit apart overlap when Duration   *)
(* is 2 and do not when it is 1.                                           *)
(***************************************************************************)
EXTENDS PaidBooking, TLC

\* The rows are alike, and so are the workers.
Symmetric == Permutations(Sessions) \cup Permutations(Sweepers)
=============================================================================
