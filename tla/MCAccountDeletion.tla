--------------------------- MODULE MCAccountDeletion ---------------------------
(***************************************************************************)
(* Instances of AccountDeletion for TLC.                                    *)
(***************************************************************************)
EXTENDS AccountDeletion, TLC

\* Accounts, calls and processes of a kind are alike; messages are too, but which
\* free name a new one takes is fixed.
Symmetric ==
  Permutations(Users) \cup Permutations(Requests) \cup Permutations(Relays)
    \cup Permutations(Workers)
=============================================================================
