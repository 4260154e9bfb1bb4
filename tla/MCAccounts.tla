----------------------------- MODULE MCAccounts -----------------------------
(***************************************************************************)
(* One address and two requests at a time.                               *)
(***************************************************************************)
EXTENDS Accounts, TLC

CONSTANTS c1, c2, f1, f2, u1, p1

Symmetry == Permutations(Calls) \cup Permutations(RefreshIds)
=============================================================================
