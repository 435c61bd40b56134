------------------------- MODULE MCStatementService -------------------------
(***************************************************************************)
(* StatementService for TLC.  Handlers, numbers, users and addresses are   *)
(* interchangeable.                                                        *)
(***************************************************************************)
EXTENDS StatementService, TLC

Symmetry ==
  Permutations(Handlers) \cup Permutations(Numbers) \cup Permutations(Users)
    \cup Permutations(Emails)

=============================================================================
