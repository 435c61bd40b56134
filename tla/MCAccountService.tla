-------------------------- MODULE MCAccountService --------------------------
(***************************************************************************)
(* AccountService for TLC.  The sets are model values given in the .cfg    *)
(* files; handlers and account numbers are interchangeable.                *)
(***************************************************************************)
EXTENDS AccountService, TLC

Symmetry == Permutations(Handlers) \cup Permutations(Numbers)

=============================================================================
