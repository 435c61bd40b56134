------------------------ MODULE MCUserProfileService ------------------------
(***************************************************************************)
(* UserProfileService for TLC.  The sets are model values given in the     *)
(* .cfg files; handlers are interchangeable.                               *)
(***************************************************************************)
EXTENDS UserProfileService, TLC

Symmetry == Permutations(Handlers)

=============================================================================
