--------------------------- MODULE MCClientSession ---------------------------
(***************************************************************************)
(* ClientSession for TLC: two slots for each slice.  No symmetry is        *)
(* declared, because the run checks liveness.                              *)
(***************************************************************************)
EXTENDS ClientSession

CONSTANTS mobile, address

\* Every profile has a mobile number; some have no address.
MCValues == [f \in {mobile, address} |-> IF f = mobile THEN {1, 2} ELSE {1, Absent}]

=============================================================================
