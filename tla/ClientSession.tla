---------------------------- MODULE ClientSession ----------------------------
(***************************************************************************)
(* One browser session with both slices of the Redux store                 *)
(* (ui/src/store/index.ts).  Their thunks use the same API client and no   *)
(* common state: no reducer of one slice listens to a thunk of the other.  *)
(*                                                                         *)
(* Bound: of a session only the thunks of one slice are followed, so that  *)
(* the states of the slices add up instead of multiplying.                 *)
(***************************************************************************)
EXTENDS ClientStore, ProfileStore

sessionVars == <<vars, profileVars>>

SessionInit == Init /\ ProfileInit

\* The accounts are followed while the profile is out of use.
UseAccounts ==
  /\ Next
  /\ page = "other" /\ thunks = 0 /\ stored = NoProfile
  /\ UNCHANGED profileVars

\* The profile is followed while the accounts are out of use.
UseProfile ==
  /\ ProfileNext
  /\ dispatched = 0 /\ \A n \in Numbers : Newest(n) = 0
  /\ UNCHANGED vars

SessionNext == UseAccounts \/ UseProfile

\* Every pending thunk of either slice is settled by the client's timeout.
SessionSpec ==
  /\ SessionInit /\ [][SessionNext]_sessionVars
  /\ \A r \in Slots : WF_sessionVars((Settle(r) \/ GiveUp(r)) /\ UNCHANGED profileVars)
  /\ \A r \in Thunks : WF_sessionVars((Deliver(r) \/ TimeOut(r)) /\ UNCHANGED vars)

-----------------------------------------------------------------------------
(* Properties of both slices.                                              *)

\* Every variable holds values of the kind its code counterpart holds.
SessionTypeOK == TypeOK /\ ProfileTypeOK

\* The spinner of the account list, that of the profile, or the form being saved.
Spinning == loading \/ fetching \/ saving

\* Whatever answers, refusals and timeouts do, there comes a moment without any of
\* them.  In particular each of them ends.  The user pauses where the bounds are met.
SpinnersEnd == Spinning ~> ~Spinning

=============================================================================
