---------------------------- MODULE ProfileRecord ----------------------------
(***************************************************************************)
(* What PATCH /users/profile promises.  A profile is a set of fields that  *)
(* have a value.  A patch gives some fields a value, in one step, creates  *)
(* the profile if there is none, and leaves every other field alone; or it *)
(* fails and changes nothing.  UserProfileService implements this when the *)
(* patches of one user do not overlap.                                     *)
(***************************************************************************)
CONSTANTS
  Clients,    \* slots for patches being served at the same time
  Users,      \* JWT subjects, each of which owns at most one profile
  Patches,    \* the patches clients send: the user, and the fields supplied
  Null        \* the absence of a profile or of a patch

VARIABLES
  profiles,   \* the fields of every user's profile, Null before its creation
  pending     \* the patch each client waits for, or Null

recordVars == <<profiles, pending>>

\* The values given take the place of the old ones.
Override(old, given) ==
  [f \in DOMAIN old \cup DOMAIN given |->
     IF f \in DOMAIN given THEN given[f] ELSE old[f]]

-----------------------------------------------------------------------------

RecordInit ==
  /\ profiles = [u \in Users |-> Null]
  /\ pending = [h \in Clients |-> Null]

SubmitPatch(h) ==
  /\ pending[h] = Null
  /\ \E p \in Patches : pending' = [pending EXCEPT ![h] = p]
  /\ UNCHANGED profiles

ApplyPatch(h) ==
  /\ pending[h] # Null
  /\ profiles' = [profiles EXCEPT ![pending[h].user] =
                    IF @ = Null THEN pending[h].given
                    ELSE Override(@, pending[h].given)]
  /\ pending' = [pending EXCEPT ![h] = Null]

DropPatch(h) ==
  /\ pending[h] # Null
  /\ pending' = [pending EXCEPT ![h] = Null]
  /\ UNCHANGED profiles

RecordNext == \E h \in Clients : SubmitPatch(h) \/ ApplyPatch(h) \/ DropPatch(h)

RecordSpec == RecordInit /\ [][RecordNext]_recordVars

\* A field that has a value never loses it.
FieldsStay ==
  [][\A u \in Users :
       profiles[u] # Null => DOMAIN profiles[u] \subseteq DOMAIN profiles'[u]]_recordVars

=============================================================================
