------------------------------ MODULE MCReplica ------------------------------
(***************************************************************************)
(* Replica for TLC: every combination of the required settings, with one   *)
(* registry setting, and no .env file or one for a developer's machine.    *)
(* The replica whose operation is explored is the deployed one.            *)
(***************************************************************************)
EXTENDS Replica, TLC

NoFile == [name \in Settings |-> "unset"]

DeveloperFile ==
  [name \in Settings |->
     CASE name = "COSMOS_DB_NAME" -> "text"
       [] name \in Required -> "https"
       [] OTHER -> "unset"]

GivenRequired == [Required -> {"unset", "empty", "blank", "https", "text"}]
GivenRegistry == [{"ACR_LOGIN_SERVER"} -> {"unset", "acr", "https"}]

MCEnvironments == {r @@ a @@ NoFile : r \in GivenRequired, a \in GivenRegistry}
MCDotEnvs == {NoFile, DeveloperFile}
MCTraffic == {<<DeveloperFile, NoFile>>}

=============================================================================
