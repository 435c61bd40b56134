------------------------------- MODULE Startup -------------------------------
(***************************************************************************)
(* The start of one replica (src/main.py): importing the module loads the  *)
(* .env file and wires the services that can be built, afterwards the      *)
(* startup hook checks the environment, and only then does the server      *)
(* accept requests.  The same settings are judged twice, by different      *)
(* rules: the repository constructors want them present, the preflight     *)
(* wants them well formed.  A container that exits is started again.       *)
(***************************************************************************)
EXTENDS FiniteSets

CONSTANTS
  Environments,   \* environments a container may be given
  DotEnvs         \* contents a .env file may have (all settings unset: no file)

VARIABLES
  env,        \* os.environ
  dotenv,     \* the .env file beside the sources
  broken,     \* the repository modules that cannot be imported
  phase,      \* how far the start has come
  built,      \* the repositories that have been constructed
  overrides,  \* the services in app.dependency_overrides
  answers     \* the statuses given to requests so far, per service

startVars == <<env, dotenv, broken, phase, built, overrides, answers>>

-----------------------------------------------------------------------------
(* Settings.                                                               *)

Required ==
  {"COSMOS_ACCOUNT_URL", "COSMOS_DB_NAME", "AZURE_APP_CONFIG_ENDPOINT",
   "AZURE_KEY_VAULT_URI"}

Optional == {"ACR_LOGIN_SERVER", "AZURE_ACR_LOGIN_SERVER", "CONTAINER_REGISTRY_URL"}

Settings == Required \cup Optional

\* What the checks can tell apart: a setting is unset, empty, only blanks, an
\* https:// URL, a name that ends in .azurecr.io, both of these, or other text.
Values == {"unset", "empty", "blank", "https", "acr", "httpsAcr", "text"}

Configurations == [Settings -> Values]

ASSUME StartupAssumption ==
  Environments \subseteq Configurations /\ DotEnvs \subseteq Configurations

\* Python's truth of os.environ.get(name, "").
Present(v) == v \notin {"unset", "empty"}

\* Mutant: the endpoints may be any text.
MeetsAnything(name, v) == name = "COSMOS_DB_NAME" => v # "blank"

\* The validators of _REQUIRED_IDENTITY_ENV_RULES.
Meets(name, v) ==
  IF name = "COSMOS_DB_NAME" THEN v # "blank" ELSE v \in {"https", "httpsAcr"}

Missing(e) == {name \in Required : ~Present(e[name])}

Invalid(e) == {name \in Required : Present(e[name]) /\ ~Meets(name, e[name])}

InvalidRegistries(e) ==
  {name \in Optional : Present(e[name]) /\ e[name] \notin {"acr", "httpsAcr"}}

\* Mutant: a missing setting is logged and forgotten.
PreflightOverlooksMissing(e) == Invalid(e) \cup InvalidRegistries(e) = {}

\* _validate_identity_runtime_configuration returns without raising.
PreflightPasses(e) == Missing(e) \cup Invalid(e) \cup InvalidRegistries(e) = {}

-----------------------------------------------------------------------------
(* Wiring.                                                                 *)

Services == {"accounts", "profile", "statements"}
Repositories == {"accounts", "profile"}

\* The constructor of either repository raises without these two settings.
CanConnect(e) == Present(e["COSMOS_ACCOUNT_URL"]) /\ Present(e["COSMOS_DB_NAME"])

\* The import of the repository module and its constructor both succeed;
\* ImportError and RepositoryException are swallowed.
Builds(repo) == repo \notin broken /\ CanConnect(env)

-----------------------------------------------------------------------------
(* Actions.                                                                *)

StartInit ==
  /\ env \in Environments /\ dotenv \in DotEnvs
  /\ broken \in SUBSET Repositories
  /\ phase = "created" /\ built = {} /\ overrides = {}
  /\ answers = [s \in Services |-> {}]

\* load_dotenv: the file gives values to variables that are not set at all.
LoadDotenv ==
  /\ phase = "created"
  /\ phase' = "loaded"
  /\ env' = [name \in Settings |->
               IF env[name] = "unset" THEN dotenv[name] ELSE env[name]]
  /\ UNCHANGED <<dotenv, broken, built, overrides, answers>>

\* The first two try blocks: a service whose repository can be built is wired.
WireRepository(repo) ==
  /\ phase = IF repo = "accounts" THEN "loaded" ELSE "accountsTried"
  /\ phase' = IF repo = "accounts" THEN "accountsTried" ELSE "profileTried"
  /\ IF Builds(repo)
     THEN built' = built \cup {repo} /\ overrides' = overrides \cup {repo}
     ELSE UNCHANGED <<built, overrides>>
  /\ UNCHANGED <<env, dotenv, broken, answers>>

\* The statement service needs both repositories.
WireStatements ==
  /\ phase = "profileTried"
  /\ phase' = "imported"
  /\ overrides' = (IF built = Repositories THEN overrides \cup {"statements"}
                                           ELSE overrides)
  /\ UNCHANGED <<env, dotenv, broken, built, answers>>

\* The startup hook: an exception ends the process before it serves.
Preflight ==
  /\ phase = "imported"
  /\ phase' = IF PreflightPasses(env) THEN "serving" ELSE "exited"
  /\ UNCHANGED <<env, dotenv, broken, built, overrides, answers>>

\* A request for a service: the stub of the router answers 503, the override
\* hands it to the service (whatever that answers, here 200).
Request(s) ==
  /\ phase = "serving"
  /\ answers' = [answers EXCEPT ![s] = @ \cup {IF s \in overrides THEN 200 ELSE 503}]
  /\ UNCHANGED <<env, dotenv, broken, phase, built, overrides>>

\* The platform starts the container again: after an exit, or for its own
\* reasons.  The new process reads the same files and sees the environment the
\* container was given, of which the unset variables were unset.
Restart ==
  /\ phase \in {"exited", "serving"}
  /\ phase' = "created" /\ built' = {} /\ overrides' = {}
  /\ UNCHANGED <<env, dotenv, broken, answers>>

Boot ==
  \/ LoadDotenv \/ WireStatements \/ Preflight
  \/ \E repo \in Repositories : WireRepository(repo)

StartNext == Boot \/ Restart \/ \E s \in Services : Request(s)

StartSpec == StartInit /\ [][StartNext]_startVars

\* Importing a module and running the startup hook take no outside help.
StartFairSpec == StartSpec /\ WF_startVars(Boot)

-----------------------------------------------------------------------------
(* Properties.                                                             *)

\* Every variable holds values of the kind its code counterpart holds.
StartTypeOK ==
  /\ env \in Configurations /\ dotenv \in Configurations
  /\ broken \subseteq Repositories /\ built \subseteq Repositories
  /\ overrides \subseteq Services
  /\ phase \in {"created", "loaded", "accountsTried", "profileTried", "imported",
                "serving", "exited"}
  /\ answers \in [Services -> SUBSET {200, 503}]

\* The repository modules a service is built from.
Needs(s) == IF s = "statements" THEN Repositories ELSE {s}

\* A stub's 503 ("service unavailable: COSMOS_ACCOUNT_URL and COSMOS_DB_NAME must
\* be set") is only ever given for a service with a module that could not be
\* imported, and such a service gives nothing else.  For missing settings it is
\* never given: whatever keeps a constructor from succeeding at import time keeps
\* the later preflight from passing, although the two apply different rules.
StubsOnlyForBrokenModules ==
  \A s \in Services :
    answers[s] \subseteq IF Needs(s) \cap broken = {} THEN {200} ELSE {503}

\* The settings the README's table describes, written without the code's loops.
WellConfigured(e) ==
  /\ \A name \in {"COSMOS_ACCOUNT_URL", "AZURE_APP_CONFIG_ENDPOINT", "AZURE_KEY_VAULT_URI"} :
       e[name] \in {"https", "httpsAcr"}
  /\ e["COSMOS_DB_NAME"] \notin {"unset", "empty", "blank"}
  /\ \A name \in Optional : e[name] \notin {"blank", "https", "text"}

\* Every start comes to an end, with modules missing or not: a well configured
\* replica serves, any other one exits.
StartsOrExits ==
  phase = "loaded" ~> phase = IF WellConfigured(env) THEN "serving" ELSE "exited"

=============================================================================
