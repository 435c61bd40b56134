---------------------------- MODULE StartupProofs ----------------------------
(***************************************************************************)
(* Theorems about Startup, for any environments and .env files.            *)
(***************************************************************************)
EXTENDS Startup, TLAPS

\* A preflight that passes vouches for what the constructors ask for: the two
\* settings a repository needs are present.
LEMMA PreflightImpliesConnect ==
  ASSUME NEW e, PreflightPasses(e)
  PROVE  CanConnect(e)
BY DEF PreflightPasses, Missing, CanConnect, Required

\* What is wired follows from the modules and the settings, step by step.
Wired ==
  /\ phase \in {"created", "loaded"} => built = {} /\ overrides = {}
  /\ phase = "accountsTried" =>
       /\ built = {r \in {"accounts"} : Builds(r)}
       /\ overrides = built
  /\ phase = "profileTried" =>
       /\ built = {r \in Repositories : Builds(r)}
       /\ overrides = built
  /\ phase \in {"imported", "serving", "exited"} =>
       overrides = {s \in Services : \A r \in Needs(s) : Builds(r)}
  /\ phase = "serving" => PreflightPasses(env)

StartInv == StartTypeOK /\ Wired /\ StubsOnlyForBrokenModules

LEMMA StartInitInv == StartInit => StartInv
<1> SUFFICES ASSUME StartInit PROVE StartInv
  OBVIOUS
<1> USE StartupAssumption
<1>1. StartTypeOK
  BY DEF StartInit, StartTypeOK, Services, Repositories
<1>2. Wired
  BY DEF StartInit, Wired
<1>3. StubsOnlyForBrokenModules
  BY DEF StartInit, StubsOnlyForBrokenModules
<1> QED BY <1>1, <1>2, <1>3 DEF StartInv

LEMMA NextType == StartTypeOK /\ [StartNext]_startVars => StartTypeOK'
<1> SUFFICES ASSUME StartTypeOK, [StartNext]_startVars PROVE StartTypeOK'
  OBVIOUS
<1> USE DEF StartTypeOK
<1>1. CASE LoadDotenv
  BY <1>1 DEF LoadDotenv, Configurations
<1>2. ASSUME NEW r \in Repositories, WireRepository(r) PROVE StartTypeOK'
  <2>1. phase' \in {"accountsTried", "profileTried"}
    BY <1>2 DEF WireRepository
  <2>2. built' \subseteq Repositories /\ overrides' \subseteq Services
    <3>1. CASE Builds(r)
      <4>1. built' = built \cup {r} /\ overrides' = overrides \cup {r}
        BY <1>2, <3>1 DEF WireRepository
      <4> QED BY <4>1 DEF Repositories, Services
    <3>2. CASE ~Builds(r)
      BY <1>2, <3>2 DEF WireRepository
    <3> QED BY <3>1, <3>2
  <2>3. UNCHANGED <<env, dotenv, broken, answers>>
    BY <1>2 DEF WireRepository
  <2> QED BY <2>1, <2>2, <2>3
<1>3. CASE WireStatements
  BY <1>3 DEF WireStatements, Services
<1>4. CASE Preflight
  BY <1>4 DEF Preflight
<1>5. ASSUME NEW s \in Services, Request(s) PROVE StartTypeOK'
  BY <1>5 DEF Request
<1>6. CASE Restart
  BY <1>6 DEF Restart
<1>7. CASE UNCHANGED startVars
  BY <1>7 DEF startVars
<1> QED BY <1>1, <1>2, <1>3, <1>4, <1>5, <1>6, <1>7 DEF StartNext, Boot

LEMMA NextWired == StartTypeOK /\ Wired /\ [StartNext]_startVars => Wired'
<1> SUFFICES ASSUME StartTypeOK, Wired, [StartNext]_startVars PROVE Wired'
  OBVIOUS
<1>1. CASE LoadDotenv
  BY <1>1 DEF LoadDotenv, Wired
<1>2. ASSUME NEW r \in Repositories, WireRepository(r) PROVE Wired'
  <2>1. Builds(r)' <=> Builds(r)
    BY <1>2 DEF WireRepository, Builds
  <2>2. CASE r = "accounts"
    BY <1>2, <2>1, <2>2 DEF WireRepository, Wired, Builds
  <2>3. CASE r = "profile"
    BY <1>2, <2>1, <2>3 DEF WireRepository, Wired, Builds, Repositories
  <2> QED BY <2>2, <2>3 DEF Repositories
<1>3. CASE WireStatements
  <2>1. /\ phase = "profileTried" /\ phase' = "imported"
        /\ built = {r \in Repositories : Builds(r)} /\ overrides = built
        /\ env' = env /\ broken' = broken
    BY <1>3 DEF WireStatements, Wired
  <2>2. \A r : Builds(r)' <=> Builds(r)
    BY <2>1 DEF Builds
  <2>3. overrides' = {s \in Services : \A r \in Needs(s) : Builds(r)}
    BY <1>3, <2>1 DEF WireStatements, Services, Repositories, Needs
  <2> QED BY <2>1, <2>2, <2>3 DEF Wired
<1>4. CASE Preflight
  BY <1>4 DEF Preflight, Wired, Builds
<1>5. ASSUME NEW s \in Services, Request(s) PROVE Wired'
  BY <1>5 DEF Request, Wired, Builds
<1>6. CASE Restart
  BY <1>6 DEF Restart, Wired
<1>7. CASE UNCHANGED startVars
  BY <1>7 DEF startVars, Wired, Builds
<1> QED BY <1>1, <1>2, <1>3, <1>4, <1>5, <1>6, <1>7 DEF StartNext, Boot

LEMMA NextStubs ==
  StartInv /\ [StartNext]_startVars => StubsOnlyForBrokenModules'
<1> SUFFICES ASSUME StartInv, [StartNext]_startVars PROVE StubsOnlyForBrokenModules'
  OBVIOUS
<1>1. ASSUME NEW s \in Services, Request(s) PROVE StubsOnlyForBrokenModules'
  <2>1. CanConnect(env)
    BY <1>1, PreflightImpliesConnect DEF Request, StartInv, Wired
  <2>2. s \in overrides <=> Needs(s) \cap broken = {}
    BY <1>1, <2>1 DEF Request, StartInv, Wired, Builds
  <2>3. answers \in [Services -> SUBSET {200, 503}] /\ broken' = broken
    BY <1>1 DEF Request, StartInv, StartTypeOK
  <2>4. answers' = [answers EXCEPT ![s] =
                      @ \cup {IF Needs(s) \cap broken = {} THEN 200 ELSE 503}]
    BY <1>1, <2>2 DEF Request
  <2> QED BY <2>3, <2>4 DEF StartInv, StubsOnlyForBrokenModules
<1>2. ASSUME answers' = answers, broken' = broken PROVE StubsOnlyForBrokenModules'
  BY <1>2 DEF StartInv, StubsOnlyForBrokenModules
<1>3. ASSUME NEW r \in Repositories, WireRepository(r)
      PROVE answers' = answers /\ broken' = broken
  BY <1>3 DEF WireRepository
<1> QED BY <1>1, <1>2, <1>3
        DEF StartNext, Boot, LoadDotenv, WireStatements, Preflight, Restart, startVars

LEMMA StartInvStep == StartInv /\ [StartNext]_startVars => StartInv'
BY NextType, NextWired, NextStubs DEF StartInv

\* A replica never answers "service unavailable" because of its settings, in any
\* environment and with any .env file (src/main.py, the routers' stubs).
THEOREM NoStubForSettings == StartSpec => []StubsOnlyForBrokenModules
<1> QED BY StartInitInv, StartInvStep, PTL DEF StartSpec, StartInv

\* Types of the state of a start (src/main.py), for any environments.
THEOREM StartTyped == StartSpec => []StartTypeOK
<1> QED BY StartInitInv, StartInvStep, PTL DEF StartSpec, StartInv

\* The preflight accepts exactly the well configured environments: its loops over
\* required and optional settings leave nothing out that WellConfigured asks for,
\* and ask for nothing else.
LEMMA PreflightMeansWellConfigured ==
  ASSUME NEW e \in Configurations
  PROVE  PreflightPasses(e) <=> WellConfigured(e)
<1>1. ASSUME NEW name \in Settings PROVE e[name] \in Values
  BY <1>1 DEF Configurations
<1>2. Missing(e) = {} /\ Invalid(e) = {} <=>
        /\ \A name \in {"COSMOS_ACCOUNT_URL", "AZURE_APP_CONFIG_ENDPOINT",
                         "AZURE_KEY_VAULT_URI"} : e[name] \in {"https", "httpsAcr"}
        /\ e["COSMOS_DB_NAME"] \notin {"unset", "empty", "blank"}
  BY DEF Missing, Invalid, Present, Meets, Required
<1>3. InvalidRegistries(e) = {} <=>
        \A name \in Optional : e[name] \notin {"blank", "https", "text"}
  <2>1. \A name \in Optional :
          Present(e[name]) /\ e[name] \notin {"acr", "httpsAcr"}
            <=> e[name] \in {"blank", "https", "text"}
    BY <1>1 DEF Present, Values, Settings
  <2> QED  BY <2>1 DEF InvalidRegistries
<1>4. PreflightPasses(e) <=> Missing(e) = {} /\ Invalid(e) = {} /\ InvalidRegistries(e) = {}
  BY DEF PreflightPasses
<1> QED  BY <1>2, <1>3, <1>4 DEF WellConfigured

\* How a start has ended agrees with the settings.
Judged ==
  /\ phase = "serving" => WellConfigured(env)
  /\ phase = "exited" => ~WellConfigured(env)

\* Only well configured replicas serve, and only others exit: the safety half of
\* StartsOrExits, for any environments, .env files and broken modules (the startup
\* hook of src/main.py).
THEOREM StartJudgesSettings == StartSpec => []Judged
<1>1. StartInit => Judged
  BY DEF StartInit, Judged
<1>2. StartTypeOK /\ Judged /\ [StartNext]_startVars => Judged'
  <2> SUFFICES ASSUME StartTypeOK, Judged, [StartNext]_startVars PROVE Judged'
    OBVIOUS
  <2>1. CASE Preflight
    <3>1. PreflightPasses(env) <=> WellConfigured(env)
      BY PreflightMeansWellConfigured DEF StartTypeOK
    <3> QED  BY <2>1, <3>1 DEF Preflight, Judged
  <2>2. CASE phase' \notin {"serving", "exited"}
    BY <2>2 DEF Judged
  <2>3. CASE phase' = phase /\ env' = env
    BY <2>3 DEF Judged
  <2>4. ASSUME NEW r \in Repositories, WireRepository(r)
        PROVE phase' \notin {"serving", "exited"}
    BY <2>4 DEF WireRepository
  <2> QED  BY <2>1, <2>2, <2>3, <2>4
           DEF StartNext, Boot, LoadDotenv, WireStatements, Restart, Request, startVars
<1> QED  BY <1>1, <1>2, StartTyped, PTL DEF StartSpec

=============================================================================
