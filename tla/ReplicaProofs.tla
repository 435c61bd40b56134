---------------------------- MODULE ReplicaProofs ----------------------------
(***************************************************************************)
(* What is proved of the start of a replica and of its event loop holds of *)
(* the two together: the composition takes no step that one of them could  *)
(* not take alone.                                                         *)
(***************************************************************************)
EXTENDS Replica, StartupProofs, ReplicaLoopProofs

LEMMA ReplicaStep == [ReplicaNext]_replicaVars => [StartNext]_startVars /\ [LoopNext]_loopVars
<1> SUFFICES ASSUME [ReplicaNext]_replicaVars
             PROVE  [StartNext]_startVars /\ [LoopNext]_loopVars
  OBVIOUS
<1>1. CASE Booting
  BY <1>1 DEF Booting, StartNext, LoopNext
<1>2. CASE Operating
  BY <1>2 DEF Operating, LoopNext
<1>3. CASE Requesting
  BY <1>3 DEF Requesting, StartNext
<1>4. CASE Restarting
  BY <1>4 DEF Restarting, StartNext, LoopNext
<1>5. CASE UNCHANGED replicaVars
  BY <1>5 DEF replicaVars
<1> QED  BY <1>1, <1>2, <1>3, <1>4, <1>5 DEF ReplicaNext

\* A replica in operation starts as Startup and runs as ReplicaLoop describes: the
\* preflight of main.py may delay the loop or end the process, but nothing that
\* happens later adds a behaviour to either.
THEOREM ReplicaComposes == ReplicaSpec => StartSpec /\ LoopSpec
<1>1. ReplicaInit => StartInit /\ LoopInit
  BY DEF ReplicaInit
<1> QED  BY <1>1, ReplicaStep, PTL DEF ReplicaSpec, StartSpec, LoopSpec

\* In operation, too, the stubs of the routers answer for broken modules only.
THEOREM ReplicaServesOrStubs == ReplicaSpec => []StubsOnlyForBrokenModules
  BY ReplicaComposes, NoStubForSettings, PTL

\* In operation, too, and after any number of restarts, the platform disturbs a
\* replica only after a mail has blocked its loop.
THEOREM ReplicaDisturbedOnlyByMail == ReplicaSpec => OnlyMailDisturbs
  BY ReplicaComposes, DisturbedOnlyByMail, PTL

\* And no request waits for the loop longer than two dialogues of every other one.
THEOREM ReplicaWaitIsBounded ==
  ASSUME IsFiniteSet(Slots)
  PROVE  ReplicaSpec => []WaitIsBounded
<1>1. LoopSpec => []WaitIsBounded
  BY LoopWaitIsBounded
<1> QED  BY <1>1, ReplicaComposes, PTL

\* The types of both halves, in operation and after any number of restarts.
THEOREM ReplicaTyped == ReplicaSpec => []ReplicaTypeOK
<1> QED  BY ReplicaComposes, StartTyped, LoopTyped, PTL DEF ReplicaTypeOK

\* The loop runs, or is being stopped, in a replica that has passed its preflight.
Admitted == mode # "starting" => phase = "serving" /\ WellConfigured(env)

LEMMA AdmittedStep ==
  ReplicaTypeOK /\ Judged' /\ Admitted /\ [ReplicaNext]_replicaVars => Admitted'
<1> SUFFICES ASSUME ReplicaTypeOK, Judged', Admitted, [ReplicaNext]_replicaVars
             PROVE  Admitted'
  OBVIOUS
<1>1. CASE Booting
  <2>1. phase \notin {"serving", "exited"}
    BY <1>1 DEF Booting, Boot, LoadDotenv, WireRepository, WireStatements, Preflight
  <2>2. mode = "starting"
    BY <2>1 DEF Admitted
  <2>3. mode' = "starting" \/ phase' = "serving"
    BY <1>1, <2>2 DEF Booting, loopVars
  <2> QED  BY <2>3 DEF Admitted, Judged
<1>2. CASE Operating
  <2>1. mode # "starting" \/ mode' = mode
    BY <1>2 DEF Operating, Operation, Tick, LoopStep, SmtpStep, Turn, RunToAwait,
                RunToAnswer, RunToMail, AnswerProbe, Exchange, Break, Quit, Resume,
                Arrive, SendProbe, FailProbe
  <2> QED  BY <1>2, <2>1 DEF Operating, Admitted, startVars
<1>3. CASE Requesting
  BY <1>3 DEF Requesting, Admitted, loopVars
<1>4. CASE Restarting
  BY <1>4 DEF Restarting, Stop, Admitted, loopVars
<1>5. CASE UNCHANGED replicaVars
  BY <1>5 DEF replicaVars, startVars, loopVars, Admitted
<1> QED  BY <1>1, <1>2, <1>3, <1>4, <1>5 DEF ReplicaNext

\* No probe, request or mail is served by a replica whose settings the preflight
\* would refuse, whatever restarts it has behind it.
THEOREM OperatesWellConfigured == ReplicaSpec => []Admitted
<1>1. ReplicaInit => Admitted
  BY DEF ReplicaInit, LoopInit, Admitted
<1> QED  BY <1>1, AdmittedStep, ReplicaTyped, ReplicaComposes, StartJudgesSettings, PTL
         DEF ReplicaSpec

=============================================================================
