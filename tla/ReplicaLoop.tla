----------------------------- MODULE ReplicaLoop -----------------------------
(***************************************************************************)
(* One replica in operation: the event loop of its only process, the       *)
(* platform's probes of GET /health (src/api/health.py, with the timings   *)
(* of infra/modules/container_app/main.tf) and the SMTP dialogue of the    *)
(* statement service, which is carried on by blocking calls inside a       *)
(* coroutine: while it lasts the loop serves nobody, the probes included.  *)
(*                                                                         *)
(* Time is counted in ticks; computing takes none of it.  Timings are      *)
(* constants, in ticks.                                                    *)
(***************************************************************************)
EXTENDS Integers, FiniteSets

CONSTANTS
  Slots,               \* slots for requests being served at the same time
  Null,                \* no slot
  MaxRequests,         \* bound: how many requests arrive in all
  MaxAwaits,           \* bound: how many Cosmos calls one request awaits
  Exchanges,           \* socket operations of one SMTP dialogue; the last is QUIT
  SmtpTimeout,         \* SMTP_TIMEOUT_SECONDS, per socket operation
  ProbeTimeout,        \* timeout of both probes
  LivenessInterval,    \* interval_seconds of the liveness probe
  ReadinessInterval,   \* interval_seconds of the readiness probe
  InitialDelay,        \* initial_delay of the liveness probe
  FailureThreshold     \* failure_count_threshold of both probes

ASSUME ReplicaAssumption ==
  /\ MaxRequests \in Nat /\ MaxAwaits \in Nat
  /\ Exchanges \in Nat \ {0, 1} /\ SmtpTimeout \in Nat
  /\ ProbeTimeout \in Nat \ {0} /\ FailureThreshold \in Nat \ {0}
  /\ LivenessInterval \in Nat /\ LivenessInterval > ProbeTimeout
  /\ ReadinessInterval \in Nat /\ ReadinessInterval > ProbeTimeout
  /\ InitialDelay \in Nat
  /\ Slots \cap {"liveness", "readiness"} = {} /\ Null \notin Slots

Probes == {"liveness", "readiness"}
Jobs == Slots \cup Probes

VARIABLES
  mode,      \* "starting", "serving" or "stopping"
  inRotation, \* the ingress sends requests to this replica
  arrived,    \* the number of requests so far
  stage,      \* what each request waits for
  kind,       \* whether it asks for a statement
  awaits,     \* how many more Cosmos calls it may await
  events,     \* jobs that became ready and wait for the next turn of the loop
  batch,      \* jobs of the present turn that have not run yet
  dialogue,   \* the blocking SMTP dialogue, if there is one
  probe,      \* both probes: ticks to the next one, age of the one under way, failures
  stall,      \* history variable: ticks in a row, up to ProbeTimeout, spent blocked
  waited      \* history variable: ticks each request has waited for the loop

loopVars == <<mode, inRotation, arrived, stage, kind, awaits, events, batch,
          dialogue, probe, stall, waited>>

requestVars == <<arrived, stage, kind, awaits>>
timeVars == <<stall, waited>>

-----------------------------------------------------------------------------
(* Helpers.                                                                *)

Interval(p) == IF p = "liveness" THEN LivenessInterval ELSE ReadinessInterval

\* No dialogue; and the dialogue of slot s at its n-th exchange, which has taken
\* `age` ticks so far.
NoDialogue == [slot |-> Null, exchange |-> 0, age |-> 0]
Dialogue(s, n) == [slot |-> s, exchange |-> n, age |-> 0]

Blocked == dialogue.exchange > 0

\* A probe that is not under way has age -1.
Idle == -1

FreshProbes ==
  [p \in Probes |-> [next |-> IF p = "liveness" THEN InitialDelay ELSE 0,
                     age |-> Idle, fails |-> 0]]

\* The request of slot s has its answer, good or bad; the slot is free.
Finish(s) ==
  /\ stage' = [stage EXCEPT ![s] = "idle"]
  /\ kind' = [kind EXCEPT ![s] = "other"]
  /\ awaits' = [awaits EXCEPT ![s] = 0]
  /\ waited' = [waited EXCEPT ![s] = 0]

-----------------------------------------------------------------------------
(* Requests and the event loop.                                            *)

LoopInit ==
  /\ mode = "starting" /\ inRotation = FALSE /\ arrived = 0
  /\ stage = [s \in Slots |-> "idle"]
  /\ kind = [s \in Slots |-> "other"]
  /\ awaits = [s \in Slots |-> 0]
  /\ events = {} /\ batch = {}
  /\ dialogue = NoDialogue
  /\ probe = FreshProbes
  /\ stall = 0 /\ waited = [s \in Slots |-> 0]

\* The process has imported the application and passed its preflight.
Start ==
  /\ mode = "starting"
  /\ mode' = "serving"
  /\ UNCHANGED <<inRotation, requestVars, events, batch, dialogue, probe, timeVars>>

\* The ingress hands a request to the replica.
Arrive(s, k) ==
  /\ mode = "serving" /\ inRotation /\ arrived < MaxRequests
  /\ stage[s] = "idle"
  /\ arrived' = arrived + 1
  /\ stage' = [stage EXCEPT ![s] = "runnable"]
  /\ kind' = [kind EXCEPT ![s] = k]
  /\ awaits' = [awaits EXCEPT ![s] = MaxAwaits]
  /\ events' = events \cup {s}
  /\ UNCHANGED <<mode, inRotation, batch, dialogue, probe, timeVars>>

\* The selector reports everything that became ready since the last turn.
Turn ==
  /\ ~Blocked /\ batch = {} /\ events # {}
  /\ batch' = events /\ events' = {}
  /\ UNCHANGED <<mode, inRotation, requestVars, dialogue, probe, timeVars>>

\* Mutant: a call is repeated without limit.
RunToAwaitAgain(s) ==
  /\ ~Blocked /\ s \in batch
  /\ batch' = batch \ {s}
  /\ waited' = [waited EXCEPT ![s] = 0]
  /\ stage' = [stage EXCEPT ![s] = "awaiting"]
  /\ UNCHANGED <<mode, inRotation, arrived, kind, awaits, events, dialogue, probe,
                 stall>>

\* A coroutine runs to its next await of a Cosmos call ...
RunToAwait(s) ==
  /\ ~Blocked /\ s \in batch /\ awaits[s] > 0
  /\ batch' = batch \ {s}
  /\ waited' = [waited EXCEPT ![s] = 0]
  /\ stage' = [stage EXCEPT ![s] = "awaiting"]
  /\ awaits' = [awaits EXCEPT ![s] = @ - 1]
  /\ UNCHANGED <<mode, inRotation, arrived, kind, events, dialogue, probe, stall>>

\* ... which ends, with a result or an error, when Cosmos DB or the SDK says so ...
Resume(s) ==
  /\ stage[s] = "awaiting"
  /\ stage' = [stage EXCEPT ![s] = "runnable"]
  /\ events' = events \cup {s}
  /\ UNCHANGED <<mode, inRotation, arrived, kind, awaits, batch, dialogue, probe,
                 timeVars>>

\* ... or to the end of its handler, with the answer or a refusal ...
RunToAnswer(s) ==
  /\ ~Blocked /\ s \in batch
  /\ batch' = batch \ {s}
  /\ Finish(s)
  /\ UNCHANGED <<mode, inRotation, arrived, events, dialogue, probe, stall>>

\* ... or, for a statement, into _send_email.
RunToMail(s) ==
  /\ ~Blocked /\ s \in batch /\ kind[s] = "statement"
  /\ batch' = batch \ {s}
  /\ waited' = [waited EXCEPT ![s] = 0]
  /\ stage' = [stage EXCEPT ![s] = "mailing"]
  /\ dialogue' = Dialogue(s, 1)
  /\ UNCHANGED <<mode, inRotation, arrived, kind, awaits, events, probe, stall>>

-----------------------------------------------------------------------------
(* The SMTP dialogue: connect, EHLO, STARTTLS, login, the envelope, the    *)
(* text, and QUIT on leaving the with statement.                           *)

\* The server answers in time.
Exchange ==
  /\ Blocked /\ dialogue.exchange < Exchanges
  /\ dialogue' = Dialogue(dialogue.slot, dialogue.exchange + 1)
  /\ UNCHANGED <<mode, inRotation, requestVars, events, batch, probe, timeVars>>

\* Mutant: the exception of a failed dialogue is swallowed.
BreakUnanswered ==
  /\ Blocked
  /\ dialogue' = NoDialogue
  /\ UNCHANGED <<mode, inRotation, requestVars, events, batch, probe, timeVars>>

\* The server refuses, hangs up or lets the timeout pass: RepositoryException.
Break ==
  /\ Blocked
  /\ Finish(dialogue.slot)
  /\ dialogue' = NoDialogue
  /\ UNCHANGED <<mode, inRotation, arrived, events, batch, probe, stall>>

\* QUIT is answered with 221, or not at all: __exit__ forgives a disconnection.
Quit ==
  /\ Blocked /\ dialogue.exchange = Exchanges
  /\ Finish(dialogue.slot)
  /\ dialogue' = NoDialogue
  /\ UNCHANGED <<mode, inRotation, arrived, events, batch, probe, stall>>

-----------------------------------------------------------------------------
(* The probes.                                                             *)

\* A probe is due.
SendProbe(p) ==
  /\ mode = "serving" /\ probe[p].next = 0 /\ probe[p].age = Idle
  /\ probe' = [probe EXCEPT ![p] = [@ EXCEPT !.next = Interval(p), !.age = 0]]
  /\ events' = events \cup {p}
  /\ UNCHANGED <<mode, inRotation, requestVars, batch, dialogue, timeVars>>

\* Mutant: the health check awaits a call of its own.
AnswerProbeLater(p) ==
  /\ ~Blocked /\ p \in batch
  /\ batch' = batch \ {p}
  /\ UNCHANGED <<mode, inRotation, requestVars, events, dialogue, probe, timeVars>>

\* Mutant: a success does not bring the replica back.
AnswerProbeOnly(p) ==
  /\ ~Blocked /\ p \in batch
  /\ batch' = batch \ {p}
  /\ probe' = [probe EXCEPT ![p] = [@ EXCEPT !.age = Idle, !.fails = 0]]
  /\ inRotation' = (inRotation \/ arrived = 0)
  /\ UNCHANGED <<mode, requestVars, events, dialogue, timeVars>>

\* health_check answers: the probe succeeds.
AnswerProbe(p) ==
  /\ ~Blocked /\ p \in batch
  /\ batch' = batch \ {p}
  /\ probe' = [probe EXCEPT ![p] = [@ EXCEPT !.age = Idle, !.fails = 0]]
  /\ inRotation' = (inRotation \/ p = "readiness")
  /\ UNCHANGED <<mode, requestVars, events, dialogue, timeVars>>

\* The probe gives up.  Enough failures in a row take the replica out of
\* rotation, or have it restarted.
FailProbe(p) ==
  /\ mode = "serving" /\ probe[p].age = ProbeTimeout
  /\ events' = events \ {p} /\ batch' = batch \ {p}
  /\ LET fails == (probe[p].fails + 1) % FailureThreshold
     IN  /\ probe' = [probe EXCEPT ![p] = [@ EXCEPT !.age = Idle, !.fails = fails]]
         /\ inRotation' = (inRotation /\ ~(p = "readiness" /\ fails = 0))
         /\ mode' = IF p = "liveness" /\ fails = 0 THEN "stopping" ELSE mode
  /\ UNCHANGED <<requestVars, dialogue, timeVars>>

\* The container is stopped within its grace period, whatever it is doing, and a
\* new one begins to start.  Requests under way are lost.
Stop ==
  /\ mode = "stopping"
  /\ mode' = "starting" /\ inRotation' = FALSE
  /\ stage' = [s \in Slots |-> "idle"]
  /\ awaits' = [s \in Slots |-> 0]
  /\ kind' = [s \in Slots |-> "other"]
  /\ events' = {} /\ batch' = {}
  /\ dialogue' = NoDialogue
  /\ probe' = FreshProbes
  /\ stall' = 0 /\ waited' = [s \in Slots |-> 0]
  /\ UNCHANGED arrived

-----------------------------------------------------------------------------
(* Time.                                                                   *)

\* Mutant: the timeout is not passed on to smtplib.
WaitsForSocketForever == Blocked

\* The blocking socket operation has not timed out yet.
WaitsForSocket == Blocked /\ dialogue.age < SmtpTimeout

\* A tick passes, once the loop has run what it could and whatever is due at
\* this moment has happened.
Tick ==
  /\ mode # "starting"
  /\ WaitsForSocket \/ (~Blocked /\ events \cup batch = {})
  /\ mode = "serving" =>
       \A p \in Probes : IF probe[p].age = Idle THEN probe[p].next > 0
                                              ELSE probe[p].age < ProbeTimeout
  /\ dialogue' = IF Blocked THEN [dialogue EXCEPT !.age = @ + 1] ELSE dialogue
  /\ probe' = IF mode # "serving" THEN probe
              ELSE [p \in Probes |->
                      [probe[p] EXCEPT !.next = IF @ = 0 THEN 0 ELSE @ - 1,
                                       !.age = IF @ = Idle THEN Idle ELSE @ + 1]]
  /\ stall' = IF ~Blocked THEN 0 ELSE IF stall < ProbeTimeout THEN stall + 1 ELSE stall
  /\ waited' = [s \in Slots |-> IF stage[s] = "runnable" THEN waited[s] + 1 ELSE waited[s]]
  /\ UNCHANGED <<mode, inRotation, requestVars, events, batch>>

LoopStep ==
  \/ Turn
  \/ \E s \in Slots : RunToAwait(s) \/ RunToAnswer(s) \/ RunToMail(s)
  \/ \E p \in Probes : AnswerProbe(p)

SmtpStep == Exchange \/ Break \/ Quit

\* What happens while the process runs.
Operation ==
  \/ Tick \/ LoopStep \/ SmtpStep
  \/ \E s \in Slots : Resume(s) \/ \E k \in {"statement", "other"} : Arrive(s, k)
  \/ \E p \in Probes : SendProbe(p) \/ FailProbe(p)

LoopNext == Start \/ Stop \/ Operation

LoopSpec == LoopInit /\ [][LoopNext]_loopVars

\* The loop runs what is ready, a Cosmos call ends by the SDK's retries and
\* timeouts, a socket operation by its timeout; time passes and the platform goes
\* on probing.
LoopFairness ==
  /\ WF_loopVars(LoopStep) /\ WF_loopVars(SmtpStep) /\ WF_loopVars(Tick)
  /\ \A s \in Slots : WF_loopVars(Resume(s))
  /\ \A p \in Probes : WF_loopVars(SendProbe(p))

\* A stop ends by its grace period, and a new container starts.
LoopFairSpec == LoopSpec /\ LoopFairness /\ WF_loopVars(Start \/ Stop)

-----------------------------------------------------------------------------
(* Properties.                                                             *)

ProbeStates ==
  [next: 0 .. LivenessInterval + ReadinessInterval + InitialDelay,
   age: Idle .. ProbeTimeout, fails: 0 .. FailureThreshold - 1]

\* Every variable holds values of the kind its code counterpart holds, and the
\* loop is blocked by exactly the request that sends a mail.
LoopTypeOK ==
  /\ mode \in {"starting", "serving", "stopping"} /\ inRotation \in BOOLEAN
  /\ arrived \in 0 .. MaxRequests
  /\ stage \in [Slots -> {"idle", "runnable", "awaiting", "mailing"}]
  /\ kind \in [Slots -> {"statement", "other"}]
  /\ awaits \in [Slots -> 0 .. MaxAwaits]
  /\ events \subseteq Jobs /\ batch \subseteq Jobs
  /\ dialogue \in [slot: Slots \cup {Null}, exchange: 0 .. Exchanges, age: 0 .. SmtpTimeout]
  /\ probe \in [Probes -> ProbeStates]
  /\ stall \in 0 .. ProbeTimeout /\ waited \in [Slots -> Nat]
  /\ \A s \in Slots : stage[s] = "mailing" <=> Blocked /\ dialogue.slot = s

\* The platform takes the replica out of rotation or restarts it only if a mail has
\* been on its way in every tick of the last probe's timeout: no number of other
\* requests, however long Cosmos DB takes for them, makes it do so.
OnlyMailDisturbs ==
  [][mode = "serving" /\ (mode' = "stopping" \/ (inRotation /\ ~inRotation'))
     => stall = ProbeTimeout]_loopVars

\* No request waits for the loop longer than it takes all the others to mail a
\* statement twice: once in the turn in which it became ready, once in its own.
WaitIsBounded ==
  \A s \in Slots :
    waited[s] <= 2 * (Cardinality(Slots) - 1) * Exchanges * SmtpTimeout

\* Every request is answered, or lost with the replica.
RequestsEnd == \A s \in Slots : stage[s] # "idle" ~> stage[s] = "idle"

\* A replica that has started and is out of rotation, or is restarted, comes back.
RotationReturns == mode # "starting" /\ ~inRotation ~> inRotation

=============================================================================
