-------------------------- MODULE ReplicaLoopProofs --------------------------
(***************************************************************************)
(* Theorems about ReplicaLoop, for any timings, any number of requests and *)
(* any length of the SMTP dialogue.                                        *)
(***************************************************************************)
EXTENDS ReplicaLoop, TLAPS, FiniteSetTheorems

\* A probe under way waits in the loop, and every tick of its age was blocked.
PendingProbes ==
  \A p \in Probes : probe[p].age # Idle => p \in events \cup batch /\ probe[p].age <= stall

LoopInv == LoopTypeOK /\ PendingProbes

-----------------------------------------------------------------------------
(* Typing of the parts that several actions share.                         *)

\* The link between the stages and the dialogue.
Mailing == \A s \in Slots : stage[s] = "mailing" <=> Blocked /\ dialogue.slot = s

Stages == {"idle", "runnable", "awaiting", "mailing"}

RequestTypes ==
  /\ arrived \in 0 .. MaxRequests
  /\ stage \in [Slots -> Stages]
  /\ kind \in [Slots -> {"statement", "other"}]
  /\ awaits \in [Slots -> 0 .. MaxAwaits]
  /\ waited \in [Slots -> Nat]

LoopTypes ==
  /\ mode \in {"starting", "serving", "stopping"} /\ inRotation \in BOOLEAN
  /\ events \subseteq Jobs /\ batch \subseteq Jobs

DialogueTypes ==
  dialogue \in [slot: Slots \cup {Null}, exchange: 0 .. Exchanges, age: 0 .. SmtpTimeout]

ProbeTypes == probe \in [Probes -> ProbeStates] /\ stall \in 0 .. ProbeTimeout

LEMMA TypeParts ==
  LoopTypeOK <=> RequestTypes /\ LoopTypes /\ DialogueTypes /\ ProbeTypes /\ Mailing
BY DEF LoopTypeOK, RequestTypes, LoopTypes, DialogueTypes, ProbeTypes, Mailing, Stages

\* How many ticks ahead a probe can be, and how old.
Horizon == LivenessInterval + ReadinessInterval + InitialDelay

LEMMA ProbeFields ==
  ASSUME NEW r \in ProbeStates
  PROVE  /\ r.next \in 0 .. Horizon /\ r.age \in Idle .. ProbeTimeout
         /\ r.fails \in 0 .. FailureThreshold - 1
BY DEF ProbeStates, Horizon

LEMMA ProbeRecord ==
  ASSUME NEW r \in ProbeStates, NEW n \in 0 .. Horizon, NEW a \in Idle .. ProbeTimeout,
         NEW k \in 0 .. FailureThreshold - 1
  PROVE  /\ [r EXCEPT !.next = n, !.age = a] \in ProbeStates
         /\ [r EXCEPT !.age = a, !.fails = k] \in ProbeStates
         /\ [r EXCEPT !.next = n, !.age = a].age = a
         /\ [r EXCEPT !.age = a, !.fails = k].age = a
<1>1. ASSUME NEW N, NEW A, NEW K, NEW u \in [next: N, age: A, fails: K],
             NEW n1 \in N, NEW a1 \in A, NEW k1 \in K
      PROVE  /\ [u EXCEPT !.next = n1, !.age = a1] \in [next: N, age: A, fails: K]
             /\ [u EXCEPT !.age = a1, !.fails = k1] \in [next: N, age: A, fails: K]
             /\ [u EXCEPT !.next = n1, !.age = a1].age = a1
             /\ [u EXCEPT !.age = a1, !.fails = k1].age = a1
  OBVIOUS
<1>2. ProbeStates = [next: 0 .. Horizon, age: Idle .. ProbeTimeout,
                     fails: 0 .. FailureThreshold - 1]
  BY DEF ProbeStates, Horizon
<1> QED BY <1>1, <1>2

LEMMA Bounds ==
  /\ 0 \in 0 .. Horizon /\ 0 \in Idle .. ProbeTimeout /\ Idle \in Idle .. ProbeTimeout
  /\ 0 \in 0 .. FailureThreshold - 1
  /\ \A p \in Probes : Interval(p) \in 0 .. Horizon
BY ReplicaAssumption DEF Horizon, Idle, Interval

LEMMA FreshTypes ==
  /\ FreshProbes \in [Probes -> ProbeStates]
  /\ \A p \in Probes : FreshProbes[p].age = Idle
<1>1. \A p \in Probes :
        /\ [next |-> IF p = "liveness" THEN InitialDelay ELSE 0,
            age |-> Idle, fails |-> 0] \in ProbeStates
        /\ FreshProbes[p].age = Idle
  BY ReplicaAssumption DEF FreshProbes, ProbeStates, Idle
<1> QED BY <1>1 DEF FreshProbes

LEMMA DialogueType ==
  /\ NoDialogue \in [slot: Slots \cup {Null}, exchange: 0 .. Exchanges, age: 0 .. SmtpTimeout]
  /\ \A s \in Slots \cup {Null}, n \in 0 .. Exchanges :
       Dialogue(s, n) \in [slot: Slots \cup {Null}, exchange: 0 .. Exchanges,
                           age: 0 .. SmtpTimeout]
BY ReplicaAssumption DEF NoDialogue, Dialogue

\* A request that ends keeps the types and, if it was the one that mailed, leaves
\* nobody mailing.
LEMMA FinishTypes ==
  ASSUME NEW s, RequestTypes, Finish(s), arrived' = arrived
  PROVE  /\ RequestTypes'
         /\ \A t \in Slots : stage'[t] = IF t = s THEN "idle" ELSE stage[t]
<1>1. \A t \in Slots : stage'[t] = IF t = s THEN "idle" ELSE stage[t]
  BY DEF RequestTypes, Finish
<1>2. stage' \in [Slots -> Stages]
  BY DEF RequestTypes, Finish, Stages
<1>3. kind' \in [Slots -> {"statement", "other"}]
  BY DEF RequestTypes, Finish
<1>4. 0 \in 0 .. MaxAwaits
  BY ReplicaAssumption
<1>5. awaits' \in [Slots -> 0 .. MaxAwaits]
  BY <1>4 DEF RequestTypes, Finish
<1>6. waited' \in [Slots -> Nat]
  BY DEF RequestTypes, Finish
<1> QED BY <1>1, <1>2, <1>3, <1>5, <1>6 DEF RequestTypes

LEMMA LoopInitInv == LoopInit => LoopInv
<1> SUFFICES ASSUME LoopInit PROVE LoopInv
  OBVIOUS
<1> USE ReplicaAssumption DEF LoopInit
<1>1. RequestTypes
  BY DEF RequestTypes, Stages
<1>2. LoopTypes
  BY DEF LoopTypes
<1>3. DialogueTypes
  BY DialogueType DEF DialogueTypes
<1>4. ProbeTypes
  BY FreshTypes DEF ProbeTypes
<1>5. Mailing
  BY DEF Mailing, Blocked, NoDialogue
<1>6. PendingProbes
  BY FreshTypes DEF PendingProbes
<1> QED BY <1>1, <1>2, <1>3, <1>4, <1>5, <1>6, TypeParts DEF LoopInv

-----------------------------------------------------------------------------
(* The steps, part by part.                                                *)

LEMMA RequestTypesStep == LoopTypeOK /\ [LoopNext]_loopVars => RequestTypes'
<1> SUFFICES ASSUME RequestTypes, DialogueTypes, [LoopNext]_loopVars PROVE RequestTypes'
  BY TypeParts
<1> USE DEF RequestTypes, Stages
<1>1. ASSUME NEW s \in Slots, NEW k \in {"statement", "other"}, Arrive(s, k)
      PROVE  RequestTypes'
  BY <1>1, ReplicaAssumption DEF Arrive, timeVars
<1>2. ASSUME NEW s \in Slots, RunToAwait(s) PROVE RequestTypes'
  <2>1. awaits[s] - 1 \in 0 .. MaxAwaits
    BY <1>2, ReplicaAssumption DEF RunToAwait
  <2> QED BY <1>2, <2>1 DEF RunToAwait
<1>3. ASSUME NEW s \in Slots, Resume(s) PROVE RequestTypes'
  BY <1>3 DEF Resume, timeVars
<1>4. ASSUME NEW s \in Slots, RunToAnswer(s) PROVE RequestTypes'
  BY <1>4, FinishTypes DEF RunToAnswer
<1>5. ASSUME NEW s \in Slots, RunToMail(s) PROVE RequestTypes'
  BY <1>5 DEF RunToMail
<1>6. CASE Break \/ Quit
  BY <1>6, FinishTypes DEF Break, Quit
<1>7. CASE Stop
  BY <1>7, ReplicaAssumption DEF Stop
<1>8. CASE Tick
  <2>1. waited' = [s \in Slots |-> IF stage[s] = "runnable" THEN waited[s] + 1
                                                         ELSE waited[s]]
    BY <1>8 DEF Tick, WaitsForSocket
  <2>2. waited' \in [Slots -> Nat]
    BY <2>1
  <2>3. UNCHANGED requestVars
    BY <1>8 DEF Tick, WaitsForSocket
  <2> QED BY <2>2, <2>3 DEF requestVars
<1>9. CASE UNCHANGED <<requestVars, waited>>
  BY <1>9 DEF requestVars
<1>10. ASSUME NEW p \in Probes, SendProbe(p) \/ FailProbe(p) \/ AnswerProbe(p)
       PROVE  UNCHANGED <<requestVars, waited>>
  BY <1>10 DEF SendProbe, FailProbe, AnswerProbe, timeVars
<1>11. ASSUME Start \/ Turn \/ Exchange \/ UNCHANGED loopVars
       PROVE  UNCHANGED <<requestVars, waited>>
  BY <1>11 DEF Start, Turn, Exchange, timeVars, loopVars, requestVars
<1> QED BY <1>1, <1>2, <1>3, <1>4, <1>5, <1>6, <1>7, <1>8, <1>9, <1>10, <1>11
        DEF LoopNext, Operation, LoopStep, SmtpStep

LEMMA LoopTypesStep == LoopTypeOK /\ [LoopNext]_loopVars => LoopTypes'
<1> SUFFICES ASSUME LoopTypes, [LoopNext]_loopVars PROVE LoopTypes'
  BY TypeParts
<1> USE DEF LoopTypes, Jobs
<1>1. ASSUME NEW s \in Slots, NEW k \in {"statement", "other"}, Arrive(s, k)
      PROVE  LoopTypes'
  BY <1>1 DEF Arrive
<1>2. ASSUME NEW s \in Slots, RunToAwait(s) \/ RunToAnswer(s) \/ RunToMail(s) \/ Resume(s)
      PROVE  LoopTypes'
  BY <1>2 DEF RunToAwait, RunToAnswer, RunToMail, Resume
<1>3. ASSUME NEW p \in Probes, SendProbe(p) \/ AnswerProbe(p) PROVE LoopTypes'
  BY <1>3 DEF SendProbe, AnswerProbe
<1>4. ASSUME NEW p \in Probes, FailProbe(p) PROVE LoopTypes'
  BY <1>4 DEF FailProbe
<1>5. CASE Start \/ Stop \/ Turn
  BY <1>5 DEF Start, Stop, Turn
<1>6. CASE Tick \/ SmtpStep \/ UNCHANGED loopVars
  BY <1>6 DEF Tick, WaitsForSocket, SmtpStep, Exchange, Break, Quit, loopVars
<1> QED BY <1>1, <1>2, <1>3, <1>4, <1>5, <1>6 DEF LoopNext, Operation, LoopStep

LEMMA DialogueTypesStep == LoopTypeOK /\ [LoopNext]_loopVars => DialogueTypes'
<1> SUFFICES ASSUME DialogueTypes, [LoopNext]_loopVars PROVE DialogueTypes'
  BY TypeParts
<1> USE DEF DialogueTypes
<1>1. ASSUME NEW s \in Slots, RunToMail(s) PROVE DialogueTypes'
  <2>1. 1 \in 0 .. Exchanges
    BY ReplicaAssumption
  <2> QED BY <1>1, <2>1, DialogueType DEF RunToMail
<1>2. CASE Exchange
  <2>1. dialogue.exchange + 1 \in 0 .. Exchanges
    BY <1>2, ReplicaAssumption DEF Exchange
  <2> QED BY <1>2, <2>1, DialogueType DEF Exchange
<1>3. CASE Break \/ Quit \/ Stop
  BY <1>3, DialogueType DEF Break, Quit, Stop
<1>4. CASE Tick
  <2>1. CASE Blocked
    <3>1. dialogue' = [dialogue EXCEPT !.age = @ + 1] /\ dialogue.age < SmtpTimeout
      BY <1>4, <2>1 DEF Tick, WaitsForSocket
    <3> QED BY <3>1, ReplicaAssumption
  <2>2. CASE ~Blocked
    BY <1>4, <2>2 DEF Tick, WaitsForSocket
  <2> QED BY <2>1, <2>2
<1>5. CASE UNCHANGED dialogue
  BY <1>5
<1>6. ASSUME NEW s \in Slots, NEW k \in {"statement", "other"},
             Arrive(s, k) \/ RunToAwait(s) \/ RunToAnswer(s) \/ Resume(s)
      PROVE  UNCHANGED dialogue
  BY <1>6 DEF Arrive, RunToAwait, RunToAnswer, Resume
<1>7. ASSUME NEW p \in Probes, SendProbe(p) \/ FailProbe(p) \/ AnswerProbe(p)
      PROVE  UNCHANGED dialogue
  BY <1>7 DEF SendProbe, FailProbe, AnswerProbe
<1>8. ASSUME Start \/ Turn \/ UNCHANGED loopVars
      PROVE  UNCHANGED dialogue
  BY <1>8 DEF Start, Turn, loopVars
<1> QED BY <1>1, <1>2, <1>3, <1>4, <1>5, <1>6, <1>7, <1>8 DEF LoopNext, Operation, LoopStep, SmtpStep

LEMMA ProbeTypesStep == LoopTypeOK /\ [LoopNext]_loopVars => ProbeTypes'
<1> SUFFICES ASSUME ProbeTypes, [LoopNext]_loopVars PROVE ProbeTypes'
  BY TypeParts
<1> USE DEF ProbeTypes
<1>1. ASSUME NEW p \in Probes, SendProbe(p) PROVE ProbeTypes'
  <2>1. [probe[p] EXCEPT !.next = Interval(p), !.age = 0] \in ProbeStates
    BY ProbeRecord, Bounds
  <2>2. probe' = [probe EXCEPT ![p] = [probe[p] EXCEPT !.next = Interval(p), !.age = 0]]
    BY <1>1 DEF SendProbe
  <2> QED BY <1>1, <2>1, <2>2 DEF SendProbe, timeVars
<1>2. ASSUME NEW p \in Probes, AnswerProbe(p) PROVE ProbeTypes'
  <2>1. [probe[p] EXCEPT !.age = Idle, !.fails = 0] \in ProbeStates
    BY ProbeRecord, Bounds
  <2>2. probe' = [probe EXCEPT ![p] = [probe[p] EXCEPT !.age = Idle, !.fails = 0]]
    BY <1>2 DEF AnswerProbe
  <2> QED BY <1>2, <2>1, <2>2 DEF AnswerProbe, timeVars
<1>3. ASSUME NEW p \in Probes, FailProbe(p) PROVE ProbeTypes'
  <2> DEFINE fails == (probe[p].fails + 1) % FailureThreshold
  <2>1. fails \in 0 .. FailureThreshold - 1
    <3>1. probe[p].fails \in Nat
      BY ProbeFields
    <3> QED BY <3>1, ReplicaAssumption
  <2>2. probe' = [probe EXCEPT ![p] = [probe[p] EXCEPT !.age = Idle, !.fails = fails]]
    BY <1>3 DEF FailProbe
  <2> HIDE DEF fails
  <2>3. [probe[p] EXCEPT !.age = Idle, !.fails = fails] \in ProbeStates
    BY <2>1, ProbeRecord, Bounds
  <2>4. UNCHANGED stall
    BY <1>3 DEF FailProbe, timeVars
  <2> QED BY <2>2, <2>3, <2>4
<1>4. CASE Stop
  BY <1>4, FreshTypes, ReplicaAssumption DEF Stop
<1>5. CASE Tick
  <2>1. stall' \in 0 .. ProbeTimeout
    <3>1. \/ stall' = 0
          \/ stall < ProbeTimeout /\ stall' = stall + 1
          \/ stall' = stall
      BY <1>5 DEF Tick, WaitsForSocket
    <3> QED BY <3>1, ReplicaAssumption
  <2>2. CASE mode # "serving"
    BY <1>5, <2>1, <2>2 DEF Tick, WaitsForSocket
  <2>3. CASE mode = "serving"
    <3>1. \A p \in Probes :
            [probe[p] EXCEPT !.next = IF @ = 0 THEN 0 ELSE @ - 1,
                             !.age = IF @ = Idle THEN Idle ELSE @ + 1] \in ProbeStates
      <4> SUFFICES ASSUME NEW p \in Probes
                   PROVE [probe[p] EXCEPT !.next = IF @ = 0 THEN 0 ELSE @ - 1,
                                          !.age = IF @ = Idle THEN Idle ELSE @ + 1]
                           \in ProbeStates
        OBVIOUS
      <4>1. probe[p].age = Idle \/ probe[p].age < ProbeTimeout
        BY <1>5, <2>3 DEF Tick, WaitsForSocket
      <4>2. (IF probe[p].next = 0 THEN 0 ELSE probe[p].next - 1) \in 0 .. Horizon
        BY ProbeFields, ReplicaAssumption DEF Horizon
      <4>3. (IF probe[p].age = Idle THEN Idle ELSE probe[p].age + 1) \in Idle .. ProbeTimeout
        BY <4>1, ProbeFields, ReplicaAssumption DEF Idle
      <4> QED BY <4>2, <4>3, ProbeRecord, Bounds
    <3>2. probe' = [p \in Probes |->
                      [probe[p] EXCEPT !.next = IF @ = 0 THEN 0 ELSE @ - 1,
                                       !.age = IF @ = Idle THEN Idle ELSE @ + 1]]
      BY <1>5, <2>3 DEF Tick, WaitsForSocket
    <3> QED BY <2>1, <3>1, <3>2
  <2> QED BY <2>2, <2>3
<1>6. CASE UNCHANGED <<probe, stall>>
  BY <1>6
<1>7. ASSUME NEW s \in Slots, NEW k \in {"statement", "other"},
             \/ Arrive(s, k) \/ RunToAwait(s) \/ RunToAnswer(s) \/ RunToMail(s)
             \/ Resume(s)
      PROVE  UNCHANGED <<probe, stall>>
  BY <1>7 DEF Arrive, RunToAwait, RunToAnswer, RunToMail, Resume, timeVars
<1>8. ASSUME Start \/ Turn \/ SmtpStep \/ UNCHANGED loopVars
      PROVE  UNCHANGED <<probe, stall>>
  BY <1>8 DEF Start, Turn, SmtpStep, Exchange, Break, Quit, loopVars, timeVars
<1> QED BY <1>1, <1>2, <1>3, <1>4, <1>5, <1>6, <1>7, <1>8 DEF LoopNext, Operation, LoopStep

LEMMA MailingStep == LoopTypeOK /\ [LoopNext]_loopVars => Mailing'
<1> SUFFICES ASSUME RequestTypes, Mailing, DialogueTypes, [LoopNext]_loopVars PROVE Mailing'
  BY TypeParts
<1> USE DEF Mailing, Blocked
<1>1. ASSUME NEW s \in Slots, NEW k \in {"statement", "other"}, Arrive(s, k)
      PROVE  Mailing'
  BY <1>1 DEF Arrive, RequestTypes
<1>2. ASSUME NEW s \in Slots, RunToAwait(s) \/ Resume(s) PROVE Mailing'
  BY <1>2 DEF RunToAwait, Resume, RequestTypes
<1>3. ASSUME NEW s \in Slots, RunToAnswer(s) PROVE Mailing'
  BY <1>3, FinishTypes DEF RunToAnswer
<1>4. ASSUME NEW s \in Slots, RunToMail(s) PROVE Mailing'
  BY <1>4 DEF RunToMail, RequestTypes, Dialogue
<1>5. CASE Exchange
  <2>1. dialogue.exchange \in 0 .. Exchanges
    BY DEF DialogueTypes
  <2> QED BY <1>5, <2>1, ReplicaAssumption DEF Exchange, Dialogue, requestVars
<1>6. CASE Break \/ Quit
  BY <1>6, FinishTypes DEF Break, Quit, NoDialogue
<1>7. CASE Stop
  BY <1>7 DEF Stop, NoDialogue
<1>8. CASE Tick
  <2>1. dialogue'.exchange = dialogue.exchange /\ dialogue'.slot = dialogue.slot
    BY <1>8 DEF Tick, WaitsForSocket, DialogueTypes
  <2> QED BY <1>8, <2>1 DEF Tick, WaitsForSocket, requestVars
<1>9. CASE UNCHANGED <<stage, dialogue>>
  BY <1>9
<1>10. ASSUME NEW p \in Probes, SendProbe(p) \/ FailProbe(p) \/ AnswerProbe(p)
       PROVE  UNCHANGED <<stage, dialogue>>
  BY <1>10 DEF SendProbe, FailProbe, AnswerProbe, requestVars
<1>11. ASSUME Start \/ Turn \/ UNCHANGED loopVars
       PROVE  UNCHANGED <<stage, dialogue>>
  BY <1>11 DEF Start, Turn, loopVars, requestVars
<1> QED BY <1>1, <1>2, <1>3, <1>4, <1>5, <1>6, <1>7, <1>8, <1>9, <1>10, <1>11
        DEF LoopNext, Operation, LoopStep, SmtpStep

\* A probe leaves the loop only when its wait is over, and no tick passes beside
\* a waiting probe unless the loop is blocked.
LEMMA PendingProbesStep == LoopTypeOK /\ PendingProbes /\ [LoopNext]_loopVars => PendingProbes'
<1> SUFFICES ASSUME LoopTypes, ProbeTypes, PendingProbes, [LoopNext]_loopVars,
                    NEW q \in Probes, probe'[q].age # Idle
             PROVE  q \in (events \cup batch)' /\ probe'[q].age <= stall'
  BY TypeParts DEF PendingProbes
<1> USE DEF PendingProbes
<1>0. q \notin Slots
  BY ReplicaAssumption DEF Probes
<1>1. ASSUME NEW p \in Probes, SendProbe(p)
      PROVE  q \in (events \cup batch)' /\ probe'[q].age <= stall'
  <2>1. CASE p = q
    <3>1. probe'[q].age = 0 /\ q \in events' /\ stall' = stall
      <4>1. probe' = [probe EXCEPT ![p] = [probe[p] EXCEPT !.next = Interval(p), !.age = 0]]
        BY <1>1 DEF SendProbe
      <4>2. probe'[p].age = 0
        BY <4>1 DEF ProbeTypes, ProbeStates
      <4> QED BY <1>1, <2>1, <4>2 DEF SendProbe, timeVars
    <3> QED BY <3>1, ReplicaAssumption DEF ProbeTypes
  <2>2. CASE p # q
    BY <1>1, <2>2 DEF SendProbe, timeVars, ProbeTypes
  <2> QED BY <2>1, <2>2
<1>2. ASSUME NEW p \in Probes, AnswerProbe(p)
      PROVE  q \in (events \cup batch)' /\ probe'[q].age <= stall'
  <2>1. p # q
    <3>1. probe' = [probe EXCEPT ![p] = [probe[p] EXCEPT !.age = Idle, !.fails = 0]]
      BY <1>2 DEF AnswerProbe
    <3>2. probe'[p].age = Idle
      BY <3>1 DEF ProbeTypes, ProbeStates
    <3> QED BY <3>2
  <2> QED BY <1>2, <2>1 DEF AnswerProbe, timeVars, ProbeTypes
<1>3. ASSUME NEW p \in Probes, FailProbe(p)
      PROVE  q \in (events \cup batch)' /\ probe'[q].age <= stall'
  <2>1. p # q
    <3>1. PICK k : probe' = [probe EXCEPT ![p] = [@ EXCEPT !.age = Idle, !.fails = k]]
      BY <1>3 DEF FailProbe
    <3>2. probe'[p].age = Idle
      BY <3>1 DEF ProbeTypes, ProbeStates
    <3> QED BY <3>2
  <2>2. probe'[q] = probe[q]
    <3>1. PICK k : probe' = [probe EXCEPT ![p] = [@ EXCEPT !.age = Idle, !.fails = k]]
      BY <1>3 DEF FailProbe
    <3> QED BY <3>1, <2>1 DEF ProbeTypes
  <2>3. UNCHANGED stall /\ events' = events \ {p} /\ batch' = batch \ {p}
    BY <1>3 DEF FailProbe, timeVars
  <2> QED BY <2>1, <2>2, <2>3
<1>4. CASE Stop
  BY <1>4, FreshTypes DEF Stop
<1>5. CASE Tick
  <2>1. \/ probe'[q] = probe[q]
        \/ /\ mode = "serving"
           /\ probe'[q] = [probe[q] EXCEPT !.next = IF @ = 0 THEN 0 ELSE @ - 1,
                                           !.age = IF @ = Idle THEN Idle ELSE @ + 1]
    BY <1>5 DEF Tick, WaitsForSocket
  <2>2. probe[q] \in ProbeStates
    BY DEF ProbeTypes
  <2>3. \/ probe'[q].age = probe[q].age
        \/ /\ mode = "serving"
           /\ probe'[q].age = IF probe[q].age = Idle THEN Idle ELSE probe[q].age + 1
    BY <2>1, <2>2 DEF ProbeStates
  <2>4. probe[q].age # Idle /\ probe[q].age \in Idle .. ProbeTimeout
    BY <2>2, <2>3, ProbeFields
  <2>5. probe[q].age <= stall /\ q \in events \cup batch
    BY <2>4
  <2>6. Blocked /\ UNCHANGED <<events, batch>>
    BY <1>5, <2>5 DEF Tick, WaitsForSocket
  <2>7. stall' = IF stall < ProbeTimeout THEN stall + 1 ELSE stall
    BY <1>5, <2>6 DEF Tick, WaitsForSocket
  <2>8. mode = "serving" => probe[q].age < ProbeTimeout
    BY <1>5, <2>4 DEF Tick, WaitsForSocket
  <2>9. probe'[q].age <= stall'
    BY <2>3, <2>4, <2>5, <2>7, <2>8, ReplicaAssumption DEF ProbeTypes, Idle
  <2> QED BY <2>5, <2>6, <2>9
<1>6. ASSUME UNCHANGED <<probe, stall>>,
             q \in events \cup batch => q \in events' \cup batch'
      PROVE  q \in (events \cup batch)' /\ probe'[q].age <= stall'
  BY <1>6
<1>7. ASSUME NEW s \in Slots, NEW k \in {"statement", "other"},
             \/ Arrive(s, k) \/ RunToAwait(s) \/ RunToAnswer(s) \/ RunToMail(s)
             \/ Resume(s)
      PROVE  /\ UNCHANGED <<probe, stall>>
             /\ q \in events \cup batch => q \in events' \cup batch'
  BY <1>0, <1>7 DEF Arrive, RunToAwait, RunToAnswer, RunToMail, Resume, timeVars
<1>8. ASSUME Start \/ Turn \/ SmtpStep \/ UNCHANGED loopVars
      PROVE  /\ UNCHANGED <<probe, stall>>
             /\ q \in events \cup batch => q \in events' \cup batch'
  BY <1>8 DEF Start, Turn, SmtpStep, Exchange, Break, Quit, loopVars, timeVars
<1> QED BY <1>1, <1>2, <1>3, <1>4, <1>5, <1>6, <1>7, <1>8 DEF LoopNext, Operation, LoopStep

-----------------------------------------------------------------------------
(* The theorems.                                                           *)

LEMMA LoopNextInv == LoopInv /\ [LoopNext]_loopVars => LoopInv'
BY TypeParts, RequestTypesStep, LoopTypesStep, DialogueTypesStep, ProbeTypesStep,
   MailingStep, PendingProbesStep
DEF LoopInv, LoopTypeOK, RequestTypes, LoopTypes, DialogueTypes, ProbeTypes, Mailing, Stages

LEMMA StepDisturbsOnlyForMail ==
  ASSUME LoopInv, [LoopNext]_loopVars, mode = "serving",
         mode' = "stopping" \/ (inRotation /\ ~inRotation')
  PROVE  stall = ProbeTimeout
<1>1. ASSUME NEW p \in Probes, FailProbe(p) PROVE stall = ProbeTimeout
  <2>1. probe[p].age = ProbeTimeout /\ ProbeTimeout # Idle
    BY <1>1, ReplicaAssumption DEF FailProbe, Idle
  <2>2. ProbeTimeout <= stall /\ stall \in 0 .. ProbeTimeout
    BY <2>1 DEF LoopInv, LoopTypeOK, PendingProbes
  <2> QED BY <2>2, ReplicaAssumption
<1>2. ASSUME NEW p \in Probes, AnswerProbe(p) PROVE FALSE
  BY <1>2 DEF AnswerProbe, LoopInv, LoopTypeOK
<1>3. ASSUME NEW p \in Probes, SendProbe(p) PROVE FALSE
  BY <1>3 DEF SendProbe
<1>4. ASSUME NEW s \in Slots, NEW k \in {"statement", "other"},
             \/ Arrive(s, k) \/ RunToAwait(s) \/ RunToAnswer(s) \/ RunToMail(s)
             \/ Resume(s)
      PROVE  FALSE
  BY <1>4 DEF Arrive, RunToAwait, RunToAnswer, RunToMail, Resume
<1>5. ASSUME Tick \/ Turn \/ SmtpStep \/ UNCHANGED loopVars PROVE FALSE
  <2>1. mode' = mode /\ inRotation' = inRotation
    BY <1>5 DEF Tick, WaitsForSocket, Turn, SmtpStep, Exchange, Break, Quit, loopVars
  <2> QED BY <2>1
<1>6. ASSUME Start \/ Stop PROVE FALSE
  BY <1>6 DEF Start, Stop
<1> QED BY <1>1, <1>2, <1>3, <1>4, <1>5, <1>6 DEF LoopNext, Operation, LoopStep

\* Types, and the loop blocked by exactly the request that mails, for any timings
\* (statement_service.py _send_email).
THEOREM LoopTyped == LoopSpec => []LoopTypeOK
<1> QED BY LoopInitInv, LoopNextInv, PTL DEF LoopSpec, LoopInv

\* Whatever the timings and the load, the platform disturbs a replica only after a
\* mail has blocked its loop for the whole timeout of a probe.
THEOREM DisturbedOnlyByMail == LoopSpec => OnlyMailDisturbs
<1>1. LoopInv /\ [LoopNext]_loopVars
      => [mode = "serving" /\ (mode' = "stopping" \/ (inRotation /\ ~inRotation'))
          => stall = ProbeTimeout]_loopVars
  BY StepDisturbsOnlyForMail
<1> QED BY LoopInitInv, LoopNextInv, <1>1, PTL DEF LoopSpec, OnlyMailDisturbs

-----------------------------------------------------------------------------
(* How long a request waits for the loop.                                  *)

\* The longest time a dialogue blocks the loop, and what is left of it.
Longest == Exchanges * SmtpTimeout

Left == IF Blocked
        THEN Longest - ((dialogue.exchange - 1) * SmtpTimeout + dialogue.age)
        ELSE 0

\* The requests of the present turn that may mail before slot s runs.
Ahead(s) == (batch \cap Slots) \ {s}

\* A request is queued exactly while it is ready to run, and only once.
Queued ==
  \A s \in Slots :
    /\ stage[s] = "runnable" <=> s \in events \cup batch
    /\ s \notin events \/ s \notin batch
    /\ stage[s] # "runnable" => waited[s] = 0

\* The dialogue that blocks the loop is that of a request.
Held == Blocked => dialogue.slot \in Slots

\* What a request has waited, and may yet wait in the turn that is under way: that
\* of the requests ahead of it, and of the dialogue that blocks the loop.
InTurn(s) == waited[s] + Cardinality(Ahead(s)) * Longest + Left

\* How many requests can be ahead of one.
Others == Cardinality(Slots) - 1

Waiting ==
  \A s \in Slots :
    /\ s \in events => InTurn(s) <= Others * Longest
    /\ s \in batch => InTurn(s) <= 2 * (Others * Longest)

WaitInv == LoopInv /\ Queued /\ Held /\ Waiting

\* Arithmetic of products, for the provers.
LEMMA Times ==
  ASSUME NEW d \in Nat
  PROVE  /\ \A k \in Nat : k * d \in Nat /\ (k + 1) * d = k * d + d
         /\ \A j \in Nat, k \in Nat : j <= k => j * d <= k * d
<1>1. \A k \in Nat : k * d \in Nat /\ (k + 1) * d = k * d + d
  OBVIOUS
<1>2. ASSUME NEW j \in Nat, NEW k \in Nat, j <= k PROVE j * d <= k * d
  <2>1. PICK i \in Nat : k = j + i
    <3>1. k - j \in Nat /\ k = j + (k - j)
      BY <1>2
    <3> QED  BY <3>1
  <2>2. k * d = j * d + i * d /\ i * d \in Nat /\ j * d \in Nat
    BY <2>1
  <2> QED  BY <2>2
<1> QED  BY <1>1, <1>2

\* What is left of a dialogue is never negative, and never more than a whole one.
LEMMA LeftBounds ==
  ASSUME LoopTypeOK
  PROVE  Left \in 0 .. Longest /\ Longest \in Nat
<1>1. /\ dialogue.exchange \in 0 .. Exchanges /\ dialogue.age \in 0 .. SmtpTimeout
      /\ Exchanges \in Nat /\ SmtpTimeout \in Nat
  BY ReplicaAssumption DEF LoopTypeOK
<1>2. Longest \in Nat
  BY <1>1 DEF Longest
<1>3. CASE Blocked
  <2> DEFINE k == dialogue.exchange - 1
             done == k * SmtpTimeout
  <2>1. k \in Nat /\ k + 1 <= Exchanges
    BY <1>1, <1>3 DEF Blocked
  <2>2. /\ done \in Nat /\ (k + 1) * SmtpTimeout = done + SmtpTimeout
        /\ (k + 1) * SmtpTimeout <= Longest
    BY <1>1, <2>1, Times DEF Longest
  <2> HIDE DEF done
  <2>3. Left = Longest - (done + dialogue.age)
    BY <1>3 DEF Left, done
  <2> HIDE DEF k
  <2>4. done + SmtpTimeout <= Longest
    BY <2>2
  <2> QED  BY <1>1, <1>2, <2>2, <2>3, <2>4
<1> QED  BY <1>2, <1>3 DEF Left

LEMMA LeftBoundsNext == LoopTypeOK' => Left' \in 0 .. Longest
<1>1. LoopTypeOK => Left \in 0 .. Longest
  BY LeftBounds
<1>2. (LoopTypeOK => Left \in 0 .. Longest)'
  BY <1>1, PTL
<1> QED  BY <1>2 DEF Longest

\* The requests ahead of one are finitely many, fewer than there are slots.
LEMMA AheadBounds ==
  ASSUME IsFiniteSet(Slots), NEW s \in Slots, NEW B
  PROVE  /\ IsFiniteSet((B \cap Slots) \ {s})
         /\ Cardinality((B \cap Slots) \ {s}) \in Nat
         /\ Cardinality((B \cap Slots) \ {s}) <= Others
         /\ Others \in Nat
<1>1. /\ IsFiniteSet(Slots \ {s}) /\ Cardinality(Slots \ {s}) = Others
      /\ Others \in Nat
  <2>1. IsFiniteSet(Slots \ {s}) /\ Cardinality(Slots \ {s}) = Cardinality(Slots) - 1
    BY FS_RemoveElement
  <2>2. Cardinality(Slots \ {s}) \in Nat
    BY <2>1, FS_CardinalityType
  <2> QED  BY <2>1, <2>2 DEF Others
<1>2. (B \cap Slots) \ {s} \in SUBSET (Slots \ {s})
  OBVIOUS
<1>3. /\ IsFiniteSet((B \cap Slots) \ {s})
      /\ Cardinality((B \cap Slots) \ {s}) <= Cardinality(Slots \ {s})
  BY <1>1, <1>2, FS_Subset
<1> QED  BY <1>1, <1>3, FS_CardinalityType

\* Of the requests ahead of one there is one less when one of them has run.
LEMMA OneLessAhead ==
  ASSUME IsFiniteSet(Slots), NEW s \in Slots, NEW t \in Slots, t # s, NEW B, t \in B
  PROVE  Cardinality((B \cap Slots) \ {s}) = Cardinality(((B \ {t}) \cap Slots) \ {s}) + 1
<1> DEFINE A == (B \cap Slots) \ {s}
<1>1. IsFiniteSet(A) /\ t \in A /\ Cardinality(A) \in Nat
  BY AheadBounds
<1>2. A \ {t} = ((B \ {t}) \cap Slots) \ {s}
  OBVIOUS
<1>3. Cardinality(A \ {t}) = Cardinality(A) - 1
  BY <1>1, FS_RemoveElement
<1> HIDE DEF A
<1>4. Cardinality(A) = Cardinality(A \ {t}) + 1
  BY <1>1, <1>3
<1> QED  BY <1>2, <1>4 DEF A

\* While one dialogue blocks the loop at most Others - 1 requests are ahead.
LEMMA AheadOfMail ==
  ASSUME IsFiniteSet(Slots), NEW s \in Slots, NEW t \in Slots, t # s, NEW B, t \notin B
  PROVE  Cardinality((B \cap Slots) \ {s}) + 1 <= Others
<1> DEFINE A == (B \cap Slots) \ {s}
<1>1. IsFiniteSet(A) /\ t \notin A /\ Cardinality(A) \in Nat
  BY AheadBounds
<1>2. Cardinality(A \cup {t}) = Cardinality(A) + 1
  BY <1>1, FS_AddElement
<1>3. (((B \cup {t}) \cap Slots) \ {s}) = A \cup {t}
  OBVIOUS
<1>4. Cardinality(((B \cup {t}) \cap Slots) \ {s}) <= Others
  BY AheadBounds
<1> QED  BY <1>2, <1>3, <1>4

\* A request that is not queued and meets a loop with work to do.
LEMMA NewcomerWaits ==
  ASSUME IsFiniteSet(Slots), LoopTypeOK, Queued, Held, NEW q \in Slots,
         stage[q] \notin {"runnable", "mailing"}
  PROVE  waited[q] = 0 /\ q \notin events \cup batch /\ InTurn(q) <= Others * Longest
<1> DEFINE n == Cardinality(Ahead(q))
<1>1. waited[q] = 0 /\ q \notin events \cup batch
  BY DEF Queued
<1>2. n \in Nat /\ n <= Others /\ Others \in Nat
  BY AheadBounds DEF Ahead
<1>3. Left \in 0 .. Longest /\ Longest \in Nat
  BY LeftBounds
<1>4. n * Longest + Left <= Others * Longest
  <2>1. CASE ~Blocked
    <3>1. Left = 0
      BY <2>1 DEF Left
    <3> HIDE DEF n
    <3>2. n * Longest <= Others * Longest /\ n * Longest \in Nat
      BY <1>2, <1>3, Times
    <3> QED  BY <3>1, <3>2
  <2>2. CASE Blocked
    <3> DEFINE t == dialogue.slot
    <3>1. t \in Slots
      BY <2>2 DEF Held
    <3>2. stage[t] = "mailing" /\ t # q /\ t \notin batch
      BY <2>2, <3>1 DEF LoopTypeOK, Queued
    <3>3. n + 1 <= Others
      BY <3>1, <3>2, AheadOfMail DEF Ahead
    <3> HIDE DEF n
    <3>4. /\ (n + 1) * Longest = n * Longest + Longest /\ n * Longest \in Nat
          /\ (n + 1) * Longest <= Others * Longest
          /\ Others * Longest \in Nat
      BY <1>2, <1>3, <3>3, Times
    <3> QED  BY <1>3, <3>4
  <2> QED  BY <2>1, <2>2
<1>5. InTurn(q) = n * Longest + Left
  <2>1. n * Longest \in Nat
    <3> HIDE DEF n
    <3> QED  BY <1>2, <1>3, Times
  <2> QED  BY <1>1, <1>3, <2>1 DEF InTurn
<1> QED  BY <1>1, <1>4, <1>5

LEMMA QueuedStep ==
  ASSUME LoopTypeOK, Queued, [LoopNext]_loopVars
  PROVE  Queued'
<1> SUFFICES ASSUME NEW q \in Slots
             PROVE  /\ stage'[q] = "runnable" <=> q \in events' \cup batch'
                    /\ q \notin events' \/ q \notin batch'
                    /\ stage'[q] # "runnable" => waited'[q] = 0
  BY DEF Queued
<1> DEFINE Goal == /\ stage'[q] = "runnable" <=> q \in events' \cup batch'
                   /\ q \notin events' \/ q \notin batch'
                   /\ stage'[q] # "runnable" => waited'[q] = 0
<1>0. /\ q \notin Probes
      /\ RequestTypes /\ Mailing
      /\ stage[q] = "runnable" <=> q \in events \cup batch
      /\ q \notin events \/ q \notin batch
      /\ stage[q] # "runnable" => waited[q] = 0
  BY ReplicaAssumption, TypeParts DEF Probes, Queued
<1>1. ASSUME NEW s \in Slots, NEW k \in {"statement", "other"}, Arrive(s, k) PROVE Goal
  BY <1>0, <1>1 DEF Arrive, timeVars, RequestTypes
<1>2. ASSUME NEW s \in Slots, Resume(s) PROVE Goal
  BY <1>0, <1>2 DEF Resume, timeVars, RequestTypes
<1>3. ASSUME NEW s \in Slots, RunToAwait(s) PROVE Goal
  BY <1>0, <1>3 DEF RunToAwait, RequestTypes
<1>4. ASSUME NEW s \in Slots, RunToMail(s) PROVE Goal
  BY <1>0, <1>4 DEF RunToMail, RequestTypes
<1>5. ASSUME NEW s \in Slots, RunToAnswer(s) PROVE Goal
  BY <1>0, <1>5 DEF RunToAnswer, Finish, RequestTypes
<1>6. CASE Break \/ Quit
  BY <1>0, <1>6 DEF Break, Quit, Finish, RequestTypes, Mailing
<1>7. CASE Stop
  BY <1>7 DEF Stop
<1>8. CASE Tick
  <2>1. /\ waited' = [s \in Slots |-> IF stage[s] = "runnable" THEN waited[s] + 1
                                                           ELSE waited[s]]
        /\ UNCHANGED <<requestVars, events, batch>>
    BY <1>8 DEF Tick, WaitsForSocket
  <2> QED  BY <1>0, <2>1 DEF requestVars
<1>9. CASE Turn
  BY <1>0, <1>9 DEF Turn, requestVars, timeVars
<1>10. ASSUME NEW p \in Probes, SendProbe(p) \/ AnswerProbe(p) \/ FailProbe(p) PROVE Goal
  BY <1>0, <1>10 DEF SendProbe, AnswerProbe, FailProbe, requestVars, timeVars
<1>11. CASE Start \/ Exchange \/ UNCHANGED loopVars
  BY <1>0, <1>11 DEF Start, Exchange, loopVars, requestVars, timeVars
<1> QED  BY <1>1, <1>2, <1>3, <1>4, <1>5, <1>6, <1>7, <1>8, <1>9, <1>10, <1>11
         DEF LoopNext, Operation, LoopStep, SmtpStep

LEMMA HeldStep ==
  ASSUME LoopTypeOK, Held, [LoopNext]_loopVars
  PROVE  Held'
<1>1. ASSUME NEW s \in Slots, RunToMail(s) PROVE Held'
  BY <1>1 DEF RunToMail, Dialogue, Held
<1>2. CASE Exchange
  BY <1>2 DEF Exchange, Dialogue, Held
<1>3. CASE Break \/ Quit \/ Stop
  BY <1>3 DEF Break, Quit, Stop, NoDialogue, Held, Blocked
<1>4. CASE Tick
  <2>1. dialogue'.exchange = dialogue.exchange /\ dialogue'.slot = dialogue.slot
    BY <1>4 DEF Tick, WaitsForSocket, LoopTypeOK
  <2> QED  BY <2>1 DEF Held, Blocked
<1>5. CASE UNCHANGED dialogue
  BY <1>5 DEF Held, Blocked
<1>6. ASSUME NEW s \in Slots, NEW k \in {"statement", "other"},
             Arrive(s, k) \/ RunToAwait(s) \/ RunToAnswer(s) \/ Resume(s)
      PROVE  UNCHANGED dialogue
  BY <1>6 DEF Arrive, RunToAwait, RunToAnswer, Resume
<1>7. ASSUME NEW p \in Probes, SendProbe(p) \/ FailProbe(p) \/ AnswerProbe(p)
      PROVE  UNCHANGED dialogue
  BY <1>7 DEF SendProbe, FailProbe, AnswerProbe
<1>8. ASSUME Start \/ Turn \/ UNCHANGED loopVars PROVE UNCHANGED dialogue
  BY <1>8 DEF Start, Turn, loopVars
<1> QED  BY <1>1, <1>2, <1>3, <1>4, <1>5, <1>6, <1>7, <1>8
         DEF LoopNext, Operation, LoopStep, SmtpStep

\* A dialogue that goes on has less left; one tick takes one of what is left.
LEMMA LeftShrinks ==
  ASSUME LoopTypeOK, LoopTypeOK'
  PROVE  /\ Exchange => Left' <= Left
         /\ Tick /\ Blocked => Left' = Left - 1
         /\ dialogue' = dialogue => Left' = Left
         /\ dialogue' = NoDialogue => Left' = 0
<1> DEFINE n == dialogue.exchange
           done == (n - 1) * SmtpTimeout
<1>1. /\ n \in 0 .. Exchanges /\ dialogue.age \in 0 .. SmtpTimeout
      /\ Exchanges \in Nat /\ SmtpTimeout \in Nat
  BY ReplicaAssumption DEF LoopTypeOK
<1>2. ASSUME Exchange PROVE Left' <= Left
  <2>1. Blocked /\ n \in Nat /\ n - 1 \in Nat
    BY <1>1, <1>2 DEF Exchange, Blocked
  <2>2. dialogue'.exchange = n + 1 /\ dialogue'.age = 0
    BY <1>2 DEF Exchange, Dialogue
  <2>3. Blocked'
    BY <2>1, <2>2 DEF Blocked
  <2>4. Left' = Longest - (n * SmtpTimeout + 0)
    <3>1. (n + 1) - 1 = n
      BY <2>1
    <3> QED  BY <2>2, <2>3, <3>1 DEF Left, Longest
  <2>5. Left = Longest - (done + dialogue.age)
    BY <2>1 DEF Left
  <2>6. n * SmtpTimeout = done + SmtpTimeout /\ done \in Nat
    <3>1. \A k \in Nat : k * SmtpTimeout \in Nat
                         /\ (k + 1) * SmtpTimeout = k * SmtpTimeout + SmtpTimeout
      BY <1>1, Times
    <3>2. n = (n - 1) + 1
      BY <2>1
    <3> QED  BY <2>1, <3>1, <3>2
  <2>7. Longest \in Nat
    BY LeftBounds
  <2> HIDE DEF n, done
  <2> QED  BY <1>1, <2>4, <2>5, <2>6, <2>7
<1>3. ASSUME Tick, Blocked PROVE Left' = Left - 1
  <2>1. dialogue' = [dialogue EXCEPT !.age = @ + 1]
    BY <1>3 DEF Tick, WaitsForSocket
  <2>2. dialogue'.exchange = n /\ dialogue'.age = dialogue.age + 1
    BY <2>1 DEF LoopTypeOK
  <2>3. Left' = Longest - (done + (dialogue.age + 1))
    BY <1>3, <2>2 DEF Left, Longest, Blocked
  <2>4. Left = Longest - (done + dialogue.age)
    BY <1>3 DEF Left
  <2>5. Longest \in Nat /\ done \in Int
    <3>1. n - 1 \in Int /\ SmtpTimeout \in Int
      BY <1>1
    <3> HIDE DEF n
    <3> QED  BY <3>1, LeftBounds
  <2> HIDE DEF n, done
  <2> QED  BY <1>1, <2>3, <2>4, <2>5
<1>4. dialogue' = dialogue => Left' = Left
  BY DEF Left, Longest, Blocked
<1>5. dialogue' = NoDialogue => Left' = 0
  BY DEF Left, Blocked, NoDialogue
<1> QED  BY <1>2, <1>3, <1>4, <1>5

LEMMA WaitingStep ==
  ASSUME IsFiniteSet(Slots), WaitInv, LoopTypeOK', [LoopNext]_loopVars
  PROVE  Waiting'
<1> DEFINE limit == Others * Longest
<1> SUFFICES ASSUME NEW q \in Slots
             PROVE  /\ q \in events' => InTurn(q)' <= limit
                    /\ q \in batch' => InTurn(q)' <= 2 * limit
  BY DEF Waiting, Others, Longest
<1> DEFINE Goal == /\ q \in events' => InTurn(q)' <= limit
                   /\ q \in batch' => InTurn(q)' <= 2 * limit
           n == Cardinality(Ahead(q))
           next == Cardinality(Ahead(q))'
<1>0. LoopTypeOK /\ Queued /\ RequestTypes /\ Mailing
  BY TypeParts DEF WaitInv, LoopInv
<1>1. /\ n \in Nat /\ n <= Others /\ next \in Nat /\ next <= Others
      /\ Others \in Nat /\ Longest \in Nat
      /\ Left \in 0 .. Longest /\ Left' \in 0 .. Longest
      /\ waited[q] \in Nat /\ waited'[q] \in Nat
      /\ n * Longest \in Nat /\ next * Longest \in Nat /\ limit \in Nat
  <2>1. n \in Nat /\ n <= Others /\ Others \in Nat
    BY AheadBounds DEF Ahead
  <2>2. next \in Nat /\ next <= Others
    <3>1. next = Cardinality((batch' \cap Slots) \ {q})
      BY DEF Ahead
    <3> QED  BY <3>1, AheadBounds
  <2>3. Left \in 0 .. Longest /\ Longest \in Nat
    BY <1>0, LeftBounds
  <2>4. Left' \in 0 .. Longest
    BY LeftBoundsNext
  <2>5. waited[q] \in Nat /\ waited'[q] \in Nat
    BY <1>0 DEF LoopTypeOK
  <2> HIDE DEF n, next
  <2> QED  BY <2>1, <2>2, <2>3, <2>4, <2>5, Times
<1>2. /\ InTurn(q) = waited[q] + n * Longest + Left
      /\ InTurn(q)' = waited'[q] + next * Longest + Left'
  BY DEF InTurn, Longest
<1>3. /\ q \in events => InTurn(q) <= limit
      /\ q \in batch => InTurn(q) <= 2 * limit
  BY DEF WaitInv, Waiting
<1>4. ASSUME q \in events' => q \in events, q \in batch' => q \in batch,
             InTurn(q)' <= InTurn(q)
      PROVE  Goal
  <2> HIDE DEF n, next, limit
  <2>1. InTurn(q) \in Int /\ InTurn(q)' \in Int
    BY <1>1, <1>2
  <2> QED  BY <1>1, <1>3, <1>4, <2>1 DEF limit
<1>5. ASSUME q \in events' => q \in events, q \in batch' => q \in batch,
             next = n, waited'[q] = waited[q], Left' <= Left
      PROVE  Goal
  <2>1. next * Longest = n * Longest
    BY <1>5
  <2> HIDE DEF n, next, limit
  <2>2. InTurn(q)' <= InTurn(q)
    BY <1>1, <1>2, <1>5, <2>1
  <2> QED  BY <1>4, <1>5, <2>2 DEF limit
<1>6. ASSUME q \notin events', q \notin batch' PROVE Goal
  BY <1>6
<1>7. dialogue' = dialogue => Left' = Left
  BY <1>0, LeftShrinks
<1>8. /\ q \notin Probes
      /\ stage[q] = "runnable" <=> q \in events \cup batch
      /\ q \notin events \/ q \notin batch
  BY <1>0, ReplicaAssumption DEF Queued, Probes
\* A request arrives or becomes ready: what is under way is ahead of it.
<1>9. ASSUME NEW s \in Slots, stage[s] \notin {"runnable", "mailing"},
             events' = events \cup {s}, UNCHANGED <<batch, dialogue, waited>>
      PROVE  Goal
  <2>1. next = n /\ Left' = Left /\ waited'[q] = waited[q]
    BY <1>7, <1>9 DEF Ahead
  <2>2. CASE q # s
    BY <1>1, <1>5, <1>9, <2>1, <2>2
  <2>3. CASE q = s
    <3>1. q \notin batch /\ InTurn(q) <= limit
      BY <1>0, <1>9, <2>3, NewcomerWaits DEF WaitInv
    <3>2. InTurn(q)' = InTurn(q)
      BY <1>2, <2>1
    <3> QED  BY <1>9, <3>1, <3>2
  <2> QED  BY <2>2, <2>3
<1>10. ASSUME NEW s \in Slots, NEW k \in {"statement", "other"},
              Arrive(s, k) \/ Resume(s)
       PROVE  Goal
  BY <1>9, <1>10 DEF Arrive, Resume, timeVars
\* A coroutine runs: one less is ahead, but its mail may block the loop.
<1>11. ASSUME NEW s \in Slots, s \in batch, ~Blocked, batch' = batch \ {s},
              events' = events, q # s => waited'[q] = waited[q]
       PROVE  Goal
  <2>1. CASE q = s
    BY <1>6, <1>8, <1>11, <2>1
  <2>2. CASE q # s
    <3>1. n = next + 1
      <4>1. next = Cardinality(((batch \ {s}) \cap Slots) \ {q})
        BY <1>11 DEF Ahead
      <4> QED  BY <1>11, <2>2, <4>1, OneLessAhead DEF Ahead
    <3>2. Left = 0
      BY <1>11 DEF Left
    <3> HIDE DEF n, next, limit
    <3>3. n * Longest = next * Longest + Longest
      BY <1>1, <3>1, Times
    <3>4. InTurn(q)' <= InTurn(q)
      BY <1>1, <1>2, <1>11, <2>2, <3>2, <3>3
    <3> QED  BY <1>4, <1>11, <3>4 DEF limit
  <2> QED  BY <2>1, <2>2
<1>12. ASSUME NEW s \in Slots, RunToAwait(s) \/ RunToMail(s) \/ RunToAnswer(s) PROVE Goal
  <2>1. q # s => waited'[q] = waited[q]
    BY <1>0, <1>12 DEF RunToAwait, RunToMail, RunToAnswer, Finish, RequestTypes
  <2> QED  BY <1>11, <1>12, <2>1 DEF RunToAwait, RunToMail, RunToAnswer
<1>13. CASE Turn
  <2>1. /\ ~Blocked /\ batch' = events /\ events' = {} /\ batch = {}
        /\ UNCHANGED <<dialogue, waited>>
    BY <1>13 DEF Turn, timeVars
  <2>2. CASE q \in events
    <3>1. Left = 0 /\ Left' = 0 /\ waited'[q] = waited[q]
      BY <1>7, <2>1 DEF Left
    <3> HIDE DEF n, next
    <3>2. next * Longest <= limit
      BY <1>1, Times
    <3> HIDE DEF limit
    <3>3. waited[q] <= limit
      BY <1>1, <1>2, <1>3, <2>2, <3>1 DEF limit
    <3>4. InTurn(q)' <= 2 * limit
      BY <1>1, <1>2, <3>1, <3>2, <3>3
    <3> QED  BY <2>1, <3>4 DEF limit
  <2>3. CASE q \notin events
    BY <1>6, <2>1, <2>3
  <2> QED  BY <2>2, <2>3
<1>14. CASE Exchange
  <2>1. Left' <= Left /\ UNCHANGED <<events, batch, waited>>
    BY <1>0, <1>14, LeftShrinks DEF Exchange, timeVars
  <2> QED  BY <1>5, <2>1 DEF Ahead
<1>15. CASE Break \/ Quit
  <2>1. /\ UNCHANGED <<events, batch>> /\ dialogue' = NoDialogue /\ Blocked
        /\ Finish(dialogue.slot)
    BY <1>15 DEF Break, Quit, Blocked, ReplicaAssumption
  <2>2. CASE q = dialogue.slot
    BY <1>0, <1>6, <1>8, <2>1, <2>2 DEF Mailing
  <2>3. CASE q # dialogue.slot
    <3>1. waited'[q] = waited[q]
      BY <1>0, <2>1, <2>3 DEF Finish, RequestTypes
    <3>2. Left' = 0 /\ next = n
      BY <1>0, <2>1, LeftShrinks DEF Ahead
    <3> QED  BY <1>1, <1>5, <2>1, <3>1, <3>2
  <2> QED  BY <2>2, <2>3
<1>16. CASE Tick
  <2>1. /\ UNCHANGED <<events, batch, stage>>
        /\ waited'[q] = IF stage[q] = "runnable" THEN waited[q] + 1 ELSE waited[q]
        /\ Blocked \/ events \cup batch = {}
    BY <1>16 DEF Tick, WaitsForSocket, requestVars
  <2>2. CASE q \in events \cup batch
    <3>1. Blocked /\ waited'[q] = waited[q] + 1
      BY <1>8, <2>1, <2>2
    <3>2. Left' = Left - 1 /\ next = n
      BY <1>0, <1>16, <2>1, <3>1, LeftShrinks DEF Ahead
    <3>3. next * Longest = n * Longest
      BY <3>2
    <3> HIDE DEF n, next, limit
    <3>4. InTurn(q)' <= InTurn(q)
      BY <1>1, <1>2, <3>1, <3>2, <3>3
    <3> QED  BY <1>4, <2>1, <3>4 DEF limit
  <2>3. CASE q \notin events \cup batch
    BY <1>6, <2>1, <2>3
  <2> QED  BY <2>2, <2>3
<1>17. CASE Stop
  BY <1>6, <1>17 DEF Stop
<1>18. ASSUME NEW p \in Probes, SendProbe(p) \/ AnswerProbe(p) \/ FailProbe(p)
       PROVE  Goal
  <2>1. /\ UNCHANGED <<dialogue, waited>>
        /\ events' \cap Slots = events \cap Slots
        /\ batch' \cap Slots = batch \cap Slots
    BY <1>18, ReplicaAssumption DEF SendProbe, AnswerProbe, FailProbe, timeVars, Probes
  <2>2. next = n
    BY <2>1 DEF Ahead
  <2> QED  BY <1>1, <1>5, <1>7, <2>1, <2>2
<1>19. CASE Start \/ UNCHANGED loopVars
  <2>1. UNCHANGED <<events, batch, dialogue, waited>>
    BY <1>19 DEF Start, timeVars, loopVars
  <2> QED  BY <1>1, <1>5, <1>7, <2>1 DEF Ahead
<1> QED  BY <1>10, <1>12, <1>13, <1>14, <1>15, <1>16, <1>17, <1>18, <1>19
         DEF LoopNext, Operation, LoopStep, SmtpStep

LEMMA WaitInvInit == LoopInit => WaitInv
<1> SUFFICES ASSUME LoopInit PROVE WaitInv
  OBVIOUS
<1>1. Queued /\ Held /\ Waiting
  BY DEF LoopInit, Queued, Held, Waiting, Blocked, NoDialogue
<1> QED  BY <1>1, LoopInitInv DEF WaitInv

LEMMA WaitInvStep ==
  ASSUME IsFiniteSet(Slots), WaitInv, [LoopNext]_loopVars
  PROVE  WaitInv'
<1>1. LoopInv' /\ LoopTypeOK /\ LoopTypeOK'
  BY LoopNextInv DEF WaitInv, LoopInv
<1> QED  BY <1>1, QueuedStep, HeldStep, WaitingStep DEF WaitInv

LEMMA WaitingBounds ==
  ASSUME IsFiniteSet(Slots), WaitInv
  PROVE  WaitIsBounded
<1> SUFFICES ASSUME NEW s \in Slots
             PROVE  waited[s] <= 2 * (Cardinality(Slots) - 1) * Exchanges * SmtpTimeout
  BY DEF WaitIsBounded
<1>1. LoopTypeOK /\ waited[s] \in Nat
  BY DEF WaitInv, LoopInv, LoopTypeOK
<1> DEFINE n == Cardinality(Ahead(s))
<1>2. /\ Others \in Nat /\ Longest \in Nat /\ Left \in Nat
      /\ Others * Longest \in Nat /\ n * Longest \in Nat
  <2>1. Others \in Nat /\ n \in Nat
    BY AheadBounds DEF Ahead
  <2>2. Longest \in Nat /\ Left \in Nat
    BY <1>1, LeftBounds
  <2> HIDE DEF n
  <2> QED  BY <2>1, <2>2, Times
<1>3. waited[s] <= 2 * (Others * Longest)
  <2>1. CASE s \in events \cup batch
    <3>1. InTurn(s) <= 2 * (Others * Longest)
      <4>1. s \in batch => InTurn(s) <= 2 * (Others * Longest)
        BY DEF WaitInv, Waiting
      <4>2. s \in events => InTurn(s) <= Others * Longest
        BY DEF WaitInv, Waiting
      <4>3. InTurn(s) \in Int
        BY <1>1, <1>2 DEF InTurn
      <4> QED  BY <1>2, <2>1, <4>1, <4>2, <4>3
    <3>2. InTurn(s) = waited[s] + n * Longest + Left
      BY DEF InTurn
    <3> HIDE DEF n
    <3> QED  BY <1>1, <1>2, <3>1, <3>2
  <2>2. CASE s \notin events \cup batch
    <3>1. waited[s] = 0
      BY <2>2 DEF WaitInv, Queued
    <3> QED  BY <1>2, <3>1
  <2> QED  BY <2>1, <2>2
<1>4. 2 * (Others * Longest) = 2 * (Cardinality(Slots) - 1) * Exchanges * SmtpTimeout
  <2>1. ASSUME NEW o \in Nat, NEW e \in Nat, NEW t \in Nat
        PROVE  2 * (o * (e * t)) = 2 * o * e * t
    OBVIOUS
  <2>2. Others = Cardinality(Slots) - 1 /\ Exchanges \in Nat /\ SmtpTimeout \in Nat
    BY ReplicaAssumption DEF Others
  <2> QED  BY <1>2, <2>1, <2>2 DEF Longest
<1> QED  BY <1>3, <1>4

\* However long Cosmos DB takes and however slow the SMTP server is within its
\* timeout, no request waits for the loop longer than two dialogues of every other
\* request take.
THEOREM LoopWaitIsBounded ==
  ASSUME IsFiniteSet(Slots)
  PROVE  LoopSpec => []WaitIsBounded
<1>1. WaitInv /\ [LoopNext]_loopVars => WaitInv'
  BY WaitInvStep
<1>2. WaitInv => WaitIsBounded
  BY WaitingBounds
<1> QED  BY WaitInvInit, <1>1, <1>2, PTL DEF LoopSpec

=============================================================================
