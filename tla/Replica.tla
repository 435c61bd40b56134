------------------------------- MODULE Replica -------------------------------
(***************************************************************************)
(* The life of one replica: Startup, and then the operation ReplicaLoop    *)
(* describes, as often as the platform starts the container.  What         *)
(* ReplicaLoop takes for one step, Start, are the steps of Startup here,   *)
(* and may fail.                                                           *)
(***************************************************************************)
EXTENDS Startup, ReplicaLoop

CONSTANT
  Traffic   \* bound: settings, and .env file, of the replicas whose operation is explored

replicaVars == <<startVars, loopVars>>

\* A replica that is well can be put into operation.
Explored == broken = {} /\ <<env, dotenv>> \in Traffic

ReplicaInit == StartInit /\ LoopInit

\* Starting, until the preflight passes and the platform takes over.
Booting ==
  /\ Boot
  /\ IF Explored' /\ phase' = "serving" THEN Start ELSE UNCHANGED loopVars

\* In operation, with the probes and requests of ReplicaLoop.
Operating == Operation /\ UNCHANGED startVars

\* Requests to the other replicas show only which services they have.
Requesting ==
  /\ mode = "starting" /\ \E s \in Services : Request(s)
  /\ UNCHANGED loopVars

\* The container has exited, or is stopped for its probes, and is started again.
Restarting ==
  /\ Restart
  /\ \/ mode = "stopping" /\ Stop
     \/ mode = "starting" /\ UNCHANGED loopVars

ReplicaNext == Booting \/ Operating \/ Requesting \/ Restarting

ReplicaSpec == ReplicaInit /\ [][ReplicaNext]_replicaVars

\* Booting takes no outside help, a stop ends by its grace period.
ReplicaFairSpec ==
  /\ ReplicaSpec /\ LoopFairness
  /\ WF_replicaVars(Booting) /\ WF_replicaVars(mode = "stopping" /\ Restarting)

-----------------------------------------------------------------------------
(* Properties of the two together; each has more of its own.               *)

\* Every variable holds values of the kind its code counterpart holds; the loop of
\* a replica in operation is blocked by exactly the request that sends a mail.
ReplicaTypeOK == StartTypeOK /\ LoopTypeOK

=============================================================================
