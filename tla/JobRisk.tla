------------------------------- MODULE JobRisk -------------------------------
(***************************************************************************)
(* engine/risk.py over the two ledgers it reads: jobs are granted gangs    *)
(* and lose them as in AllocationLedger while they save checkpoints as in  *)
(* CheckpointLedger.  Nothing ties the two together but the job's name and *)
(* the clock: a job that was preempted and comes back under its name finds *)
(* its earlier checkpoints.                                                *)
(***************************************************************************)
EXTENDS AllocationLedger, Integers

CONSTANTS
    Steps,
    Durations,
    Delays,             \* how long after a checkpoint was taken it is saved
    NoClass,            \* qos_class=None
    MaxCheckpoints      \* bound: how many checkpoints are ever saved

ASSUME RiskAssumption ==
    /\ Steps \subseteq Nat /\ Durations \subseteq Nat /\ Delays \subseteq Nat
    /\ NoClass \notin QoSClasses
    /\ MaxCheckpoints \in Nat

VARIABLES
    checkpoints,
    checkpoint_history

INSTANCE CheckpointLedger

riskVars == <<vars, checkpoints, checkpoint_history>>

RiskInit == Init /\ CheckpointInit

CheckpointsSoFar ==
    Cardinality({c \in Jobs \X (1..MaxCheckpoints) : c[2] <= Len(checkpoints[c[1]])})

\* A caller passes the time the checkpoint was taken; more than one may be on
\* its way, so they may be saved in another order.
Save(j, step, duration, delay) ==
    /\ CheckpointsSoFar < MaxCheckpoints
    /\ delay <= now
    /\ SaveCheckpoint(j, step, duration, now - delay)
    /\ UNCHANGED vars

Allocation == Next /\ UNCHANGED <<checkpoints, checkpoint_history>>

RiskNext ==
    \/ Allocation
    \/ \E j \in Jobs, step \in Steps, duration \in Durations, delay \in Delays :
          Save(j, step, duration, delay)

RiskSpec == RiskInit /\ [][RiskNext]_riskVars

-----------------------------------------------------------------------------
(* The estimates.                                                          *)

\* Fault: the QoS class is not asked for.
RecordsOfAnyClass(qos_class) == 1..Len(history)

\* What an estimate is made from: of one QoS class, or of all.
RecordsOf(qos_class) ==
    {i \in 1..Len(history) : qos_class \in {NoClass, history[i].qos_class}}

\* preemption_probability, None where the denominator is 0.
PreemptionProbability(qos_class) ==
    [num |-> Cardinality({i \in RecordsOf(qos_class) : history[i].reason = "preempted"}),
     den |-> Cardinality(RecordsOf(qos_class))]

Baseline(j, allocated_at) ==
    IF HasCheckpoint(j) THEN latest_checkpoint(j).created_at ELSE allocated_at

unprotected_work_s(j, allocated_at) ==
    IF Baseline(j, allocated_at) < now THEN now - Baseline(j, allocated_at) ELSE 0

\* expected_data_loss_s, None where the denominator is 0.
ExpectedDataLoss(j, allocated_at, qos_class) ==
    LET p == PreemptionProbability(qos_class)
    IN  [num |-> p.num * unprotected_work_s(j, allocated_at), den |-> p.den]

-----------------------------------------------------------------------------
(* Properties.                                                             *)

\* What a running job stands to lose, as its caller computes it.
AtRisk(j) == unprotected_work_s(j, allocations[j].allocated_at)

Loss(j, qos_class) == ExpectedDataLoss(j, allocations[j].allocated_at, qos_class)

SavedInOrder(j) ==
    \A i, k \in 1..Len(checkpoints[j]) :
        i < k => checkpoints[j][i].created_at <= checkpoints[j][k].created_at

\* "time since its last checkpoint" (risk.py:33-35): it is counted from one of the
\* job's checkpoints, whatever tenure that was taken in.  Of those saved in the order
\* they were taken none is newer; when they come in another order the one that is
\* counted from was saved last, so the risk is overstated by no more than the delay of
\* a save.
RiskIsSinceNewest ==
    \A j \in Held :
        HasCheckpoint(j) =>
            LET since(i) == now - checkpoints[j][i].created_at
            IN  /\ \E i \in 1..Len(checkpoints[j]) : AtRisk(j) = since(i)
                /\ \E late \in Delays :
                      \A i \in 1..Len(checkpoints[j]) : AtRisk(j) <= since(i) + late
                /\ SavedInOrder(j) =>
                      \A i \in 1..Len(checkpoints[j]) : AtRisk(j) <= since(i)

\* Expected loss is an estimate about the jobs of one class, or of all when none is
\* asked for (risk.py:21-27, 42-58).  At one reading of the clock only two things raise
\* it for a running job: a job that the estimate is about is preempted, or a checkpoint
\* of its own comes in.
LossRisesForCause ==
    [][\A j \in Held, asked \in QoSClasses \cup {NoClass} :
          LET before == Loss(j, asked)
              after  == Loss(j, asked)'
          IN  /\ j \in Held' /\ now' = now
              /\ before.den > 0
              /\ after.num * before.den > before.num * after.den
              => \/ checkpoints'[j] # checkpoints[j]
                 \/ /\ Len(history') = Len(history) + 1
                    /\ history'[Len(history')].reason = "preempted"
                    /\ asked \in {NoClass, history'[Len(history')].qos_class}]_riskVars
=============================================================================
