-------------------------- MODULE CheckpointLedger ---------------------------
(***************************************************************************)
(* engine/checkpointing.py, with the checkpoint history of                 *)
(* engine/telemetry.py: the checkpoints of every job in the order they     *)
(* were saved, and beside them the cost of every write.                    *)
(*                                                                         *)
(* A job without an entry in a dict reads like one with an empty list, so  *)
(* both are functions on all jobs.  Of checkpoint_id, f"{job}-ckpt{k}",    *)
(* the number is kept.  Sizes, URIs and throughput are read by nothing.    *)
(* A fraction is a record of its numerator and its denominator.            *)
(***************************************************************************)
EXTENDS Integers, Sequences, FiniteSets, Functions

CONSTANTS
    Jobs,
    Steps,          \* training steps at which a checkpoint may be taken
    Durations       \* how long a write may take

Checkpoint == [checkpoint_id: Nat, step: Steps, created_at: Nat]

CheckpointTelemetry == [timestamp: Nat, duration_s: Durations]

VARIABLES
    checkpoints,            \* _checkpoints: what each job saved
    checkpoint_history      \* telemetry._checkpoint_history: what each write cost

CheckpointInit ==
    /\ checkpoints = [j \in Jobs |-> <<>>]
    /\ checkpoint_history = [j \in Jobs |-> <<>>]

\* Fault: the index of the last checkpoint.
NextIdFromLast(j) == IF checkpoints[j] = <<>> THEN 0 ELSE Len(checkpoints[j]) - 1

NextId(j) == Len(checkpoints[j])

SaveCheckpoint(j, step, duration, timestamp) ==
    /\ checkpoints' = [checkpoints EXCEPT ![j] =
          Append(@, [checkpoint_id |-> NextId(j), step |-> step, created_at |-> timestamp])]
    /\ checkpoint_history' = [checkpoint_history EXCEPT ![j] =
          Append(@, [timestamp |-> timestamp, duration_s |-> duration])]

HasCheckpoint(j) == checkpoints[j] # <<>>

\* Fault: the oldest checkpoint.
OldestCheckpoint(j) == checkpoints[j][1]

latest_checkpoint(j) == checkpoints[j][Len(checkpoints[j])]

\* The outcomes of load_checkpoint with an identifier: the first that has it,
\* none when it raises.
LoadCheckpoint(j, id) ==
    {checkpoints[j][i] : i \in
        {i \in 1..Len(checkpoints[j]) :
            /\ checkpoints[j][i].checkpoint_id = id
            /\ \A k \in 1..(i - 1) : checkpoints[j][k].checkpoint_id # id}}

\* The time between every checkpoint of j and the next.
Deltas(j) ==
    [i \in 1..(Len(checkpoints[j]) - 1) |->
        checkpoints[j][i + 1].created_at - checkpoints[j][i].created_at]

\* Fault: as many intervals as checkpoints.
MeanIntervalOverCheckpoints(j) == [num |-> SumFunction(Deltas(j)), den |-> Len(checkpoints[j])]

\* mean_checkpoint_interval_s, of two checkpoints or more.
MeanInterval(j) == [num |-> SumFunction(Deltas(j)), den |-> Len(checkpoints[j]) - 1]

MeanDuration(j) ==
    [num |-> SumFunction([i \in 1..Len(checkpoint_history[j]) |->
                            checkpoint_history[j][i].duration_s]),
     den |-> Len(checkpoint_history[j])]

\* Neither fewer than two checkpoints nor a mean interval of 0.
HasInterval(j) == Len(checkpoints[j]) >= 2 /\ MeanInterval(j).num # 0

\* checkpoint_overhead_fraction, where HasInterval holds and it is not None.
OverheadFraction(j) ==
    [num |-> MeanDuration(j).num * MeanInterval(j).den,
     den |-> MeanDuration(j).den * MeanInterval(j).num]

-----------------------------------------------------------------------------
(* Properties.                                                             *)

\* Every checkpoint can be loaded by the identifier it was given, however many
\* were saved of one step (checkpointing.py:41, 57-71): identifiers are not
\* reused, though they are counted and not drawn.
LoadReturnsSaved ==
    \A j \in Jobs : \A i \in 1..Len(checkpoints[j]) :
        LoadCheckpoint(j, checkpoints[j][i].checkpoint_id) = {checkpoints[j][i]}

\* A write ended before the next checkpoint was created, and the first, which
\* precedes every interval, took no longer than the mean interval.
WritesFitIntervals(j) ==
    /\ \A i \in 2..Len(checkpoints[j]) :
          checkpoint_history[j][i].duration_s <= Deltas(j)[i - 1]
    /\ checkpoint_history[j][1].duration_s * (Len(checkpoints[j]) - 1)
         <= latest_checkpoint(j).created_at - checkpoints[j][1].created_at

\* "Fraction of wall-clock time spent writing checkpoints" (checkpointing.py:101):
\* when writes fit between checkpoints the fraction is between 0 and 1, although
\* one mean is over the writes and the other over the intervals between them.
OverheadIsFraction ==
    \A j \in Jobs :
        HasInterval(j) /\ WritesFitIntervals(j) =>
            /\ 0 <= OverheadFraction(j).num
            /\ OverheadFraction(j).num <= OverheadFraction(j).den
=============================================================================
