---------------------------- MODULE JobRiskProofs -----------------------------
(***************************************************************************)
(* Checkpoints and grants under one clock: the allocation ledger keeps its *)
(* promises whatever is saved beside it, a checkpoint is found under its   *)
(* identifier, and risk is counted from the newest checkpoint.             *)
(***************************************************************************)
EXTENDS JobRisk, AllocationLedgerProofs, Induction

\* Nothing that saves a checkpoint touches the allocation ledger (risk.py reads
\* both ledgers and writes neither), so each of its behaviours is one of Spec.
THEOREM RiskImplementsLedger == RiskSpec => Spec
<1>1. RiskInit => Init
    BY DEF RiskInit
<1>2. [RiskNext]_riskVars => [Next]_vars
  <2>1. RiskNext => [Next]_vars
      BY DEF RiskNext, Allocation, Save
  <2>2. UNCHANGED riskVars => UNCHANGED vars
      BY DEF riskVars
  <2>. QED
      BY <2>1, <2>2
<1>. QED
    BY <1>1, <1>2, PTL DEF RiskSpec, Spec

\* Identifiers count up from 0 and no checkpoint was taken in the future.
Numbered ==
    /\ checkpoints \in [Jobs -> Seq(Checkpoint)]
    /\ \A j \in Jobs : \A i \in 1..Len(checkpoints[j]) :
          /\ checkpoints[j][i].checkpoint_id = i - 1
          /\ checkpoints[j][i].created_at <= now

\* Nothing is saved at first (checkpointing.py:19-21).
LEMMA NumberedInit == RiskInit => Numbered
    BY DEF RiskInit, CheckpointInit, Numbered

\* save_checkpoint counts what the job has (checkpointing.py:38-47); the clock of the
\* ledger does not go back.
LEMMA NumberedStep == TypeOK /\ Numbered /\ [RiskNext]_riskVars => Numbered'
<1> SUFFICES ASSUME TypeOK, Numbered, [RiskNext]_riskVars
             PROVE  Numbered'
    OBVIOUS
<1>1. CASE UNCHANGED <<checkpoints, now>>
    BY <1>1 DEF Numbered
<1>2. CASE Allocation
  <2>1. UNCHANGED checkpoints
      BY <1>2 DEF Allocation
  <2>2. now' = now \/ now' = now + 1
      BY <1>2 DEF Allocation, Next, TryAllocate, CompleteJob, CancelJob, PreemptJob,
                  ReleaseOnDemand, Release, SetHealth, Tick
  <2>3. now \in Nat
      BY DEF TypeOK
  <2>4. ASSUME NEW j \in Jobs, NEW i \in 1..Len(checkpoints[j])
        PROVE  checkpoints[j][i].created_at <= now'
    <3>1. checkpoints[j][i] \in Checkpoint
        BY DEF Numbered
    <3>2. checkpoints[j][i].created_at \in Nat
        BY <3>1 DEF Checkpoint
    <3>. QED
        BY <2>2, <2>3, <3>2 DEF Numbered
  <2>. QED
      BY <2>1, <2>4 DEF Numbered
<1>3. ASSUME NEW j \in Jobs, NEW step \in Steps, NEW duration \in Durations,
             NEW delay \in Delays, Save(j, step, duration, delay)
      PROVE  Numbered'
  <2>. DEFINE c == [checkpoint_id |-> Len(checkpoints[j]), step |-> step,
                    created_at |-> now - delay]
  <2>1. /\ checkpoints' = [checkpoints EXCEPT ![j] = Append(checkpoints[j], c)]
        /\ now' = now
      BY <1>3 DEF Save, SaveCheckpoint, NextId, vars
  <2>2. checkpoints[j] \in Seq(Checkpoint)
      BY DEF Numbered
  <2>3. now - delay \in Nat /\ now - delay <= now
      BY <1>3, RiskAssumption DEF Save, TypeOK
  <2>4. c \in Checkpoint
      BY <2>2, <2>3 DEF Checkpoint
  <2>5. checkpoints' \in [Jobs -> Seq(Checkpoint)]
      BY <2>1, <2>2, <2>4 DEF Numbered
  <2>6. ASSUME NEW k \in Jobs, NEW i \in 1..Len(checkpoints'[k])
        PROVE  checkpoints'[k][i].checkpoint_id = i - 1 /\ checkpoints'[k][i].created_at <= now'
    <3>1. CASE k # j
        BY <2>1, <2>6, <3>1 DEF Numbered
    <3>2. CASE k = j
      <4>1. checkpoints'[k] = Append(checkpoints[j], c)
          BY <2>1, <3>2 DEF Numbered
      <4>2. CASE i = Len(checkpoints[j]) + 1
          BY <2>1, <2>2, <2>3, <4>1, <4>2
      <4>3. CASE i # Len(checkpoints[j]) + 1
        <5>1. i \in 1..Len(checkpoints[j]) /\ checkpoints'[k][i] = checkpoints[j][i]
            BY <2>2, <2>4, <2>6, <4>1, <4>3
        <5>. QED
            BY <2>1, <5>1 DEF Numbered
      <4>. QED
          BY <4>2, <4>3
    <3>. QED
        BY <3>1, <3>2
  <2>. QED
      BY <2>5, <2>6 DEF Numbered
<1>. QED
    BY <1>1, <1>2, <1>3 DEF RiskNext, riskVars, vars

\* The last checkpoint of a job is older than any other by no more than the delay of one
\* save: when it came in, none had been taken later than that moment.
LastIsHardlyOld ==
    \A j \in Jobs : HasCheckpoint(j) =>
        \E late \in Delays : \A i \in 1..Len(checkpoints[j]) :
            checkpoints[j][i].created_at <= latest_checkpoint(j).created_at + late

\* save_checkpoint appends whatever time it is given (checkpointing.py:38-47).
LEMMA LastStep == TypeOK /\ Numbered /\ LastIsHardlyOld /\ [RiskNext]_riskVars => LastIsHardlyOld'
<1> SUFFICES ASSUME TypeOK, Numbered, LastIsHardlyOld, [RiskNext]_riskVars
             PROVE  LastIsHardlyOld'
    OBVIOUS
<1>1. CASE UNCHANGED checkpoints
    BY <1>1 DEF LastIsHardlyOld, HasCheckpoint, latest_checkpoint
<1>2. ASSUME NEW j \in Jobs, NEW step \in Steps, NEW duration \in Durations,
             NEW delay \in Delays, Save(j, step, duration, delay)
      PROVE  LastIsHardlyOld'
  <2>. DEFINE c == [checkpoint_id |-> Len(checkpoints[j]), step |-> step,
                    created_at |-> now - delay]
              n == Len(checkpoints[j])
  <2>1. checkpoints' = [checkpoints EXCEPT ![j] = Append(checkpoints[j], c)]
      BY <1>2 DEF Save, SaveCheckpoint, NextId
  <2>2. checkpoints[j] \in Seq(Checkpoint) /\ n \in Nat
      BY DEF Numbered
  <2>3. now \in Nat /\ delay \in Nat
      BY RiskAssumption DEF TypeOK, RiskAssumption
  <2>4. ASSUME NEW k \in Jobs, HasCheckpoint(k)'
        PROVE  \E late \in Delays : \A i \in 1..Len(checkpoints'[k]) :
                  checkpoints'[k][i].created_at <= latest_checkpoint(k)'.created_at + late
    <3>1. CASE k # j
      <4>1. checkpoints'[k] = checkpoints[k]
          BY <2>1, <3>1 DEF Numbered
      <4>. QED
          BY <2>4, <4>1 DEF LastIsHardlyOld, HasCheckpoint, latest_checkpoint
    <3>2. CASE k = j
      <4>1. checkpoints'[k] = Append(checkpoints[j], c)
          BY <2>1, <3>2 DEF Numbered
      <4>2. /\ Len(checkpoints'[k]) = n + 1 /\ checkpoints'[k][n + 1] = c
            /\ \A i \in 1..n : checkpoints'[k][i] = checkpoints[j][i]
          BY <2>2, <4>1
      <4>3. latest_checkpoint(k)'.created_at + delay = now
          BY <2>3, <4>2 DEF latest_checkpoint
      <4>4. ASSUME NEW i \in 1..(n + 1)
            PROVE  checkpoints'[k][i].created_at <= now
        <5>1. CASE i \in 1..n
            BY <4>2, <5>1 DEF Numbered
        <5>2. CASE i = n + 1
            BY <2>3, <4>2, <5>2
        <5>. QED
            BY <2>2, <5>1, <5>2
      <4>. QED
          BY <4>2, <4>3, <4>4
    <3>. QED
        BY <3>1, <3>2
  <2>. QED
      BY <2>4 DEF LastIsHardlyOld
<1>. QED
    BY <1>1, <1>2 DEF RiskNext, riskVars, Allocation

\* With the types of the ledger, which its own behaviours keep.
LEMMA NumberedAlways == RiskSpec => [](TypeOK /\ Numbered)
<1>1. RiskSpec => []TypeOK
    BY RiskImplementsLedger, TypeCorrect, PTL
<1>. QED
    BY <1>1, NumberedInit, NumberedStep, PTL DEF RiskSpec

\* load_checkpoint finds every checkpoint under its identifier
\* (checkpointing.py:41, 57-71).
THEOREM SavedIsFound == RiskSpec => []LoadReturnsSaved
<1>1. Numbered => LoadReturnsSaved
  <2> SUFFICES ASSUME Numbered, NEW j \in Jobs, NEW i \in 1..Len(checkpoints[j])
               PROVE  LoadCheckpoint(j, checkpoints[j][i].checkpoint_id) = {checkpoints[j][i]}
      BY DEF LoadReturnsSaved
  <2>1. Len(checkpoints[j]) \in Nat
      BY DEF Numbered
  <2>2. \A k \in 1..Len(checkpoints[j]) :
            checkpoints[j][k].checkpoint_id = checkpoints[j][i].checkpoint_id <=> k = i
      BY <2>1 DEF Numbered
  <2>3. {k \in 1..Len(checkpoints[j]) :
            /\ checkpoints[j][k].checkpoint_id = checkpoints[j][i].checkpoint_id
            /\ \A h \in 1..(k - 1) :
                  checkpoints[j][h].checkpoint_id # checkpoints[j][i].checkpoint_id} = {i}
      BY <2>1, <2>2
  <2>. QED
      BY <2>3, Zenon DEF LoadCheckpoint
<1>. QED
    BY <1>1, NumberedAlways, PTL

\* With what is known of the numbers of checkpoints.
LEMMA LastIsHardlyOldAlways == RiskSpec => [](TypeOK /\ Numbered /\ LastIsHardlyOld)
<1>1. RiskInit => LastIsHardlyOld
    BY DEF RiskInit, CheckpointInit, LastIsHardlyOld, HasCheckpoint
<1>. QED
    BY <1>1, NumberedAlways, LastStep, PTL DEF RiskSpec

\* The work at risk is counted from the newest checkpoint of a job whose checkpoints
\* came in order, and else from one that is hardly older (risk.py:33-39).
THEOREM RiskCountsFromNewest == RiskSpec => []RiskIsSinceNewest
<1>1. TypeOK /\ Numbered /\ LastIsHardlyOld => RiskIsSinceNewest
  <2> SUFFICES ASSUME TypeOK, Numbered, LastIsHardlyOld, NEW j \in Held, HasCheckpoint(j)
               PROVE  LET since(i) == now - checkpoints[j][i].created_at
                      IN  /\ \E i \in 1..Len(checkpoints[j]) : AtRisk(j) = since(i)
                          /\ \E late \in Delays :
                                \A i \in 1..Len(checkpoints[j]) : AtRisk(j) <= since(i) + late
                          /\ SavedInOrder(j) =>
                                \A i \in 1..Len(checkpoints[j]) : AtRisk(j) <= since(i)
      BY DEF RiskIsSinceNewest
  <2>. DEFINE n == Len(checkpoints[j])
              t(i) == checkpoints[j][i].created_at
  <2>1. j \in Jobs
      BY DEF TypeOK
  <2>2. checkpoints[j] \in Seq(Checkpoint)
      BY <2>1 DEF Numbered
  <2>3. n \in Nat /\ n >= 1
      BY <2>2 DEF HasCheckpoint
  <2>4. ASSUME NEW i \in 1..n
        PROVE  t(i) \in Nat /\ t(i) <= now
    <3>1. checkpoints[j][i] \in Checkpoint
        BY <2>2
    <3>2. t(i) \in Nat
        BY <3>1 DEF Checkpoint
    <3>. QED
        BY <2>1, <2>3, <3>2 DEF Numbered
  <2>5. now \in Nat
      BY DEF TypeOK
  <2>6. AtRisk(j) = now - t(n)
    <3>1. Baseline(j, allocations[j].allocated_at) = t(n)
        BY DEF Baseline, latest_checkpoint
    <3>2. t(n) \in Nat /\ t(n) <= now
        BY <2>3, <2>4
    <3>. QED
        BY <2>5, <3>1, <3>2 DEF AtRisk, unprotected_work_s
  <2>7. PICK late \in Delays : \A i \in 1..n : t(i) <= t(n) + late
      BY <2>1 DEF LastIsHardlyOld, latest_checkpoint
  <2>8. late \in Nat /\ n \in 1..n
      BY <2>3, RiskAssumption DEF RiskAssumption
  <2>9. \A i \in 1..n : AtRisk(j) <= (now - t(i)) + late
      BY <2>4, <2>5, <2>6, <2>7, <2>8
  <2>10. SavedInOrder(j) => \A i \in 1..n : t(i) <= t(n)
    <3>1. \A i \in 1..n : i = n \/ i < n
        BY <2>3
    <3>. QED
        BY <2>4, <2>8, <3>1 DEF SavedInOrder
  <2>11. SavedInOrder(j) => \A i \in 1..n : AtRisk(j) <= now - t(i)
      BY <2>4, <2>5, <2>6, <2>8, <2>10
  <2>. QED
      BY <2>6, <2>8, <2>9, <2>11
<1>. QED
    BY <1>1, LastIsHardlyOldAlways, PTL
-----------------------------------------------------------------------------
(* The overhead of checkpoints.                                            *)

\* Of n writes that began at c and took d, each but the first took no longer than
\* the interval before it.
FitBetween(n, c, d, delta) ==
    \A i \in 1..(n - 1) : delta[i] = c[i + 1] - c[i] /\ d[i + 1] <= delta[i]

\* So far the writes took dm, the intervals ek, the last write began at cm; the first
\* began at first and took most.
WithinIntervals(ek, dm, cm, first, most) ==
    /\ ek \in Int /\ dm \in Int /\ cm \in Int /\ first \in Int /\ most \in Int
    /\ ek = cm - first /\ 0 <= dm /\ dm <= most + ek

OneMore(ek, em, dm, dl, cm, cl, write, step) ==
    /\ em = ek + step /\ dl = dm + write
    /\ step = cl - cm /\ write <= step
    /\ cl \in Nat /\ write \in Nat /\ step \in Int

LEMMA OneMoreWrite ==
    ASSUME NEW ek, NEW em, NEW dm, NEW dl, NEW cm, NEW cl, NEW first, NEW most,
           NEW write, NEW step, WithinIntervals(ek, dm, cm, first, most),
           OneMore(ek, em, dm, dl, cm, cl, write, step)
    PROVE  WithinIntervals(em, dl, cl, first, most)
BY DEF WithinIntervals, OneMore

\* The sums of their durations and of their intervals.
LEMMA WritesAgainstIntervals ==
    ASSUME NEW n \in Nat, n >= 2, NEW c \in [1..n -> Nat], NEW d \in [1..n -> Nat],
           NEW delta \in [1..(n - 1) -> Int], FitBetween(n, c, d, delta)
    PROVE  /\ SumFunction(d) \in Nat
           /\ SumFunction(delta) = c[n] - c[1]
           /\ SumFunction(d) <= d[1] + SumFunction(delta)
<1>1. PICK D \in [0..n -> Int] : /\ D[0] = 0
                                 /\ \A k \in 0..(n - 1) : D[k + 1] = D[k] + d[k + 1]
                                 /\ SumFunction(d) = D[n]
  <2>1. d \in [1..n -> Int]
      OBVIOUS
  <2>. QED
      BY <2>1, SumOfSequence
<1>2. PICK E \in [0..(n - 1) -> Int] : /\ E[0] = 0
                                       /\ \A k \in 0..((n - 1) - 1) : E[k + 1] = E[k] + delta[k + 1]
                                       /\ SumFunction(delta) = E[n - 1]
  <2>1. n - 1 \in Nat
      OBVIOUS
  <2>. QED
      BY <2>1, SumOfSequence
<1>. DEFINE Holds(k, m) == WithinIntervals(E[k], D[m], c[m], c[1], d[1])
            S == {k \in Nat : k <= n - 1 => Holds(k, k + 1)}
<1>3. 0 \in S
  <2>1. 0 \in 0..(n - 1) /\ 1 \in 1..n /\ 0 + 1 = 1
      OBVIOUS
  <2>2. D[1] = d[1]
    <3>1. D[0 + 1] = D[0] + d[0 + 1]
        BY <1>1, <2>1
    <3>. QED
        BY <1>1, <2>1, <3>1
  <2>3. d[1] \in Nat /\ c[1] \in Nat
      BY <2>1
  <2>4. Holds(0, 1)
      BY <1>2, <2>2, <2>3 DEF WithinIntervals
  <2>. HIDE DEF Holds
  <2>. QED
      BY <2>1, <2>4
<1>4. ASSUME NEW k \in Nat, k \in S
      PROVE  k + 1 \in S
  <2>. DEFINE m == k + 1
              l == m + 1
  <2>. SUFFICES ASSUME m <= n - 1
                PROVE  Holds(m, l)
      OBVIOUS
  <2>1. /\ k \in 0..(n - 1) /\ k \in 0..((n - 1) - 1) /\ m \in 0..(n - 1)
        /\ m \in 1..(n - 1) /\ l \in 1..n /\ m \in 1..n /\ m \in 0..n
      OBVIOUS
  <2>2. E[m] = E[k] + delta[m] /\ D[l] = D[m] + d[l]
      BY <1>1, <1>2, <2>1
  <2>3. Holds(k, m)
      BY <1>4, <2>1
  <2>. HIDE DEF m
  <2>4. delta[m] = c[l] - c[m] /\ d[l] <= delta[m]
      BY <2>1 DEF FitBetween
  <2>. HIDE DEF l
  <2>5. c[m] \in Nat /\ c[l] \in Nat /\ c[1] \in Nat /\ d[1] \in Nat /\ d[l] \in Nat
    <3>1. 1 \in 1..n
        OBVIOUS
    <3>. QED
        BY <2>1, <3>1
  <2>6. delta[m] \in Int
      BY <2>1
  <2>7. OneMore(E[k], E[m], D[m], D[l], c[m], c[l], d[l], delta[m])
      BY ONLY <2>2, <2>4, <2>5, <2>6, Zenon DEF OneMore
  <2>8. WithinIntervals(E[k], D[m], c[m], c[1], d[1])
      BY ONLY <2>3 DEF Holds
  <2>9. WithinIntervals(E[m], D[l], c[l], c[1], d[1])
      BY ONLY <2>7, <2>8, OneMoreWrite, Zenon
  <2>. QED
      BY ONLY <2>9 DEF Holds
<1>5. Holds(n - 1, n)
  <2>1. \A k \in Nat : k \in S
    <3>. HIDE DEF S
    <3>. QED
        BY <1>3, <1>4, Induct
  <2>2. n - 1 \in Nat /\ (n - 1) + 1 = n
      OBVIOUS
  <2>. HIDE DEF Holds
  <2>. QED
      BY <2>1, <2>2
<1>6. D[n] \in Int
    OBVIOUS
<1>. QED
    BY <1>1, <1>2, <1>5, <1>6 DEF WithinIntervals

\* Every checkpoint has a record of its write.
Recorded ==
    /\ checkpoint_history \in [Jobs -> Seq(CheckpointTelemetry)]
    /\ \A j \in Jobs : Len(checkpoint_history[j]) = Len(checkpoints[j])

\* save_checkpoint appends to both lists (checkpointing.py:47-55).
LEMMA RecordedStep == TypeOK /\ Numbered /\ Recorded /\ [RiskNext]_riskVars => Recorded'
<1>. SUFFICES ASSUME TypeOK, Numbered, Recorded, [RiskNext]_riskVars
              PROVE  Recorded'
    OBVIOUS
<1>1. CASE UNCHANGED <<checkpoints, checkpoint_history>>
    BY <1>1 DEF Recorded
<1>2. ASSUME NEW j \in Jobs, NEW step \in Steps, NEW duration \in Durations,
             NEW delay \in Delays, Save(j, step, duration, delay)
      PROVE  Recorded'
  <2>1. PICK c : checkpoints' = [checkpoints EXCEPT ![j] = Append(checkpoints[j], c)]
      BY <1>2 DEF Save, SaveCheckpoint
  <2>. DEFINE r == [timestamp |-> now - delay, duration_s |-> duration]
  <2>2. checkpoint_history' = [checkpoint_history EXCEPT ![j] = Append(checkpoint_history[j], r)]
      BY <1>2 DEF Save, SaveCheckpoint
  <2>3. r \in CheckpointTelemetry
    <3>1. now - delay \in Nat
        BY <1>2, RiskAssumption DEF Save, TypeOK, RiskAssumption
    <3>. QED
        BY <3>1 DEF CheckpointTelemetry
  <2>. HIDE DEF r
  <2>4. checkpoints[j] \in Seq(Checkpoint) /\ checkpoint_history[j] \in Seq(CheckpointTelemetry)
      BY DEF Numbered, Recorded
  <2>5. checkpoint_history' \in [Jobs -> Seq(CheckpointTelemetry)]
      BY <2>2, <2>3, <2>4 DEF Recorded
  <2>6. ASSUME NEW k \in Jobs
        PROVE  Len(checkpoint_history'[k]) = Len(checkpoints'[k])
    <3>1. CASE k # j
        BY <2>1, <2>2, <3>1 DEF Recorded, Numbered
    <3>2. CASE k = j
      <4>1. checkpoints'[k] = Append(checkpoints[j], c)
          BY <2>1, <3>2 DEF Numbered
      <4>2. checkpoint_history'[k] = Append(checkpoint_history[j], r)
          BY <2>2, <3>2 DEF Recorded
      <4>3. Len(checkpoints'[k]) = Len(checkpoints[j]) + 1
          BY <2>4, <4>1
      <4>4. Len(checkpoint_history'[k]) = Len(checkpoint_history[j]) + 1
          BY <2>3, <2>4, <4>2
      <4>. QED
          BY <4>3, <4>4 DEF Recorded
    <3>. QED
        BY <3>1, <3>2
  <2>. QED
      BY <2>5, <2>6 DEF Recorded
<1>. QED
    BY <1>1, <1>2 DEF RiskNext, riskVars, Allocation

LEMMA RecordedAlways == RiskSpec => [](TypeOK /\ Numbered /\ Recorded)
<1>1. RiskInit => Recorded
    BY DEF RiskInit, CheckpointInit, Recorded
<1>. QED
    BY <1>1, NumberedAlways, RecordedStep, PTL DEF RiskSpec

\* The overhead of checkpoints is a fraction, whatever was saved, of any number of
\* checkpoints whose writes fit between them (checkpointing.py:95-109).
THEOREM OverheadIsAFraction == RiskSpec => []OverheadIsFraction
<1>1. Numbered /\ Recorded => OverheadIsFraction
  <2>. SUFFICES ASSUME Numbered, Recorded, NEW j \in Jobs, HasInterval(j), WritesFitIntervals(j)
                PROVE  /\ 0 <= OverheadFraction(j).num
                       /\ OverheadFraction(j).num <= OverheadFraction(j).den
      BY DEF OverheadIsFraction
  <2>. DEFINE n == Len(checkpoints[j])
              c == [i \in 1..n |-> checkpoints[j][i].created_at]
              d == [i \in 1..n |-> checkpoint_history[j][i].duration_s]
              sumD == SumFunction(d)
              sumE == SumFunction(Deltas(j))
  <2>1. /\ checkpoints[j] \in Seq(Checkpoint) /\ checkpoint_history[j] \in Seq(CheckpointTelemetry)
        /\ Len(checkpoint_history[j]) = n
      BY DEF Numbered, Recorded
  <2>2. n \in Nat /\ n >= 2
      BY <2>1 DEF HasInterval
  <2>3. c \in [1..n -> Nat]
    <3>1. \A i \in 1..n : checkpoints[j][i] \in Checkpoint
        BY <2>1
    <3>2. \A i \in 1..n : checkpoints[j][i].created_at \in Nat
        BY <3>1 DEF Checkpoint
    <3>. QED
        BY <3>2
  <2>4. d \in [1..n -> Nat]
    <3>1. \A i \in 1..n : checkpoint_history[j][i] \in CheckpointTelemetry
        BY <2>1
    <3>2. \A i \in 1..n : checkpoint_history[j][i].duration_s \in Nat
        BY <3>1, RiskAssumption DEF CheckpointTelemetry, RiskAssumption
    <3>. QED
        BY <3>2
  <2>5. /\ Deltas(j) \in [1..(n - 1) -> Int]
        /\ \A i \in 1..(n - 1) : Deltas(j)[i] = c[i + 1] - c[i]
    <3>. DEFINE delta(i) == checkpoints[j][i + 1].created_at - checkpoints[j][i].created_at
    <3>1. \A i \in 1..(n - 1) : i \in 1..n /\ i + 1 \in 1..n
        BY <2>2
    <3>2. \A i \in 1..(n - 1) : delta(i) = c[i + 1] - c[i]
        BY <3>1
    <3>3. \A i \in 1..(n - 1) : delta(i) \in Int
      <4>1. \A i \in 1..(n - 1) : c[i + 1] \in Nat /\ c[i] \in Nat
          BY <2>3, <3>1
      <4>. HIDE DEF c, delta
      <4>. QED
          BY <3>2, <4>1
    <3>4. Deltas(j) = [i \in 1..(n - 1) |-> delta(i)]
        BY DEF Deltas
    <3>. HIDE DEF delta
    <3>. QED
        BY <3>2, <3>3, <3>4
  <2>6. \A i \in 1..(n - 1) : d[i + 1] <= Deltas(j)[i]
    <3>. TAKE i \in 1..(n - 1)
    <3>1. i + 1 \in 2..n /\ i + 1 \in 1..n /\ (i + 1) - 1 = i
        BY <2>2
    <3>2. checkpoint_history[j][i + 1].duration_s <= Deltas(j)[(i + 1) - 1]
        BY <3>1, Zenon DEF WritesFitIntervals
    <3>. QED
        BY <3>1, <3>2
  <2>7. d[1] * (n - 1) <= c[n] - c[1] /\ d[1] \in Nat
      BY <2>2, <2>4 DEF WritesFitIntervals, latest_checkpoint
  <2>8. sumD \in Nat /\ sumE = c[n] - c[1] /\ sumD <= d[1] + sumE /\ sumE \in Int
    <3>1. c[n] \in Nat /\ c[1] \in Nat
        BY <2>2, <2>3
    <3>2. FitBetween(n, c, d, Deltas(j))
        BY <2>5, <2>6 DEF FitBetween
    <3>. HIDE DEF n, c, d
    <3>3. /\ SumFunction(d) \in Nat
          /\ SumFunction(Deltas(j)) = c[n] - c[1]
          /\ SumFunction(d) <= d[1] + SumFunction(Deltas(j))
        BY <2>2, <2>3, <2>4, <2>5, <3>2, WritesAgainstIntervals
    <3>. QED
        BY <3>1, <3>3
  <2>9. /\ OverheadFraction(j).num = sumD * (n - 1)
        /\ OverheadFraction(j).den = n * sumE
    <3>1. [i \in 1..Len(checkpoint_history[j]) |-> checkpoint_history[j][i].duration_s] = d
        BY <2>1
    <3>. HIDE DEF d
    <3>. QED
        BY <2>1, <3>1, Zenon DEF OverheadFraction, MeanDuration, MeanInterval
  <2>10. 0 <= sumD * (n - 1) /\ sumD * (n - 1) <= n * sumE
    <3>. HIDE DEF sumD, sumE, n, c, d
    <3>1. n - 1 \in Nat
        BY <2>2
    <3>2. sumD * (n - 1) \in Nat
        BY <2>8, <3>1
    <3>3. sumD * (n - 1) <= (d[1] + sumE) * (n - 1)
        BY <2>7, <2>8, <3>1
    <3>4. (d[1] + sumE) * (n - 1) = d[1] * (n - 1) + sumE * (n - 1)
        BY <2>7, <2>8, <3>1
    <3>5. sumE + sumE * (n - 1) = n * sumE
        BY <2>2, <2>8
    <3>6. d[1] * (n - 1) <= sumE
        BY <2>7, <2>8
    <3>7. d[1] * (n - 1) \in Int /\ sumE * (n - 1) \in Int /\ n * sumE \in Int
        BY <2>2, <2>7, <2>8
    <3>. QED
        BY <2>8, <3>2, <3>3, <3>4, <3>5, <3>6, <3>7
  <2>. QED
      BY <2>9, <2>10
<1>. QED
    BY <1>1, RecordedAlways, PTL
-----------------------------------------------------------------------------
(* What raises the expected loss.                                          *)

\* The records in the history h of a class, or of all of them, and those of them that tell of a
\* preemption.
RecordsIn(h, qos_class) == {i \in 1..Len(h) : qos_class \in {NoClass, h[i].qos_class}}

PreemptedIn(h, qos_class) == {i \in RecordsIn(h, qos_class) : h[i].reason = "preempted"}

\* Any record but that of a preemption of the class makes the denominator grow, if
\* anything.
LEMMA OneRecordMore ==
    ASSUME NEW R, NEW h \in Seq(R), NEW r, NEW qos_class,
           ~(r.reason = "preempted" /\ qos_class \in {NoClass, r.qos_class})
    PROVE  /\ PreemptedIn(Append(h, r), qos_class) = PreemptedIn(h, qos_class)
           /\ \/ RecordsIn(Append(h, r), qos_class) = RecordsIn(h, qos_class)
              \/ RecordsIn(Append(h, r), qos_class) = RecordsIn(h, qos_class) \cup {Len(h) + 1}
<1>. DEFINE n == Len(h)
            h2 == Append(h, r)
<1>1. /\ n \in Nat /\ Len(h2) = n + 1 /\ h2[n + 1] = r
      /\ \A i \in 1..n : h2[i] = h[i]
    OBVIOUS
<1>. HIDE DEF n, h2
<1>2. 1..(n + 1) = (1..n) \cup {n + 1} /\ n + 1 \notin 1..n
    BY <1>1
<1>3. RecordsIn(h2, qos_class)
        = RecordsIn(h, qos_class) \cup (IF qos_class \in {NoClass, r.qos_class} THEN {n + 1} ELSE {})
    BY <1>1, <1>2 DEF RecordsIn, n
<1>4. RecordsIn(h, qos_class) \subseteq 1..n
    BY DEF RecordsIn, n
<1>5. PreemptedIn(h2, qos_class) = PreemptedIn(h, qos_class)
    BY <1>1, <1>2, <1>3, <1>4 DEF PreemptedIn
<1>. QED
    BY <1>3, <1>5 DEF n, h2

\* A step leaves the allocation of a job that keeps it as it was, and writes one
\* record at most.
LEMMA HistoryStep ==
    ASSUME [RiskNext]_riskVars, NEW j \in Held, j \in Held'
    PROVE  /\ allocations'[j] = allocations[j]
           /\ history' = history \/ \E r : history' = Append(history, r)
<1>1. [Next]_vars
    BY DEF RiskNext, Allocation, Save, riskVars
<1>2. ASSUME NEW req \in Requests, TryAllocate(req)
      PROVE  allocations'[j] = allocations[j] /\ history' = history
    BY <1>2 DEF TryAllocate, HoldsNothing, Held
<1>3. ASSUME NEW k \in Jobs, NEW reason \in Reasons, NEW grace \in GracePeriods,
             Release(k, reason, grace)
      PROVE  allocations'[j] = allocations[j] /\ \E r : history' = Append(history, r)
  <2>1. \E r : history' = Append(history, r)
      BY <1>3, Zenon DEF Release
  <2>2. allocations'[j] = allocations[j]
      BY <1>3 DEF Release, Held
  <2>. QED
      BY <2>1, <2>2
<1>4. ASSUME \/ \E n \in Nodes, h \in NodeHealth : SetHealth(n, h)
             \/ Tick
             \/ UNCHANGED vars
      PROVE  allocations'[j] = allocations[j] /\ history' = history
    BY <1>4 DEF SetHealth, Tick, vars, ledgerVars
<1>. QED
    BY <1>1, <1>2, <1>3, <1>4, StepKinds

\* A larger denominator makes the fraction smaller, if anything.
LEMMA LessOfMore ==
    ASSUME NEW num \in Nat, NEW u \in Nat, NEW den \in Nat, NEW more \in Nat, den <= more
    PROVE  (num * u) * den <= (num * u) * more
<1>1. num * u \in Nat
    OBVIOUS
<1>2. \A k, d, e \in Nat : d <= e => k * d <= k * e
    OBVIOUS
<1>. QED
    BY <1>1, <1>2

\* While the clock stands still the expected loss of a running job rises only with
\* a preemption in its class, or when a checkpoint of its own comes in that is older
\* than the last (risk.py:23-58).
THEOREM LossHasItsCause == RiskSpec => LossRisesForCause
<1>. DEFINE Rises(j, asked) ==
              LET before == Loss(j, asked)
                  after  == Loss(j, asked)'
              IN  /\ j \in Held' /\ now' = now
                  /\ before.den > 0
                  /\ after.num * before.den > before.num * after.den
                  => \/ checkpoints'[j] # checkpoints[j]
                     \/ /\ Len(history') = Len(history) + 1
                        /\ history'[Len(history')].reason = "preempted"
                        /\ asked \in {NoClass, history'[Len(history')].qos_class}
<1>1. ASSUME TypeOK, Numbered, [RiskNext]_riskVars, NEW j \in Held,
             NEW asked \in QoSClasses \cup {NoClass}
      PROVE  Rises(j, asked)
  <2>. DEFINE a == allocations[j].allocated_at
              u == unprotected_work_s(j, a)
              num == Cardinality(PreemptedIn(history, asked))
              den == Cardinality(RecordsIn(history, asked))
              num2 == Cardinality(PreemptedIn(history', asked))
              den2 == Cardinality(RecordsIn(history', asked))
  <2>. SUFFICES ASSUME j \in Held', now' = now, checkpoints'[j] = checkpoints[j],
                       ~(/\ Len(history') = Len(history) + 1
                         /\ history'[Len(history')].reason = "preempted"
                         /\ asked \in {NoClass, history'[Len(history')].qos_class})
                PROVE  ~(Loss(j, asked)'.num * Loss(j, asked).den
                           > Loss(j, asked).num * Loss(j, asked)'.den)
      OBVIOUS
  <2>1. j \in Jobs /\ a \in Nat /\ now \in Nat /\ history \in Seq(Records)
      BY <1>1 DEF TypeOK, IsAllocation
  <2>2. /\ allocations'[j] = allocations[j]
        /\ history' = history \/ \E r : history' = Append(history, r)
      BY <1>1, HistoryStep
  <2>3. u \in Nat
    <3>1. checkpoints[j] \in Seq(Checkpoint)
        BY <1>1, <2>1 DEF Numbered
    <3>2. Baseline(j, a) \in Nat
      <4>1. CASE HasCheckpoint(j)
        <5>1. Len(checkpoints[j]) \in 1..Len(checkpoints[j])
            BY <3>1, <4>1 DEF HasCheckpoint
        <5>2. latest_checkpoint(j) \in Checkpoint
            BY <3>1, <5>1 DEF latest_checkpoint
        <5>. QED
            BY <4>1, <5>2 DEF Baseline, Checkpoint
      <4>2. CASE ~HasCheckpoint(j)
          BY <2>1, <4>2 DEF Baseline
      <4>. QED
          BY <4>1, <4>2
    <3>. HIDE DEF a
    <3>. QED
        BY <2>1, <3>2 DEF unprotected_work_s
  <2>4. /\ Loss(j, asked).num = num * u /\ Loss(j, asked).den = den
        /\ Loss(j, asked)'.num = num2 * u /\ Loss(j, asked)'.den = den2
    <3>1. Loss(j, asked).num = num * u /\ Loss(j, asked).den = den
        BY DEF Loss, ExpectedDataLoss, PreemptionProbability, RecordsOf, RecordsIn, PreemptedIn
    <3>2. Loss(j, asked)'.num = num2 * u /\ Loss(j, asked)'.den = den2
        BY <2>2 DEF Loss, ExpectedDataLoss, PreemptionProbability, RecordsOf, RecordsIn,
                    PreemptedIn, unprotected_work_s, Baseline, HasCheckpoint, latest_checkpoint
    <3>. QED
        BY <3>1, <3>2
  <2>5. num2 = num /\ den \in Nat /\ den2 \in Nat /\ num \in Nat /\ den <= den2
    <3>1. /\ IsFiniteSet(RecordsIn(history, asked)) /\ IsFiniteSet(PreemptedIn(history, asked))
          /\ Len(history) \in Nat
      <4>1. IsFiniteSet(1..Len(history)) /\ Len(history) \in Nat
          BY <2>1, FS_Interval
      <4>2. RecordsIn(history, asked) \subseteq 1..Len(history)
          BY DEF RecordsIn
      <4>3. PreemptedIn(history, asked) \subseteq RecordsIn(history, asked)
          BY DEF PreemptedIn
      <4>. QED
          BY <4>1, <4>2, <4>3, FS_Subset
    <3>2. den \in Nat /\ num \in Nat
        BY <3>1, FS_CardinalityType
    <3>3. CASE history' = history
        BY <3>2, <3>3
    <3>4. ASSUME NEW r, history' = Append(history, r)
          PROVE  num2 = num /\ den2 \in Nat /\ den <= den2
      <4>1. Len(history') = Len(history) + 1 /\ history'[Len(history')] = r
          BY <2>1, <3>4
      <4>2. ~(r.reason = "preempted" /\ asked \in {NoClass, r.qos_class})
          BY <4>1
      <4>3. /\ PreemptedIn(history', asked) = PreemptedIn(history, asked)
            /\ \/ RecordsIn(history', asked) = RecordsIn(history, asked)
               \/ RecordsIn(history', asked) = RecordsIn(history, asked) \cup {Len(history) + 1}
          BY <2>1, <3>4, <4>2, OneRecordMore
      <4>4. Len(history) + 1 \notin RecordsIn(history, asked)
          BY <3>1 DEF RecordsIn
      <4>5. Cardinality(RecordsIn(history, asked) \cup {Len(history) + 1}) = den + 1
          BY <3>1, <4>4, FS_AddElement
      <4>6. den2 = den \/ den2 = den + 1
          BY <4>3, <4>5, Zenon
      <4>7. num2 = num
          BY <4>3, Zenon
      <4>. HIDE DEF num, den, num2, den2
      <4>. QED
          BY <3>2, <4>6, <4>7
    <3>. QED
        BY <2>2, <3>2, <3>3, <3>4
  <2>6. (num * u) * den <= (num * u) * den2
      BY <2>3, <2>5, LessOfMore
  <2>. HIDE DEF num, den, u, num2, den2
  <2>7. num * u \in Nat
      BY <2>3, <2>5
  <2>8. (num * u) * den \in Int /\ (num * u) * den2 \in Int
      BY <2>5, <2>7
  <2>. QED
      BY <2>4, <2>5, <2>6, <2>8
<1>2. TypeOK /\ Numbered /\ [RiskNext]_riskVars 
          => \A j \in Held, asked \in QoSClasses \cup {NoClass} : Rises(j, asked)
    BY <1>1
<1>. QED
    BY <1>2, NumberedAlways, PTL DEF RiskSpec, LossRisesForCause
=============================================================================
