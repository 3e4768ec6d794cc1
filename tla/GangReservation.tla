--------------------------- MODULE GangReservation ---------------------------
(***************************************************************************)
(* What the allocation ledger promises, with nothing said of how a gang is *)
(* found: a job holds its whole gang or nothing, a gang is granted in one  *)
(* step out of GPUs that are offered and that no one else holds, and is    *)
(* given back in one step.  GPUs are offered and withdrawn at will; what a *)
(* job holds is not touched by that.                                       *)
(***************************************************************************)
CONSTANTS
    Gpus,
    Jobs

VARIABLES
    offered,    \* the GPUs that are in service
    running,    \* the jobs that hold a gang
    gang        \* the GPUs that each job holds

vars == <<offered, running, gang>>

Init ==
    /\ offered \subseteq Gpus
    /\ running = {}
    /\ gang = [j \in Jobs |-> {}]

Unheld == {g \in Gpus : \A j \in Jobs : g \notin gang[j]}

Grant(j, S) ==
    /\ j \notin running
    /\ S \subseteq offered \cap Unheld
    /\ running' = running \cup {j}
    /\ gang' = [gang EXCEPT ![j] = S]
    /\ UNCHANGED offered

GiveBack(j) ==
    /\ j \in running
    /\ running' = running \ {j}
    /\ gang' = [gang EXCEPT ![j] = {}]
    /\ UNCHANGED offered

Offer(S) ==
    /\ offered' = S
    /\ UNCHANGED <<running, gang>>

Next ==
    \/ \E j \in Jobs, S \in SUBSET Gpus : Grant(j, S)
    \/ \E j \in Jobs : GiveBack(j)
    \/ \E S \in SUBSET Gpus : Offer(S)

Spec == Init /\ [][Next]_vars

\* What a user of the ledger relies on: gangs are disjoint, and only running
\* jobs hold GPUs.
Exclusive ==
    \A j \in Jobs :
        /\ gang[j] # {} => j \in running
        /\ \A k \in Jobs \ {j} : gang[j] \cap gang[k] = {}
=============================================================================
