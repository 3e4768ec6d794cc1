------------------------------ MODULE QuotaWalks ------------------------------
(***************************************************************************)
(* The loops of engine/quota_policy.py that walk the hierarchy, turn by    *)
(* turn, and the sum that engine/quotas.py makes of what they return.      *)
(*                                                                         *)
(* QuotaPolicy has the sets that the loops reach; here are the lists.  On  *)
(* a cycle the loops do not end, and nothing is said of what they return.  *)
(***************************************************************************)
EXTENDS QuotaLedger, SequencesExt

\* The parent of the tenant, NoParent if it has none or is not registered.
ParentOf(t) == IF t \in Registered THEN parent[t] ELSE NoParent

\* A loop that ends takes no more turns than there are tenants.
Turns == 0..Cardinality(Tenants)

\* The turns of a loop that ends at the first of its states that is the last.
TurnsUntil(states, last) ==
    CHOOSE n \in Turns : states[n] = last /\ \A m \in 0..(n - 1) : states[m] # last

\* The tenant that ancestor_chain is at after each number of turns.
Current(t) ==
    LET current[n \in Turns] == IF n = 0 THEN t ELSE ParentOf(current[n - 1])
    IN  current

ancestor_chain(t) == [i \in 1..TurnsUntil(Current(t), NoParent) |-> Current(t)[i - 1]]

\* A list of children for every tenant of the frontier.
ChildrenOfAll(frontier) ==
    FlattenSeq([i \in 1..Len(frontier) |-> SetToSeq(children_of(frontier[i]))])

\* The frontier of descendants_of after each number of turns.
Frontier(t) ==
    LET frontier[n \in Turns] ==
            IF n = 0 THEN SetToSeq(children_of(t)) ELSE ChildrenOfAll(frontier[n - 1])
    IN  frontier

descendants_of(t) ==
    FlattenSeq([i \in 1..TurnsUntil(Frontier(t), <<>>) |-> Frontier(t)[i - 1]])

subtree_usage(t) ==
    LET descendants == descendants_of(t)
    IN  usage[t] + SumFunction([i \in 1..Len(descendants) |-> usage[descendants[i]]])

-----------------------------------------------------------------------------
(* Properties.                                                             *)

\* On a hierarchy without a cycle the loops end and reach what the closed sets hold,
\* no tenant twice, so that subtree_usage counts every charge of the subtree once
\* (quota_policy.py:56-75, quotas.py:31-38).
LoopsComputeTheSets ==
    PolicyIsForest =>
        \A t \in Tenants :
            LET chain       == ancestor_chain(t)
                descendants == descendants_of(t)
            IN  /\ ToSet(chain) = Ancestors(t)
                /\ Len(chain) = Cardinality(Ancestors(t))
                /\ ToSet(descendants) = Descendants(t)
                /\ Len(descendants) = Cardinality(Descendants(t))
                /\ subtree_usage(t) = SubtreeUsage(t)
=============================================================================
