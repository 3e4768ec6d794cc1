----------------------------- MODULE AtomicStore -----------------------------
(***************************************************************************)
(* What engine/formats promise of the paths that topologies are exported   *)
(* to, one for each format: a path holds what can be imported from it,     *)
(* nothing at first, and an export sets it in one step to the topology in  *)
(* memory.  Only where an export replaces what another one left is it in   *)
(* danger: until that export ends, crashes included, anything may be found *)
(* there.                                                                  *)
(***************************************************************************)
CONSTANT
    Formats

VARIABLES
    memory,     \* the topology that the process works on
    stored,     \* of every format, the set of what an import may return
    unsettled   \* the formats that are in danger

vars == <<memory, stored, unsettled>>

Init == stored = [f \in Formats |-> {}] /\ unsettled = {}

Keep(f) == stored'[f] = stored[f] /\ (f \in unsettled' <=> f \in unsettled)

Save(f) ==
    /\ stored[f] = {} \/ f \in unsettled
    /\ stored'[f] = {memory}
    /\ f \notin unsettled'
    /\ memory' = memory

\* Or a save in a format that cannot return what it was given.
Remove(f) ==
    /\ stored'[f] = {}
    /\ f \notin unsettled'
    /\ memory' = memory

\* The last is how it begins: with the path as it was, or with part of it removed.
Endanger(f) ==
    /\ f \in unsettled'
    /\ f \notin unsettled => stored'[f] \in {stored[f], {}}

Next == \A f \in Formats : Keep(f) \/ Save(f) \/ Remove(f) \/ Endanger(f)

Spec == Init /\ [][Next]_vars
=============================================================================
