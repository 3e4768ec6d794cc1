----------------------------- MODULE QuotaImport ------------------------------
(***************************************************************************)
(* engine/quota_formats/yaml_format.py: how a quota file that people edit  *)
(* by hand becomes a QuotaPolicy.  The entries are put into an order where *)
(* parents come first, round by round, and then added one by one.          *)
(*                                                                         *)
(* The file is any sequence of entries: a tenant may come before its       *)
(* parent, have none in the file, or have several entries.  An entry is    *)
(* told by its position in the file, since two may be equal; the lists     *)
(* ready, not_ready and remaining keep the order of the file and are the   *)
(* sets of their positions.  The text of YAML and a tenant's scope are     *)
(* left out.                                                               *)
(***************************************************************************)
EXTENDS QuotaPolicy, Sequences

CONSTANTS
    Absent,     \* an entry has no quota, or no rate limit
    Files       \* the sequences of entries that may be imported

Entry == [tenant_id: Tenants, parent_id: Tenants \cup {NoParent},
          quota: QuotaSizes \cup {Absent}, rate_limit: RateLimits \cup {Absent}]

ASSUME FilesAssumption ==
    /\ Absent \notin QuotaSizes /\ Absent \notin RateLimits
    /\ Files \subseteq Seq(Entry)

VARIABLES
    file,         \* document["tenants"]
    remaining,    \* the positions of what _order_by_hierarchy has not placed
    ordered,      \* the positions of what it has, in its order
    count,        \* how many of them import_ has added to the policy
    stage         \* "running", or how the import ended: "done" or "refused"

vars == <<policyVars, file, remaining, ordered, count, stage>>

Init ==
    /\ PolicyInit
    /\ file \in Files
    /\ remaining = 1..Len(file)
    /\ ordered = <<>>
    /\ count = 0
    /\ stage = "running"

\* The i-th entry in the order that was found.
Placed(i) == file[ordered[i]]

Added == {Placed(i).tenant_id : i \in 1..Len(ordered)}

\* Fault: the parent only has to be somewhere in the file.
IsReadyIfListed(e) ==
    e.parent_id \in {NoParent} \cup {file[i].tenant_id : i \in 1..Len(file)}

IsReady(e) == e.parent_id \in {NoParent} \cup Added

Ready == {i \in remaining : IsReady(file[i])}

\* Fault: an entry is kept only while another one of its tenant is not ready.
NotReadyByTenant ==
    {i \in remaining : \A k \in Ready : file[k].tenant_id # file[i].tenant_id}

NotReady == {i \in remaining : ~IsReady(file[i])}

Ascends(s) == \A i, k \in DOMAIN s : i < k => s[i] < s[k]

\* The positions S from the first to the last.
InFileOrder(S) == CHOOSE s \in [1..Cardinality(S) -> S] : Ascends(s)

\* One round of the while loop: ready entries are moved, in the order of the file.
OrderRound ==
    /\ stage = "running"
    /\ Ready # {}
    /\ ordered' = ordered \o InFileOrder(Ready)
    /\ remaining' = NotReady
    /\ UNCHANGED <<policyVars, file, count, stage>>

\* Fault: a round without a ready entry is not noticed.
RefuseNever == FALSE

\* ValueError: a round found nothing ready.
Refuse ==
    /\ stage = "running"
    /\ remaining # {}
    /\ Ready = {}
    /\ stage' = "refused"
    /\ UNCHANGED <<policyVars, file, remaining, ordered, count>>

\* None of add_tenant, add_quota and add_rate_limit raises for entry e.
Acceptable(e) ==
    /\ ParentKnown(e.parent_id)
    /\ e.quota # Absent => e.quota >= 0
    /\ e.rate_limit # Absent => e.rate_limit.window_s > 0

\* The dict d with x for t.
Put(d, t, x) == [y \in DOMAIN d \cup {t} |-> IF y = t THEN x ELSE d[y]]

\* The same, unless there is nothing to set.
With(d, t, x) == IF x = Absent THEN d ELSE Put(d, t, x)

Adding == stage = "running" /\ remaining = {}

\* add_tenant, then add_quota and add_rate_limit where the entry has them.
AddEntry ==
    /\ Adding
    /\ count < Len(ordered)
    /\ LET e == Placed(count + 1)
       IN  /\ Acceptable(e)
           /\ parent' = Put(parent, e.tenant_id, e.parent_id)
           /\ max_gpus' = With(max_gpus, e.tenant_id, e.quota)
           /\ rate_limit' = With(rate_limit, e.tenant_id, e.rate_limit)
    /\ count' = count + 1
    /\ UNCHANGED <<file, remaining, ordered, stage>>

\* One of the three raises, and the policy built so far is dropped.
RefuseEntry ==
    /\ Adding
    /\ count < Len(ordered)
    /\ ~Acceptable(Placed(count + 1))
    /\ stage' = "refused"
    /\ UNCHANGED <<policyVars, file, remaining, ordered, count>>

Finish ==
    /\ Adding
    /\ count = Len(ordered)
    /\ stage' = "done"
    /\ UNCHANGED <<policyVars, file, remaining, ordered, count>>

Next == OrderRound \/ Refuse \/ AddEntry \/ RefuseEntry \/ Finish

\* import_ is one sequential call, which runs until it returns or raises.
Spec == Init /\ [][Next]_vars /\ WF_vars(Next)

\* Fault: a quota of no GPUs is taken for none.
ExportedUnlessZero ==
    {[tenant_id |-> t, parent_id |-> parent[t],
      quota |-> IF t \in DOMAIN max_gpus /\ max_gpus[t] # 0 THEN max_gpus[t] ELSE Absent,
      rate_limit |-> IF t \in DOMAIN rate_limit THEN rate_limit[t] ELSE Absent]
        : t \in Registered}

\* export: an entry for every tenant, with what it has.
Exported ==
    {[tenant_id |-> t, parent_id |-> parent[t],
      quota |-> IF t \in DOMAIN max_gpus THEN max_gpus[t] ELSE Absent,
      rate_limit |-> IF t \in DOMAIN rate_limit THEN rate_limit[t] ELSE Absent]
        : t \in Registered}

-----------------------------------------------------------------------------
(* Properties.                                                             *)

NoTenantTwice == \A i, j \in 1..Len(file) : file[i].tenant_id = file[j].tenant_id => i = j

\* "every parent appears before its children, regardless of the order they were
\* written in" (yaml_format.py:71-73), and no entry is lost or placed twice.
OrderIsSound ==
    /\ \A i \in 1..Len(ordered) :
          Placed(i).parent_id # NoParent =>
            \E k \in 1..(i - 1) : Placed(k).tenant_id = Placed(i).parent_id
    /\ \A p \in 1..Len(file) : p \in remaining \/ \E i \in 1..Len(ordered) : ordered[i] = p
    /\ Len(ordered) + Cardinality(remaining) = Len(file)

\* Entries whose parents are to be found only among themselves, or nowhere: the
\* "missing or cyclic parents" of the error message (yaml_format.py:81-85).
Unresolvable(S) ==
    /\ S # {}
    /\ \A i \in S : /\ file[i].parent_id # NoParent
                    /\ \A j \in 1..Len(file) :
                          file[j].tenant_id = file[i].parent_id => j \in S

Malformed(e) ==
    \/ e.quota # Absent /\ e.quota < 0
    \/ e.rate_limit # Absent /\ e.rate_limit.window_s <= 0

FileIsAtFault ==
    \/ \E S \in SUBSET (1..Len(file)) : Unresolvable(S)
    \/ \E i \in 1..Len(file) : Malformed(file[i])

\* An import is refused for a reason that is in the file, never because of the
\* order of its entries, and for no other reason is it let through: the file has
\* unresolvable entries, a negative quota or an empty window.
RefusedForCause ==
    /\ stage = "refused" => FileIsAtFault
    /\ stage = "done" => ~FileIsAtFault

\* Round trip (yaml_format.py:19-39, 41-67): a file with one entry for each tenant
\* is what the policy imported from it would be exported as, but for the order.
ImportIsFaithful ==
    stage = "done" /\ NoTenantTwice => Exported = {file[i] : i \in 1..Len(file)}

\* Every import ends, on a cyclic file too: each round places an entry or is the
\* last (yaml_format.py:77-88).
ImportEnds == <>(stage \in {"done", "refused"})
=============================================================================
