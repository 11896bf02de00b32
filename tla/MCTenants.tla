---- MODULE MCTenants ----
(***************************************************************************)
(* A small instance of Tenants: the platform tenant, two registrations     *)
(* that compete for one slug and one administrator, a catalogue of two     *)
(* roles.                                                                  *)
(***************************************************************************)
EXTENDS Tenants, TLC

MCCatalogue == <<"CompanyOwner", "SalesManager">>

\* Four requests one after the other, with a failure or time, or three that overlap,
\* where one part of the tenant stands for all that are updated (one after the other,
\* in the fourth request).  They are numbered in the order in which they start.
Scope ==
    /\ \/ /\ limit = 1 /\ (failures = 0 \/ clock = 0)
          /\ \/ \E c \in Calls : pc[c] = "idle"
             \/ \A t \in TenantIds, p \in Edited \ {"profile"} :
                   tenants[t] # None => tenants[t].parts[p] = None
       \/ /\ failures = 0 /\ clock = 0
          /\ \E c \in Calls : pc[c] = "idle"
          /\ \A c \in Calls : cmd[c] # None => cmd[c][1] \notin Edited \ {"profile"}
    /\ \A c, d \in Calls : c < d /\ pc[d] # "idle" => pc[c] # "idle"

Symmetry == Permutations(TenantIds \ {Platform})
====
