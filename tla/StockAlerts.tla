---- MODULE StockAlerts ----
(***************************************************************************)
(* The daily stock scans: ExpiryScanWorker and ReorderScanWorker           *)
(* (internal/inventory/app/jobs) over AlertScanRepository.  Both list the  *)
(* tenants, list each tenant's subjects (batches near expiry, products     *)
(* below their reorder level) and emit one alert per subject and day,      *)
(* through the dedup ledger inventory.alert_emissions.  An error ends the  *)
(* job, and river runs it again from the start.                            *)
(*                                                                         *)
(* The repository works on the pool directly and binds no scope, so what   *)
(* it sees is up to the row-level security of the role it connects as.     *)
(***************************************************************************)
EXTENDS Naturals, FiniteSets

CONSTANTS
    Subjects,     \* products or batches
    Tenants, TenantOf,
    Jobs,         \* runs that river starts
    BypassesRLS,  \* the role of the pool is exempt from row-level security
    MaxDay, MaxAttempts, MaxChanges  \* bounds

\* What the constants must satisfy.
StockAlertsAssumption ==
    /\ TenantOf \in [Subjects -> Tenants]
    /\ BypassesRLS \in BOOLEAN
    /\ MaxDay \in Nat \ {0} /\ MaxAttempts \in Nat \ {0} /\ MaxChanges \in Nat

VARIABLES
    due,       \* subjects that meet the condition of the scan now
    day,
    emissions, \* inventory.alert_emissions
    alerts,    \* how many events the outbox got for a subject and a day
    stage, attempt, today,
    tenantsLeft, rows,  \* what is left of the lists of a running job
    steady,    \* history: subjects due ever since the attempt began
    changes    \* bound: changes of stock so far

scanVars == <<due, day, emissions, alerts, stage, attempt, today, tenantsLeft, rows, steady, changes>>

Keys == Subjects \X (1 .. MaxDay)

ScanTypeOK ==
    /\ due \subseteq Subjects
    /\ day \in 1 .. MaxDay
    /\ emissions \subseteq Keys
    /\ alerts \in [Keys -> Nat]
    /\ stage \in [Jobs -> {"available", "tenants", "list", "emit", "completed", "discarded"}]
    /\ attempt \in [Jobs -> 0 .. MaxAttempts]
    /\ today \in [Jobs -> 1 .. MaxDay]
    /\ tenantsLeft \in [Jobs -> SUBSET Tenants]
    /\ rows \in [Jobs -> SUBSET Subjects]
    /\ steady \in [Jobs -> SUBSET Subjects]
    /\ changes \in 0 .. MaxChanges

ScanInit ==
    /\ due \in SUBSET Subjects
    /\ day = 1
    /\ emissions = {}
    /\ alerts = [k \in Keys |-> 0]
    /\ stage = [j \in Jobs |-> "available"]
    /\ attempt = [j \in Jobs |-> 0]
    /\ today = [j \in Jobs |-> 1]
    /\ tenantsLeft = [j \in Jobs |-> {}]
    /\ rows = [j \in Jobs |-> {}]
    /\ steady = [j \in Jobs |-> {}]
    /\ changes = 0

\* The policy of the tables: tenant_id = app.current_tenant() OR app.is_platform(),
\* both unset on this pool.
Visible(S) == IF BypassesRLS THEN S ELSE {}

\* Stock moves, time passes for a batch.
Change(s) ==
    /\ changes < MaxChanges
    /\ changes' = changes + 1
    /\ due' = IF s \in due THEN due \ {s} ELSE due \cup {s}
    /\ steady' = [j \in Jobs |-> steady[j] \cap due']
    /\ UNCHANGED <<day, emissions, alerts, stage, attempt, today, tenantsLeft, rows>>

NextDay ==
    /\ day < MaxDay
    /\ day' = day + 1
    /\ UNCHANGED <<due, emissions, alerts, stage, attempt, today, tenantsLeft, rows, steady, changes>>

\* river starts the job, or starts it again; Work takes its now once.
StartScan(j) ==
    /\ stage[j] = "available"
    /\ attempt' = [attempt EXCEPT ![j] = @ + 1]
    /\ today' = [today EXCEPT ![j] = day]
    /\ steady' = [steady EXCEPT ![j] = due]
    /\ stage' = [stage EXCEPT ![j] = "tenants"]
    /\ UNCHANGED <<due, day, emissions, alerts, tenantsLeft, rows, changes>>

\* A statement fails, or the worker stops: river retries up to its limit.
FailScan(j) ==
    /\ stage[j] \in {"tenants", "list", "emit"}
    /\ stage' = [stage EXCEPT ![j] = IF attempt[j] < MaxAttempts THEN "available" ELSE "discarded"]
    /\ tenantsLeft' = [tenantsLeft EXCEPT ![j] = {}]
    /\ rows' = [rows EXCEPT ![j] = {}]
    /\ steady' = [steady EXCEPT ![j] = {}]
    /\ UNCHANGED <<due, day, emissions, alerts, attempt, today, changes>>

ListTenants(j) ==
    /\ stage[j] = "tenants"
    /\ tenantsLeft' = [tenantsLeft EXCEPT ![j] = Visible(Tenants)]
    /\ stage' = [stage EXCEPT ![j] = "list"]
    /\ UNCHANGED <<due, day, emissions, alerts, attempt, today, rows, steady, changes>>

\* Fault: the scan ends with the first tenant that has nothing due.
ListSubjectsUntilEmpty(j) ==
    /\ stage[j] = "list"
    /\ \/ /\ tenantsLeft[j] = {}
          /\ stage' = [stage EXCEPT ![j] = "completed"]
          /\ UNCHANGED <<tenantsLeft, rows>>
       \/ \E t \in tenantsLeft[j] :
             /\ tenantsLeft' = [tenantsLeft EXCEPT ![j] = @ \ {t}]
             /\ rows' = [rows EXCEPT ![j] = Visible({s \in due : TenantOf[s] = t})]
             /\ stage' = [stage EXCEPT ![j] = IF rows'[j] = {} THEN "completed" ELSE "emit"]
    /\ UNCHANGED <<due, day, emissions, alerts, attempt, today, steady, changes>>

\* ListBatchesNearExpiry or ListProductsBelowReorder of the next tenant.
ListSubjects(j) ==
    /\ stage[j] = "list"
    /\ \/ /\ tenantsLeft[j] = {}
          /\ stage' = [stage EXCEPT ![j] = "completed"]
          /\ UNCHANGED <<tenantsLeft, rows>>
       \/ \E t \in tenantsLeft[j] :
             /\ tenantsLeft' = [tenantsLeft EXCEPT ![j] = @ \ {t}]
             /\ rows' = [rows EXCEPT ![j] = Visible({s \in due : TenantOf[s] = t})]
             /\ stage' = [stage EXCEPT ![j] = "emit"]
    /\ UNCHANGED <<due, day, emissions, alerts, attempt, today, steady, changes>>

\* EmitIfNew: INSERT ... ON CONFLICT DO NOTHING, the event, COMMIT, for one row.
EmitIfNew(j) ==
    /\ stage[j] = "emit"
    /\ \/ rows[j] = {} /\ stage' = [stage EXCEPT ![j] = "list"] /\ UNCHANGED <<emissions, alerts, rows>>
       \/ \E s \in rows[j] :
             /\ rows' = [rows EXCEPT ![j] = @ \ {s}]
             /\ emissions' = emissions \cup {<<s, today[j]>>}
             /\ alerts' = IF <<s, today[j]>> \in emissions THEN alerts
                          ELSE [alerts EXCEPT ![<<s, today[j]>>] = @ + 1]
             /\ UNCHANGED stage
    /\ UNCHANGED <<due, day, attempt, today, tenantsLeft, steady, changes>>

ScanNext ==
    \/ \E s \in Subjects : Change(s)
    \/ NextDay
    \/ \E j \in Jobs : StartScan(j) \/ FailScan(j) \/ ListTenants(j) \/ ListSubjects(j) \/ EmitIfNew(j)

ScanSpec == ScanInit /\ [][ScanNext]_scanVars

-----------------------------------------------------------------------------

\* A scan that completes has alerted every subject of every tenant that was due from
\* its start to its end ("Both run platform-scope (no tenant GUC binding) so they see
\* all tenants", package jobs), and however often the job is run or retried a subject
\* gets one alert a day, exactly when the dedup ledger says so (EmitIfNew writes both in
\* one transaction).
ScanIsComplete ==
    /\ ScanTypeOK
    /\ \A k \in Keys : alerts[k] = IF k \in emissions THEN 1 ELSE 0
    /\ \A j \in Jobs : stage[j] = "completed" =>
          \A s \in steady[j] : <<s, today[j]>> \in emissions
====
