---- MODULE MCLeads ----
(***************************************************************************)
(* Small instances of CrmLeads, Verification and Tasks, side by side: a    *)
(* behaviour exercises one of them.  One purchase is delivered by every    *)
(* delivery.  The sets of interchangeable requests are shared.             *)
(***************************************************************************)
EXTENDS CrmLeads, Verification, TLC

CONSTANTS
    MaxOverlapping,   \* bound: requests of a lead in a behaviour where they overlap
    k1, j1

VARIABLES
    tlimit, tasks, toutbox, late, old, tpc, queue, target, op, tmem, tfailures

taskVars == <<tlimit, tasks, toutbox, late, old, tpc, queue, target, op, tmem, tfailures>>

ASSUME VerificationAssumption

\* One call that asks for a callback, two requests of users, and two members of whom
\* the users may assign to one.
W == INSTANCE Tasks WITH
        Calls <- {k1}, Conversions <- {}, Edits <- Deliveries,
        Members <- {k1, j1}, Subordinates <- {j1},
        OverdueScanBatchSize <- 1, PurgeBatchSize <- 1, MaxTasks <- 2, MaxFailures <- 1,
        limit <- tlimit, outbox <- toutbox, pc <- tpc, mem <- tmem, failures <- tfailures

MCPurchaseOf == [d \in Deliveries |-> CHOOSE p \in Purchases : TRUE]

CrmIdle == limit = 1 /\ failures = 0 /\ \A r \in Deliveries \cup Edits : pc[r] = "idle"
VerificationIdle == verifyLimit = 1 /\ contacts[k1] = NoContact /\ \A r \in Requests : agentStep[r] = "idle"
TasksIdle == tlimit = 1 /\ tasks = <<>> /\ tfailures = 0 /\ \A p \in DOMAIN tpc : tpc[p] = "idle"

LeadsInit == Init /\ VerifyInit /\ W!Init

LeadsNext ==
    \/ VerificationIdle /\ TasksIdle /\ Next /\ UNCHANGED <<verifyVars, taskVars>>
    \/ CrmIdle /\ TasksIdle /\ VerifyNext /\ UNCHANGED <<vars, taskVars>>
    \/ CrmIdle /\ VerificationIdle /\ W!Next /\ UNCHANGED <<vars, verifyVars>>

LeadsSpec == LeadsInit /\ [][LeadsNext]_<<vars, verifyVars, taskVars>>

\* Leads: one at a time, all edits after a single delivery; overlapping, MaxOverlapping
\* requests, both deliveries among them or not.  Contacts: overlapping, four of the
\* requests and calls.  Tasks: updates overlap, or a statement of the first task fails.
Scope ==
    /\ IF limit = 1
       THEN Cardinality({d \in Deliveries : pc[d] # "idle"}) <= 1 /\ failures = 0
       ELSE Cardinality({r \in Deliveries \cup Edits : pc[r] # "idle"}) <= MaxOverlapping
    /\ verifyLimit = 1 \/ \E r \in Requests : agentStep[r] = "idle"
    /\ tfailures = 0 \/ (tlimit = 1 /\ Len(tasks) <= 1)

\* Tasks' ClosedStaysClosed: a source has at most one open task (uq_tasks_source_open)
\* and every state was announced; one update at a time, a completed or cancelled task is
\* closed once and stays as it is; only closed tasks are purged.
ClosedStaysClosed == W!ClosedStaysClosed

Symmetry == Permutations(Deliveries) \cup Permutations(Members)
====
