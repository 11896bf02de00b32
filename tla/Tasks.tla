---- MODULE Tasks ----
(***************************************************************************)
(* The work items of one tenant (internal/tasks).  Users create, start,    *)
(* complete, cancel and reassign them; the subscribers of crm.call_logged  *)
(* and crm.lead_converted make them; the overdue scan and the purge are    *)
(* periodic jobs.  Every update loads the row without a lock, changes it   *)
(* in memory and writes its columns back (WorkItemRepository.UpdateByID).  *)
(* The index uq_tasks_source_open allows one open task per source.         *)
(***************************************************************************)
EXTENDS Naturals, Sequences, FiniteSets

CONSTANTS
    Calls,          \* call-logged messages whose call asks for a callback
    Conversions,    \* lead-converted messages
    Edits,          \* requests of users
    Members,
    Subordinates,   \* members that the users' hierarchy lets them assign to
    OverdueScanBatchSize, PurgeBatchSize,
    MaxTasks,       \* bound: rows of tasks.work_items
    Limits,         \* bounds: how many updates are handled at the same time
    MaxFailures,    \* bound: failed statements and repeated deliveries
    None

Sources == Calls \cup Conversions
Jobs == {"overdue", "purge"}
Processes == Sources \cup Edits \cup Jobs
Ids == 1 .. MaxTasks

ASSUME TasksAssumption ==
    /\ Calls \cap Conversions = {} /\ None \notin Sources \cup Members \cup Ids
    /\ Subordinates \subseteq Members /\ Subordinates # {}
    /\ {OverdueScanBatchSize, PurgeBatchSize} \subseteq Nat \ {0}
    /\ MaxTasks \in Nat /\ Limits \subseteq Nat /\ MaxFailures \in Nat

Terminal == {"completed", "cancelled"}
Open == {"pending", "in_progress"}
States == Open \cup {"overdue"} \cup Terminal

WorkItems == [source : Sources \cup {None}, state : States, assignee : Members, deleted : BOOLEAN]
EventTypes == {"Created", "Completed", "Cancelled", "Overdue", "Reassigned"}
Ops == {"start", "complete", "cancel", "overdue"} \X {None} \cup {"reassign"} \X Members

VARIABLES
    limit,     \* how many requests the server handles at the same time
    tasks,     \* tasks.work_items, in the order of the inserts
    outbox,    \* events <<type, task, writer>>
    late,      \* tasks whose due_at has passed
    old,       \* closed tasks beyond PurgeRetention
    pc, queue, \* of every process; the candidates that a job has not handled yet
    target, op, mem, \* the update of a process: the task, the operation, the loaded row
    failures

vars == <<tasks, outbox, late, old, pc, queue, target, op, mem, failures>>

TypeOK ==
    /\ limit \in Limits
    /\ tasks \in Seq(WorkItems) /\ Len(tasks) <= MaxTasks
    /\ outbox \subseteq EventTypes \X Ids \X Processes
    /\ late \subseteq DOMAIN tasks /\ old \subseteq DOMAIN tasks
    /\ pc \in [Processes -> {"idle", "lookup", "load", "save", "create", "next", "done", "refused", "error"}]
    /\ queue \in [Jobs -> SUBSET Ids]
    /\ target \in [Processes -> Ids \cup {None}]
    /\ op \in [Processes -> Ops \cup {None}]
    /\ mem \in [Processes -> WorkItems \cup {None}]
    /\ failures \in 0 .. MaxFailures

Goto(p, next) == pc' = [pc EXCEPT ![p] = next]
Updating == {p \in Processes : pc[p] \in {"load", "save"}}

Fail ==
    /\ failures < MaxFailures
    /\ failures' = failures + 1

-----------------------------------------------------------------------------
(* Insertion.                                                               *)

\* The rows of uq_tasks_source_open, and the answer of GetOpenWorkItemBySource.
OpenOf(s) ==
    {i \in DOMAIN tasks : tasks[i].source = s /\ tasks[i].state \in Open /\ ~tasks[i].deleted}

newCommon(s, m) == [source |-> s, state |-> "pending", assignee |-> m, deleted |-> FALSE]

InsertWorkItem(w) == tasks' = Append(tasks, w)

\* insertWorkItemRow, the event, COMMIT.
Add(s, m, by) ==
    /\ Len(tasks) < MaxTasks
    /\ InsertWorkItem(newCommon(s, m))
    /\ outbox' = outbox \cup {<<"Created", Len(tasks) + 1, by>>}

\* CreateWorkItem by a user.
CreateWorkItem(e) ==
    /\ pc[e] = "idle"
    /\ \E m \in Members : Add(None, m, e)
    /\ Goto(e, "done")
    /\ UNCHANGED <<late, old, queue, target, op, mem, failures>>

\* AutoCreateFromCallLog and AutoCreateFollowUp: a task that exists is a success.
AutoCreate(s) ==
    /\ pc[s] = "create"
    /\ IF OpenOf(s) # {} THEN UNCHANGED <<tasks, outbox>> ELSE \E m \in Members : Add(s, m, s)
    /\ Goto(s, "done")
    /\ UNCHANGED <<late, old, queue, target, op, mem, failures>>

-----------------------------------------------------------------------------
(* Updates.                                                                 *)

\* The methods of WorkItem yield the row that they leave, or None if they refuse.
StartItem(w) == IF w.state \in {"overdue"} \cup Terminal THEN None ELSE [w EXCEPT !.state = "in_progress"]

Complete(w) == IF w.state = "cancelled" THEN None ELSE [w EXCEPT !.state = "completed"]

\* Cancelled again for the same reason, the task stays as it is and nothing is
\* announced; it is left out, as the refusal for another reason has the same effect.
Cancel(w) == IF w.state \in Terminal THEN None ELSE [w EXCEPT !.state = "cancelled"]

\* Fault: MarkOverdue does not look at the state.
OverdueAnyhow(w) == [w EXCEPT !.state = "overdue"]

Overdue(w) == IF w.state \in Terminal THEN w ELSE [w EXCEPT !.state = "overdue"]

Reassign(w, m) == IF w.state \in Terminal THEN None ELSE [w EXCEPT !.assignee = m]

Mutate(w, o) ==
    CASE o[1] = "start" -> StartItem(w)
      [] o[1] = "complete" -> Complete(w)
      [] o[1] = "cancel" -> Cancel(w)
      [] o[1] = "overdue" -> Overdue(w)
      [] o[1] = "reassign" -> Reassign(w, o[2])

\* The start of a task has no integration event.
mapDomainEvents == [start |-> {}, complete |-> {"Completed"}, cancel |-> {"Cancelled"},
                    overdue |-> {"Overdue"}, reassign |-> {"Reassigned"}]

\* Where a process goes when its update has been handled: a delivery goes on to create
\* the task, and comes again after an error; a job goes on with the next candidate.
After(p, outcome) ==
    CASE p \in Sources -> IF outcome = "done" THEN "create" ELSE "idle"
      [] p \in Jobs -> "next"
      [] p \in Edits -> outcome

Finish(p, outcome) ==
    /\ Goto(p, After(p, outcome))
    /\ target' = [target EXCEPT ![p] = None]
    /\ op' = [op EXCEPT ![p] = None]
    /\ mem' = [mem EXCEPT ![p] = None]

GetWorkItemByID(i) == IF tasks[i].deleted THEN None ELSE tasks[i]

\* loadWorkItem and the update function; nothing is written when nothing changes.
Load(p) ==
    LET w == GetWorkItemByID(target[p])
        changed == IF w = None THEN None ELSE Mutate(w, op[p])
    IN
    /\ pc[p] = "load"
    /\ IF changed = None THEN Finish(p, "refused")
       ELSE IF changed = w THEN Finish(p, "done")
       ELSE /\ Goto(p, "save")
            /\ mem' = [mem EXCEPT ![p] = changed]
            /\ UNCHANGED <<target, op>>
    /\ UNCHANGED <<tasks, outbox, late, old, queue, failures>>

\* WHERE id = $1 AND NOT is_deleted: a row purged meanwhile stays as it is.
UpdateWorkItem(i, w) == tasks' = IF tasks[i].deleted THEN tasks ELSE [tasks EXCEPT ![i] = w]

\* UpdateWorkItem, the event, COMMIT.  A state written back to an open one may meet
\* uq_tasks_source_open.
Save(p) ==
    LET i == target[p] IN
    /\ pc[p] = "save"
    /\ IF mem[p].source # None /\ mem[p].state \in Open /\ OpenOf(mem[p].source) \ {i} # {}
       THEN Finish(p, "error") /\ UNCHANGED <<tasks, outbox, old>>
       ELSE /\ UpdateWorkItem(i, mem[p])
            /\ old' = old \ {i}
            /\ outbox' = outbox \cup {<<ev, i, p>> : ev \in mapDomainEvents[op[p][1]]}
            /\ Finish(p, "done")
    /\ UNCHANGED <<late, queue, failures>>

\* A statement fails and the transaction rolls back.
Abort(p) ==
    /\ pc[p] \in {"load", "save"}
    /\ Fail
    /\ Finish(p, "error")
    /\ UNCHANGED <<tasks, outbox, late, old, queue>>

Begin(p, i, o) ==
    /\ Cardinality(Updating) < limit
    /\ target' = [target EXCEPT ![p] = i]
    /\ op' = [op EXCEPT ![p] = o]
    /\ Goto(p, "load")

StartWorkItem(e) ==
    /\ pc[e] = "idle"
    /\ \E i \in DOMAIN tasks : Begin(e, i, <<"start", None>>)
    /\ UNCHANGED <<tasks, outbox, late, old, queue, mem, failures>>

CompleteWorkItem(e) ==
    /\ pc[e] = "idle"
    /\ \E i \in DOMAIN tasks : Begin(e, i, <<"complete", None>>)
    /\ UNCHANGED <<tasks, outbox, late, old, queue, mem, failures>>

CancelWorkItem(e) ==
    /\ pc[e] = "idle"
    /\ \E i \in DOMAIN tasks : Begin(e, i, <<"cancel", None>>)
    /\ UNCHANGED <<tasks, outbox, late, old, queue, mem, failures>>

\* The new assignee is an active member and in the hierarchy of the user.
ReassignWorkItem(e) ==
    /\ pc[e] = "idle"
    /\ \E i \in DOMAIN tasks : \E m \in Subordinates : Begin(e, i, <<"reassign", m>>)
    /\ UNCHANGED <<tasks, outbox, late, old, queue, mem, failures>>

-----------------------------------------------------------------------------
(* The subscribers.                                                         *)

\* A call first completes the open task of the same call.
DeliverCall(c) ==
    /\ pc[c] = "idle"
    /\ Goto(c, "lookup")
    /\ UNCHANGED <<tasks, outbox, late, old, queue, target, op, mem, failures>>

AutoCompleteBySource(c) ==
    /\ pc[c] = "lookup"
    /\ \/ OpenOf(c) = {} /\ Goto(c, "create") /\ UNCHANGED <<target, op>>
       \/ \E i \in OpenOf(c) : Begin(c, i, <<"complete", None>>)
    /\ UNCHANGED <<tasks, outbox, late, old, queue, mem, failures>>

DeliverConversion(s) ==
    /\ pc[s] = "idle"
    /\ Goto(s, "create")
    /\ UNCHANGED <<tasks, outbox, late, old, queue, target, op, mem, failures>>

\* The message comes again: the handler failed, or it was not marked as handled.
Redeliver(s) ==
    /\ pc[s] \in {"lookup", "create", "done"}
    /\ Fail
    /\ Goto(s, "idle")
    /\ UNCHANGED <<tasks, outbox, late, old, queue, target, op, mem>>

-----------------------------------------------------------------------------
(* The jobs.                                                                *)

\* A query's answer: at most n of the rows.
Batches(S, n) == {B \in SUBSET S : B = S \/ Cardinality(B) = n} \ {B \in SUBSET S : Cardinality(B) > n}

OverdueCandidates == {i \in late : ~tasks[i].deleted /\ tasks[i].state \in Open}

\* Fault: the tasks that are deleted already are candidates.
PurgeCandidatesDeleted == {i \in old : tasks[i].state \in Terminal}

PurgeCandidates == {i \in old : ~tasks[i].deleted /\ tasks[i].state \in Terminal}

List(j, candidates, size) ==
    /\ pc[j] = "idle"
    /\ \E B \in Batches(candidates, size) : queue' = [queue EXCEPT ![j] = B]
    /\ Goto(j, "next")
    /\ UNCHANGED <<tasks, outbox, late, old, target, op, mem, failures>>

ListOverdueCandidates == List("overdue", OverdueCandidates, OverdueScanBatchSize)

ListPurgeCandidates == List("purge", PurgeCandidates, PurgeBatchSize)

MarkOverdue ==
    /\ pc["overdue"] = "next"
    /\ \E i \in queue["overdue"] :
          /\ Begin("overdue", i, <<"overdue", None>>)
          /\ queue' = [queue EXCEPT !["overdue"] = @ \ {i}]
    /\ UNCHANGED <<tasks, outbox, late, old, mem, failures>>

SoftDeleteWorkItem(i) == tasks' = [tasks EXCEPT ![i].deleted = TRUE]

\* The row is deleted whatever its state is by now; a failure is skipped.
DeleteByID ==
    /\ pc["purge"] = "next"
    /\ \E i \in queue["purge"] :
          /\ queue' = [queue EXCEPT !["purge"] = @ \ {i}]
          /\ \/ SoftDeleteWorkItem(i) /\ UNCHANGED failures
             \/ Fail /\ UNCHANGED tasks
    /\ UNCHANGED <<outbox, late, old, pc, target, op, mem>>

EndJob(j) ==
    /\ pc[j] = "next" /\ queue[j] = {}
    /\ Goto(j, "idle")
    /\ UNCHANGED <<tasks, outbox, late, old, queue, target, op, mem, failures>>

-----------------------------------------------------------------------------
(* Time.                                                                    *)

FallDue(i) ==
    /\ i \in DOMAIN tasks \ late
    /\ late' = late \cup {i}
    /\ UNCHANGED <<tasks, outbox, old, pc, queue, target, op, mem, failures>>

\* 90 days after a task was closed, when no transaction of that time is left.
GrowOld(i) ==
    /\ i \in DOMAIN tasks \ old /\ tasks[i].state \in Terminal
    /\ \A p \in Updating : target[p] # i
    /\ old' = old \cup {i}
    /\ UNCHANGED <<tasks, outbox, late, pc, queue, target, op, mem, failures>>

Init ==
    /\ limit \in Limits
    /\ tasks = <<>> /\ outbox = {} /\ late = {} /\ old = {}
    /\ pc = [p \in Processes |-> "idle"]
    /\ queue = [j \in Jobs |-> {}]
    /\ target = [p \in Processes |-> None]
    /\ op = [p \in Processes |-> None]
    /\ mem = [p \in Processes |-> None]
    /\ failures = 0

Next ==
    /\ UNCHANGED limit
    /\ \/ \E e \in Edits : \/ CreateWorkItem(e) \/ StartWorkItem(e) \/ CompleteWorkItem(e)
                           \/ CancelWorkItem(e) \/ ReassignWorkItem(e)
       \/ \E c \in Calls : DeliverCall(c) \/ AutoCompleteBySource(c)
       \/ \E s \in Conversions : DeliverConversion(s)
       \/ \E s \in Sources : AutoCreate(s) \/ Redeliver(s)
       \/ ListOverdueCandidates \/ MarkOverdue \/ ListPurgeCandidates \/ DeleteByID
       \/ \E j \in Jobs : EndJob(j)
       \/ \E p \in Processes : Load(p) \/ Save(p) \/ Abort(p)
       \/ \E i \in Ids : FallDue(i) \/ GrowOld(i)

\* river runs the two jobs again and again, and an update that has begun goes on.
Fairness ==
    /\ WF_vars(ListOverdueCandidates) /\ WF_vars(MarkOverdue)
    /\ WF_vars(ListPurgeCandidates) /\ WF_vars(DeleteByID)
    /\ \A j \in Jobs : WF_vars(EndJob(j))
    /\ \A p \in Processes : WF_vars(Load(p)) /\ WF_vars(Save(p))

Spec == Init /\ [][Next]_<<vars, limit>> /\ Fairness

-----------------------------------------------------------------------------
(* Properties.                                                              *)

\* A source has at most one pending or started task.
OneOpenPerSource ==
    \A s \in Sources :
        Cardinality({i \in DOMAIN tasks : /\ tasks[i].source = s /\ tasks[i].state \in Open
                                          /\ ~tasks[i].deleted}) <= 1

\* The outbox explains every row.
StateWasAnnounced ==
    LET announcement == [pending |-> "Created", in_progress |-> "Created", overdue |-> "Overdue",
                         completed |-> "Completed", cancelled |-> "Cancelled"]
    IN  \A i \in DOMAIN tasks :
            \E p \in Processes : <<announcement[tasks[i].state], i, p>> \in outbox

Recorded == TypeOK /\ OneOpenPerSource /\ StateWasAnnounced

\* However messages are repeated and updates overlap, a source has at most one pending
\* or started task ("at most ONE open work_item per (source_entity_type,
\* source_entity_id)", uq_tasks_source_open), and a task is in a state only if the event
\* that says so was written ("Aggregate methods emit one domain event per transition; the
\* repository drains them", package workitem; a start has none).
\* If updates come one at a time, a completed or cancelled task is closed once, stays as
\* it is until it is purged (State.IsTerminal), also when the overdue scan listed it
\* before, and gets no second announcement.  An update that loaded the task earlier
\* opens it again.  In any case the purge takes closed tasks only, although it does not
\* look at the state again.
ClosedStaysClosed ==
    [][/\ Recorded'
       /\ limit = 1 => \A i \in DOMAIN tasks : tasks[i].state \in Terminal =>
             /\ [tasks'[i] EXCEPT !.deleted = FALSE] = [tasks[i] EXCEPT !.deleted = FALSE]
             /\ \A k \in outbox' \ outbox : k[2] # i
       /\ \A i \in DOMAIN tasks : tasks'[i].deleted => tasks'[i].state \in Terminal]_vars

\* The jobs reach every task however small the batches are and although a row may fail
\* ("the periodic interval catches up", OverdueScanBatchSize): one whose time has passed
\* is flagged, unless it is closed first, and an old closed one is purged.
JobsReachEveryTask ==
    \A i \in Ids :
        /\ (i \in late) ~> (i \in late /\ tasks[i].state \notin Open)
        /\ (i \in old) ~> (i \in DOMAIN tasks /\ tasks[i].deleted)
====
