---- MODULE MCJobs ----
(***************************************************************************)
(* Small instances of Tasks and Reminders, side by side, for the liveness  *)
(* of their periodic jobs: a behaviour runs the jobs of one module.  Two   *)
(* mature leads in the scan's order; batches of one task.                  *)
(***************************************************************************)
EXTENDS Tasks

CONSTANTS c1, l1, l2, ScanLimit, ReminderLimits, ReminderFailures

VARIABLES
    module,     \* whose jobs the worker runs
    rlimit, reminders, routbox, rpc, rqueue, rtarget, rop, rfailures

reminderVars == <<reminders, routbox, rpc, rqueue, rtarget, rop, rfailures>>

R == INSTANCE Reminders WITH
        Calls <- {c1}, Mature <- <<l1, l2>>, Limits <- ReminderLimits, MaxFailures <- ReminderFailures,
        limit <- rlimit, outbox <- routbox, pc <- rpc, queue <- rqueue, target <- rtarget,
        op <- rop, failures <- rfailures

ASSUME R!RemindersAssumption

JobsInit == module \in {"tasks", "crm"} /\ Init /\ R!Init

JobsNext ==
    \/ module = "tasks" /\ Next /\ UNCHANGED <<reminderVars, rlimit, module>>
    \/ module = "crm" /\ R!Next /\ UNCHANGED <<vars, limit, module>>

\* The fairness of Tasks and of Reminders, for the module whose jobs run.
JobsFairness ==
    /\ WF_vars(module = "tasks" /\ ListOverdueCandidates)
    /\ WF_vars(module = "tasks" /\ MarkOverdue)
    /\ WF_vars(module = "tasks" /\ ListPurgeCandidates)
    /\ WF_vars(module = "tasks" /\ DeleteByID)
    /\ \A j \in Jobs : WF_vars(module = "tasks" /\ EndJob(j))
    /\ \A p \in Processes : /\ WF_vars(module = "tasks" /\ Load(p))
                            /\ WF_vars(module = "tasks" /\ Save(p))
    /\ WF_reminderVars(module = "crm" /\ R!Scan)
    /\ WF_reminderVars(module = "crm" /\ R!CreateMature)

JobsSpec ==
    JobsInit /\ [][JobsNext]_<<vars, limit, reminderVars, rlimit, module>> /\ JobsFairness

\* Reminders' EveryMatureLeadReminded, where its scan runs: every mature lead within the
\* limit of the scan gets a reminder in the end, although candidates may fail and are
\* skipped (MatureLeadScanWorker.Work).
EveryMatureLeadReminded == module = "crm" => R!EveryMatureLeadReminded
====
