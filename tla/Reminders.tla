---- MODULE Reminders ----
(***************************************************************************)
(* CRM reminders (internal/crm/domain/reminder, app/command, app/jobs,     *)
(* ports/subscribers).  A callback reminder is made by the call-logged     *)
(* subscriber, a mature-lead reminder by the daily scan, both through      *)
(* CreateReminderHandler; users mark reminders sent or cancel them.        *)
(* Two partial unique indexes allow one PENDING reminder per call and one  *)
(* per mature lead.                                                        *)
(***************************************************************************)
EXTENDS Naturals, Sequences, FiniteSets

CONSTANTS
    Calls,        \* call logs that ask for a callback
    Mature,       \* mature leads, in the order of the scan's query
    Edits,        \* MarkReminderSent and CancelReminder requests
    ScanLimit,    \* MatureLeadScanLimit (1000 in the code)
    Limits,       \* bounds: how many edits are handled at the same time
    MaxFailures,  \* bound: failed statements and repeated deliveries
    None

Leads == {Mature[i] : i \in DOMAIN Mature}
States == {"pending", "sent", "cancelled"}
Creators == Calls \cup {"scan"}
MaxReminders == Cardinality(Calls) + Len(Mature) + Cardinality(Edits)

ReminderRows ==
         [type : {"callback"}, of : Calls, state : States]
    \cup [type : {"mature_lead"}, of : Leads, state : States]

RemindersAssumption ==
    /\ \A i, j \in DOMAIN Mature : Mature[i] = Mature[j] => i = j
    /\ Calls \cap Leads = {} /\ ScanLimit \in Nat \ {0}
    /\ Limits \subseteq Nat /\ MaxFailures \in Nat

VARIABLES
    limit,     \* how many requests the server handles at the same time
    reminders, \* crm.reminders, in the order of the inserts
    outbox,    \* reminders' events: <<type, reminder, edit>>
    pc,        \* of the delivery of each call, of the scan and of each edit
    queue,     \* candidates that the scan has not handled yet
    target, op, \* the reminder and the operation of an edit
    failures

vars == <<reminders, outbox, pc, queue, target, op, failures>>

Ids == 1 .. MaxReminders

TypeOK ==
    /\ limit \in Limits
    /\ reminders \in Seq(ReminderRows) /\ Len(reminders) <= MaxReminders
    /\ outbox \subseteq {"Created", "MarkedSent", "Cancelled"} \X Ids \X (Edits \cup {None})
    /\ pc \in [Creators \cup Edits ->
                 {"idle", "create", "acked", "load", "save", "ok", "refused", "error"}]
    /\ queue \in Seq(Leads)
    /\ target \in [Edits -> Ids \cup {None}]
    /\ op \in [Edits -> {"sent", "cancelled"}]
    /\ failures \in 0 .. MaxFailures

Goto(r, next) == pc' = [pc EXCEPT ![r] = next]

newReminder(type, x) == [type |-> type, of |-> x, state |-> "pending"]

Pending(type, x) ==
    \E i \in DOMAIN reminders : /\ reminders[i].type = type /\ reminders[i].of = x
                                /\ reminders[i].state = "pending"

\* CreateReminderHandler: INSERT, the event, COMMIT.  A violation of a partial unique
\* index is AlreadyExisted, a success.
Add(type, x) ==
    IF Pending(type, x)
    THEN UNCHANGED <<reminders, outbox>>
    ELSE /\ reminders' = Append(reminders, newReminder(type, x))
         /\ outbox' = outbox \cup {<<"Created", Len(reminders) + 1, None>>}

-----------------------------------------------------------------------------
(* CallbackReminderCreator.                                                 *)

Deliver(c) ==
    /\ pc[c] = "idle"
    /\ Goto(c, "create")
    /\ UNCHANGED <<reminders, outbox, queue, target, op, failures>>

CreateCallback(c) ==
    /\ pc[c] = "create"
    /\ Add("callback", c)
    /\ Goto(c, "acked")
    /\ UNCHANGED <<queue, target, op, failures>>

\* The handler fails, or the worker stops after the commit and before the message is
\* marked: it is delivered again.
Redeliver(c) ==
    /\ pc[c] \in {"create", "acked"} /\ failures < MaxFailures
    /\ failures' = failures + 1
    /\ Goto(c, "idle")
    /\ UNCHANGED <<reminders, outbox, queue, target, op>>

-----------------------------------------------------------------------------
(* MatureLeadScanWorker.                                                    *)

\* The first ScanLimit converted leads, whether they have a reminder or not.
MatureLeads == SubSeq(Mature, 1, IF ScanLimit < Len(Mature) THEN ScanLimit ELSE Len(Mature))

Scan ==
    /\ pc["scan"] = "idle"
    /\ queue' = MatureLeads
    /\ Goto("scan", "create")
    /\ UNCHANGED <<reminders, outbox, target, op, failures>>

\* Fault: the scan stops at the first lead that has its reminder.
CreateMatureUntilExisting ==
    /\ pc["scan"] = "create"
    /\ \/ /\ queue = <<>>
          /\ Goto("scan", "idle")
          /\ UNCHANGED <<reminders, outbox, queue, failures>>
       \/ /\ queue # <<>>
          /\ Add("mature_lead", Head(queue))
          /\ queue' = IF Pending("mature_lead", Head(queue)) THEN <<>> ELSE Tail(queue)
          /\ UNCHANGED <<pc, failures>>
       \/ /\ queue # <<>> /\ failures < MaxFailures
          /\ failures' = failures + 1
          /\ queue' = Tail(queue)
          /\ UNCHANGED <<reminders, outbox, pc>>
    /\ UNCHANGED <<target, op>>

\* One candidate; one that fails is skipped.
CreateMature ==
    /\ pc["scan"] = "create"
    /\ \/ /\ queue = <<>>
          /\ Goto("scan", "idle")
          /\ UNCHANGED <<reminders, outbox, queue, failures>>
       \/ /\ queue # <<>>
          /\ Add("mature_lead", Head(queue))
          /\ queue' = Tail(queue)
          /\ UNCHANGED <<pc, failures>>
       \/ /\ queue # <<>> /\ failures < MaxFailures
          /\ failures' = failures + 1
          /\ queue' = Tail(queue)
          /\ UNCHANGED <<reminders, outbox, pc>>
    /\ UNCHANGED <<target, op>>

-----------------------------------------------------------------------------
(* MarkReminderSent and CancelReminder.                                     *)

Start(e, o) ==
    /\ pc[e] = "idle"
    /\ Cardinality({f \in Edits : pc[f] \in {"load", "save"}}) < limit
    /\ \E i \in DOMAIN reminders : target' = [target EXCEPT ![e] = i]
    /\ op' = [op EXCEPT ![e] = o]
    /\ Goto(e, "load")
    /\ UNCHANGED <<reminders, outbox, queue, failures>>

MarkReminderSent(e) == Start(e, "sent")

CancelReminder(e) == Start(e, "cancelled")

\* loadReminder, without a lock, and the update function.
Load(e) ==
    /\ pc[e] = "load"
    /\ Goto(e, IF reminders[target[e]].state = "pending" THEN "save" ELSE "refused")
    /\ UNCHANGED <<reminders, outbox, queue, target, op, failures>>

\* UpdateReminderState (WHERE id = $1), the event, COMMIT.
Save(e) ==
    /\ pc[e] = "save"
    /\ reminders' = [reminders EXCEPT ![target[e]].state = op[e]]
    /\ outbox' = outbox \cup {<<IF op[e] = "sent" THEN "MarkedSent" ELSE "Cancelled", target[e], e>>}
    /\ Goto(e, "ok")
    /\ UNCHANGED <<queue, target, op, failures>>

Abort(e) ==
    /\ pc[e] \in {"load", "save"}
    /\ Goto(e, "error")
    /\ UNCHANGED <<reminders, outbox, queue, target, op, failures>>

Init ==
    /\ limit \in Limits
    /\ reminders = <<>>
    /\ outbox = {}
    /\ pc = [r \in Creators \cup Edits |-> "idle"]
    /\ queue = <<>>
    /\ target = [e \in Edits |-> None]
    /\ op = [e \in Edits |-> "sent"]
    /\ failures = 0

Next ==
    /\ UNCHANGED limit
    /\ \/ \E c \in Calls : Deliver(c) \/ CreateCallback(c) \/ Redeliver(c)
       \/ Scan \/ CreateMature
       \/ \E e \in Edits : MarkReminderSent(e) \/ CancelReminder(e) \/ Load(e) \/ Save(e) \/ Abort(e)

\* river runs the scan every day, and a worker that runs a job goes on with it; a
\* message is delivered until it is acknowledged.
Fairness ==
    /\ WF_vars(Scan) /\ WF_vars(CreateMature)
    /\ \A c \in Calls : WF_vars(Deliver(c)) /\ WF_vars(CreateCallback(c))

Spec == Init /\ [][Next]_<<vars, limit>> /\ Fairness

-----------------------------------------------------------------------------
(* Properties.                                                              *)

Of(type, x) == {i \in DOMAIN reminders : reminders[i].type = type /\ reminders[i].of = x}

\* Every mature lead within the limit of the scan gets a reminder in the end, although
\* candidates may fail and are skipped (MatureLeadScanWorker.Work).
EveryMatureLeadReminded ==
    \A i \in DOMAIN MatureLeads : <>(Of("mature_lead", MatureLeads[i]) # {})
====
