---- MODULE CrmLeads ----
(***************************************************************************)
(* The CRM leads of one tenant (internal/crm/domain/crmlead, calllog and   *)
(* assignmenthistory; app/command; adapters).  Leads come from the         *)
(* platform.lead-purchased.v1 subscriber, whose messages may be delivered  *)
(* more than once, also at the same time.  Every edit loads the lead       *)
(* without a lock, changes it in memory and writes all its columns back    *)
(* (CrmLeadRepository.UpdateByID).                                         *)
(***************************************************************************)
EXTENDS Naturals, Sequences, FiniteSets

CONSTANTS
    Purchases,
    Deliveries,   \* deliveries of purchase messages; each names the lead it makes
    PurchaseOf,
    Edits,        \* requests
    Members,
    Limits,       \* bounds: how many edits are handled at the same time
    MaxFailures,  \* bound: failed deliveries, each of which is delivered again
    NoRow, None

Terminal == {"converted", "lost"}
Stages == {"new", "contacted", "interested", "negotiation"} \cup Terminal
Temperatures == {"warm", "hot"}

LeadRows == [purchase : Purchases, stage : Stages, temperature : Temperatures,
             assignee : Members \cup {None}]

ASSUME CrmLeadsAssumption ==
    /\ PurchaseOf \in [Deliveries -> Purchases]
    /\ NoRow \notin LeadRows /\ None \notin Members
    /\ Deliveries \cap Edits = {} /\ IsFiniteSet(Edits)
    /\ Limits \subseteq Nat /\ MaxFailures \in Nat

VARIABLES
    limit,     \* how many requests the server handles at the same time
    leads,     \* crm.crm_leads
    history,   \* crm.lead_assignment_history of each lead, in the order of the inserts
    calls,     \* crm.call_logs: the edits that logged a call, with their lead
    outbox,    \* every event ever written to common.outbox
    pc, failures,
    cmd,       \* the command of an edit
    mem        \* the CrmLead in the memory of an edit

vars == <<limit, leads, history, calls, outbox, pc, failures, cmd, mem>>

AssignLead == [op : {"assign"}, lead : Deliveries, to : Members]
ChangeLeadStage == [op : {"stage"}, lead : Deliveries, to : Stages]
ChangeLeadTemperature == [op : {"temperature"}, lead : Deliveries, to : Temperatures]
LogCalls == [op : {"call"}, lead : Deliveries, to : {None}]
EndLead == [op : {"convert", "lose"}, lead : Deliveries, to : {None}]

Commands == AssignLead \cup ChangeLeadStage \cup ChangeLeadTemperature \cup LogCalls \cup EndLead

EditEvents == {"Assigned", "StageChanged", "TemperatureChanged", "Converted", "Lost", "CallLogged"}

TypeOK ==
    /\ limit \in Limits
    /\ leads \in [Deliveries -> LeadRows \cup {NoRow}]
    /\ history \in [Deliveries -> Seq([by : Edits, previous : Members \cup {None}, to : Members])]
    /\ calls \subseteq Edits
    /\ outbox \subseteq [type : {"Created"}, by : Deliveries]
                  \cup [type : EditEvents, by : Edits]
    /\ pc \in [Deliveries \cup Edits ->
                 {"idle", "lookup", "insert", "load", "save", "ok", "existed", "refused", "error"}]
    /\ failures \in 0 .. MaxFailures
    /\ cmd \in [Edits -> Commands \cup {None}]
    /\ mem \in [Edits -> LeadRows \cup {NoRow}]

Goto(r, next) == pc' = [pc EXCEPT ![r] = next]
Event(type, r) == {[type |-> type, by |-> r]}
Exists(l) == leads[l] # NoRow

-----------------------------------------------------------------------------
(* IngestPurchasedLead.                                                     *)

Deliver(d) ==
    /\ pc[d] = "idle"
    /\ Goto(d, "lookup")
    /\ UNCHANGED <<leads, history, calls, outbox, failures, cmd, mem>>

GetCrmLeadByPurchaseID(p) == {l \in Deliveries : Exists(l) /\ leads[l].purchase = p}

\* GetBySourcePurchaseID, in a transaction of its own.
Lookup(d) ==
    /\ pc[d] = "lookup"
    /\ Goto(d, IF GetCrmLeadByPurchaseID(PurchaseOf[d]) # {} THEN "existed" ELSE "insert")
    /\ UNCHANGED <<leads, history, calls, outbox, failures, cmd, mem>>

NewFromPurchaseSnapshot(d) ==
    [purchase |-> PurchaseOf[d], stage |-> "new", temperature |-> "warm", assignee |-> None]

InsertCrmLead(d, row) == leads' = [leads EXCEPT ![d] = row]

\* CrmLeadRepository.Add: the unique source_purchase_id refuses a second lead, which
\* is an error of the handler, and the message is delivered again.
Insert(d) ==
    /\ pc[d] = "insert"
    /\ \/ /\ GetCrmLeadByPurchaseID(PurchaseOf[d]) # {}
          /\ Goto(d, "idle")
          /\ UNCHANGED <<leads, outbox>>
       \/ /\ GetCrmLeadByPurchaseID(PurchaseOf[d]) = {}
          /\ InsertCrmLead(d, NewFromPurchaseSnapshot(d))
          /\ outbox' = outbox \cup Event("Created", d)
          /\ Goto(d, "ok")
    /\ UNCHANGED <<history, calls, failures, cmd, mem>>

\* A statement fails, or the worker stops before its acknowledgement: the message
\* comes again, also after the lead was made.
Redeliver(d) ==
    /\ pc[d] \in {"lookup", "insert", "ok"} /\ failures < MaxFailures
    /\ failures' = failures + 1
    /\ Goto(d, "idle")
    /\ UNCHANGED <<leads, history, calls, outbox, cmd, mem>>

-----------------------------------------------------------------------------
(* The aggregate CrmLead.                                                   *)

canAdvance(cur, target) ==
    <<cur, target>> \in {<<"new", "contacted">>, <<"contacted", "interested">>,
                         <<"interested", "negotiation">>}

\* The methods yield the lead that they leave, or NoRow if they refuse.
Assign(l, m) == IF l.stage \in Terminal THEN NoRow ELSE [l EXCEPT !.assignee = m]

ChangeStage(l, s) ==
    IF s \in Terminal \/ l.stage \in Terminal \/ (l.stage # s /\ ~canAdvance(l.stage, s))
    THEN NoRow ELSE [l EXCEPT !.stage = s]

ChangeTemperature(l, t) == IF l.stage \in Terminal THEN NoRow ELSE [l EXCEPT !.temperature = t]

Convert(l) == IF l.stage \in Terminal THEN NoRow ELSE [l EXCEPT !.stage = "converted"]

\* Fault: a lead in a terminal stage may be lost.
LoseAnyhow(l) == [l EXCEPT !.stage = "lost"]

Lose(l) == IF l.stage \in Terminal THEN NoRow ELSE [l EXCEPT !.stage = "lost"]

\* LogCall looks at the stage itself.
Mutate(l, c) ==
    CASE c.op = "assign" -> Assign(l, c.to)
      [] c.op = "stage" -> ChangeStage(l, c.to)
      [] c.op = "temperature" -> ChangeTemperature(l, c.to)
      [] c.op = "convert" -> Convert(l)
      [] c.op = "lose" -> Lose(l)
      [] c.op = "call" -> IF l.stage \in Terminal THEN NoRow ELSE l

EventOf == [assign |-> "Assigned", stage |-> "StageChanged", temperature |-> "TemperatureChanged",
            convert |-> "Converted", lose |-> "Lost"]

-----------------------------------------------------------------------------
(* Edits.                                                                   *)

Start(e) ==
    /\ pc[e] = "idle"
    /\ Cardinality({f \in Edits : pc[f] \in {"load", "save"}}) < limit
    /\ \E c \in Commands : Exists(c.lead) /\ cmd' = [cmd EXCEPT ![e] = c]
    /\ Goto(e, "load")
    /\ UNCHANGED <<leads, history, calls, outbox, failures, mem>>

\* loadLead and the update function; LogCall reads the lead in a transaction of its
\* own.  An edit that changes nothing is not persisted and announces nothing.
Load(e) ==
    LET l == leads[cmd[e].lead] IN
    /\ pc[e] = "load"
    /\ \/ Mutate(l, cmd[e]) = NoRow /\ Goto(e, "refused") /\ UNCHANGED mem
       \/ /\ Mutate(l, cmd[e]) # NoRow
          /\ IF cmd[e].op # "call" /\ Mutate(l, cmd[e]) = l
             THEN Goto(e, "ok") /\ UNCHANGED mem
             ELSE Goto(e, "save") /\ mem' = [mem EXCEPT ![e] = l]
    /\ UNCHANGED <<leads, history, calls, outbox, failures, cmd>>

\* Fault: the assignee before the change is forgotten.
HistoryRowBlank(e) == [by |-> e, previous |-> None, to |-> cmd[e].to]

HistoryRow(e) == [by |-> e, previous |-> mem[e].assignee, to |-> cmd[e].to]

UpdateCrmLead(l, row) == leads' = [leads EXCEPT ![l] = row]

\* persistLeadState, the assignment history of the unit of work, drainLeadEvents,
\* COMMIT.
Save(e) ==
    LET c == cmd[e] IN
    /\ pc[e] = "save" /\ c.op # "call"
    /\ UpdateCrmLead(c.lead, Mutate(mem[e], c))
    /\ history' = IF c.op = "assign" THEN [history EXCEPT ![c.lead] = Append(@, HistoryRow(e))]
                                     ELSE history
    /\ outbox' = outbox \cup Event(EventOf[c.op], e)
    /\ Goto(e, "ok")
    /\ mem' = [mem EXCEPT ![e] = NoRow]
    /\ UNCHANGED <<calls, failures, cmd>>

InsertCallLog(e) == calls' = calls \cup {e}

\* The end of LogCall: CallLogRepository.Add, in a second transaction.
AddCall(e) ==
    /\ pc[e] = "save" /\ cmd[e].op = "call"
    /\ InsertCallLog(e)
    /\ outbox' = outbox \cup Event("CallLogged", e)
    /\ Goto(e, "ok")
    /\ mem' = [mem EXCEPT ![e] = NoRow]
    /\ UNCHANGED <<leads, history, failures, cmd>>

\* A statement fails and the transaction rolls back.
Abort(e) ==
    /\ pc[e] \in {"load", "save"}
    /\ Goto(e, "error")
    /\ mem' = [mem EXCEPT ![e] = NoRow]
    /\ UNCHANGED <<leads, history, calls, outbox, failures, cmd>>

Init ==
    /\ limit \in Limits
    /\ leads = [l \in Deliveries |-> NoRow]
    /\ history = [l \in Deliveries |-> <<>>]
    /\ calls = {}
    /\ outbox = {}
    /\ pc = [r \in Deliveries \cup Edits |-> "idle"]
    /\ failures = 0
    /\ cmd = [e \in Edits |-> None]
    /\ mem = [e \in Edits |-> NoRow]

Next ==
    /\ UNCHANGED limit
    /\ \/ \E d \in Deliveries : Deliver(d) \/ Lookup(d) \/ Insert(d) \/ Redeliver(d)
       \/ \E e \in Edits : Start(e) \/ Load(e) \/ Save(e) \/ AddCall(e) \/ Abort(e)

Spec == Init /\ [][Next]_vars

-----------------------------------------------------------------------------
(* Properties.                                                              *)

\* However often and however concurrently a purchase is delivered, it becomes one lead
\* with one Created event ("Idempotent: a same-PurchaseID retry returns the existing
\* lead's ID ... + no events emitted", IngestPurchasedLeadHandler).  The history is the
\* assignments: one is announced if and only if it is in the lead's history ("in the
\* same UoW transaction ... partial failure rolls back both", AssignLeadHandler), and if
\* edits come one at a time the rows form a chain from "nobody" to the assignee that the
\* lead has.
LeadTellsItsStory ==
    /\ TypeOK
    /\ \A p \in Purchases :
         LET made == {l \in Deliveries : Exists(l) /\ leads[l].purchase = p}
             told == {d \in Deliveries : PurchaseOf[d] = p /\ [type |-> "Created", by |-> d] \in outbox}
         IN  made = told /\ Cardinality(made) <= 1
    /\ \A e \in Edits :
         ([type |-> "Assigned", by |-> e] \in outbox)
             <=> \E l \in Deliveries : \E i \in 1 .. Len(history[l]) : history[l][i].by = e
    /\ limit = 1 => \A l \in Deliveries : Exists(l) =>
         LET rows == history[l] IN
         /\ leads[l].assignee = IF rows = <<>> THEN None ELSE rows[Len(rows)].to
         /\ \A i \in 1 .. Len(rows) : rows[i].previous = IF i = 1 THEN None ELSE rows[i - 1].to

\* If edits come one at a time, a converted or lost lead never changes again ("no Lost
\* → Converted resurrection", CrmLead.Convert) and gets no call ("a converted / lost lead
\* refuses new call logs — final dispositions are final", LogCallCommand).  An edit that
\* loaded the lead earlier writes the old stage back, and a lead may end between
\* LogCall's check and its insert.
EndIsFinal ==
    [][limit = 1 =>
         /\ \A l \in Deliveries : Exists(l) /\ leads[l].stage \in Terminal => leads'[l] = leads[l]
         /\ \A e \in calls' \ calls : leads[cmd[e].lead].stage \notin Terminal]_vars
====
