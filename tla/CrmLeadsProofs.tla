---- MODULE CrmLeadsProofs ----
(***************************************************************************)
(* The leads of a tenant, for every set of purchases, deliveries and       *)
(* edits.                                                                  *)
(***************************************************************************)
EXTENDS CrmLeads, SequenceTheorems, FiniteSetTheorems, TLAPS

Created(d) == [type |-> "Created", by |-> d]
Assigned(e) == [type |-> "Assigned", by |-> e]

\* A delivery's lead is there if and only if it was announced, and it is the only one of
\* its purchase.
MadeInv ==
    /\ \A d \in Deliveries : leads[d] # NoRow => leads[d].purchase = PurchaseOf[d]
    /\ \A d \in Deliveries : Created(d) \in outbox <=> leads[d] # NoRow
    /\ \A d, f \in Deliveries : leads[d] # NoRow /\ leads[f] # NoRow /\ PurchaseOf[d] = PurchaseOf[f] => d = f
    /\ \A d \in Deliveries : leads[d] = NoRow => history[d] = <<>>

\* An assignment is announced if and only if it is in a history.
ToldInv ==
    \A e \in Edits :
        Assigned(e) \in outbox <=> \E l \in Deliveries : \E i \in 1 .. Len(history[l]) : history[l][i].by = e

\* An edit works on a lead that is there, and has been let through by its copy of it.
EditInv(e) ==
    /\ pc[e] \in {"load", "save"} => cmd[e] \in Commands /\ leads[cmd[e].lead] # NoRow
    /\ pc[e] = "save" => /\ mem[e] # NoRow /\ mem[e].purchase = PurchaseOf[cmd[e].lead]
                         /\ Mutate(mem[e], cmd[e]) # NoRow

\* The history of a lead leads from nobody to its assignee.
Chain(l) ==
    /\ leads[l].assignee = IF history[l] = <<>> THEN None ELSE history[l][Len(history[l])].to
    /\ \A i \in 1 .. Len(history[l]) : history[l][i].previous = IF i = 1 THEN None ELSE history[l][i - 1].to

\* If edits come one at a time, an edit's copy is the lead.
SerialInv ==
    limit = 1 =>
        /\ \A e, f \in Edits : pc[e] \in {"load", "save"} /\ pc[f] \in {"load", "save"} => e = f
        /\ \A e \in Edits : pc[e] = "save" => mem[e] = leads[cmd[e].lead]
        /\ \A l \in Deliveries : leads[l] # NoRow => Chain(l)

LeadsInv == TypeOK /\ MadeInv /\ ToldInv /\ SerialInv /\ \A e \in Edits : EditInv(e)

\* What no step does to a lead that has ended.
Final ==
    limit = 1 =>
        /\ \A l \in Deliveries : leads[l] # NoRow /\ leads[l].stage \in Terminal => leads'[l] = leads[l]
        /\ \A e \in calls' \ calls : leads[cmd[e].lead].stage \notin Terminal

-----------------------------------------------------------------------------
(* The aggregate.                                                           *)

\* A command names a lead.
LEMMA CommandFields ==
    ASSUME NEW c \in Commands
    PROVE  /\ c.lead \in Deliveries
           /\ c.op \in {"assign", "stage", "temperature", "convert", "lose", "call"}
           /\ c.op = "assign" => c.to \in Members
           /\ c.op = "stage" => c.to \in Stages
           /\ c.op = "temperature" => c.to \in Temperatures
  BY DEF Commands, AssignLead, ChangeLeadStage, ChangeLeadTemperature, LogCalls, EndLead

\* The methods of CrmLead refuse a lead that has ended, keep its purchase, and only
\* Assign changes its assignee.
LEMMA MutateFields ==
    ASSUME NEW l \in LeadRows, NEW c \in Commands, Mutate(l, c) # NoRow
    PROVE  /\ Mutate(l, c) \in LeadRows
           /\ Mutate(l, c).purchase = l.purchase
           /\ l.stage \notin Terminal
           /\ Mutate(l, c).assignee = IF c.op = "assign" THEN c.to ELSE l.assignee
  <1>1. /\ c.op \in {"assign", "stage", "temperature", "convert", "lose", "call"}
        /\ c.op = "assign" => c.to \in Members
        /\ c.op = "stage" => c.to \in Stages
        /\ c.op = "temperature" => c.to \in Temperatures
    BY CommandFields
  <1>2. CASE c.op = "assign"
    <2>1. Mutate(l, c) = Assign(l, c.to)
      BY <1>2 DEF Mutate
    <2>2. QED
      BY <1>1, <1>2, <2>1 DEF Assign, LeadRows
  <1>3. CASE c.op = "stage"
    <2>1. Mutate(l, c) = ChangeStage(l, c.to)
      BY <1>3 DEF Mutate
    <2>2. QED
      BY <1>1, <1>3, <2>1 DEF ChangeStage, LeadRows
  <1>4. CASE c.op = "temperature"
    <2>1. Mutate(l, c) = ChangeTemperature(l, c.to)
      BY <1>4 DEF Mutate
    <2>2. QED
      BY <1>1, <1>4, <2>1 DEF ChangeTemperature, LeadRows
  <1>5. CASE c.op = "convert"
    <2>1. Mutate(l, c) = Convert(l)
      BY <1>5 DEF Mutate
    <2>2. QED
      BY <1>5, <2>1 DEF Convert, LeadRows, Stages, Terminal
  <1>6. CASE c.op = "lose"
    <2>1. Mutate(l, c) = Lose(l)
      BY <1>6 DEF Mutate
    <2>2. QED
      BY <1>6, <2>1 DEF Lose, LeadRows, Stages, Terminal
  <1>7. CASE c.op = "call"
    <2>1. Mutate(l, c) = IF l.stage \in Terminal THEN NoRow ELSE l
      BY <1>7 DEF Mutate
    <2>2. QED
      BY <1>7, <2>1
  <1>8. QED
    BY <1>1, <1>2, <1>3, <1>4, <1>5, <1>6, <1>7

-----------------------------------------------------------------------------
(* Steps.                                                                   *)

\* A step that writes neither a lead nor a history, and brings no edit to its save.
LEMMA QuietStep ==
    ASSUME LeadsInv, TypeOK', UNCHANGED <<limit, leads, history, calls, outbox>>,
           \A e \in Edits : pc'[e] \in {"load", "save"} => pc'[e] = pc[e] /\ cmd'[e] = cmd[e] /\ mem'[e] = mem[e]
    PROVE  LeadsInv' /\ Final
  <1>1. MadeInv' /\ ToldInv'
    BY DEF LeadsInv, MadeInv, ToldInv
  <1>2. \A e \in Edits : EditInv(e)'
    BY DEF LeadsInv, EditInv
  <1>3. SerialInv'
    BY DEF LeadsInv, SerialInv, Chain
  <1>4. Final
    BY DEF Final
  <1>5. QED
    BY <1>1, <1>2, <1>3, <1>4 DEF LeadsInv

\* A delivery that makes no lead.
LEMMA DeliveryStep ==
    ASSUME LeadsInv, UNCHANGED limit, NEW d \in Deliveries,
           Deliver(d) \/ Lookup(d) \/ Redeliver(d) \/ (Insert(d) /\ UNCHANGED <<leads, outbox>>)
    PROVE  LeadsInv' /\ Final
  <1>1. /\ UNCHANGED <<leads, history, calls, outbox, cmd, mem>>
        /\ failures' \in 0 .. MaxFailures
        /\ \E next \in {"lookup", "existed", "insert", "idle", "ok"} : pc' = [pc EXCEPT ![d] = next]
    BY CrmLeadsAssumption DEF Deliver, Lookup, Redeliver, Insert, Goto, LeadsInv, TypeOK
  <1>2. TypeOK'
    BY <1>1, Zenon DEF LeadsInv, TypeOK
  <1>3. \A e \in Edits : pc'[e] = pc[e]
    BY <1>1, CrmLeadsAssumption DEF LeadsInv, TypeOK
  <1>4. QED
    BY <1>1, <1>2, <1>3, QuietStep

\* A delivery that makes its lead.
LEMMA MadeStep ==
    ASSUME LeadsInv, UNCHANGED limit, NEW d \in Deliveries, Insert(d),
           GetCrmLeadByPurchaseID(PurchaseOf[d]) = {}
    PROVE  LeadsInv' /\ Final
  <1> DEFINE entry == NewFromPurchaseSnapshot(d)
  <1>1. /\ leads' = [leads EXCEPT ![d] = entry] /\ outbox' = outbox \cup {Created(d)}
        /\ pc' = [pc EXCEPT ![d] = "ok"] /\ UNCHANGED <<history, calls, failures, cmd, mem>>
    BY DEF Insert, InsertCrmLead, Event, Goto, Created
  <1>2. entry \in LeadRows /\ entry.purchase = PurchaseOf[d] /\ entry.assignee = None
    BY CrmLeadsAssumption DEF NewFromPurchaseSnapshot, LeadRows, Stages, Temperatures
  <1>3. entry # NoRow
    BY <1>2, CrmLeadsAssumption
  <1> HIDE DEF entry
  <1>4. /\ \A f \in Deliveries : leads'[f] = IF f = d THEN entry ELSE leads[f]
        /\ \A e \in Edits : pc'[e] = pc[e]
    BY <1>1, CrmLeadsAssumption DEF LeadsInv, TypeOK
  <1>5. Created(d) \in [type : {"Created"}, by : Deliveries]
    BY DEF Created
  <1>6. TypeOK'
    BY <1>1, <1>2, <1>5, Zenon DEF LeadsInv, TypeOK
  <1>7. \A f \in Deliveries : leads[f] # NoRow => PurchaseOf[f] # PurchaseOf[d] /\ f # d
    BY DEF LeadsInv, MadeInv, GetCrmLeadByPurchaseID, Exists
  <1>8. \A f \in Deliveries : Created(f) = Created(d) => f = d
    BY DEF Created
  <1>9. \A e \in Edits : Assigned(e) # Created(d)
    BY DEF Created, Assigned
  <1>10. leads[d] = NoRow /\ history[d] = <<>>
    BY <1>7 DEF LeadsInv, MadeInv
  <1>11. MadeInv'
    <2>1. \A f \in Deliveries : leads'[f] # NoRow => leads'[f].purchase = PurchaseOf[f]
      BY <1>2, <1>4 DEF LeadsInv, MadeInv
    <2>2. \A f \in Deliveries : Created(f) \in outbox' <=> leads'[f] # NoRow
      BY <1>1, <1>3, <1>4, <1>8 DEF LeadsInv, MadeInv
    <2>3. \A f, g \in Deliveries : leads'[f] # NoRow /\ leads'[g] # NoRow /\ PurchaseOf[f] = PurchaseOf[g] => f = g
      BY <1>4, <1>7 DEF LeadsInv, MadeInv
    <2>4. \A f \in Deliveries : leads'[f] = NoRow => history'[f] = <<>>
      BY <1>1, <1>3, <1>4 DEF LeadsInv, MadeInv
    <2>5. QED
      BY <2>1, <2>2, <2>3, <2>4 DEF MadeInv, Created
  <1>12. ToldInv'
    BY <1>1, <1>9, Zenon DEF LeadsInv, ToldInv, Assigned
  <1>13. ASSUME NEW e \in Edits PROVE EditInv(e)'
    <2>1. pc[e] \in {"load", "save"} => cmd[e].lead \in Deliveries
      BY CommandFields DEF LeadsInv, EditInv
    <2>2. QED
      BY <1>1, <1>3, <1>4, <2>1 DEF LeadsInv, EditInv
  <1>14. SerialInv'
    <2> SUFFICES ASSUME limit = 1
                 PROVE  /\ \A e, f \in Edits : pc'[e] \in {"load", "save"} /\ pc'[f] \in {"load", "save"} => e = f
                        /\ \A e \in Edits : pc'[e] = "save" => mem'[e] = leads'[cmd'[e].lead]
                        /\ \A l \in Deliveries : leads'[l] # NoRow => Chain(l)'
      BY DEF SerialInv
    <2>1. \A e, f \in Edits : pc'[e] \in {"load", "save"} /\ pc'[f] \in {"load", "save"} => e = f
      BY <1>4 DEF LeadsInv, SerialInv
    <2>2. ASSUME NEW e \in Edits, pc[e] = "save" PROVE mem[e] = leads'[cmd[e].lead]
      <3>1. cmd[e].lead \in Deliveries /\ cmd[e].lead # d
        BY <1>10, <2>2, CommandFields DEF LeadsInv, EditInv
      <3>2. QED
        BY <1>4, <2>2, <3>1 DEF LeadsInv, SerialInv
    <2>3. Chain(d)'
      <3>1. Len(history[d]) = 0
        BY <1>10
      <3>2. QED
        BY <1>1, <1>2, <1>4, <1>10, <3>1 DEF Chain
    <2>4. \A l \in Deliveries : l # d /\ leads'[l] # NoRow => Chain(l)'
      BY <1>1, <1>4 DEF LeadsInv, SerialInv, Chain
    <2>5. QED
      BY <1>1, <1>4, <2>1, <2>2, <2>3, <2>4
  <1>15. Final
    BY <1>1, <1>4, <1>7 DEF Final
  <1>16. QED
    BY <1>6, <1>11, <1>12, <1>13, <1>14, <1>15 DEF LeadsInv

\* If edits come one at a time, one that starts is alone.
LEMMA NobodyEdits ==
    ASSUME limit = 1, NEW e \in Edits, Start(e)
    PROVE  \A f \in Edits : pc[f] \notin {"load", "save"}
  <1> DEFINE S == {f \in Edits : pc[f] \in {"load", "save"}}
  <1>1. IsFiniteSet(S) /\ Cardinality(S) \in Nat
    BY FS_Subset, FS_CardinalityType, CrmLeadsAssumption
  <1>2. S = {}
    BY <1>1, FS_EmptySet DEF Start
  <1>3. QED
    BY <1>2

\* An edit begins on a lead that is there.
LEMMA StartStep ==
    ASSUME LeadsInv, UNCHANGED limit, NEW e \in Edits, Start(e)
    PROVE  LeadsInv' /\ Final
  <1>1. /\ pc[e] = "idle" /\ pc' = [pc EXCEPT ![e] = "load"]
        /\ UNCHANGED <<leads, history, calls, outbox, failures, mem>>
    BY DEF Start, Goto
  <1>2. PICK c \in Commands : leads[c.lead] # NoRow /\ cmd' = [cmd EXCEPT ![e] = c]
    BY Zenon DEF Start, Exists
  <1>3. TypeOK'
    BY <1>1, <1>2, Zenon DEF LeadsInv, TypeOK
  <1>4. /\ \A f \in Edits : pc'[f] = IF f = e THEN "load" ELSE pc[f]
        /\ \A f \in Edits : cmd'[f] = IF f = e THEN c ELSE cmd[f]
    BY <1>1, <1>2 DEF LeadsInv, TypeOK
  <1>5. MadeInv' /\ ToldInv'
    BY <1>1 DEF LeadsInv, MadeInv, ToldInv
  <1>6. \A f \in Edits : EditInv(f)'
    BY <1>1, <1>2, <1>4 DEF LeadsInv, EditInv
  <1>7. SerialInv'
    <2>1. limit = 1 => \A f \in Edits : pc[f] \notin {"load", "save"}
      BY NobodyEdits
    <2>2. QED
      BY <1>1, <1>4, <2>1 DEF LeadsInv, SerialInv, Chain
  <1>8. Final
    BY <1>1 DEF Final
  <1>9. QED
    BY <1>3, <1>5, <1>6, <1>7, <1>8 DEF LeadsInv

\* loadLead and the update function.
LEMMA LoadStep ==
    ASSUME LeadsInv, UNCHANGED limit, NEW e \in Edits, Load(e)
    PROVE  LeadsInv' /\ Final
  <1> DEFINE l == leads[cmd[e].lead]
  <1>1. pc[e] = "load" /\ UNCHANGED <<leads, history, calls, outbox, failures, cmd>>
    BY DEF Load
  <1>2. cmd[e] \in Commands /\ cmd[e].lead \in Deliveries /\ l # NoRow /\ l \in LeadRows
    BY <1>1, CommandFields DEF LeadsInv, EditInv, TypeOK
  <1>3. \/ UNCHANGED mem /\ \E next \in {"refused", "ok"} : pc' = [pc EXCEPT ![e] = next]
        \/ Mutate(l, cmd[e]) # NoRow /\ pc' = [pc EXCEPT ![e] = "save"] /\ mem' = [mem EXCEPT ![e] = l]
    BY DEF Load, Goto
  <1> HIDE DEF l
  <1>4. CASE UNCHANGED mem /\ \E next \in {"refused", "ok"} : pc' = [pc EXCEPT ![e] = next]
    <2>1. TypeOK'
      BY <1>1, <1>4, Zenon DEF LeadsInv, TypeOK
    <2>2. \A f \in Edits : pc'[f] \in {"load", "save"} => pc'[f] = pc[f]
      BY <1>4 DEF LeadsInv, TypeOK
    <2>3. QED
      BY <1>1, <1>4, <2>1, <2>2, QuietStep
  <1>5. CASE Mutate(l, cmd[e]) # NoRow /\ pc' = [pc EXCEPT ![e] = "save"] /\ mem' = [mem EXCEPT ![e] = l]
    <2>1. TypeOK'
      BY <1>1, <1>2, <1>5, Zenon DEF LeadsInv, TypeOK
    <2>2. /\ \A f \in Edits : pc'[f] = IF f = e THEN "save" ELSE pc[f]
          /\ \A f \in Edits : mem'[f] = IF f = e THEN l ELSE mem[f]
      BY <1>5 DEF LeadsInv, TypeOK
    <2>3. MadeInv' /\ ToldInv'
      BY <1>1 DEF LeadsInv, MadeInv, ToldInv
    <2>4. l.purchase = PurchaseOf[cmd[e].lead]
      BY <1>2 DEF LeadsInv, MadeInv, l
    <2>5. \A f \in Edits : EditInv(f)'
      BY <1>1, <1>2, <1>5, <2>2, <2>4 DEF LeadsInv, EditInv
    <2>6. SerialInv'
      BY <1>1, <2>2 DEF LeadsInv, SerialInv, Chain, l
    <2>7. Final
      BY <1>1 DEF Final
    <2>8. QED
      BY <2>1, <2>3, <2>5, <2>6, <2>7 DEF LeadsInv
  <1>6. QED
    BY <1>3, <1>4, <1>5

\* persistLeadState and the assignment history, in one transaction.
LEMMA SaveStep ==
    ASSUME LeadsInv, UNCHANGED limit, NEW e \in Edits, Save(e)
    PROVE  LeadsInv' /\ Final
  <1> DEFINE c == cmd[e]
             new == Mutate(mem[e], c)
             entry == HistoryRow(e)
             ev == [type |-> EventOf[c.op], by |-> e]
  <1>1. /\ pc[e] = "save" /\ c.op # "call" /\ leads' = [leads EXCEPT ![c.lead] = new]
        /\ history' = IF c.op = "assign" THEN [history EXCEPT ![c.lead] = Append(@, entry)] ELSE history
        /\ outbox' = outbox \cup {ev} /\ pc' = [pc EXCEPT ![e] = "ok"] /\ mem' = [mem EXCEPT ![e] = NoRow]
        /\ UNCHANGED <<calls, failures, cmd>>
    BY DEF Save, UpdateCrmLead, Event, Goto
  <1>2. /\ c \in Commands /\ c.lead \in Deliveries /\ leads[c.lead] # NoRow
        /\ c.op \in {"assign", "stage", "temperature", "convert", "lose", "call"}
        /\ c.op = "assign" => c.to \in Members
    BY <1>1, CommandFields DEF LeadsInv, EditInv
  <1>3. mem[e] \in LeadRows /\ mem[e].purchase = PurchaseOf[c.lead] /\ new # NoRow
    BY <1>1 DEF LeadsInv, EditInv, TypeOK
  <1>4. /\ new \in LeadRows /\ new.purchase = PurchaseOf[c.lead] /\ mem[e].stage \notin Terminal
        /\ new.assignee = IF c.op = "assign" THEN c.to ELSE mem[e].assignee
    BY <1>2, <1>3, MutateFields
  <1>5. /\ EventOf[c.op] \in EditEvents
        /\ EventOf[c.op] = "Assigned" <=> c.op = "assign"
    BY <1>1, <1>2 DEF EventOf, EditEvents
  <1>6. /\ ev \in [type : EditEvents, by : Edits]
        /\ \A f \in Edits : Assigned(f) = ev <=> f = e /\ c.op = "assign"
        /\ \A d \in Deliveries : Created(d) # ev
    <2>1. ev.type = EventOf[c.op] /\ ev.by = e
      OBVIOUS
    <2>2. \A f : Assigned(f).type = "Assigned" /\ Assigned(f).by = f
      BY DEF Assigned
    <2>3. \A d : Created(d).type = "Created"
      BY DEF Created
    <2>4. EventOf[c.op] # "Created"
      BY <1>5 DEF EditEvents
    <2>5. c.op = "assign" => Assigned(e) = ev
      BY <1>5 DEF Assigned
    <2>6. ev \in [type : EditEvents, by : Edits]
      BY <1>5
    <2>7. QED
      BY <1>5, <2>1, <2>2, <2>3, <2>4, <2>5, <2>6
  <1>7. /\ c.op = "assign" => entry \in [by : Edits, previous : Members \cup {None}, to : Members]
        /\ entry.by = e /\ entry.previous = mem[e].assignee /\ entry.to = c.to
    BY <1>2, <1>3 DEF HistoryRow, LeadRows
  <1> HIDE DEF c, new, entry, ev
  <1>8. /\ \A l \in Deliveries : leads'[l] = IF l = c.lead THEN new ELSE leads[l]
        /\ \A f \in Edits : pc'[f] = IF f = e THEN "ok" ELSE pc[f]
        /\ \A f \in Edits : f # e => mem'[f] = mem[f]
        /\ \A l \in Deliveries : history'[l] = IF c.op = "assign" /\ l = c.lead THEN Append(history[l], entry) ELSE history[l]
    BY <1>1, <1>2 DEF LeadsInv, TypeOK
  <1>9. \A l \in Deliveries : /\ history[l] \in Seq([by : Edits, previous : Members \cup {None}, to : Members])
                              /\ Len(history[l]) \in Nat
    BY LenProperties, Zenon DEF LeadsInv, TypeOK
  <1>10. ASSUME c.op = "assign"
         PROVE  /\ history'[c.lead] \in Seq([by : Edits, previous : Members \cup {None}, to : Members])
                /\ Len(history'[c.lead]) = Len(history[c.lead]) + 1
                /\ \A i \in 1 .. Len(history[c.lead]) : history'[c.lead][i] = history[c.lead][i]
                /\ history'[c.lead][Len(history[c.lead]) + 1] = entry
                /\ history'[c.lead] # <<>>
    <2>1. history'[c.lead] = Append(history[c.lead], entry)
      BY <1>2, <1>8, <1>10, Zenon
    <2>2. /\ history[c.lead] \in Seq([by : Edits, previous : Members \cup {None}, to : Members])
          /\ entry \in [by : Edits, previous : Members \cup {None}, to : Members]
      BY <1>2, <1>7, <1>9, <1>10, Zenon
    <2>3. QED
      BY <2>1, <2>2, AppendProperties
  <1>11. TypeOK'
    <2>1. history' \in [Deliveries -> Seq([by : Edits, previous : Members \cup {None}, to : Members])]
      BY <1>1, <1>2, <1>8, <1>9, <1>10, Zenon DEF LeadsInv, TypeOK
    <2>2. QED
      BY <1>1, <1>2, <1>4, <1>6, <2>1, Zenon DEF LeadsInv, TypeOK
  <1>12. MadeInv'
    <2>1. \A f \in Deliveries : leads'[f] # NoRow <=> leads[f] # NoRow
      BY <1>2, <1>3, <1>8
    <2>2. \A f \in Deliveries : leads'[f] # NoRow => leads'[f].purchase = PurchaseOf[f]
      BY <1>4, <1>8 DEF LeadsInv, MadeInv
    <2>3. \A f \in Deliveries : Created(f) \in outbox' <=> leads'[f] # NoRow
      BY <1>1, <1>6, <2>1 DEF LeadsInv, MadeInv
    <2>4. \A f \in Deliveries : leads'[f] = NoRow => history'[f] = <<>>
      BY <1>2, <1>8, <2>1 DEF LeadsInv, MadeInv
    <2>5. QED
      BY <2>1, <2>2, <2>3, <2>4 DEF LeadsInv, MadeInv, Created
  <1>13. ToldInv'
    <2> SUFFICES ASSUME NEW f \in Edits
                 PROVE  Assigned(f) \in outbox' <=>
                          \E l \in Deliveries : \E i \in 1 .. Len(history'[l]) : history'[l][i].by = f
      BY Zenon DEF ToldInv, Assigned
    <2>1. Assigned(f) \in outbox <=> \E l \in Deliveries : \E i \in 1 .. Len(history[l]) : history[l][i].by = f
      BY DEF LeadsInv, ToldInv
    <2>2. CASE c.op # "assign"
      BY <1>1, <1>6, <1>8, <2>1, <2>2
    <2>3. CASE c.op = "assign"
      <3>1. Assigned(f) \in outbox' <=> Assigned(f) \in outbox \/ f = e
        BY <1>1, <1>6, <2>3
      <3>2. ASSUME NEW l \in Deliveries
            PROVE  (\E i \in 1 .. Len(history'[l]) : history'[l][i].by = f)
                     <=> (\E i \in 1 .. Len(history[l]) : history[l][i].by = f) \/ (l = c.lead /\ f = e)
        <4>1. CASE l = c.lead
          <5>1. 1 .. Len(history'[l]) = (1 .. Len(history[l])) \cup {Len(history[l]) + 1}
            BY <1>9, <1>10, <2>3, <4>1
          <5>2. \A i \in 1 .. Len(history[l]) : history'[l][i] = history[l][i]
            BY <1>10, <2>3, <4>1
          <5>3. history'[l][Len(history[l]) + 1].by = e
            BY <1>7, <1>10, <2>3, <4>1
          <5>4. QED
            BY <4>1, <5>1, <5>2, <5>3, Zenon
        <4>2. CASE l # c.lead
          BY <1>8, <4>2
        <4>3. QED
          BY <4>1, <4>2
      <3>3. QED
        BY <1>2, <2>1, <3>1, <3>2
    <2>4. QED
      BY <2>2, <2>3
  <1>14. ASSUME NEW f \in Edits PROVE EditInv(f)'
    <2>1. pc[f] \in {"load", "save"} => cmd[f].lead \in Deliveries
      BY CommandFields DEF LeadsInv, EditInv
    <2>2. QED
      BY <1>1, <1>3, <1>8, <2>1 DEF LeadsInv, EditInv
  <1>15. ASSUME limit = 1
         PROVE  /\ \A f \in Edits : pc'[f] \notin {"load", "save"}
                /\ leads[c.lead].stage \notin Terminal
                /\ \A l \in Deliveries : leads'[l] # NoRow => Chain(l)'
    <2>1. \A f \in Edits : pc'[f] \notin {"load", "save"}
      BY <1>1, <1>8, <1>15 DEF LeadsInv, SerialInv
    <2>2. mem[e] = leads[c.lead]
      BY <1>1, <1>15 DEF LeadsInv, SerialInv, c
    <2>3. Chain(c.lead)
      BY <1>2, <1>15 DEF LeadsInv, SerialInv
    <2> PICK L \in Deliveries : L = c.lead
      BY <1>2
    <2>4. Chain(L)'
      <3>1. leads'[L] = new
        BY <1>8
      <3>2. CASE c.op # "assign"
        BY <1>2, <1>4, <1>8, <2>2, <2>3, <3>1, <3>2 DEF Chain
      <3>3. CASE c.op = "assign"
        <4> DEFINE h == history[L]
                   k == history'[L]
        <4>1. Len(k) = Len(h) + 1 /\ k # <<>> /\ k[Len(k)] = entry /\ Len(h) \in Nat
              /\ \A i \in 1 .. Len(h) : k[i] = h[i]
          BY <1>2, <1>9, <1>10, <3>3
        <4>2. h = <<>> <=> Len(h) = 0
          BY <1>2, <1>9, EmptySeq
        <4>3. entry.previous = IF h = <<>> THEN None ELSE h[Len(h)].to
          BY <1>7, <2>2, <2>3 DEF Chain
        <4>4. \A i \in 1 .. Len(h) : h[i].previous = IF i = 1 THEN None ELSE h[i - 1].to
          BY <2>3 DEF Chain
        <4> HIDE DEF h, k
        <4>5. ASSUME NEW i \in 1 .. Len(k) PROVE k[i].previous = IF i = 1 THEN None ELSE k[i - 1].to
          <5>1. CASE i = Len(k)
            BY <4>1, <4>2, <4>3, <5>1
          <5>2. CASE i # Len(k)
            <6>1. i \in 1 .. Len(h) /\ (i # 1 => i - 1 \in 1 .. Len(h))
              BY <4>1, <5>2
            <6>2. QED
              BY <4>1, <4>4, <6>1
          <5>3. QED
            BY <5>1, <5>2
        <4>6. new.assignee = k[Len(k)].to
          BY <1>4, <1>7, <3>3, <4>1
        <4>7. QED
          BY <3>1, <4>1, <4>5, <4>6 DEF Chain, k
      <3>4. QED
        BY <3>2, <3>3
    <2>5. ASSUME NEW l \in Deliveries, l # c.lead, leads'[l] # NoRow PROVE Chain(l)'
      <3>1. leads'[l] = leads[l] /\ history'[l] = history[l]
        BY <1>8, <2>5
      <3>2. Chain(l)
        BY <1>15, <2>5, <3>1 DEF LeadsInv, SerialInv
      <3>3. QED
        BY <3>1, <3>2 DEF Chain
    <2>6. QED
      BY <1>4, <2>1, <2>2, <2>4, <2>5
  <1>16. SerialInv'
    BY <1>1, <1>15 DEF SerialInv
  <1>17. Final
    BY <1>1, <1>8, <1>15 DEF Final
  <1>18. QED
    BY <1>11, <1>12, <1>13, <1>14, <1>16, <1>17 DEF LeadsInv

\* CallLogRepository.Add.
LEMMA AddCallStep ==
    ASSUME LeadsInv, UNCHANGED limit, NEW e \in Edits, AddCall(e)
    PROVE  LeadsInv' /\ Final
  <1> DEFINE ev == [type |-> "CallLogged", by |-> e]
  <1>1. /\ pc[e] = "save" /\ calls' = calls \cup {e} /\ outbox' = outbox \cup {ev}
        /\ pc' = [pc EXCEPT ![e] = "ok"] /\ mem' = [mem EXCEPT ![e] = NoRow]
        /\ UNCHANGED <<leads, history, failures, cmd>>
    BY DEF AddCall, InsertCallLog, Event, Goto
  <1>2. /\ ev \in [type : EditEvents, by : Edits]
        /\ \A f \in Edits : Assigned(f) # ev
        /\ \A d \in Deliveries : Created(d) # ev
    BY DEF Assigned, Created, EditEvents
  <1> HIDE DEF ev
  <1>3. TypeOK'
    BY <1>1, <1>2, Zenon DEF LeadsInv, TypeOK
  <1>4. /\ \A f \in Edits : pc'[f] = IF f = e THEN "ok" ELSE pc[f]
        /\ \A f \in Edits : f # e => mem'[f] = mem[f]
    BY <1>1 DEF LeadsInv, TypeOK
  <1>5. MadeInv'
    BY <1>1, <1>2 DEF LeadsInv, MadeInv, Created
  <1>6. ToldInv'
    BY <1>1, <1>2, Zenon DEF LeadsInv, ToldInv, Assigned
  <1>7. \A f \in Edits : EditInv(f)'
    BY <1>1, <1>4 DEF LeadsInv, EditInv
  <1>8. SerialInv'
    <2>1. \A l : Chain(l) => Chain(l)'
      BY <1>1, Zenon DEF Chain
    <2>2. \A f \in Edits : pc'[f] \in {"load", "save"} => f # e /\ pc'[f] = pc[f] /\ mem'[f] = mem[f]
      BY <1>4, Zenon
    <2> SUFFICES ASSUME limit = 1
                 PROVE  /\ \A f, g \in Edits : pc'[f] \in {"load", "save"} /\ pc'[g] \in {"load", "save"} => f = g
                        /\ \A f \in Edits : pc'[f] = "save" => mem'[f] = leads'[cmd'[f].lead]
                        /\ \A l \in Deliveries : leads'[l] # NoRow => Chain(l)'
      BY Zenon DEF SerialInv
    <2>3. \A f, g \in Edits : pc'[f] \in {"load", "save"} /\ pc'[g] \in {"load", "save"} => f = g
      BY <2>2, Zenon DEF LeadsInv, SerialInv
    <2>4. \A f \in Edits : pc'[f] = "save" => mem'[f] = leads'[cmd'[f].lead]
      BY <1>1, <2>2, Zenon DEF LeadsInv, SerialInv
    <2>5. \A l \in Deliveries : leads'[l] # NoRow => Chain(l)'
      BY <1>1, <2>1, Zenon DEF LeadsInv, SerialInv
    <2>6. QED
      BY <2>3, <2>4, <2>5, Zenon
  <1>9. limit = 1 => leads[cmd[e].lead].stage \notin Terminal
    <2>1. mem[e] \in LeadRows /\ cmd[e] \in Commands /\ Mutate(mem[e], cmd[e]) # NoRow
      BY <1>1, Zenon DEF LeadsInv, EditInv, TypeOK
    <2>2. mem[e].stage \notin Terminal
      BY <2>1, MutateFields
    <2>3. QED
      BY <1>1, <2>2, Zenon DEF LeadsInv, SerialInv
  <1>10. Final
    BY <1>1, <1>9 DEF Final
  <1>11. QED
    BY <1>3, <1>5, <1>6, <1>7, <1>8, <1>10 DEF LeadsInv

\* A statement fails.
LEMMA AbortStep ==
    ASSUME LeadsInv, UNCHANGED limit, NEW e \in Edits, Abort(e)
    PROVE  LeadsInv' /\ Final
  <1>1. /\ pc' = [pc EXCEPT ![e] = "error"] /\ mem' = [mem EXCEPT ![e] = NoRow]
        /\ UNCHANGED <<leads, history, calls, outbox, failures, cmd>>
    BY DEF Abort, Goto
  <1>2. TypeOK'
    BY <1>1, Zenon DEF LeadsInv, TypeOK
  <1>3. \A f \in Edits : pc'[f] \in {"load", "save"} => pc'[f] = pc[f] /\ mem'[f] = mem[f]
    BY <1>1 DEF LeadsInv, TypeOK
  <1>4. QED
    BY <1>1, <1>2, <1>3, QuietStep

-----------------------------------------------------------------------------
(* The theorems.                                                            *)

\* At the start no lead is stored and nobody runs.
LEMMA InvInit == Init => LeadsInv
  <1> SUFFICES ASSUME Init PROVE LeadsInv
    OBVIOUS
  <1>1. TypeOK
    BY CrmLeadsAssumption DEF Init, TypeOK
  <1>2. /\ \A l \in Deliveries : leads[l] = NoRow /\ history[l] = <<>> /\ Len(history[l]) = 0
        /\ outbox = {} /\ \A e \in Edits : pc[e] = "idle"
    BY DEF Init
  <1>3. MadeInv /\ ToldInv /\ SerialInv
    BY <1>2 DEF MadeInv, ToldInv, SerialInv
  <1>4. \A e \in Edits : EditInv(e)
    BY <1>2 DEF EditInv
  <1>5. QED
    BY <1>1, <1>3, <1>4 DEF LeadsInv

\* Every step preserves the invariant, and no lead leaves its end.
LEMMA InvNext == LeadsInv /\ [Next]_vars => LeadsInv' /\ Final
  <1> SUFFICES ASSUME LeadsInv, [Next]_vars PROVE LeadsInv' /\ Final
    OBVIOUS
  <1>1. CASE UNCHANGED vars
    <2>1. UNCHANGED <<limit, leads, history, calls, outbox, pc, failures, cmd, mem>>
      BY <1>1 DEF vars
    <2>2. TypeOK'
      BY <2>1, Zenon DEF LeadsInv, TypeOK
    <2>3. QED
      BY <2>1, <2>2, QuietStep
  <1>2. ASSUME NEW d \in Deliveries, Insert(d), UNCHANGED limit PROVE LeadsInv' /\ Final
    BY <1>2, DeliveryStep, MadeStep DEF Insert
  <1>3. ASSUME NEW d \in Deliveries, Deliver(d) \/ Lookup(d) \/ Redeliver(d), UNCHANGED limit
        PROVE  LeadsInv' /\ Final
    BY <1>3, DeliveryStep
  <1>4. ASSUME NEW e \in Edits, Start(e) \/ Load(e) \/ Save(e) \/ AddCall(e) \/ Abort(e), UNCHANGED limit
        PROVE  LeadsInv' /\ Final
    BY <1>4, StartStep, LoadStep, SaveStep, AddCallStep, AbortStep
  <1>5. QED
    BY <1>1, <1>2, <1>3, <1>4 DEF Next

\* The lead of every delivered purchase, the assignments in the histories, and, if edits
\* come one at a time, the copies in the edits' memory (IngestPurchasedLead, UpdateByID).
THEOREM LeadsInvariant == Spec => []LeadsInv
  <1>1. QED
    BY InvInit, InvNext, PTL DEF Spec

\* A purchase becomes one lead with one Created event however it is delivered, and the
\* history is the assignments that were announced (IngestPurchasedLeadHandler,
\* AssignLeadHandler's one transaction).
THEOREM LeadsTellTheirStory == Spec => []LeadTellsItsStory
  <1>1. LeadsInv => LeadTellsItsStory
    <2> SUFFICES ASSUME LeadsInv PROVE LeadTellsItsStory
      OBVIOUS
    <2>1. ASSUME NEW p \in Purchases
          PROVE  LET made == {l \in Deliveries : Exists(l) /\ leads[l].purchase = p}
                     told == {d \in Deliveries : PurchaseOf[d] = p /\ [type |-> "Created", by |-> d] \in outbox}
                 IN  made = told /\ Cardinality(made) <= 1
      <3> DEFINE made == {l \in Deliveries : Exists(l) /\ leads[l].purchase = p}
                 told == {d \in Deliveries : PurchaseOf[d] = p /\ [type |-> "Created", by |-> d] \in outbox}
      <3>1. made = told
        BY DEF LeadsInv, MadeInv, Exists, Created
      <3>2. Cardinality(made) \in {0, 1}
        <4>1. CASE made = {}
          BY <4>1, FS_EmptySet
        <4>2. CASE made # {}
          <5>1. PICK d \in made : TRUE
            BY <4>2
          <5>2. made = {d}
            BY <5>1 DEF LeadsInv, MadeInv, Exists
          <5>3. QED
            BY <5>2, FS_Singleton
        <4>3. QED
          BY <4>1, <4>2
      <3> HIDE DEF made, told
      <3>3. made = told /\ Cardinality(made) <= 1
        BY <3>1, <3>2
      <3>4. QED
        BY <3>3 DEF made, told
    <2>2. TypeOK
      BY DEF LeadsInv
    <2>3. \A e \in Edits :
             ([type |-> "Assigned", by |-> e] \in outbox)
                 <=> \E l \in Deliveries : \E i \in 1 .. Len(history[l]) : history[l][i].by = e
      BY Zenon DEF LeadsInv, ToldInv, Assigned
    <2>4. ASSUME limit = 1, NEW l \in Deliveries, Exists(l) PROVE Chain(l)
      BY <2>4 DEF LeadsInv, SerialInv, Exists
    <2>5. QED
      BY <2>1, <2>2, <2>3, <2>4, Zenon DEF LeadTellsItsStory, Chain
  <1>2. QED
    BY <1>1, LeadsInvariant, PTL

\* If edits come one at a time, a converted or lost lead is never changed again and gets
\* no call (CrmLead's methods, LogCall).
THEOREM EndsAreFinal == Spec => EndIsFinal
  <1>1. LeadsInv /\ [Next]_vars => LeadsInv' /\ Final
    BY InvNext
  <1>2. Final => [limit = 1 =>
         /\ \A l \in Deliveries : Exists(l) /\ leads[l].stage \in Terminal => leads'[l] = leads[l]
         /\ \A e \in calls' \ calls : leads[cmd[e].lead].stage \notin Terminal]_vars
    BY DEF Final, Exists
  <1>3. QED
    BY <1>1, <1>2, InvInit, PTL DEF Spec, EndIsFinal
====
