---- MODULE LeadFlow ----
(***************************************************************************)
(* A purchase on its way to the buyer's CRM: the market, the messaging and *)
(* the CRM's subscriber together (ADR 0059, 0060, 0065).                   *)
(*                                                                         *)
(* The market is LeadMarket, which Marketplace implements; its purchase    *)
(* and the outbox rows of its two events are one transaction.  What the    *)
(* handler crm.subscribers.IngestLeadPurchased does between "run" and      *)
(* "record" is IngestPurchasedLead of CrmLeads, statement by statement.    *)
(***************************************************************************)
EXTENDS Messaging

CONSTANTS
    Tenants, Leads,
    SaleLimit,   \* of each lead
    Credits,     \* the balance every tenant starts with
    Ingestor     \* the handler crm.subscribers.IngestLeadPurchased

VARIABLES
    balance, buyers,   \* of LeadMarket
    crmLeads, created, \* crm.crm_leads of every tenant, and their Created events
    ingest             \* where the command for each purchase is

market == <<balance, buyers>>
crm    == <<crmLeads, created, ingest>>
flow   == <<vars, market, crm>>

Buys == Tenants \X Leads

LeadPurchased(b) == [type |-> "LeadPurchased", purchase |-> b]
LeadCreditAdjusted(b) == [type |-> "LeadCreditAdjusted", purchase |-> b]

\* Fault: the purchase is not announced.
PurchaseEventsWalletOnly(b) == {LeadCreditAdjusted(b)}

PurchaseEvents(b) == {LeadPurchased(b), LeadCreditAdjusted(b)}

\* The events there are, and the one the handler is typed for.
FlowMessages == {LeadPurchased(b) : b \in Buys} \cup {LeadCreditAdjusted(b) : b \in Buys}
FlowWants == [h \in Handlers |-> IF h = Ingestor THEN {LeadPurchased(b) : b \in Buys} ELSE {}]

ASSUME LeadFlowAssumption ==
    /\ Messages = FlowMessages /\ Wants = FlowWants
    /\ Ingestor \in Handlers
    /\ SaleLimit \in [Leads -> Nat] /\ Credits \in Nat

K == INSTANCE LeadMarket
       WITH Limit <- SaleLimit, Deltas <- {}, MaxBalance <- Credits,
            Opening <- [t \in Tenants |-> Credits]

\* No lead is edited here.
C == INSTANCE CrmLeads
       WITH Purchases <- Buys, Deliveries <- Buys, PurchaseOf <- [b \in Buys |-> b],
            Edits <- {}, Members <- {}, Limits <- {1}, MaxFailures <- 0,
            NoRow <- NoMessage, None <- NoMessage,
            limit <- 1, leads <- crmLeads, history <- [b \in Buys |-> <<>>], calls <- {},
            outbox <- created, pc <- ingest, failures <- 0,
            cmd <- <<>>, mem <- <<>>

FlowInit == Init /\ K!Init /\ C!Init

-----------------------------------------------------------------------------
Purchase(t, l) ==
    /\ K!Buy(t, l)
    /\ PublishOutbox(PurchaseEvents(<<t, l>>))
    /\ UNCHANGED crm

\* The handler is at work on the purchase b.
Ingesting(b) == pc[Ingestor] = "run" /\ cur[Ingestor] = LeadPurchased(b)

IngestStep(b) ==
    /\ Ingesting(b)
    /\ C!Deliver(b) \/ C!Lookup(b) \/ C!Insert(b)
    /\ UNCHANGED <<vars, market>>

\* The command is over; what it committed stays.
EndIngest == ingest' = [b \in Buys |-> "idle"] /\ UNCHANGED <<crmLeads, created>>

\* A nil from the command, for a new lead and for one that already existed.
Succeeds(h) ==
    /\ RunSucceeds(h)
    /\ \A b \in Buys : h = Ingestor /\ Ingesting(b) => ingest[b] \in {"ok", "existed"}
    /\ EndIngest /\ UNCHANGED market

\* A statement failed, its COMMIT included: then the lead may be there.
Fails(h, retryable) ==
    /\ RunFails(h, retryable)
    /\ \A b \in Buys : h = Ingestor /\ Ingesting(b) => ingest[b] # "existed"
    /\ EndIngest /\ UNCHANGED market

\* A crash, or the end of the handler's context, at any statement.
Interrupt ==
    /\ Crash \/ EndShutdown \/ CancelHandler(Ingestor)
    /\ EndIngest /\ UNCHANGED market

\* The steps of the messaging that no command takes part in.
Deliver(h) ==
    /\ \/ \E m \in Messages : Receive(h, m)
       \/ CheckInbox(h) \/ RecordProcessed(h) \/ Poison(h)
    /\ UNCHANGED <<market, crm>>

Step(h) ==
    \/ Deliver(h)
    \/ Succeeds(h)
    \/ \E retryable \in BOOLEAN : Fails(h, retryable)
    \/ h = Ingestor /\ \E b \in Buys : IngestStep(b)

Carry ==
    /\ \/ \E m \in Messages : Forward(m)
       \/ ForwardAck
       \/ \E h \in Handlers \cup {DeadLetter} : Subscribe(h)
       \/ \E p \in Pairs : PersistLetter(p)
       \/ \E h \in Handlers \ {Ingestor} : CancelHandler(h)
       \/ BeginShutdown \/ Restart
    /\ UNCHANGED <<market, crm>>

FlowNext ==
    \/ \E t \in Tenants, l \in Leads : Purchase(t, l)
    \/ Carry
    \/ \E h \in Handlers : Step(h)
    \/ Interrupt

\* The fairness of Messaging: no tenant has to buy and nothing has to fail.
FlowFairness ==
    /\ \A m \in Messages : WF_flow(Forward(m) /\ UNCHANGED <<market, crm>>)
    /\ WF_flow(ForwardAck /\ UNCHANGED <<market, crm>>)
    /\ \A h \in Handlers \cup {DeadLetter} : WF_flow(Subscribe(h) /\ UNCHANGED <<market, crm>>)
    /\ \A h \in Handlers : WF_flow(Step(h))
    /\ \A p \in Pairs : WF_flow(PersistLetter(p) /\ UNCHANGED <<market, crm>>)
    /\ WF_flow(EndShutdown /\ EndIngest /\ UNCHANGED market)
    /\ WF_flow(Restart /\ UNCHANGED <<market, crm>>)

FlowSpec == FlowInit /\ [][FlowNext]_flow /\ FlowFairness

-----------------------------------------------------------------------------
HasLead(b) == crmLeads[b] # NoMessage
IsBought(b) == b[1] \in buyers[b[2]]

\* What a tenant bought becomes one lead in its CRM, and nothing else does: purchase,
\* forwarder, inbox and the lookup by purchase id (PurchasedLeadIngestor: "the
\* natural-key (PurchaseID) check in the command dedups across broker replays") make it
\* so through failed statements and retries, also when the statement that failed is the
\* COMMIT of the lead.  A lead in a CRM was paid for, is announced once, and is there when
\* the inbox says that its purchase was processed.  A purchase without its lead is a dead letter, or was caught by
\* one of the two exceptions of EveryEventSettles.
PurchaseBecomesLead ==
    /\ [](\A b \in Buys :
            /\ HasLead(b) => IsBought(b) /\ crmLeads[b].purchase = b
            /\ HasLead(b) <=> [type |-> "Created", by |-> b] \in created
            /\ <<LeadPurchased(b), Ingestor>> \in processed => HasLead(b))
    /\ \A b \in Buys :
         LET p == <<LeadPurchased(b), Ingestor>> IN
         IsBought(b) ~> (HasLead(b) \/ stops > 0 \/ p \in dead \cup unstored \cup missed)
====
