---- MODULE Marketplace ----
(***************************************************************************)
(* The platform module's lead marketplace: tenants buy verified leads with *)
(* prepaid credits (internal/platform, ADR 0059 and ADR 0065).             *)
(*                                                                         *)
(* Every request is one in-flight handler.  The handler's transaction runs *)
(* at READ COMMITTED, one SQL statement per step: reads see committed rows *)
(* only, an UPDATE, INSERT or SELECT ... FOR UPDATE waits for the row's    *)
(* lock and keeps it until the transaction ends, and all the writes become *)
(* visible together at Commit.  Abort is a rollback forced from outside: a *)
(* cancelled context, a lost connection, a crash of the process.           *)
(***************************************************************************)
EXTENDS Integers, FiniteSets

CONSTANTS
    Tenants, Leads,
    OpeningCredits,   \* lead_credits when the modelled period begins
    MissingLead,      \* a lead id with no platform_leads row
    SaleLimit,        \* platform_leads.sale_limit, or NoLimit for NULL
    NoLimit,
    TierDefaultLimit, \* lead_tiers.default_sale_limit of each lead's tier
    TierBasePaisa,    \* lead_tiers.base_price_paisa of each lead's tier
    Buys,             \* purchase requests; a request's name is its purchase id
    Topups,           \* top-up requests
    Inits,            \* TenantRegisteredV1 messages
    Deltas,           \* amounts a top-up may ask for
    MaxInt64,         \* the largest int64
    MaxRetries,       \* purchaseMaxRetries = topupMaxRetries
    MaxDeliveries,    \* bound: deliveries of one TenantRegisteredV1
    NoRow, Free, NoCommand

Requests == Buys \cup Topups \cup Inits

\* PurchaseLeadCommand, TopupLeadCreditsCommand, InitialiseLeadCreditsCommand.
Commands == [tenant : Tenants, lead : Leads \cup {MissingLead},
             delta : Deltas \cup {0}]

ASSUME ConstantsAssumption ==
    /\ IsFiniteSet(Tenants)
    /\ MissingLead \notin Leads
    /\ NoLimit \notin Nat
    /\ SaleLimit \in [Leads -> (Nat \ {0}) \cup {NoLimit}]
    /\ TierDefaultLimit \in [Leads -> Nat \ {0}]
    /\ TierBasePaisa \in [Leads -> Nat]
    /\ MaxInt64 \in Nat \ {0}
    /\ Deltas \subseteq 1..MaxInt64
    /\ MaxRetries \in Nat \ {0}
    /\ MaxDeliveries \in Nat \ {0}
    /\ NoRow \notin [balance : Int, version : Nat]
    /\ OpeningCredits \in
         [Tenants -> [balance : 0..MaxInt64, version : Nat \ {0}] \cup {NoRow}]
    /\ Free \notin Requests
    /\ NoCommand \notin Commands
    /\ Buys \cap Topups = {} /\ Buys \cap Inits = {} /\ Topups \cap Inits = {}

VARIABLES
    credits,    \* platform.lead_credits, by tenant
    purchases,  \* platform.lead_purchases
    outbox,     \* every event ever written to common.outbox
    creditLock, \* the transaction that holds a tenant's lead_credits row
    leadLock,   \* the transaction that holds a platform_leads row
    pc,         \* where each handler is
    arg,        \* the command each handler was given
    tries,      \* attempts (purchase, top-up) or deliveries (init) so far
    loaded,     \* the LeadCredit aggregate in each handler's memory
    price       \* chargedPaisa of each purchase handler

vars == <<credits, purchases, outbox, creditLock, leadLock,
          pc, arg, tries, loaded, price>>

InTx == {"loadCredit", "saveCredit", "loadLead", "lockLead", "record", "commit"}
Outcomes == {"ok", "insufficient", "notFound", "soldOut", "alreadyPurchased",
             "invalid", "exhausted", "duplicateKey", "overflow", "aborted"}

TypeOK ==
    /\ credits \in [Tenants -> [balance : Nat, version : Nat] \cup {NoRow}]
    /\ purchases \subseteq [id : Buys, lead : Leads, tenant : Tenants, amount : Nat]
    /\ outbox \subseteq
         [type : {"LeadCreditAdjusted"}, id : Buys \cup Topups, tenant : Tenants,
          delta : Int, newBalance : Nat]
         \cup [type : {"LeadPurchased"}, id : Buys, tenant : Tenants,
               lead : Leads, amount : Nat]
    /\ creditLock \in [Tenants -> Requests \cup {Free}]
    /\ leadLock \in [Leads -> Requests \cup {Free}]
    /\ pc \in [Requests -> {"idle"} \cup InTx \cup Outcomes]
    /\ arg \in [Requests -> Commands \cup {NoCommand}]
    /\ \A r \in Requests : pc[r] # "idle" => arg[r] \in Commands
    /\ tries \in [Requests -> Nat]
    /\ loaded \in [Requests -> [balance : Int, version : Nat]]
    /\ price \in [Buys -> Nat]

-----------------------------------------------------------------------------
(* The aggregates.                                                          *)

\* A sum of two non-negative int64 values, wrapped as Go wraps it.
Add64(a, b) == IF a + b > MaxInt64 THEN a + b - 2 * (MaxInt64 + 1) ELSE a + b

NewForTenant == [balance |-> 0, version |-> 0]

Topup(credit, delta) == [credit EXCEPT !.balance = Add64(@, delta)]

\* Fault: a purchase takes two credits.
purchaseChargeTwo == 2

purchaseChargeCredits == 1

\* No row is no balance: ErrNotFound and ErrInsufficientBalance are one answer.
CanCharge(row) == row # NoRow /\ row.balance >= purchaseChargeCredits

Charge(credit) == [credit EXCEPT !.balance = @ - purchaseChargeCredits]

Buyers(lead) == {p.tenant : p \in {q \in purchases : q.lead = lead}}

PurchaseCount(lead) == Cardinality(Buyers(lead))

EffectiveSaleLimit(lead) ==
    IF SaleLimit[lead] = NoLimit THEN TierDefaultLimit[lead] ELSE SaleLimit[lead]

HasBuyer(lead, tenant) == tenant \in Buyers(lead)

\* Fault: the limit is one too high.
IsAvailableOffByOne(lead) == PurchaseCount(lead) <= EffectiveSaleLimit(lead)

IsAvailable(lead) == PurchaseCount(lead) < EffectiveSaleLimit(lead)

\* 5% off per earlier buyer, capped at 30%; package discount capped with it
\* at 50%; at least one paisa unless the tier's base price is zero.
ComputePurchasePricePaisa(tierBasePaisa, priorShareCount, packageDiscountBps) ==
    LET volumeBps  == IF priorShareCount * 500 > 3000 THEN 3000
                      ELSE priorShareCount * 500
        packageBps == IF packageDiscountBps < 0 THEN 0 ELSE packageDiscountBps
        totalBps   == IF volumeBps + packageBps > 5000 THEN 5000
                      ELSE volumeBps + packageBps
        discounted == (tierBasePaisa * (10000 - totalBps)) \div 10000
    IN  IF tierBasePaisa <= 0 THEN 0
        ELSE IF discounted < 1 THEN 1 ELSE discounted

-----------------------------------------------------------------------------
(* Transactions: the unit of work of pg.Transactor, and the rows it locks.  *)

Unlock(lock, r) == [x \in DOMAIN lock |-> IF lock[x] = r THEN Free ELSE lock[x]]

\* Fault: a failed transaction goes back to the pool without ROLLBACK.
RollbackKeepsLocks(r, next) ==
    /\ pc' = [pc EXCEPT ![r] = next]
    /\ UNCHANGED <<credits, purchases, outbox, creditLock, leadLock>>

\* WithinTxPgx rolls back: no write survives and every row lock is dropped.
Rollback(r, next) ==
    /\ pc' = [pc EXCEPT ![r] = next]
    /\ creditLock' = Unlock(creditLock, r)
    /\ leadLock' = Unlock(leadLock, r)
    /\ UNCHANGED <<credits, purchases, outbox>>

Step(r, from, next) ==
    /\ pc[r] = from
    /\ pc' = [pc EXCEPT ![r] = next]

Abort(r) ==
    /\ pc[r] \in InTx
    /\ Rollback(r, "aborted")
    /\ UNCHANGED <<arg, tries, loaded, price>>

\* ErrConflict: PurchaseLeadHandler and TopupLeadCreditsHandler run the whole
\* attempt again, at most MaxRetries times.
RetryOrGiveUp(r) ==
    /\ tries' = [tries EXCEPT ![r] = @ + 1]
    /\ Rollback(r, IF tries[r] + 1 < MaxRetries THEN "loadCredit" ELSE "exhausted")

\* Fault: UPDATE without the version in its WHERE clause.
WritesAnyVersion(r) ==
    (loaded[r].version = 0) <=> (credits[arg[r].tenant] = NoRow)

\* LeadCreditRepository.upsertOnTx writes when UPDATE ... WHERE version = ...
\* finds the row as it was loaded or, for a fresh aggregate, when INSERT finds
\* no row (saved rows have a version of at least 1).
Writes(r) ==
    LET row == credits[arg[r].tenant]
    IN  IF loaded[r].version = 0 THEN row = NoRow
        ELSE row # NoRow /\ row.version = loaded[r].version

\* CHECK (balance >= 0) on platform.lead_credits.
BalanceCheck(r) == loaded[r].balance >= 0

UpsertWithVersion(r, next) ==
    /\ pc[r] = "saveCredit"
    /\ creditLock[arg[r].tenant] = Free
    /\ \/ /\ Writes(r) /\ BalanceCheck(r)
          /\ Step(r, "saveCredit", next)
          /\ creditLock' = [creditLock EXCEPT ![arg[r].tenant] = r]
          /\ UNCHANGED <<credits, purchases, outbox, leadLock, tries>>
       \/ /\ Writes(r) /\ ~BalanceCheck(r)
          /\ Rollback(r, "overflow")
          /\ UNCHANGED tries
       \/ /\ ~Writes(r) /\ loaded[r].version # 0
          /\ RetryOrGiveUp(r)
       \/ /\ ~Writes(r) /\ loaded[r].version = 0
          /\ Rollback(r, "duplicateKey")
          /\ UNCHANGED tries
    /\ UNCHANGED <<arg, loaded, price>>

\* The row as UPDATE or INSERT leaves it: the version moves up by one.
SavedCredit(r) == [loaded[r] EXCEPT !.version = @ + 1]

AdjustedEvent(r, delta) ==
    [type |-> "LeadCreditAdjusted", id |-> r, tenant |-> arg[r].tenant,
     delta |-> delta, newBalance |-> loaded[r].balance]

CommitTx(r) ==
    /\ Step(r, "commit", "ok")
    /\ credits' = [credits EXCEPT ![arg[r].tenant] = SavedCredit(r)]
    /\ creditLock' = Unlock(creditLock, r)
    /\ leadLock' = Unlock(leadLock, r)
    /\ UNCHANGED <<arg, tries, loaded, price>>

-----------------------------------------------------------------------------
(* PurchaseLeadHandler.                                                     *)

PurchaseStart(r) ==
    /\ Step(r, "idle", "loadCredit")
    /\ \E tenant \in Tenants, lead \in Leads \cup {MissingLead} :
         arg' = [arg EXCEPT ![r] = [tenant |-> tenant, lead |-> lead, delta |-> 0]]
    /\ UNCHANGED <<credits, purchases, outbox, creditLock, leadLock,
                   tries, loaded, price>>

PurchaseLoadCredit(r) ==
    LET row == credits[arg[r].tenant]
    IN  /\ pc[r] = "loadCredit"
        /\ \/ /\ CanCharge(row)
              /\ Step(r, "loadCredit", "saveCredit")
              /\ loaded' = [loaded EXCEPT ![r] = Charge(row)]
              /\ UNCHANGED <<credits, purchases, outbox, creditLock, leadLock>>
           \/ /\ ~CanCharge(row)
              /\ Rollback(r, "insufficient")
              /\ UNCHANGED loaded
        /\ UNCHANGED <<arg, tries, price>>

PurchaseSaveCredit(r) == UpsertWithVersion(r, "loadLead")

PurchaseLoadLead(r) ==
    /\ pc[r] = "loadLead"
    /\ \/ /\ arg[r].lead \in Leads
          /\ Step(r, "loadLead", "lockLead")
          /\ UNCHANGED <<credits, purchases, outbox, creditLock, leadLock>>
       \/ /\ arg[r].lead \notin Leads
          /\ Rollback(r, "notFound")
    /\ UNCHANGED <<arg, tries, loaded, price>>

\* SELECT ... FOR UPDATE on the lead row.
PurchaseLockLead(r) ==
    /\ Step(r, "lockLead", "record")
    /\ leadLock[arg[r].lead] = Free
    /\ leadLock' = [leadLock EXCEPT ![arg[r].lead] = r]
    /\ UNCHANGED <<credits, purchases, outbox, creditLock, arg, tries, loaded, price>>

\* The buyers are read after the lock is held; RecordPurchase checks them and
\* the repository inserts the row it recorded.
PurchaseRecord(r) ==
    LET lead   == arg[r].lead
        paisa  == ComputePurchasePricePaisa(TierBasePaisa[lead], PurchaseCount(lead), 0)
        bought == HasBuyer(lead, arg[r].tenant)
        full   == ~IsAvailable(lead)
    IN  /\ pc[r] = "record"
        /\ price' = [price EXCEPT ![r] = paisa]
        /\ \/ /\ paisa > 0 /\ ~bought /\ ~full
              /\ Step(r, "record", "commit")
              /\ UNCHANGED <<credits, purchases, outbox, creditLock, leadLock>>
           \/ /\ paisa <= 0
              /\ Rollback(r, "invalid")
           \/ /\ paisa > 0 /\ bought
              /\ Rollback(r, "alreadyPurchased")
           \/ /\ paisa > 0 /\ ~bought /\ full
              /\ Rollback(r, "soldOut")
        /\ UNCHANGED <<arg, tries, loaded>>

\* Fault: the purchase is not announced.
PurchaseEventsWalletOnly(r) == {AdjustedEvent(r, -purchaseChargeCredits)}

\* The wallet's event, drained by the repository, and LeadPurchasedV1.
PurchaseEvents(r) ==
    {AdjustedEvent(r, -purchaseChargeCredits),
     [type |-> "LeadPurchased", id |-> r, tenant |-> arg[r].tenant,
      lead |-> arg[r].lead, amount |-> price[r]]}

\* Both are enqueued in the same transaction, then COMMIT.
PurchaseCommit(r) ==
    /\ CommitTx(r)
    /\ purchases' = purchases \cup
         {[id |-> r, lead |-> arg[r].lead, tenant |-> arg[r].tenant,
           amount |-> price[r]]}
    /\ outbox' = outbox \cup PurchaseEvents(r)

-----------------------------------------------------------------------------
(* TopupLeadCreditsHandler.                                                 *)

TopupStart(r) ==
    /\ Step(r, "idle", "loadCredit")
    /\ \E tenant \in Tenants, delta \in Deltas :
         arg' = [arg EXCEPT ![r] =
                   [tenant |-> tenant, lead |-> MissingLead, delta |-> delta]]
    /\ UNCHANGED <<credits, purchases, outbox, creditLock, leadLock,
                   tries, loaded, price>>

TopupLoadCredit(r) ==
    LET row    == credits[arg[r].tenant]
        credit == IF row = NoRow THEN NewForTenant ELSE row
    IN  /\ Step(r, "loadCredit", "saveCredit")
        /\ loaded' = [loaded EXCEPT ![r] = Topup(credit, arg[r].delta)]
        /\ UNCHANGED <<credits, purchases, outbox, creditLock, leadLock,
                       arg, tries, price>>

TopupSaveCredit(r) == UpsertWithVersion(r, "commit")

TopupCommit(r) ==
    /\ CommitTx(r)
    /\ outbox' = outbox \cup {AdjustedEvent(r, arg[r].delta)}
    /\ UNCHANGED purchases

-----------------------------------------------------------------------------
(* TenantRegisteredIngestor and InitialiseLeadCreditsHandler.  The message  *)
(* may be delivered again whatever the last delivery did.                   *)

InitDeliver(r) ==
    /\ pc[r] \in {"idle"} \cup Outcomes
    /\ tries[r] < MaxDeliveries
    /\ tries' = [tries EXCEPT ![r] = @ + 1]
    /\ pc' = [pc EXCEPT ![r] = "loadCredit"]
    /\ \/ /\ pc[r] = "idle"
          /\ \E tenant \in Tenants :
               arg' = [arg EXCEPT ![r] =
                         [tenant |-> tenant, lead |-> MissingLead, delta |-> 0]]
       \/ /\ pc[r] # "idle"
          /\ UNCHANGED arg
    /\ UNCHANGED <<credits, purchases, outbox, creditLock, leadLock, loaded, price>>

InitLoadCredit(r) ==
    LET row == credits[arg[r].tenant]
    IN  /\ pc[r] = "loadCredit"
        /\ \/ /\ row # NoRow
              /\ Rollback(r, "ok")
              /\ UNCHANGED loaded
           \/ /\ row = NoRow
              /\ Step(r, "loadCredit", "saveCredit")
              /\ loaded' = [loaded EXCEPT ![r] = NewForTenant]
              /\ UNCHANGED <<credits, purchases, outbox, creditLock, leadLock>>
        /\ UNCHANGED <<arg, tries, price>>

InitSaveCredit(r) == UpsertWithVersion(r, "commit")

InitCommit(r) ==
    /\ CommitTx(r)
    /\ UNCHANGED <<purchases, outbox>>

-----------------------------------------------------------------------------
Init ==
    /\ credits = OpeningCredits
    /\ purchases = {}
    /\ outbox = {}
    /\ creditLock = [t \in Tenants |-> Free]
    /\ leadLock = [l \in Leads |-> Free]
    /\ pc = [r \in Requests |-> "idle"]
    /\ arg = [r \in Requests |-> NoCommand]
    /\ tries = [r \in Requests |-> 0]
    /\ loaded = [r \in Requests |-> NewForTenant]
    /\ price = [r \in Buys |-> 0]

PurchaseStep(r) ==
    \/ PurchaseLoadCredit(r) \/ PurchaseSaveCredit(r) \/ PurchaseLoadLead(r)
    \/ PurchaseLockLead(r) \/ PurchaseRecord(r) \/ PurchaseCommit(r)

TopupStep(r) == TopupLoadCredit(r) \/ TopupSaveCredit(r) \/ TopupCommit(r)

InitStep(r) == InitLoadCredit(r) \/ InitSaveCredit(r) \/ InitCommit(r)

Next ==
    \/ \E r \in Buys : PurchaseStart(r) \/ PurchaseStep(r)
    \/ \E r \in Topups : TopupStart(r) \/ TopupStep(r)
    \/ \E r \in Inits : InitDeliver(r) \/ InitStep(r)
    \/ \E r \in Requests : Abort(r)

\* A handler that has begun keeps running; nobody has to send a request, and
\* nothing has to fail.
Fairness ==
    /\ \A r \in Buys : WF_vars(PurchaseStep(r))
    /\ \A r \in Topups : WF_vars(TopupStep(r))
    /\ \A r \in Inits : WF_vars(InitStep(r))

Spec == Init /\ [][Next]_vars /\ Fairness

-----------------------------------------------------------------------------
(* Properties.                                                              *)

\* A lead never has more buyers than its sale limit allows, whatever the
\* purchases that race for the last place (PlatformLead.RecordPurchase under
\* the row lock of UpdateByID).
SaleLimitRespected ==
    \A l \in Leads : PurchaseCount(l) <= EffectiveSaleLimit(l)

\* A tenant owns at most one purchase row of a lead, so it is never charged
\* twice for it (RecordPurchase's HasBuyer, UNIQUE (lead_id, tenant_id)).
NoDoubleBuy ==
    \A p, q \in purchases : p.lead = q.lead /\ p.tenant = q.tenant => p = q

\* Charge, purchase row and LeadPurchasedV1 happen together or not at all, and
\* exactly for the requests that were answered with success; and the n buyers of a
\* lead paid the first n steps of the price schedule: no two of them were priced from
\* the same count (the count is read under the lock).
PurchaseIsAtomic ==
    /\ \A r \in Buys :
         LET row == \E p \in purchases : p.id = r
         IN  /\ row <=> pc[r] = "ok"
             /\ row <=> \E e \in outbox : e.type = "LeadPurchased" /\ e.id = r
             /\ row <=> \E e \in outbox : e.type = "LeadCreditAdjusted" /\ e.id = r
    /\ \A l \in Leads :
         {p.amount : p \in {q \in purchases : q.lead = l}}
           = {ComputePurchasePricePaisa(TierBasePaisa[l], n, 0) : n \in 0 .. PurchaseCount(l) - 1}

\* A handler that has begun comes to an end: it waits for a row lock only while
\* a handler that holds it can go on.
RequestsFinish == \A r \in Requests : (pc[r] \in InTx) ~> (pc[r] \in Outcomes)
====
