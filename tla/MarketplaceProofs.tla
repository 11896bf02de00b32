---- MODULE MarketplaceProofs ----
(***************************************************************************)
(* The marketplace's inductive invariant and its refinement of LeadMarket, *)
(* proved for every set of tenants, leads and requests.                    *)
(***************************************************************************)
EXTENDS MarketplaceRefinement, FiniteSetTheorems, TLAPS

USE DEF purchaseChargeCredits

-----------------------------------------------------------------------------
(* The operators.                                                           *)

\* The purchase price is a natural number (it is stored as amount_paisa).
LEMMA PriceType ==
    ASSUME NEW base \in Nat, NEW n \in Nat
    PROVE  ComputePurchasePricePaisa(base, n, 0) \in Nat
  BY DEF ComputePurchasePricePaisa

\* A wrapped sum that is not negative did not wrap.
LEMMA Add64Exact ==
    ASSUME NEW a \in 0..MaxInt64, NEW b \in 1..MaxInt64, Add64(a, b) >= 0
    PROVE  Add64(a, b) = a + b /\ a + b <= MaxInt64
  BY ConstantsAssumption DEF Add64

\* The buyers of a lead are finitely many tenants.
LEMMA BuyersFinite ==
    ASSUME TypeOK, NEW l \in Leads
    PROVE  Buyers(l) \subseteq Tenants /\ IsFiniteSet(Buyers(l)) /\ PurchaseCount(l) \in Nat
  <1>1. Buyers(l) \subseteq Tenants
    BY DEF TypeOK, Buyers
  <1>2. IsFiniteSet(Buyers(l))
    BY <1>1, ConstantsAssumption, FS_Subset
  <1>3. QED
    BY <1>1, <1>2, FS_CardinalityType DEF PurchaseCount

\* The effective sale limit is a positive number.
LEMMA LimitType ==
    ASSUME NEW l \in Leads
    PROVE  EffectiveSaleLimit(l) \in Nat \ {0}
  BY ConstantsAssumption DEF EffectiveSaleLimit

-----------------------------------------------------------------------------
(* The invariant holds initially.                                           *)

\* Before any request there are no purchases, no locks and no handler in a
\* transaction, so every part of the invariant holds.
LEMMA InvInit == Init => MarketplaceInv
  <1> SUFFICES ASSUME Init PROVE MarketplaceInv
    OBVIOUS
  <1> USE ConstantsAssumption
  <1>1. TypeOK
    BY DEF Init, TypeOK, NewForTenant, Requests, InTx, Outcomes
  <1>2. LockInv
    BY DEF Init, LockInv, HoldsCredit, Requests
  <1>3. WalletInv
    BY DEF Init, WalletInv, HoldsCredit, Requests
  <1>4. PlaceInv
    BY DEF Init, PlaceInv, Requests
  <1>5. \A l \in Leads : Buyers(l) = {}
    BY DEF Init, Buyers
  <1>6. SaleLimitRespected
    <2> SUFFICES ASSUME NEW l \in Leads PROVE PurchaseCount(l) <= EffectiveSaleLimit(l)
      BY DEF SaleLimitRespected
    <2>1. PurchaseCount(l) = 0
      BY <1>5, FS_EmptySet, Zenon DEF PurchaseCount
    <2>2. QED
      BY <2>1, LimitType
  <1>7. NoDoubleBuy
    BY DEF Init, NoDoubleBuy
  <1>8. QED
    BY <1>1, <1>2, <1>3, <1>4, <1>6, <1>7 DEF MarketplaceInv

-----------------------------------------------------------------------------
(* What a step leaves alone.                                                *)

\* A step that adds no purchase keeps the places: only RecordPurchase brings a
\* purchase to "commit".
LEMMA PlacesKept ==
    ASSUME MarketplaceInv, UNCHANGED purchases,
           \A q \in Buys : pc'[q] = "commit" => pc[q] = "commit" /\ arg'[q] = arg[q]
    PROVE  PlaceInv' /\ SaleLimitRespected' /\ NoDoubleBuy'
  <1>1. \A l : Buyers(l)' = Buyers(l) /\ PurchaseCount(l)' = PurchaseCount(l)
    BY DEF Buyers, PurchaseCount
  <1>2. PlaceInv'
    BY <1>1 DEF MarketplaceInv, PlaceInv, EffectiveSaleLimit
  <1>3. SaleLimitRespected'
    BY <1>1 DEF MarketplaceInv, SaleLimitRespected, EffectiveSaleLimit
  <1>4. NoDoubleBuy'
    BY DEF MarketplaceInv, NoDoubleBuy
  <1>5. QED
    BY <1>2, <1>3, <1>4

\* A step that writes no wallet keeps what is known of the aggregates in memory.
LEMMA WalletKept ==
    ASSUME MarketplaceInv, UNCHANGED credits,
           \A q \in Topups : arg'[q] = arg[q] \/ arg'[q].delta \in Deltas,
           \A q \in Requests :
             /\ pc'[q] \in {"saveCredit"} \cup HoldsCredit =>
                  pc[q] \in {"saveCredit"} \cup HoldsCredit
                  /\ loaded'[q] = loaded[q] /\ arg'[q] = arg[q]
             /\ pc'[q] \in HoldsCredit => pc[q] \in HoldsCredit
    PROVE  WalletInv'
  <1>1. \A t \in Tenants : credits'[t] # NoRow =>
           credits'[t].version >= 1 /\ credits'[t].balance <= MaxInt64
    BY DEF MarketplaceInv, WalletInv
  <1>2. \A q \in Topups : arg'[q] # NoCommand => arg'[q].delta \in Deltas
    BY DEF MarketplaceInv, WalletInv
  <1>3. ASSUME NEW q \in Requests, arg'[q] = arg[q]
        PROVE  /\ Current(q)' = Current(q)
               /\ Mutated(q, Current(q))' = Mutated(q, Current(q))
    BY <1>3 DEF Current, Mutated, Charge, Topup, NewForTenant
  <1>4. QED
    BY <1>1, <1>2, <1>3 DEF MarketplaceInv, WalletInv

-----------------------------------------------------------------------------
(* A rollback drops the handler's locks and nobody else's.                  *)

\* Dropping r's locks cannot disturb another handler's.
LEMMA LockInvUnlocked ==
    ASSUME MarketplaceInv, NEW r \in Requests, NEW next \in {"loadCredit"} \cup Outcomes,
           pc' = [pc EXCEPT ![r] = next],
           creditLock' = Unlock(creditLock, r), leadLock' = Unlock(leadLock, r),
           UNCHANGED arg
    PROVE  LockInv'
  <1>1. \A t \in Tenants : creditLock'[t] = (IF creditLock[t] = r THEN Free ELSE creditLock[t])
    BY DEF Unlock, MarketplaceInv, TypeOK
  <1>2. \A l \in Leads : leadLock'[l] = (IF leadLock[l] = r THEN Free ELSE leadLock[l])
    BY DEF Unlock, MarketplaceInv, TypeOK
  <1>3. \A q \in Requests : pc'[q] = (IF q = r THEN next ELSE pc[q])
    BY DEF MarketplaceInv, TypeOK
  <1>4. next \notin HoldsCredit
    BY DEF HoldsCredit, Outcomes
  <1>5. \A q \in Requests : pc[q] \in HoldsCredit => arg[q] \in Commands
    BY DEF MarketplaceInv, TypeOK, HoldsCredit
  <1>6. \A q \in Requests : pc'[q] \in HoldsCredit => creditLock'[arg'[q].tenant] = q
    BY <1>1, <1>3, <1>4, <1>5 DEF MarketplaceInv, LockInv, Commands
  <1>7. \A q \in Buys :
          /\ pc'[q] \in {"lockLead", "record", "commit"} => arg'[q].lead \in Leads
          /\ pc'[q] \in {"record", "commit"} => leadLock'[arg'[q].lead] = q
    BY <1>2, <1>3, <1>4 DEF MarketplaceInv, LockInv, HoldsCredit, Requests
  <1>8. \A q \in Topups \cup Inits : pc'[q] \notin {"loadLead", "lockLead", "record"}
    BY <1>3, <1>4 DEF MarketplaceInv, LockInv, HoldsCredit, Requests
  <1>9. QED
    BY <1>6, <1>7, <1>8 DEF LockInv

\* Types survive a change of locks and program counters.
LEMMA UnlockType ==
    ASSUME TypeOK, NEW r \in Requests
    PROVE  /\ Unlock(creditLock, r) \in [Tenants -> Requests \cup {Free}]
           /\ Unlock(leadLock, r) \in [Leads -> Requests \cup {Free}]
  BY DEF TypeOK, Unlock

\* A rollback preserves the invariant, whatever the handler was doing.
LEMMA RollbackInv ==
    ASSUME MarketplaceInv, NEW r \in Requests, NEW next \in {"loadCredit"} \cup Outcomes,
           pc[r] # "idle", Rollback(r, next), UNCHANGED <<arg, loaded>>,
           tries' \in [Requests -> Nat], price' \in [Buys -> Nat]
    PROVE  MarketplaceInv'
  <1>1. TypeOK'
    BY UnlockType, Zenon DEF MarketplaceInv, TypeOK, Rollback, InTx
  <1>2. LockInv'
    BY LockInvUnlocked, Zenon DEF Rollback
  <1>3. \A q \in Requests : pc'[q] = (IF q = r THEN next ELSE pc[q])
    BY DEF MarketplaceInv, TypeOK, Rollback
  <1>4. next \notin {"saveCredit", "commit"} \cup HoldsCredit
    BY DEF HoldsCredit, Outcomes
  <1>5. WalletInv'
    BY <1>3, <1>4, WalletKept DEF Rollback
  <1>6. PlaceInv' /\ SaleLimitRespected' /\ NoDoubleBuy'
    BY <1>3, <1>4, PlacesKept DEF Rollback, Requests
  <1>7. QED
    BY <1>1, <1>2, <1>5, <1>6 DEF MarketplaceInv

\* A cancelled or lost transaction leaves no trace but its outcome.
LEMMA AbortInv ==
    ASSUME MarketplaceInv, NEW r \in Requests, Abort(r)
    PROVE  MarketplaceInv'
  <1>1. pc[r] # "idle" /\ Rollback(r, "aborted") /\ UNCHANGED <<arg, loaded, tries, price>>
    BY DEF Abort, InTx
  <1>2. "aborted" \in {"loadCredit"} \cup Outcomes
    BY DEF Outcomes
  <1>3. tries' \in [Requests -> Nat] /\ price' \in [Buys -> Nat]
    BY <1>1 DEF MarketplaceInv, TypeOK
  <1>4. QED
    BY <1>1, <1>2, <1>3, RollbackInv

-----------------------------------------------------------------------------
(* Steps that only read, or that only begin.                                *)

\* A handler begins, or begins again, with a command and no lock.
LEMMA BeginInv ==
    ASSUME MarketplaceInv, NEW r \in Requests, NEW cmd \in Commands,
           pc[r] \in {"idle"} \cup Outcomes,
           pc' = [pc EXCEPT ![r] = "loadCredit"], arg' = [arg EXCEPT ![r] = cmd],
           r \in Topups => cmd.delta \in Deltas,
           tries' \in [Requests -> Nat],
           UNCHANGED <<credits, purchases, outbox, creditLock, leadLock, loaded, price>>
    PROVE  MarketplaceInv'
  <1>1. TypeOK'
    BY Zenon DEF MarketplaceInv, TypeOK, InTx
  <1>2. \A q \in Requests :
          /\ pc'[q] = (IF q = r THEN "loadCredit" ELSE pc[q])
          /\ arg'[q] = (IF q = r THEN cmd ELSE arg[q])
    BY DEF MarketplaceInv, TypeOK
  <1>3. LockInv'
    BY <1>2 DEF MarketplaceInv, LockInv, HoldsCredit, Requests
  <1>4. WalletInv'
    <2>1. \A q \in Topups : arg'[q] = arg[q] \/ arg'[q].delta \in Deltas
      BY <1>2 DEF Requests
    <2>2. QED
      BY <1>2, <2>1, WalletKept DEF HoldsCredit
  <1>5. PlaceInv' /\ SaleLimitRespected' /\ NoDoubleBuy'
    BY <1>2, PlacesKept DEF Requests
  <1>6. QED
    BY <1>1, <1>3, <1>4, <1>5 DEF MarketplaceInv

\* Accepting a PurchaseLeadCommand touches no row and no lock.
LEMMA PurchaseStartInv ==
    ASSUME MarketplaceInv, NEW r \in Buys, PurchaseStart(r)
    PROVE  MarketplaceInv'
  <1>1. PICK tenant \in Tenants, lead \in Leads \cup {MissingLead} :
          arg' = [arg EXCEPT ![r] = [tenant |-> tenant, lead |-> lead, delta |-> 0]]
    BY Zenon DEF PurchaseStart
  <1>2. [tenant |-> tenant, lead |-> lead, delta |-> 0] \in Commands
    BY DEF Commands
  <1>3. r \in Requests /\ r \notin Topups
    BY ConstantsAssumption DEF Requests
  <1>4. tries' \in [Requests -> Nat]
    BY DEF PurchaseStart, MarketplaceInv, TypeOK
  <1>5. QED
    BY <1>1, <1>2, <1>3, <1>4, BeginInv, Zenon DEF PurchaseStart, Step

\* Accepting a TopupLeadCreditsCommand touches no row and no lock.
LEMMA TopupStartInv ==
    ASSUME MarketplaceInv, NEW r \in Topups, TopupStart(r)
    PROVE  MarketplaceInv'
  <1>1. PICK tenant \in Tenants, delta \in Deltas :
          arg' = [arg EXCEPT ![r] = [tenant |-> tenant, lead |-> MissingLead, delta |-> delta]]
    BY Zenon DEF TopupStart
  <1> DEFINE cmd == [tenant |-> tenant, lead |-> MissingLead, delta |-> delta]
  <1>2. cmd \in Commands /\ cmd.delta \in Deltas
    BY DEF Commands
  <1>3. r \in Requests
    BY DEF Requests
  <1>4. tries' \in [Requests -> Nat]
    BY DEF TopupStart, MarketplaceInv, TypeOK
  <1>5. QED
    BY <1>1, <1>2, <1>3, <1>4, BeginInv, Zenon DEF TopupStart, Step

\* A delivery of TenantRegisteredV1, first or repeated, starts with no lock.
LEMMA InitDeliverInv ==
    ASSUME MarketplaceInv, NEW r \in Inits, InitDeliver(r)
    PROVE  MarketplaceInv'
  <1>1. r \in Requests /\ r \notin Topups
    BY ConstantsAssumption DEF Requests
  <1>2. tries' \in [Requests -> Nat]
    BY <1>1 DEF InitDeliver, MarketplaceInv, TypeOK
  <1>3. CASE pc[r] = "idle"
    <2>1. PICK tenant \in Tenants :
            arg' = [arg EXCEPT ![r] = [tenant |-> tenant, lead |-> MissingLead, delta |-> 0]]
      BY <1>3 DEF InitDeliver
    <2>2. [tenant |-> tenant, lead |-> MissingLead, delta |-> 0] \in Commands
      BY DEF Commands
    <2>3. QED
      BY <1>1, <1>2, <2>1, <2>2, BeginInv, Zenon DEF InitDeliver
  <1>4. CASE pc[r] # "idle"
    <2>1. arg[r] \in Commands /\ arg' = [arg EXCEPT ![r] = arg[r]]
      BY <1>1, <1>4 DEF InitDeliver, MarketplaceInv, TypeOK
    <2>2. QED
      BY <1>1, <1>2, <2>1, BeginInv, Zenon DEF InitDeliver
  <1>5. QED
    BY <1>3, <1>4

\* Loading the wallet applies the command to the row as it is now.
LEMMA LoadInv ==
    ASSUME MarketplaceInv, NEW r \in Requests, Step(r, "loadCredit", "saveCredit"),
           NEW credit \in [balance : Int, version : Nat],
           loaded' = [loaded EXCEPT ![r] = credit],
           credit = Mutated(r, Current(r)), credit.version = Current(r).version,
           r \in Buys => credit.version >= 1 /\ credit.balance >= 0,
           r \in Inits => credit.version = 0,
           UNCHANGED <<credits, purchases, outbox, creditLock, leadLock, arg, tries, price>>
    PROVE  MarketplaceInv'
  <1>1. TypeOK'
    BY DEF MarketplaceInv, TypeOK, InTx, Step
  <1>2. \A q \in Requests :
          /\ pc'[q] = (IF q = r THEN "saveCredit" ELSE pc[q])
          /\ loaded'[q] = (IF q = r THEN credit ELSE loaded[q])
    BY DEF MarketplaceInv, TypeOK, Step
  <1>3. LockInv'
    BY <1>2 DEF MarketplaceInv, LockInv, HoldsCredit, Requests
  <1>4. \A q \in Requests : /\ Current(q)' = Current(q)
                            /\ Mutated(q, Current(q))' = Mutated(q, Current(q))
    BY Zenon DEF Current, Mutated, Charge, Topup, NewForTenant
  <1>5. Current(r).version \in Nat
    BY Zenon DEF Current, MarketplaceInv, TypeOK, NewForTenant, Step, Commands
  <1>6. WalletInv'
    <2>1. /\ \A t \in Tenants : credits'[t] # NoRow =>
               credits'[t].version >= 1 /\ credits'[t].balance <= MaxInt64
          /\ \A q \in Topups : arg'[q] # NoCommand => arg'[q].delta \in Deltas
      BY DEF MarketplaceInv, WalletInv
    <2>2. ASSUME NEW q \in Requests, q # r
          PROVE  pc'[q] = pc[q] /\ loaded'[q] = loaded[q]
      BY <1>2, <2>2
    <2>3. pc'[r] = "saveCredit" /\ loaded'[r] = credit
      BY <1>2
    <2>4. credit.version <= Current(r).version
      BY <1>5
    <2>5. QED
      BY <1>4, <2>1, <2>2, <2>3, <2>4 DEF MarketplaceInv, WalletInv, HoldsCredit
  <1>7. PlaceInv' /\ SaleLimitRespected' /\ NoDoubleBuy'
    BY <1>2, PlacesKept DEF Requests
  <1>8. QED
    BY <1>1, <1>3, <1>6, <1>7 DEF MarketplaceInv

\* runOnce of a purchase loads the wallet and charges it in memory, or ends.
LEMMA PurchaseLoadCreditInv ==
    ASSUME MarketplaceInv, NEW r \in Buys, PurchaseLoadCredit(r)
    PROVE  MarketplaceInv'
  <1> DEFINE row == credits[arg[r].tenant]
  <1>1. r \in Requests /\ r \notin Topups \cup Inits
    BY ConstantsAssumption DEF Requests
  <1>2. arg[r] \in Commands /\ pc[r] = "loadCredit"
    BY <1>1 DEF PurchaseLoadCredit, MarketplaceInv, TypeOK
  <1>3. row \in [balance : Nat, version : Nat] \cup {NoRow}
    BY <1>2 DEF MarketplaceInv, TypeOK, Commands
  <1>4. tries' \in [Requests -> Nat] /\ price' \in [Buys -> Nat]
    BY DEF PurchaseLoadCredit, MarketplaceInv, TypeOK
  <1>5. CASE CanCharge(row)
    <2>1. row \in [balance : Nat, version : Nat] /\ row.balance >= 1 /\ row.version >= 1
      BY <1>2, <1>3, <1>5 DEF CanCharge, MarketplaceInv, WalletInv, Commands
    <2>2. Current(r) = row
      BY <1>5 DEF Current, CanCharge
    <2>3. /\ Charge(row) \in [balance : Int, version : Nat]
          /\ Charge(row).balance >= 0 /\ Charge(row).version = row.version
      BY <2>1 DEF Charge
    <2>4. Charge(row) = Mutated(r, Current(r))
      BY <2>2 DEF Mutated
    <2>5. QED
      BY <1>1, <1>5, <2>1, <2>2, <2>3, <2>4, LoadInv, Zenon DEF PurchaseLoadCredit
  <1>6. CASE ~CanCharge(row)
    <2>1. "insufficient" \in {"loadCredit"} \cup Outcomes
      BY DEF Outcomes
    <2>2. QED
      BY <1>1, <1>2, <1>4, <1>6, <2>1, RollbackInv DEF PurchaseLoadCredit
  <1>7. QED
    BY <1>5, <1>6

\* runOnce of a top-up loads the wallet, or a fresh one, and adds in memory.
LEMMA TopupLoadCreditInv ==
    ASSUME MarketplaceInv, NEW r \in Topups, TopupLoadCredit(r)
    PROVE  MarketplaceInv'
  <1>1. r \in Requests /\ r \notin Buys \cup Inits
    BY ConstantsAssumption DEF Requests
  <1>2. arg[r] \in Commands /\ arg[r].delta \in Deltas
    BY <1>1, ConstantsAssumption DEF TopupLoadCredit, Step, MarketplaceInv, TypeOK, WalletInv
  <1>3. Current(r) \in [balance : Nat, version : Nat]
    BY <1>2 DEF Current, NewForTenant, MarketplaceInv, TypeOK, Commands
  <1> DEFINE credit == Topup(Current(r), arg[r].delta)
  <1>4. loaded' = [loaded EXCEPT ![r] = credit]
    BY DEF TopupLoadCredit, Current
  <1>5. credit \in [balance : Int, version : Nat] /\ credit.version = Current(r).version
    BY <1>2, <1>3, ConstantsAssumption DEF Topup, Add64
  <1>6. credit = Mutated(r, Current(r))
    BY <1>1 DEF Mutated
  <1>7. QED
    BY <1>1, <1>4, <1>5, <1>6, LoadInv, Zenon DEF TopupLoadCredit

\* InitialiseLeadCreditsHandler goes on only when there is no wallet.
LEMMA InitLoadCreditInv ==
    ASSUME MarketplaceInv, NEW r \in Inits, InitLoadCredit(r)
    PROVE  MarketplaceInv'
  <1> DEFINE row == credits[arg[r].tenant]
  <1>1. r \in Requests /\ r \notin Buys \cup Topups
    BY ConstantsAssumption DEF Requests
  <1>2. pc[r] = "loadCredit"
    BY DEF InitLoadCredit
  <1>3. tries' \in [Requests -> Nat] /\ price' \in [Buys -> Nat]
    BY DEF InitLoadCredit, MarketplaceInv, TypeOK
  <1>4. CASE row = NoRow
    <2>1. Current(r) = NewForTenant /\ NewForTenant = Mutated(r, Current(r))
      BY <1>1, <1>4 DEF Current, Mutated
    <2>2. NewForTenant \in [balance : Int, version : Nat] /\ NewForTenant.version = 0
      BY DEF NewForTenant
    <2>3. QED
      BY <1>1, <1>4, <2>1, <2>2, LoadInv, Zenon DEF InitLoadCredit
  <1>5. CASE row # NoRow
    <2>1. "ok" \in {"loadCredit"} \cup Outcomes
      BY DEF Outcomes
    <2>2. QED
      BY <1>1, <1>2, <1>3, <1>5, <2>1, RollbackInv DEF InitLoadCredit
  <1>6. QED
    BY <1>4, <1>5

\* Writing the wallet: either the row is as it was loaded, and from here on the
\* lock keeps it so, or the transaction is rolled back.
LEMMA UpsertInv ==
    ASSUME MarketplaceInv, NEW r \in Requests, NEW next, UpsertWithVersion(r, next),
           next = IF r \in Buys THEN "loadLead" ELSE "commit"
    PROVE  MarketplaceInv'
  <1>1. pc[r] = "saveCredit" /\ arg[r] \in Commands /\ arg[r].tenant \in Tenants
    BY Zenon DEF UpsertWithVersion, MarketplaceInv, TypeOK, Commands
  <1>2. price' \in [Buys -> Nat] /\ UNCHANGED <<arg, loaded>>
    BY DEF UpsertWithVersion, MarketplaceInv, TypeOK
  <1>3. loaded[r].balance \in Int /\ loaded[r].version \in Nat
    BY DEF MarketplaceInv, TypeOK
  <1>4. CASE Writes(r) /\ BalanceCheck(r)
    <2>1. /\ pc' = [pc EXCEPT ![r] = next]
          /\ creditLock[arg[r].tenant] = Free
          /\ creditLock' = [creditLock EXCEPT ![arg[r].tenant] = r]
          /\ UNCHANGED <<credits, purchases, outbox, leadLock, tries, price>>
      BY <1>3, <1>4, Zenon DEF UpsertWithVersion, Step
    <2>2. TypeOK'
      BY <1>1, <1>2, <2>1 DEF MarketplaceInv, TypeOK, InTx
    <2>3. \A q \in Requests : pc'[q] = (IF q = r THEN next ELSE pc[q])
      BY <2>1 DEF MarketplaceInv, TypeOK
    <2>4. r # Free
      BY ConstantsAssumption
    <2>5. \A t \in Tenants :
            creditLock'[t] = (IF t = arg[r].tenant THEN r ELSE creditLock[t])
      BY <2>1 DEF MarketplaceInv, TypeOK
    <2>6. \A q \in Requests : pc'[q] \in HoldsCredit => creditLock'[arg'[q].tenant] = q
      <3> SUFFICES ASSUME NEW q \in Requests, q # r, pc[q] \in HoldsCredit
                   PROVE  creditLock'[arg[q].tenant] = q
        BY <1>1, <1>2, <2>3, <2>5
      <3>1. creditLock[arg[q].tenant] = q /\ q # Free /\ arg[q].tenant \in Tenants
        BY ConstantsAssumption DEF MarketplaceInv, LockInv, TypeOK, Commands, HoldsCredit
      <3>2. QED
        BY <2>1, <2>5, <3>1
    <2>7. LockInv'
      <3>1. ASSUME NEW q \in Buys
            PROVE  /\ pc'[q] \in {"lockLead", "record", "commit"} => arg'[q].lead \in Leads
                   /\ pc'[q] \in {"record", "commit"} => leadLock'[arg'[q].lead] = q
        <4>1. /\ pc[q] \in {"lockLead", "record", "commit"} => arg[q].lead \in Leads
              /\ pc[q] \in {"record", "commit"} => leadLock[arg[q].lead] = q
          BY DEF MarketplaceInv, LockInv
        <4>2. q \in Requests /\ (q = r => pc'[q] = "loadLead")
          BY <1>1, <2>3, ConstantsAssumption DEF Requests
        <4>3. QED
          BY <1>2, <2>1, <2>3, <4>1, <4>2
      <3>2. ASSUME NEW q \in Topups \cup Inits
            PROVE  pc'[q] \notin {"loadLead", "lockLead", "record"}
        <4>1. pc[q] \notin {"loadLead", "lockLead", "record"}
          BY DEF MarketplaceInv, LockInv
        <4>2. QED
          BY <1>1, <2>3, <4>1, ConstantsAssumption DEF Requests
      <3>3. QED
        BY <2>6, <3>1, <3>2 DEF LockInv
    <2>8. WalletInv'
      <3>1. \A q \in Requests : /\ Current(q)' = Current(q)
                                /\ Mutated(q, Current(q))' = Mutated(q, Current(q))
        BY <1>2, <2>1 DEF Current, Mutated, Charge, Topup, NewForTenant
      <3>2. loaded[r].version = Current(r).version
        BY <1>4 DEF Current, NewForTenant, Writes
      <3>3. QED
        BY <1>1, <1>2, <1>4, <2>1, <2>3, <3>1, <3>2, Zenon
        DEF MarketplaceInv, WalletInv, HoldsCredit, BalanceCheck
    <2>9. PlaceInv' /\ SaleLimitRespected' /\ NoDoubleBuy'
      BY <1>2, <2>1, <2>3, PlacesKept DEF Requests
    <2>10. QED
      BY <2>2, <2>7, <2>8, <2>9 DEF MarketplaceInv
  <1>5. CASE ~(Writes(r) /\ BalanceCheck(r))
    <2>1. PICK out \in {"loadCredit"} \cup Outcomes : Rollback(r, out)
      BY <1>5 DEF UpsertWithVersion, RetryOrGiveUp, Outcomes
    <2>2. tries' \in [Requests -> Nat]
      <3>1. tries \in [Requests -> Nat]
        BY DEF MarketplaceInv, TypeOK
      <3>2. tries' = tries \/ tries' = [tries EXCEPT ![r] = @ + 1]
        BY <1>3, <1>5 DEF UpsertWithVersion, RetryOrGiveUp
      <3>3. QED
        BY <3>1, <3>2
    <2>3. QED
      BY <1>1, <1>2, <2>1, <2>2, RollbackInv
  <1>6. QED
    BY <1>4, <1>5

-----------------------------------------------------------------------------
(* The lead: found, locked, its buyers checked.                             *)

\* A purchase goes past the first lead query only with an existing lead.
LEMMA PurchaseLoadLeadInv ==
    ASSUME MarketplaceInv, NEW r \in Buys, PurchaseLoadLead(r)
    PROVE  MarketplaceInv'
  <1>1. r \in Requests /\ pc[r] = "loadLead" /\ UNCHANGED <<arg, tries, loaded, price>>
    BY DEF Requests, PurchaseLoadLead
  <1>2. tries' \in [Requests -> Nat] /\ price' \in [Buys -> Nat]
    BY <1>1 DEF MarketplaceInv, TypeOK
  <1>3. CASE arg[r].lead \in Leads
    <2>1. /\ pc' = [pc EXCEPT ![r] = "lockLead"]
          /\ UNCHANGED <<credits, purchases, outbox, creditLock, leadLock>>
      BY <1>3 DEF PurchaseLoadLead, Step
    <2>2. TypeOK'
      BY <1>1, <2>1, Zenon DEF MarketplaceInv, TypeOK, InTx
    <2>3. \A q \in Requests : pc'[q] = (IF q = r THEN "lockLead" ELSE pc[q])
      BY <2>1 DEF MarketplaceInv, TypeOK
    <2>4. LockInv'
      BY <1>1, <1>3, <2>1, <2>3, ConstantsAssumption
      DEF MarketplaceInv, LockInv, HoldsCredit, Requests
    <2>5. WalletInv'
      BY <1>1, <2>1, <2>3, WalletKept DEF HoldsCredit
    <2>6. PlaceInv' /\ SaleLimitRespected' /\ NoDoubleBuy'
      BY <1>1, <2>1, <2>3, PlacesKept DEF Requests
    <2>7. QED
      BY <2>2, <2>4, <2>5, <2>6 DEF MarketplaceInv
  <1>4. CASE arg[r].lead \notin Leads
    <2>1. "notFound" \in {"loadCredit"} \cup Outcomes
      BY DEF Outcomes
    <2>2. QED
      BY <1>1, <1>2, <1>4, <2>1, RollbackInv DEF PurchaseLoadLead
  <1>5. QED
    BY <1>3, <1>4

\* SELECT ... FOR UPDATE gives the lead's row to one purchase at a time.
LEMMA PurchaseLockLeadInv ==
    ASSUME MarketplaceInv, NEW r \in Buys, PurchaseLockLead(r)
    PROVE  MarketplaceInv'
  <1>1. /\ r \in Requests /\ pc[r] = "lockLead" /\ pc' = [pc EXCEPT ![r] = "record"]
        /\ leadLock[arg[r].lead] = Free
        /\ leadLock' = [leadLock EXCEPT ![arg[r].lead] = r]
        /\ UNCHANGED <<credits, purchases, outbox, creditLock, arg, tries, loaded, price>>
    BY DEF Requests, PurchaseLockLead, Step
  <1>2. arg[r].lead \in Leads
    BY <1>1 DEF MarketplaceInv, LockInv
  <1>3. TypeOK'
    BY <1>1, <1>2, Zenon DEF MarketplaceInv, TypeOK, InTx
  <1>4. \A q \in Requests : pc'[q] = (IF q = r THEN "record" ELSE pc[q])
    BY <1>1 DEF MarketplaceInv, TypeOK
  <1>5. \A l \in Leads : leadLock'[l] = (IF l = arg[r].lead THEN r ELSE leadLock[l])
    BY <1>1 DEF MarketplaceInv, TypeOK
  <1>6. \A q \in Buys : pc'[q] \in {"record", "commit"} => leadLock'[arg'[q].lead] = q
    <2> SUFFICES ASSUME NEW q \in Buys, q # r, pc[q] \in {"record", "commit"}
                 PROVE  leadLock'[arg[q].lead] = q
      BY <1>1, <1>2, <1>4, <1>5 DEF Requests
    <2>1. leadLock[arg[q].lead] = q /\ arg[q].lead \in Leads /\ q # Free
      BY ConstantsAssumption, Zenon DEF MarketplaceInv, LockInv, Requests
    <2>2. QED
      BY <1>1, <1>5, <2>1
  <1>7. LockInv'
    BY <1>1, <1>2, <1>4, <1>6, ConstantsAssumption, Zenon
    DEF MarketplaceInv, LockInv, HoldsCredit, Requests
  <1>8. WalletInv'
    BY <1>1, <1>4, WalletKept, Zenon DEF HoldsCredit
  <1>9. PlaceInv' /\ SaleLimitRespected' /\ NoDoubleBuy'
    BY <1>1, <1>4, PlacesKept DEF Requests
  <1>10. QED
    BY <1>3, <1>7, <1>8, <1>9 DEF MarketplaceInv

\* RecordPurchase lets a purchase through only with a free place, which the
\* lead's lock then reserves.
LEMMA PurchaseRecordInv ==
    ASSUME MarketplaceInv, NEW r \in Buys, PurchaseRecord(r)
    PROVE  MarketplaceInv'
  <1> DEFINE lead   == arg[r].lead
             paisa  == ComputePurchasePricePaisa(TierBasePaisa[lead], PurchaseCount(lead), 0)
             bought == HasBuyer(lead, arg[r].tenant)
             full   == ~IsAvailable(lead)
  <1>1. r \in Requests /\ pc[r] = "record" /\ UNCHANGED <<arg, tries, loaded>>
    BY Zenon DEF Requests, PurchaseRecord
  <1>2. lead \in Leads
    BY <1>1 DEF MarketplaceInv, LockInv
  <1>3. paisa \in Nat /\ PurchaseCount(lead) \in Nat /\ EffectiveSaleLimit(lead) \in Nat
    BY <1>2, BuyersFinite, LimitType, PriceType, ConstantsAssumption, Zenon DEF MarketplaceInv
  <1>4. tries' \in [Requests -> Nat] /\ price' \in [Buys -> Nat]
    <2>1. price' = [price EXCEPT ![r] = paisa]
      BY Zenon DEF PurchaseRecord
    <2> HIDE DEF paisa
    <2>2. QED
      BY <1>1, <1>3, <2>1, Zenon DEF MarketplaceInv, TypeOK
  <1>5. CASE paisa > 0 /\ ~bought /\ ~full
    <2>1. /\ pc' = [pc EXCEPT ![r] = "commit"]
          /\ UNCHANGED <<credits, purchases, outbox, creditLock, leadLock>>
      <3>1. \/ Step(r, "record", "commit") /\ UNCHANGED <<credits, purchases, outbox, creditLock, leadLock>>
            \/ paisa <= 0 \/ bought \/ full
        BY Zenon DEF PurchaseRecord
      <3> HIDE DEF paisa, bought, full
      <3>2. QED
        BY <1>3, <1>5, <3>1 DEF Step
    <2>2. TypeOK'
      BY <1>1, <1>4, <2>1, Zenon DEF MarketplaceInv, TypeOK, InTx
    <2>3. \A q \in Requests : pc'[q] = (IF q = r THEN "commit" ELSE pc[q])
      BY <2>1 DEF MarketplaceInv, TypeOK
    <2>4. LockInv'
      BY <1>1, <2>1, <2>3, ConstantsAssumption, Zenon
      DEF MarketplaceInv, LockInv, HoldsCredit, Requests
    <2>5. WalletInv'
      BY <1>1, <2>1, <2>3, WalletKept, Zenon DEF HoldsCredit
    <2>6. \A l : Buyers(l)' = Buyers(l) /\ PurchaseCount(l)' = PurchaseCount(l)
      BY <2>1, Zenon DEF Buyers, PurchaseCount
    <2>7. PurchaseCount(lead) < EffectiveSaleLimit(lead) /\ arg[r].tenant \notin Buyers(lead)
      BY <1>5 DEF IsAvailable, HasBuyer
    <2>8. PlaceInv'
      BY <1>1, <1>5, <2>3, <2>6, <2>7, Zenon
      DEF MarketplaceInv, PlaceInv, Requests, EffectiveSaleLimit
    <2>9. SaleLimitRespected' /\ NoDoubleBuy'
      BY <2>1, <2>6, Zenon DEF MarketplaceInv, SaleLimitRespected, NoDoubleBuy, EffectiveSaleLimit
    <2>10. QED
      BY <2>2, <2>4, <2>5, <2>8, <2>9 DEF MarketplaceInv
  <1>6. CASE ~(paisa > 0 /\ ~bought /\ ~full)
    <2>1. PICK out \in Outcomes : Rollback(r, out)
      <3>1. \/ paisa > 0 /\ ~bought /\ ~full
            \/ Rollback(r, "invalid") \/ Rollback(r, "alreadyPurchased") \/ Rollback(r, "soldOut")
        BY Zenon DEF PurchaseRecord
      <3>2. QED
        BY <1>6, <3>1, Zenon DEF Outcomes
    <2>2. QED
      BY <1>1, <1>4, <2>1, RollbackInv, Zenon
  <1>7. QED
    BY <1>5, <1>6

-----------------------------------------------------------------------------
(* Commits.                                                                 *)

\* The wallet a handler works on, as it is in the database, is well typed.
LEMMA CurrentWallet ==
    ASSUME MarketplaceInv, NEW r \in Requests, arg[r] \in Commands
    PROVE  /\ Current(r) \in [balance : Nat, version : Nat]
           /\ Current(r).balance <= MaxInt64
           /\ Current(r).balance = Balance(credits[arg[r].tenant])
  <1>1. PICK t \in Tenants : t = arg[r].tenant
    BY DEF Commands
  <1>2. credits[t] \in [balance : Nat, version : Nat] \cup {NoRow}
    BY DEF MarketplaceInv, TypeOK
  <1>3. credits[t] # NoRow => credits[t].balance <= MaxInt64
    BY Zenon DEF MarketplaceInv, WalletInv
  <1>4. MaxInt64 \in Nat
    BY ConstantsAssumption
  <1>5. CASE credits[t] = NoRow
    <2>1. Current(r) = NewForTenant /\ Balance(credits[arg[r].tenant]) = 0
      BY <1>1, <1>5 DEF Current, Balance
    <2>2. QED
      BY <1>4, <2>1 DEF NewForTenant
  <1>6. CASE credits[t] # NoRow
    <2>1. Current(r) = credits[t] /\ Balance(credits[arg[r].tenant]) = credits[t].balance
      BY <1>1, <1>6 DEF Current, Balance
    <2>2. QED
      BY <1>2, <1>3, <1>6, <2>1
  <1>7. QED
    BY <1>5, <1>6

\* What the invariant says of a handler that is about to write its wallet or has
\* written it.
LEMMA LoadedWallet ==
    ASSUME MarketplaceInv, NEW q \in Requests, pc[q] \in {"saveCredit"} \cup HoldsCredit
    PROVE  /\ q \in Buys => loaded[q].version >= 1 /\ loaded[q].balance >= 0
           /\ q \in Inits => loaded[q].version = 0
           /\ loaded[q].version <= Current(q).version
           /\ loaded[q].version = Current(q).version => loaded[q] = Mutated(q, Current(q))
           /\ pc[q] \in HoldsCredit =>
                loaded[q].version = Current(q).version /\ loaded[q].balance >= 0
  <1>1. WalletInv
    BY DEF MarketplaceInv
  <1>2. QED
    BY <1>1 DEF WalletInv

\* What a commit writes to the wallet is the command applied to the row it
\* overwrites, one version on; nobody else holds that row.
LEMMA CommitWallet ==
    ASSUME MarketplaceInv, NEW r \in Requests, CommitTx(r)
    PROVE  /\ arg[r] \in Commands
           /\ loaded[r] = Mutated(r, Current(r)) /\ loaded[r].balance \in Nat
           /\ SavedCredit(r) \in [balance : Nat, version : Nat]
           /\ SavedCredit(r).balance = loaded[r].balance
           /\ SavedCredit(r).version = Current(r).version + 1
           /\ loaded[r].balance <= MaxInt64
           /\ Current(r) \in [balance : Nat, version : Nat]
           /\ r \in Topups => loaded[r].balance = Current(r).balance + arg[r].delta
  <1>1. pc[r] = "commit" /\ arg[r] \in Commands
    BY DEF CommitTx, Step, MarketplaceInv, TypeOK
  <1>2. loaded[r] \in [balance : Int, version : Nat]
    BY Zenon DEF MarketplaceInv, TypeOK
  <1>3. Current(r) \in [balance : Nat, version : Nat] /\ Current(r).balance <= MaxInt64
    BY <1>1, CurrentWallet
  <1>4. /\ loaded[r] = Mutated(r, Current(r)) /\ loaded[r].balance >= 0
        /\ loaded[r].version = Current(r).version
    BY <1>1, LoadedWallet DEF HoldsCredit
  <1>5. SavedCredit(r) = [balance |-> loaded[r].balance, version |-> loaded[r].version + 1]
    BY <1>2 DEF SavedCredit
  <1>6. /\ loaded[r].balance <= MaxInt64
        /\ r \in Topups => loaded[r].balance = Current(r).balance + arg[r].delta
    <2>1. CASE r \in Buys
      <3>1. loaded[r].balance = Current(r).balance - 1 /\ r \notin Topups
        BY <1>3, <1>4, <2>1, ConstantsAssumption DEF Mutated, Charge
      <3>2. QED
        BY <1>2, <1>3, <3>1, ConstantsAssumption
    <2>2. CASE r \in Topups
      <3>1. arg[r].delta \in 1..MaxInt64
        BY <1>1, <2>2, ConstantsAssumption, Zenon DEF MarketplaceInv, WalletInv
      <3>2. loaded[r].balance = Add64(Current(r).balance, arg[r].delta)
        BY <1>3, <1>4, <2>2, ConstantsAssumption DEF Mutated, Topup
      <3>3. Current(r).balance \in 0..MaxInt64
        BY <1>3, ConstantsAssumption
      <3>4. QED
        BY <1>4, <3>1, <3>2, <3>3, Add64Exact
    <2>3. CASE r \notin Buys \cup Topups
      BY <1>3, <1>4, <2>3 DEF Mutated
    <2>4. QED
      BY <2>1, <2>2, <2>3
  <1>7. /\ loaded[r].balance \in Nat
        /\ SavedCredit(r) \in [balance : Nat, version : Nat]
        /\ SavedCredit(r).balance = loaded[r].balance
        /\ SavedCredit(r).version = loaded[r].version + 1
    <2>1. loaded[r].balance \in Nat /\ loaded[r].version \in Nat
      BY <1>2, <1>4
    <2>2. QED
      BY <1>5, <2>1
  <1>8. QED
    BY <1>1, <1>3, <1>4, <1>6, <1>7

\* The wallet part of the invariant survives the commit: the other handlers that
\* loaded this wallet are now stale.
LEMMA CommitKeeps ==
    ASSUME MarketplaceInv, NEW r \in Requests, CommitTx(r)
    PROVE  LockInv' /\ WalletInv'
  <1>1. /\ pc[r] = "commit" /\ pc' = [pc EXCEPT ![r] = "ok"]
        /\ UNCHANGED <<arg, tries, loaded, price>>
    BY DEF CommitTx, Step
  <1>2. LockInv'
    <2>1. "ok" \in {"loadCredit"} \cup Outcomes
      BY DEF Outcomes
    <2>2. QED
      BY <1>1, <2>1, LockInvUnlocked, Zenon DEF CommitTx
  <1>3. \A q \in Requests : pc'[q] = (IF q = r THEN "ok" ELSE pc[q])
    BY <1>1, Zenon DEF MarketplaceInv, TypeOK
  <1>4. \A t \in Tenants :
          credits'[t] = (IF t = arg[r].tenant THEN SavedCredit(r) ELSE credits[t])
    BY Zenon DEF CommitTx, MarketplaceInv, TypeOK
  <1>5. \A t \in Tenants : credits'[t] # NoRow =>
          credits'[t].version >= 1 /\ credits'[t].balance <= MaxInt64
    <2>1. \A t \in Tenants : credits[t] # NoRow =>
            credits[t].version >= 1 /\ credits[t].balance <= MaxInt64
      BY Zenon DEF MarketplaceInv, WalletInv
    <2>2. Current(r).version \in Nat /\ SavedCredit(r).version = Current(r).version + 1
      BY CommitWallet
    <2>3. SavedCredit(r).version >= 1 /\ SavedCredit(r).balance <= MaxInt64
      BY <2>2, CommitWallet
    <2>4. QED
      BY <1>4, <2>1, <2>3, Zenon
  <1>6. \A q \in Topups : arg'[q] # NoCommand => arg'[q].delta \in Deltas
    BY <1>1, Zenon DEF MarketplaceInv, WalletInv
  <1>7. ASSUME NEW q \in Requests, pc'[q] \in {"saveCredit"} \cup HoldsCredit
        PROVE  /\ q \in Buys => loaded'[q].version >= 1 /\ loaded'[q].balance >= 0
               /\ q \in Inits => loaded'[q].version = 0
               /\ loaded'[q].version <= Current(q)'.version
               /\ loaded'[q].version = Current(q)'.version =>
                    loaded'[q] = Mutated(q, Current(q))'
               /\ pc'[q] \in HoldsCredit =>
                    loaded'[q].version = Current(q)'.version /\ loaded'[q].balance >= 0
    <2>1. q # r /\ pc'[q] = pc[q]
      BY <1>3, <1>7 DEF HoldsCredit
    <2>2. arg[q] \in Commands /\ arg[q].tenant \in Tenants /\ loaded[q].version \in Nat
      BY <1>7, <2>1, Zenon DEF MarketplaceInv, TypeOK, Commands, HoldsCredit
    <2>3. CASE arg[q].tenant = arg[r].tenant
      <3>1. pc[q] = "saveCredit"
        <4>1. creditLock[arg[r].tenant] = r
          BY <1>1, Zenon DEF MarketplaceInv, LockInv, HoldsCredit
        <4>2. pc[q] \in HoldsCredit => creditLock[arg[q].tenant] = q
          BY Zenon DEF MarketplaceInv, LockInv
        <4>3. QED
          BY <1>7, <2>1, <2>3, <4>1, <4>2
      <3>2. Current(q) = Current(r)
        BY <2>3, Zenon DEF Current
      <3>3. SavedCredit(r) # NoRow
        <4>1. SavedCredit(r) \in [balance : Nat, version : Nat]
          BY <1>1, CommitWallet, Zenon
        <4>2. SavedCredit(r) \in [balance : Int, version : Nat]
          BY <4>1
        <4>3. QED
          BY <4>2, ConstantsAssumption, Zenon
      <3>4. Current(q)' = SavedCredit(r)
        BY <1>1, <1>4, <2>2, <2>3, <3>3, Zenon DEF Current
      <3>5. loaded[q].version <= Current(q).version /\ Current(q).version \in Nat
        <4>1. loaded[q].version <= Current(q).version
          BY <3>1, LoadedWallet
        <4>2. Current(r) \in [balance : Nat, version : Nat]
          BY CommitWallet
        <4>3. QED
          BY <3>2, <4>1, <4>2
      <3>6. SavedCredit(r).version = Current(q).version + 1
        BY <3>2, CommitWallet
      <3>7. loaded[q].version < Current(q)'.version
        BY <2>2, <3>4, <3>5, <3>6
      <3>8. Current(q)'.version \in Nat
        BY <3>4, <3>5, <3>6
      <3>9. /\ q \in Buys => loaded[q].version >= 1 /\ loaded[q].balance >= 0
            /\ q \in Inits => loaded[q].version = 0
        BY <3>1, LoadedWallet
      <3>10. loaded[q].version <= Current(q)'.version /\ loaded[q].version # Current(q)'.version
        BY <2>2, <3>7, <3>8
      <3>11. pc[q] \notin HoldsCredit /\ loaded' = loaded
        BY <1>1, <3>1 DEF HoldsCredit
      <3>12. QED
        BY <2>1, <3>9, <3>10, <3>11, Zenon
    <2>4. CASE arg[q].tenant # arg[r].tenant
      <3>1. Current(q)' = Current(q) /\ Mutated(q, Current(q))' = Mutated(q, Current(q))
        BY <1>1, <1>4, <2>2, <2>4, Zenon DEF Current, Mutated, Charge, Topup, NewForTenant
      <3>2. pc[q] \in {"saveCredit"} \cup HoldsCredit
        BY <1>7, <2>1
      <3>3. QED
        BY <1>1, <2>1, <3>1, <3>2, LoadedWallet, Zenon
    <2>5. QED
      BY <2>3, <2>4, Zenon
  <1>8. WalletInv'
    BY <1>5, <1>6, <1>7, Zenon DEF WalletInv
  <1>9. QED
    BY <1>2, <1>8

\* The adjustment a commit announces has its type.
LEMMA AdjustedType ==
    ASSUME MarketplaceInv, NEW r \in Buys \cup Topups, CommitTx(r), NEW d \in Int
    PROVE  AdjustedEvent(r, d) \in
             [type : {"LeadCreditAdjusted"}, id : Buys \cup Topups, tenant : Tenants,
              delta : Int, newBalance : Nat]
  <1>1. r \in Requests
    BY DEF Requests
  <1>2. arg[r] \in Commands /\ loaded[r].balance \in Nat
    BY <1>1, CommitWallet
  <1>3. QED
    BY <1>2, Zenon DEF AdjustedEvent, Commands

\* A commit keeps the types of everything but purchases and outbox.
LEMMA CommitType ==
    ASSUME MarketplaceInv, NEW r \in Requests, CommitTx(r),
           purchases' \subseteq [id : Buys, lead : Leads, tenant : Tenants, amount : Nat],
           outbox' \subseteq
             [type : {"LeadCreditAdjusted"}, id : Buys \cup Topups, tenant : Tenants,
              delta : Int, newBalance : Nat]
             \cup [type : {"LeadPurchased"}, id : Buys, tenant : Tenants,
                   lead : Leads, amount : Nat]
    PROVE  TypeOK'
  <1>1. SavedCredit(r) \in [balance : Nat, version : Nat] /\ arg[r] \in Commands
    BY CommitWallet, Zenon
  <1>2. credits' \in [Tenants -> [balance : Nat, version : Nat] \cup {NoRow}]
    BY <1>1, Zenon DEF CommitTx, MarketplaceInv, TypeOK
  <1>3. QED
    BY <1>1, <1>2, UnlockType, Zenon DEF CommitTx, Step, MarketplaceInv, TypeOK, Outcomes

\* A committed purchase adds its tenant to the buyers of its lead, and only there.
LEMMA PurchaseAddsBuyer ==
    ASSUME MarketplaceInv, NEW r \in Buys, PurchaseCommit(r)
    PROVE  /\ arg[r].lead \in Leads /\ arg[r].tenant \in Tenants
           /\ \A l \in Leads : Buyers(l)' =
                IF l = arg[r].lead THEN Buyers(l) \cup {arg[r].tenant} ELSE Buyers(l)
  <1> DEFINE new == [id |-> r, lead |-> arg[r].lead, tenant |-> arg[r].tenant,
                     amount |-> price[r]]
  <1>1. r \in Requests /\ pc[r] = "commit" /\ purchases' = purchases \cup {new}
    BY Zenon DEF PurchaseCommit, CommitTx, Step, Requests
  <1>2. arg[r].lead \in Leads /\ arg[r].tenant \in Tenants
    BY <1>1, Zenon DEF MarketplaceInv, LockInv, TypeOK, Commands
  <1>3. new.lead = arg[r].lead /\ new.tenant = arg[r].tenant
    OBVIOUS
  <1> HIDE DEF new
  <1>4. QED
    BY <1>1, <1>2, <1>3, Zenon DEF Buyers

\* A purchase's commit uses up the place it had reserved and no other.
LEMMA PurchaseCommitInv ==
    ASSUME MarketplaceInv, NEW r \in Buys, PurchaseCommit(r)
    PROVE  MarketplaceInv'
  <1>1. r \in Requests /\ CommitTx(r) /\ pc[r] = "commit" /\ UNCHANGED arg
    BY Zenon DEF PurchaseCommit, CommitTx, Step, Requests
  <1>2. PICK lead \in Leads : lead = arg[r].lead /\ arg[r].tenant \in Tenants
    BY PurchaseAddsBuyer
  <1>3. LockInv' /\ WalletInv'
    BY <1>1, CommitKeeps
  <1>4. TypeOK'
    <2>1. price[r] \in Nat
      BY Zenon DEF MarketplaceInv, TypeOK
    <2>2. purchases' \subseteq [id : Buys, lead : Leads, tenant : Tenants, amount : Nat]
      <3>1. purchases \subseteq [id : Buys, lead : Leads, tenant : Tenants, amount : Nat]
        BY Zenon DEF MarketplaceInv, TypeOK
      <3>2. [id |-> r, lead |-> arg[r].lead, tenant |-> arg[r].tenant, amount |-> price[r]]
              \in [id : Buys, lead : Leads, tenant : Tenants, amount : Nat]
        BY <1>2, <2>1
      <3>3. QED
        BY <3>1, <3>2, Zenon DEF PurchaseCommit
    <2>3. AdjustedEvent(r, -purchaseChargeCredits) \in
            [type : {"LeadCreditAdjusted"}, id : Buys \cup Topups, tenant : Tenants,
             delta : Int, newBalance : Nat]
      BY <1>1, AdjustedType
    <2>4. outbox' \subseteq
            [type : {"LeadCreditAdjusted"}, id : Buys \cup Topups, tenant : Tenants,
             delta : Int, newBalance : Nat]
            \cup [type : {"LeadPurchased"}, id : Buys, tenant : Tenants,
                  lead : Leads, amount : Nat]
      <3>1. outbox \subseteq
              [type : {"LeadCreditAdjusted"}, id : Buys \cup Topups, tenant : Tenants,
               delta : Int, newBalance : Nat]
              \cup [type : {"LeadPurchased"}, id : Buys, tenant : Tenants,
                    lead : Leads, amount : Nat]
        BY Zenon DEF MarketplaceInv, TypeOK
      <3>2. [type |-> "LeadPurchased", id |-> r, tenant |-> arg[r].tenant,
             lead |-> arg[r].lead, amount |-> price[r]]
              \in [type : {"LeadPurchased"}, id : Buys, tenant : Tenants,
                   lead : Leads, amount : Nat]
        BY <1>2, <2>1
      <3>3. QED
        BY <2>3, <3>1, <3>2, Zenon DEF PurchaseCommit, PurchaseEvents
    <2>5. QED
      BY <1>1, <2>2, <2>4, CommitType, Zenon
  <1>5. \A q \in Requests : pc'[q] = (IF q = r THEN "ok" ELSE pc[q])
    BY <1>1, Zenon DEF CommitTx, Step, MarketplaceInv, TypeOK
  <1>6. \A l \in Leads : l # lead => Buyers(l)' = Buyers(l) /\ PurchaseCount(l)' = PurchaseCount(l)
    BY <1>2, PurchaseAddsBuyer DEF PurchaseCount
  <1>7. arg[r].tenant \notin Buyers(lead) /\ PurchaseCount(lead) < EffectiveSaleLimit(lead)
    BY <1>1, <1>2 DEF MarketplaceInv, PlaceInv
  <1>8. PurchaseCount(lead)' = PurchaseCount(lead) + 1
    <2>1. Buyers(lead)' = Buyers(lead) \cup {arg[r].tenant} /\ IsFiniteSet(Buyers(lead))
      BY <1>2, PurchaseAddsBuyer, BuyersFinite DEF MarketplaceInv
    <2>2. QED
      BY <1>7, <2>1, FS_AddElement DEF PurchaseCount
  <1>9. SaleLimitRespected'
    <2> SUFFICES ASSUME NEW l \in Leads
                 PROVE  PurchaseCount(l)' <= EffectiveSaleLimit(l)
      BY DEF SaleLimitRespected, EffectiveSaleLimit
    <2>1. CASE l = lead
      <3>1. PurchaseCount(lead) \in Nat /\ EffectiveSaleLimit(lead) \in Nat
        BY <1>2, BuyersFinite, LimitType DEF MarketplaceInv
      <3>2. QED
        BY <1>7, <1>8, <2>1, <3>1
    <2>2. CASE l # lead
      BY <1>6, <2>2 DEF MarketplaceInv, SaleLimitRespected
    <2>3. QED
      BY <2>1, <2>2
  <1>10. PlaceInv'
    <2> SUFFICES ASSUME NEW q \in Buys, pc'[q] = "commit"
                 PROVE  (/\ arg[q].tenant \notin Buyers(arg[q].lead)
                         /\ PurchaseCount(arg[q].lead) < EffectiveSaleLimit(arg[q].lead))'
      BY DEF PlaceInv
    <2>1. q # r /\ pc[q] = "commit"
      BY <1>5 DEF Requests
    <2>2. PICK l \in Leads : l = arg[q].lead /\ l # lead
      BY <1>1, <1>2, <2>1, Zenon DEF MarketplaceInv, LockInv
    <2>3. arg'[q] = arg[q]
      BY <1>1, Zenon
    <2>4. arg[q].tenant \notin Buyers(l)' /\ PurchaseCount(l)' < EffectiveSaleLimit(l)
      BY <1>6, <2>1, <2>2 DEF MarketplaceInv, PlaceInv
    <2>5. QED
      BY <2>2, <2>3, <2>4, Zenon DEF Buyers, PurchaseCount, EffectiveSaleLimit
  <1>11. NoDoubleBuy'
    <2> DEFINE new == [id |-> r, lead |-> lead, tenant |-> arg[r].tenant, amount |-> price[r]]
    <2>1. purchases' = purchases \cup {new} /\ new.lead = lead /\ new.tenant = arg[r].tenant
      BY <1>2, Zenon DEF PurchaseCommit
    <2> HIDE DEF new
    <2>2. \A p \in purchases : ~(p.lead = lead /\ p.tenant = arg[r].tenant)
      BY <1>7 DEF Buyers
    <2>3. QED
      BY <2>1, <2>2 DEF MarketplaceInv, NoDoubleBuy
  <1>12. QED
    BY <1>3, <1>4, <1>9, <1>10, <1>11 DEF MarketplaceInv

\* A top-up's commit writes the wallet it locked and announces the adjustment.
LEMMA TopupCommitInv ==
    ASSUME MarketplaceInv, NEW r \in Topups, TopupCommit(r)
    PROVE  MarketplaceInv'
  <1>1. r \in Requests /\ CommitTx(r) /\ UNCHANGED <<purchases, arg>> /\ arg[r].delta \in Int
    <2>1. r \in Requests /\ CommitTx(r) /\ UNCHANGED <<purchases, arg>>
      BY DEF TopupCommit, CommitTx, Requests
    <2>2. arg[r].delta \in Deltas \cup {0}
      BY <2>1, CommitWallet, Zenon DEF Commands
    <2>3. \A d \in Deltas \cup {0} : d \in Int
      BY ConstantsAssumption
    <2>4. QED
      BY <2>1, <2>2, <2>3
  <1>2. LockInv' /\ WalletInv'
    BY <1>1, CommitKeeps
  <1>3. TypeOK'
    <2>1. AdjustedEvent(r, arg[r].delta) \in
            [type : {"LeadCreditAdjusted"}, id : Buys \cup Topups, tenant : Tenants,
             delta : Int, newBalance : Nat]
      BY <1>1, AdjustedType
    <2>2. QED
      BY <1>1, <2>1, CommitType, Zenon DEF TopupCommit, MarketplaceInv, TypeOK
  <1>4. \A q \in Buys : pc'[q] = "commit" => pc[q] = "commit"
    BY <1>1, Zenon DEF CommitTx, Step, MarketplaceInv, TypeOK, Requests
  <1>5. PlaceInv' /\ SaleLimitRespected' /\ NoDoubleBuy'
    BY <1>1, <1>4, PlacesKept
  <1>6. QED
    BY <1>2, <1>3, <1>5 DEF MarketplaceInv

\* An initialisation's commit inserts the wallet and announces nothing.
LEMMA InitCommitInv ==
    ASSUME MarketplaceInv, NEW r \in Inits, InitCommit(r)
    PROVE  MarketplaceInv'
  <1>1. r \in Requests /\ CommitTx(r) /\ UNCHANGED <<purchases, outbox, arg>>
    BY DEF InitCommit, CommitTx, Requests
  <1>2. LockInv' /\ WalletInv'
    BY <1>1, CommitKeeps
  <1>3. TypeOK'
    BY <1>1, CommitType, Zenon DEF MarketplaceInv, TypeOK
  <1>4. \A q \in Buys : pc'[q] = "commit" => pc[q] = "commit"
    BY <1>1, Zenon DEF CommitTx, Step, MarketplaceInv, TypeOK, Requests
  <1>5. PlaceInv' /\ SaleLimitRespected' /\ NoDoubleBuy'
    BY <1>1, <1>4, PlacesKept
  <1>6. QED
    BY <1>2, <1>3, <1>5 DEF MarketplaceInv

-----------------------------------------------------------------------------
(* Every step preserves the invariant.                                      *)

\* One case per action of the handlers; a stuttering step changes nothing.
LEMMA InvNext == MarketplaceInv /\ [Next]_vars => MarketplaceInv'
  <1> SUFFICES ASSUME MarketplaceInv, [Next]_vars PROVE MarketplaceInv'
    OBVIOUS
  <1>1. ASSUME NEW r \in Buys, PurchaseStart(r) \/ PurchaseStep(r)
        PROVE  MarketplaceInv'
    <2>1. CASE PurchaseStart(r)
      BY <2>1, PurchaseStartInv
    <2>2. CASE PurchaseLoadCredit(r)
      BY <2>2, PurchaseLoadCreditInv
    <2>3. CASE PurchaseSaveCredit(r)
      BY <2>3, UpsertInv DEF PurchaseSaveCredit, Requests
    <2>4. CASE PurchaseLoadLead(r)
      BY <2>4, PurchaseLoadLeadInv
    <2>5. CASE PurchaseLockLead(r)
      BY <2>5, PurchaseLockLeadInv
    <2>6. CASE PurchaseRecord(r)
      BY <2>6, PurchaseRecordInv
    <2>7. CASE PurchaseCommit(r)
      BY <2>7, PurchaseCommitInv
    <2>8. QED
      BY <1>1, <2>1, <2>2, <2>3, <2>4, <2>5, <2>6, <2>7 DEF PurchaseStep
  <1>2. ASSUME NEW r \in Topups, TopupStart(r) \/ TopupStep(r)
        PROVE  MarketplaceInv'
    <2>1. CASE TopupStart(r)
      BY <2>1, TopupStartInv
    <2>2. CASE TopupLoadCredit(r)
      BY <2>2, TopupLoadCreditInv
    <2>3. CASE TopupSaveCredit(r)
      BY <2>3, UpsertInv, ConstantsAssumption DEF TopupSaveCredit, Requests
    <2>4. CASE TopupCommit(r)
      BY <2>4, TopupCommitInv
    <2>5. QED
      BY <1>2, <2>1, <2>2, <2>3, <2>4 DEF TopupStep
  <1>3. ASSUME NEW r \in Inits, InitDeliver(r) \/ InitStep(r)
        PROVE  MarketplaceInv'
    <2>1. CASE InitDeliver(r)
      BY <2>1, InitDeliverInv
    <2>2. CASE InitLoadCredit(r)
      BY <2>2, InitLoadCreditInv
    <2>3. CASE InitSaveCredit(r)
      BY <2>3, UpsertInv, ConstantsAssumption DEF InitSaveCredit, Requests
    <2>4. CASE InitCommit(r)
      BY <2>4, InitCommitInv
    <2>5. QED
      BY <1>3, <2>1, <2>2, <2>3, <2>4 DEF InitStep
  <1>4. ASSUME NEW r \in Requests, Abort(r) PROVE MarketplaceInv'
    BY <1>4, AbortInv
  <1>5. CASE UNCHANGED vars
    <2>1. UNCHANGED <<credits, purchases, outbox, creditLock, leadLock,
                      pc, arg, tries, loaded, price>>
      BY <1>5 DEF vars
    <2>2. TypeOK' /\ LockInv'
      BY <2>1, Zenon DEF MarketplaceInv, TypeOK, LockInv
    <2>3. WalletInv'
      BY <2>1, WalletKept, Zenon
    <2>4. PlaceInv' /\ SaleLimitRespected' /\ NoDoubleBuy'
      BY <2>1, PlacesKept, Zenon
    <2>5. QED
      BY <2>2, <2>3, <2>4 DEF MarketplaceInv
  <1>6. QED
    BY <1>1, <1>2, <1>3, <1>4, <1>5 DEF Next

-----------------------------------------------------------------------------
(* The theorems.                                                            *)

\* The locks, versions and places every transaction relies on stay valid until
\* it commits, for any number of tenants, leads and concurrent requests.
THEOREM MarketplaceInvariant == Spec => []MarketplaceInv
  <1>1. QED
    BY InvInit, InvNext, PTL DEF Spec

\* The marketplace's rows, locks and handlers keep their types.
THEOREM MarketplaceTypes == Spec => []TypeOK
  <1>1. MarketplaceInv => TypeOK
    BY DEF MarketplaceInv
  <1>2. QED
    BY <1>1, MarketplaceInvariant, PTL

\* RecordPurchase under the row lock never oversells a lead.
THEOREM NeverOversold == Spec => []SaleLimitRespected
  <1>1. MarketplaceInv => SaleLimitRespected
    BY DEF MarketplaceInv
  <1>2. QED
    BY <1>1, MarketplaceInvariant, PTL

\* No tenant is sold the same lead twice.
THEOREM NeverSoldTwice == Spec => []NoDoubleBuy
  <1>1. MarketplaceInv => NoDoubleBuy
    BY DEF MarketplaceInv
  <1>2. QED
    BY <1>1, MarketplaceInvariant, PTL

-----------------------------------------------------------------------------
(* A purchase is whole.                                                     *)

\* A purchase about to commit was priced from the buyers the lead has now: it has held
\* the lead's row since it counted them.
PriceInv ==
    \A r \in Buys : pc[r] = "commit" =>
        price[r] = ComputePurchasePricePaisa(TierBasePaisa[arg[r].lead], PurchaseCount(arg[r].lead), 0)

\* Before any request there are no rows and no events.
LEMMA AtomicInit == Init => PurchaseIsAtomic /\ PriceInv
  <1> SUFFICES ASSUME Init PROVE PurchaseIsAtomic /\ PriceInv
    OBVIOUS
  <1>1. purchases = {} /\ outbox = {} /\ \A r \in Buys : pc[r] = "idle"
    BY DEF Init, Requests
  <1>2. ASSUME NEW l \in Leads
        PROVE  {p.amount : p \in {q \in purchases : q.lead = l}}
                 = {ComputePurchasePricePaisa(TierBasePaisa[l], n, 0) : n \in 0 .. PurchaseCount(l) - 1}
    <2>1. Buyers(l) = {}
      BY <1>1 DEF Buyers
    <2>2. PurchaseCount(l) = 0
      BY <2>1, FS_EmptySet DEF PurchaseCount
    <2>3. 0 .. PurchaseCount(l) - 1 = {}
      BY <2>2
    <2>4. QED
      BY <1>1, <2>3
  <1>3. QED
    BY <1>1, <1>2 DEF PurchaseIsAtomic, PriceInv

\* The same rows, events and successes: the purchases are as whole as they were.
LEMMA AtomicKept ==
    ASSUME PurchaseIsAtomic, UNCHANGED <<purchases, outbox>>,
           \A q \in Buys : pc'[q] = "ok" <=> pc[q] = "ok"
    PROVE  PurchaseIsAtomic' /\ \A l : PurchaseCount(l)' = PurchaseCount(l)
  <1>1. \A l : PurchaseCount(l)' = PurchaseCount(l)
    BY Zenon DEF PurchaseCount, Buyers
  <1>2. ASSUME NEW q \in Buys
        PROVE  /\ (\E p \in purchases' : p.id = q) <=> pc'[q] = "ok"
               /\ (\E p \in purchases' : p.id = q) <=> \E e \in outbox' : e.type = "LeadPurchased" /\ e.id = q
               /\ (\E p \in purchases' : p.id = q) <=> \E e \in outbox' : e.type = "LeadCreditAdjusted" /\ e.id = q
    BY Zenon DEF PurchaseIsAtomic
  <1>3. ASSUME NEW l \in Leads
        PROVE  {p.amount : p \in {q \in purchases' : q.lead = l}}
                 = {ComputePurchasePricePaisa(TierBasePaisa[l], n, 0) : n \in 0 .. PurchaseCount(l)' - 1}
    <2>1. {p.amount : p \in {q \in purchases : q.lead = l}}
            = {ComputePurchasePricePaisa(TierBasePaisa[l], n, 0) : n \in 0 .. PurchaseCount(l) - 1}
      BY Zenon DEF PurchaseIsAtomic
    <2>2. QED
      BY <1>1, <2>1, Zenon
  <1>4. QED
    BY <1>1, <1>2, <1>3, Zenon DEF PurchaseIsAtomic

\* A step that writes no purchase and no event, and brings no purchase to its commit
\* or its success, keeps all of them whole.
LEMMA BuysKept ==
    ASSUME MarketplaceInv, PurchaseIsAtomic, PriceInv, UNCHANGED <<purchases, outbox>>,
           NEW r \in Requests, NEW next, pc' = [pc EXCEPT ![r] = next],
           r \in Buys => pc[r] # "ok" /\ next \notin {"ok", "commit"},
           \A q \in Buys : q # r => arg'[q] = arg[q] /\ price'[q] = price[q]
    PROVE  PurchaseIsAtomic' /\ PriceInv'
  <1>1. \A q \in Buys : /\ pc'[q] = "ok" <=> pc[q] = "ok"
                        /\ pc'[q] = "commit" => pc[q] = "commit" /\ arg'[q] = arg[q] /\ price'[q] = price[q]
    BY Zenon DEF MarketplaceInv, TypeOK, Requests
  <1>2. PurchaseIsAtomic' /\ \A l : PurchaseCount(l)' = PurchaseCount(l)
    BY <1>1, AtomicKept, Zenon
  <1>3. PriceInv'
    BY <1>1, <1>2, Zenon DEF PriceInv
  <1>4. QED
    BY <1>2, <1>3, Zenon

\* RecordPurchase prices the purchase.
LEMMA RecordAtomic ==
    ASSUME MarketplaceInv, PurchaseIsAtomic, PriceInv, NEW r \in Buys, PurchaseRecord(r)
    PROVE  PurchaseIsAtomic' /\ PriceInv'
  <1> DEFINE paisa == ComputePurchasePricePaisa(TierBasePaisa[arg[r].lead], PurchaseCount(arg[r].lead), 0)
  <1>1. /\ pc[r] = "record" /\ r \in Requests /\ UNCHANGED <<purchases, outbox, arg>>
        /\ price' = [price EXCEPT ![r] = paisa]
        /\ \E next \in {"commit", "invalid", "alreadyPurchased", "soldOut"} : pc' = [pc EXCEPT ![r] = next]
    BY Zenon DEF PurchaseRecord, Step, Rollback, Requests
  <1> HIDE DEF paisa
  <1>2. price'[r] = paisa /\ \A q \in Buys : q # r => price'[q] = price[q]
    BY <1>1, Zenon DEF MarketplaceInv, TypeOK
  <1>3. PICK next \in {"commit", "invalid", "alreadyPurchased", "soldOut"} : pc' = [pc EXCEPT ![r] = next]
    BY <1>1, Zenon
  <1>4. CASE next # "commit"
    BY <1>1, <1>2, <1>3, <1>4, BuysKept, Zenon
  <1>5. CASE next = "commit"
    <2>1. \A q \in Buys : pc'[q] = IF q = r THEN "commit" ELSE pc[q]
      BY <1>3, <1>5, Zenon DEF MarketplaceInv, TypeOK, Requests
    <2>2. PurchaseIsAtomic' /\ \A l : PurchaseCount(l)' = PurchaseCount(l)
      BY <1>1, <2>1, AtomicKept, Zenon
    <2>3. PriceInv'
      BY <1>1, <1>2, <2>1, <2>2, Zenon DEF PriceInv, paisa
    <2>4. QED
      BY <2>2, <2>3, Zenon
  <1>6. QED
    BY <1>4, <1>5

\* The commit of a purchase adds its row, both events and the next price.
LEMMA PurchaseCommitAtomic ==
    ASSUME MarketplaceInv, PurchaseIsAtomic, PriceInv, NEW r \in Buys, PurchaseCommit(r)
    PROVE  PurchaseIsAtomic' /\ PriceInv'
  <1> DEFINE row == [id |-> r, lead |-> arg[r].lead, tenant |-> arg[r].tenant, amount |-> price[r]]
             bought == [type |-> "LeadPurchased", id |-> r, tenant |-> arg[r].tenant,
                        lead |-> arg[r].lead, amount |-> price[r]]
             adjusted == AdjustedEvent(r, -purchaseChargeCredits)
  <1>1. /\ r \in Requests /\ CommitTx(r) /\ pc[r] = "commit" /\ pc' = [pc EXCEPT ![r] = "ok"]
        /\ UNCHANGED <<arg, price>>
        /\ purchases' = purchases \cup {row} /\ outbox' = outbox \cup {adjusted, bought}
    BY Zenon DEF PurchaseCommit, CommitTx, Step, Requests, PurchaseEvents
  <1>2. /\ row.id = r /\ row.lead = arg[r].lead /\ row.amount = price[r]
        /\ bought.type = "LeadPurchased" /\ bought.id = r
        /\ adjusted.type = "LeadCreditAdjusted" /\ adjusted.id = r
    BY Zenon DEF AdjustedEvent
  <1>3. PICK lead \in Leads : lead = arg[r].lead /\ arg[r].tenant \in Tenants
    BY PurchaseAddsBuyer
  <1> HIDE DEF row, bought, adjusted
  <1>4. \A q \in Buys : pc'[q] = IF q = r THEN "ok" ELSE pc[q]
    BY <1>1, Zenon DEF MarketplaceInv, TypeOK, Requests
  <1>5. \A l \in Leads : l # lead => PurchaseCount(l)' = PurchaseCount(l)
    BY <1>3, PurchaseAddsBuyer DEF PurchaseCount
  <1>6. PurchaseCount(lead)' = PurchaseCount(lead) + 1 /\ PurchaseCount(lead) \in Nat
    <2>1. /\ Buyers(lead)' = Buyers(lead) \cup {arg[r].tenant} /\ IsFiniteSet(Buyers(lead))
          /\ PurchaseCount(lead) \in Nat
      BY <1>3, PurchaseAddsBuyer, BuyersFinite DEF MarketplaceInv
    <2>2. arg[r].tenant \notin Buyers(lead)
      BY <1>1, <1>3 DEF MarketplaceInv, PlaceInv
    <2>3. QED
      BY <2>1, <2>2, FS_AddElement, Zenon DEF PurchaseCount
  <1>7. price[r] = ComputePurchasePricePaisa(TierBasePaisa[lead], PurchaseCount(lead), 0)
    BY <1>1, <1>3, Zenon DEF PriceInv
  <1>8. ASSUME NEW q \in Buys
        PROVE  /\ (\E p \in purchases' : p.id = q) <=> pc'[q] = "ok"
               /\ (\E p \in purchases' : p.id = q) <=> \E e \in outbox' : e.type = "LeadPurchased" /\ e.id = q
               /\ (\E p \in purchases' : p.id = q) <=> \E e \in outbox' : e.type = "LeadCreditAdjusted" /\ e.id = q
    <2>1. CASE q = r
      BY <1>1, <1>2, <1>4, <2>1, Zenon
    <2>2. CASE q # r
      <3>1. /\ (\E p \in purchases' : p.id = q) <=> (\E p \in purchases : p.id = q)
            /\ (\E e \in outbox' : e.type = "LeadPurchased" /\ e.id = q)
                 <=> (\E e \in outbox : e.type = "LeadPurchased" /\ e.id = q)
            /\ (\E e \in outbox' : e.type = "LeadCreditAdjusted" /\ e.id = q)
                 <=> (\E e \in outbox : e.type = "LeadCreditAdjusted" /\ e.id = q)
        BY <1>1, <1>2, <2>2, Zenon
      <3>2. QED
        <4>1. /\ (\E p \in purchases : p.id = q) <=> pc[q] = "ok"
              /\ (\E p \in purchases : p.id = q) <=> \E e \in outbox : e.type = "LeadPurchased" /\ e.id = q
              /\ (\E p \in purchases : p.id = q) <=> \E e \in outbox : e.type = "LeadCreditAdjusted" /\ e.id = q
          BY Zenon DEF PurchaseIsAtomic
        <4>2. pc'[q] = pc[q]
          BY <1>4, <2>2, Zenon
        <4>3. QED
          BY <3>1, <4>1, <4>2, Zenon
    <2>3. QED
      BY <2>1, <2>2, Zenon
  <1>9. ASSUME NEW l \in Leads
        PROVE  {p.amount : p \in {q \in purchases' : q.lead = l}}
                 = {ComputePurchasePricePaisa(TierBasePaisa[l], n, 0) : n \in 0 .. PurchaseCount(l)' - 1}
    <2>1. {p.amount : p \in {q \in purchases : q.lead = l}}
            = {ComputePurchasePricePaisa(TierBasePaisa[l], n, 0) : n \in 0 .. PurchaseCount(l) - 1}
      BY Zenon DEF PurchaseIsAtomic
    <2>2. CASE l = lead
      <3>1. {q \in purchases' : q.lead = l} = {q \in purchases : q.lead = l} \cup {row}
        BY <1>1, <1>2, <1>3, <2>2, Zenon
      <3>2. {p.amount : p \in {q \in purchases' : q.lead = l}}
              = {p.amount : p \in {q \in purchases : q.lead = l}} \cup {price[r]}
        BY <1>2, <3>1
      <3>3. 0 .. PurchaseCount(l)' - 1 = (0 .. PurchaseCount(l) - 1) \cup {PurchaseCount(l)}
        BY <1>6, <2>2
      <3>4. {ComputePurchasePricePaisa(TierBasePaisa[l], n, 0) : n \in 0 .. PurchaseCount(l)' - 1}
              = {ComputePurchasePricePaisa(TierBasePaisa[l], n, 0) : n \in 0 .. PurchaseCount(l) - 1}
                \cup {ComputePurchasePricePaisa(TierBasePaisa[l], PurchaseCount(l), 0)}
        BY <3>3
      <3>5. QED
        BY <1>7, <2>1, <2>2, <3>2, <3>4
    <2>3. CASE l # lead
      <3>1. {q \in purchases' : q.lead = l} = {q \in purchases : q.lead = l}
        BY <1>1, <1>2, <1>3, <2>3
      <3>2. QED
        BY <1>5, <2>1, <2>3, <3>1
    <2>4. QED
      BY <2>2, <2>3, Zenon
  <1>10. PurchaseIsAtomic'
    BY <1>8, <1>9, Zenon DEF PurchaseIsAtomic
  <1>11. PriceInv'
    <2> SUFFICES ASSUME NEW q \in Buys, pc'[q] = "commit"
                 PROVE  (price[q] = ComputePurchasePricePaisa(TierBasePaisa[arg[q].lead],
                                                               PurchaseCount(arg[q].lead), 0))'
      BY Zenon DEF PriceInv
    <2>1. q # r /\ pc[q] = "commit"
      BY <1>4
    <2>2. PICK l \in Leads : l = arg[q].lead /\ l # lead
      BY <1>1, <1>3, <2>1, Zenon DEF MarketplaceInv, LockInv
    <2>3. PurchaseCount(arg[q].lead)' = PurchaseCount(l) /\ price'[q] = price[q] /\ arg'[q] = arg[q]
      BY <1>1, <1>5, <2>2, Zenon DEF PurchaseCount, Buyers
    <2>4. QED
      BY <2>1, <2>2, <2>3, Zenon DEF PriceInv
  <1>12. QED
    BY <1>10, <1>11

\* A top-up's event is no purchase's.
LEMMA TopupCommitAtomic ==
    ASSUME MarketplaceInv, PurchaseIsAtomic, PriceInv, NEW r \in Topups, TopupCommit(r)
    PROVE  PurchaseIsAtomic' /\ PriceInv'
  <1> DEFINE adjusted == AdjustedEvent(r, arg[r].delta)
  <1>1. /\ r \in Requests /\ r \notin Buys /\ pc' = [pc EXCEPT ![r] = "ok"]
        /\ UNCHANGED <<purchases, arg, price>> /\ outbox' = outbox \cup {adjusted}
    BY ConstantsAssumption, Zenon DEF TopupCommit, CommitTx, Step, Requests
  <1>2. adjusted.id = r
    BY Zenon DEF AdjustedEvent
  <1> HIDE DEF adjusted
  <1>3. \A q \in Buys : pc'[q] = pc[q] /\ q # r
    BY <1>1, Zenon DEF MarketplaceInv, TypeOK, Requests
  <1>4. \A l : PurchaseCount(l)' = PurchaseCount(l)
    BY <1>1, Zenon DEF PurchaseCount, Buyers
  <1>5. \A q \in Buys : /\ (\E e \in outbox' : e.type = "LeadPurchased" /\ e.id = q)
                             <=> (\E e \in outbox : e.type = "LeadPurchased" /\ e.id = q)
                        /\ (\E e \in outbox' : e.type = "LeadCreditAdjusted" /\ e.id = q)
                             <=> (\E e \in outbox : e.type = "LeadCreditAdjusted" /\ e.id = q)
    BY <1>1, <1>2, <1>3
  <1>6. PurchaseIsAtomic'
    <2>1. ASSUME NEW q \in Buys
          PROVE  /\ (\E p \in purchases' : p.id = q) <=> pc'[q] = "ok"
                 /\ (\E p \in purchases' : p.id = q) <=> \E e \in outbox' : e.type = "LeadPurchased" /\ e.id = q
                 /\ (\E p \in purchases' : p.id = q) <=> \E e \in outbox' : e.type = "LeadCreditAdjusted" /\ e.id = q
      <3>1. /\ (\E p \in purchases : p.id = q) <=> pc[q] = "ok"
            /\ (\E p \in purchases : p.id = q) <=> \E e \in outbox : e.type = "LeadPurchased" /\ e.id = q
            /\ (\E p \in purchases : p.id = q) <=> \E e \in outbox : e.type = "LeadCreditAdjusted" /\ e.id = q
        BY Zenon DEF PurchaseIsAtomic
      <3>2. pc'[q] = pc[q] /\ purchases' = purchases
        BY <1>1, <1>3, Zenon
      <3>3. QED
        BY <1>5, <3>1, <3>2, Zenon
    <2>2. ASSUME NEW l \in Leads
          PROVE  {p.amount : p \in {q \in purchases' : q.lead = l}}
                   = {ComputePurchasePricePaisa(TierBasePaisa[l], n, 0) : n \in 0 .. PurchaseCount(l)' - 1}
      <3>1. {p.amount : p \in {q \in purchases : q.lead = l}}
              = {ComputePurchasePricePaisa(TierBasePaisa[l], n, 0) : n \in 0 .. PurchaseCount(l) - 1}
        BY Zenon DEF PurchaseIsAtomic
      <3>2. QED
        BY <1>1, <1>4, <3>1, Zenon
    <2>3. QED
      BY <2>1, <2>2, Zenon DEF PurchaseIsAtomic
  <1>7. PriceInv'
    BY <1>1, <1>3, <1>4, Zenon DEF PriceInv
  <1>8. QED
    BY <1>6, <1>7

\* Every step keeps purchases whole.
LEMMA AtomicNext ==
    ASSUME MarketplaceInv, PurchaseIsAtomic, PriceInv, [Next]_vars
    PROVE  PurchaseIsAtomic' /\ PriceInv'
  <1>1. ASSUME NEW r \in Requests, NEW to, UpsertWithVersion(r, to), r \in Buys => to = "loadLead"
        PROVE  PurchaseIsAtomic' /\ PriceInv'
    <2>1. /\ pc[r] = "saveCredit" /\ UNCHANGED <<purchases, outbox, arg, price>>
          /\ \E next \in {to, "overflow", "loadCredit", "exhausted", "duplicateKey"} : pc' = [pc EXCEPT ![r] = next]
      BY <1>1, Zenon DEF UpsertWithVersion, RetryOrGiveUp, Rollback, Step
    <2>2. QED
      BY <1>1, <2>1, BuysKept, Zenon
  <1>2. ASSUME NEW r \in Buys, PurchaseStart(r) PROVE PurchaseIsAtomic' /\ PriceInv'
    <2>1. /\ pc[r] = "idle" /\ pc' = [pc EXCEPT ![r] = "loadCredit"] /\ r \in Requests
          /\ UNCHANGED <<purchases, outbox, price>> /\ \E c : arg' = [arg EXCEPT ![r] = c]
      BY <1>2, Zenon DEF PurchaseStart, Step, Requests
    <2>2. \A q \in Buys : q # r => arg'[q] = arg[q]
      BY <2>1, Zenon DEF MarketplaceInv, TypeOK, Requests
    <2>3. QED
      BY <2>1, <2>2, BuysKept, Zenon
  <1>3. ASSUME NEW r \in Buys, PurchaseLoadCredit(r) \/ PurchaseLoadLead(r) \/ PurchaseLockLead(r)
        PROVE  PurchaseIsAtomic' /\ PriceInv'
    <2>1. /\ pc[r] # "ok" /\ r \in Requests /\ UNCHANGED <<purchases, outbox, arg, price>>
          /\ \E next \in {"saveCredit", "insufficient", "lockLead", "notFound", "record"} : pc' = [pc EXCEPT ![r] = next]
      BY <1>3, Zenon DEF PurchaseLoadCredit, PurchaseLoadLead, PurchaseLockLead, Step, Rollback, Requests
    <2>2. QED
      BY <2>1, BuysKept, Zenon
  <1>4. ASSUME NEW r \in Topups \cup Inits, TopupStart(r) \/ TopupLoadCredit(r) \/ InitDeliver(r)
                 \/ InitLoadCredit(r) \/ InitCommit(r)
        PROVE  PurchaseIsAtomic' /\ PriceInv'
    <2>1. r \in Requests /\ r \notin Buys
      BY ConstantsAssumption DEF Requests
    <2>2. /\ UNCHANGED <<purchases, outbox, price>> /\ (\E c : arg' = [arg EXCEPT ![r] = c] \/ UNCHANGED arg)
          /\ \E next : pc' = [pc EXCEPT ![r] = next]
      BY <1>4, Zenon DEF TopupStart, TopupLoadCredit, InitDeliver, InitLoadCredit, InitCommit, CommitTx, Step, Rollback
    <2>3. \A q \in Buys : q # r => arg'[q] = arg[q]
      BY <2>2, Zenon DEF MarketplaceInv, TypeOK, Requests
    <2>4. QED
      BY <2>1, <2>2, <2>3, BuysKept, Zenon
  <1>5. ASSUME NEW r \in Requests, Abort(r) PROVE PurchaseIsAtomic' /\ PriceInv'
    <2>1. pc[r] # "ok" /\ pc' = [pc EXCEPT ![r] = "aborted"] /\ UNCHANGED <<purchases, outbox, arg, price>>
      BY <1>5 DEF Abort, Rollback, InTx
    <2>2. QED
      BY <2>1, BuysKept, Zenon
  <1>6. CASE UNCHANGED vars
    <2>1. UNCHANGED <<purchases, outbox, pc, arg, price>>
      BY <1>6 DEF vars
    <2>2. PurchaseIsAtomic' /\ \A l : PurchaseCount(l)' = PurchaseCount(l)
      BY <2>1, AtomicKept, Zenon
    <2>3. QED
      BY <2>1, <2>2, Zenon DEF PriceInv
  <1>7. ASSUME NEW r \in Buys, PurchaseStep(r) PROVE PurchaseIsAtomic' /\ PriceInv'
    <2>1. CASE PurchaseSaveCredit(r)
      BY <1>1, <2>1 DEF PurchaseSaveCredit, Requests
    <2>2. QED
      BY <1>3, <1>7, <2>1, RecordAtomic, PurchaseCommitAtomic DEF PurchaseStep
  <1>8. ASSUME NEW r \in Topups, TopupStart(r) \/ TopupStep(r) PROVE PurchaseIsAtomic' /\ PriceInv'
    <2>1. CASE TopupSaveCredit(r)
      BY <1>1, <2>1, ConstantsAssumption DEF TopupSaveCredit, Requests
    <2>2. QED
      BY <1>4, <1>8, <2>1, TopupCommitAtomic DEF TopupStep
  <1>9. ASSUME NEW r \in Inits, InitDeliver(r) \/ InitStep(r) PROVE PurchaseIsAtomic' /\ PriceInv'
    <2>1. CASE InitSaveCredit(r)
      BY <1>1, <2>1, ConstantsAssumption DEF InitSaveCredit, Requests
    <2>2. QED
      BY <1>4, <1>9, <2>1 DEF InitStep
  <1>10. QED
    BY <1>2, <1>5, <1>6, <1>7, <1>8, <1>9 DEF Next

\* Charge, purchase row and LeadPurchasedV1 happen together, exactly for the purchases
\* that succeed, and the n buyers of a lead paid the first n prices of its schedule
\* (PurchaseLeadHandler's one transaction, RecordPurchase under the lead's lock).
THEOREM PurchasesAreAtomic == Spec => []PurchaseIsAtomic
  <1>1. MarketplaceInv /\ PurchaseIsAtomic /\ PriceInv /\ [Next]_vars => PurchaseIsAtomic' /\ PriceInv'
    BY AtomicNext
  <1>2. QED
    BY <1>1, AtomicInit, MarketplaceInvariant, PTL DEF Spec

-----------------------------------------------------------------------------
(* The refinement: commits are the only steps an observer sees.             *)

\* A step that touches neither wallets nor purchases is a stutter of LeadMarket.
LEMMA MarketStutters ==
    ASSUME UNCHANGED <<credits, purchases>>
    PROVE  UNCHANGED Market!marketVars
  BY DEF Market!marketVars, Buyers

\* Before its commit the row is the one the aggregate was loaded from, so the
\* committed balance is the command applied to the balance of that moment.
LEMMA CommitBalance ==
    ASSUME MarketplaceInv, NEW r \in Requests, CommitTx(r)
    PROVE  /\ arg[r].tenant \in Tenants
           /\ Current(r).balance = Balance(credits[arg[r].tenant])
           /\ Current(r).balance \in 0..MaxInt64
           /\ loaded[r] = Mutated(r, Current(r)) /\ loaded[r].balance >= 0
           /\ \A t \in Tenants : Balance(credits[t])' =
                IF t = arg[r].tenant THEN loaded[r].balance ELSE Balance(credits[t])
  <1>1. arg[r] \in Commands /\ arg[r].tenant \in Tenants /\ pc[r] = "commit"
    BY CommitWallet, Zenon DEF CommitTx, Step, Commands
  <1>2. Current(r).balance = Balance(credits[arg[r].tenant])
    BY <1>1, CurrentWallet
  <1>3. Current(r).balance \in 0..MaxInt64
    <2>1. Current(r).balance \in Nat /\ Current(r).balance <= MaxInt64 /\ MaxInt64 \in Nat
      BY <1>1, CurrentWallet, ConstantsAssumption, Zenon
    <2>2. QED
      BY <2>1
  <1>4. loaded[r] = Mutated(r, Current(r)) /\ loaded[r].balance >= 0
    BY <1>1, LoadedWallet, Zenon DEF HoldsCredit
  <1>5. SavedCredit(r) # NoRow /\ SavedCredit(r).balance = loaded[r].balance
    <2>1. SavedCredit(r) \in [balance : Nat, version : Nat]
      BY CommitWallet, Zenon
    <2>2. NoRow \notin [balance : Nat, version : Nat]
      BY ConstantsAssumption
    <2>3. SavedCredit(r).balance = loaded[r].balance
      BY DEF SavedCredit, MarketplaceInv, TypeOK
    <2>4. QED
      BY <2>1, <2>2, <2>3
  <1>6. \A t \in Tenants :
           credits'[t] = IF t = arg[r].tenant THEN SavedCredit(r) ELSE credits[t]
    BY Zenon DEF CommitTx, MarketplaceInv, TypeOK
  <1>7. QED
    BY <1>1, <1>2, <1>3, <1>4, <1>5, <1>6, Zenon DEF Balance

\* PurchaseCommit is LeadMarket's Buy.
LEMMA PurchaseCommitBuys ==
    ASSUME MarketplaceInv, NEW r \in Buys, PurchaseCommit(r)
    PROVE  Market!Next
  <1> DEFINE t == arg[r].tenant
             l == arg[r].lead
  <1>1. r \in Requests /\ CommitTx(r) /\ pc[r] = "commit"
    BY Zenon DEF PurchaseCommit, CommitTx, Step, Requests
  <1>2. t \in Tenants /\ l \in Leads
    BY PurchaseAddsBuyer
  <1>3. loaded[r].balance = Balance(credits[t]) - 1 /\ loaded[r].balance >= 0
        /\ Balance(credits[t]) \in Int
    <2>1. loaded[r] = [Current(r) EXCEPT !.balance = @ - 1]
      BY <1>1, CommitBalance DEF Mutated, Charge
    <2>2. Current(r) \in [balance : Nat, version : Nat]
      BY <1>1, CommitWallet, Zenon
    <2>3. loaded[r].balance = Current(r).balance - 1 /\ Current(r).balance \in Int
      BY <2>1, <2>2
    <2>4. Current(r).balance = Balance(credits[t]) /\ loaded[r].balance >= 0
      BY <1>1, CommitBalance, Zenon
    <2>5. QED
      BY <2>3, <2>4, Zenon
  <1>4. t \notin Buyers(l) /\ PurchaseCount(l) < EffectiveSaleLimit(l)
    BY <1>1 DEF MarketplaceInv, PlaceInv
  <1>5. PICK tt \in Tenants, ll \in Leads : tt = t /\ ll = l
    BY <1>2
  <1>6. [x \in Tenants |-> Balance(credits[x])]'
          = [[x \in Tenants |-> Balance(credits[x])] EXCEPT ![tt] = @ - 1]
    BY <1>1, <1>3, <1>5, CommitBalance, Zenon
  <1>7. [x \in Leads |-> Buyers(x)]'
          = [[x \in Leads |-> Buyers(x)] EXCEPT ![ll] = @ \cup {tt}]
    BY <1>5, PurchaseAddsBuyer, Zenon
  <1>8. Market!Buy(tt, ll)
    <2>1. [x \in Tenants |-> Balance(credits[x])][tt] >= 1
      <3>1. [x \in Tenants |-> Balance(credits[x])][tt] = Balance(credits[t])
        BY <1>5, Zenon
      <3>2. Balance(credits[t]) >= 1
        BY <1>3
      <3>3. QED
        BY <3>1, <3>2, Zenon
    <2>2. tt \notin [x \in Leads |-> Buyers(x)][ll]
      BY <1>4, <1>5
    <2>3. Cardinality([x \in Leads |-> Buyers(x)][ll])
            < [x \in Leads |-> EffectiveSaleLimit(x)][ll]
      BY <1>4, <1>5 DEF PurchaseCount
    <2>4. Market!Cardinality([x \in Leads |-> Buyers(x)][ll])
            = Cardinality([x \in Leads |-> Buyers(x)][ll])
      BY Zenon DEF Market!Cardinality, Cardinality
    <2>5. QED
      BY <1>6, <1>7, <2>1, <2>2, <2>3, <2>4, Zenon DEF Market!Buy
  <1>9. QED
    BY <1>8 DEF Market!Next

\* TopupCommit is LeadMarket's AddCredit.
LEMMA TopupCommitAdds ==
    ASSUME MarketplaceInv, NEW r \in Topups, TopupCommit(r)
    PROVE  Market!Next
  <1>1. r \in Requests /\ r \notin Buys /\ CommitTx(r) /\ UNCHANGED purchases
    BY ConstantsAssumption DEF TopupCommit, Requests
  <1>2. arg[r] \in Commands
    BY <1>1, CommitWallet
  <1>3. arg[r].tenant \in Tenants /\ arg[r].delta \in Deltas
    BY <1>1, <1>2, CommitBalance, ConstantsAssumption, Zenon DEF MarketplaceInv, WalletInv
  <1>4. PICK t \in Tenants, d \in Deltas : t = arg[r].tenant /\ d = arg[r].delta
    BY <1>3
  <1>5. d \in 1..MaxInt64
    BY <1>4, ConstantsAssumption
  <1>6. Current(r).balance \in 0..MaxInt64 /\ Current(r).balance = Balance(credits[t])
    BY <1>1, <1>4, CommitBalance, Zenon
  <1>7. loaded[r].balance = Add64(Current(r).balance, d) /\ loaded[r].balance >= 0
    <2>1. loaded[r] = [Current(r) EXCEPT !.balance = Add64(@, d)]
      BY <1>1, <1>4, CommitBalance DEF Mutated, Topup
    <2>2. Current(r) \in [balance : Nat, version : Nat]
      BY <1>1, CommitWallet, Zenon
    <2>3. QED
      BY <1>1, <2>1, <2>2, CommitBalance
  <1>8. loaded[r].balance = Balance(credits[t]) + d /\ Balance(credits[t]) + d <= MaxInt64
    BY <1>5, <1>6, <1>7, Add64Exact
  <1>9. [x \in Tenants |-> Balance(credits[x])]'
          = [[x \in Tenants |-> Balance(credits[x])] EXCEPT ![t] = @ + d]
    BY <1>1, <1>4, <1>8, CommitBalance, Zenon
  <1>10. [x \in Leads |-> Buyers(x)]' = [x \in Leads |-> Buyers(x)]
    BY <1>1 DEF Buyers
  <1>11. Market!AddCredit(t, d)
    <2>1. [x \in Tenants |-> Balance(credits[x])][t] + d <= MaxInt64
      BY <1>8
    <2>2. QED
      BY <1>9, <1>10, <2>1, Zenon DEF Market!AddCredit
  <1>12. QED
    BY <1>11 DEF Market!Next

\* InitCommit creates a wallet with balance zero, which an observer cannot tell
\* from no wallet.
LEMMA InitCommitStutters ==
    ASSUME MarketplaceInv, NEW r \in Inits, InitCommit(r)
    PROVE  UNCHANGED Market!marketVars
  <1>1. r \in Requests /\ r \notin Buys /\ r \notin Topups /\ CommitTx(r) /\ UNCHANGED purchases
    BY ConstantsAssumption DEF InitCommit, Requests
  <1>2. loaded[r].balance = Balance(credits[arg[r].tenant])
    BY <1>1, CommitBalance, Zenon DEF Mutated
  <1>3. [x \in Tenants |-> Balance(credits[x])]' = [x \in Tenants |-> Balance(credits[x])]
    BY <1>1, <1>2, CommitBalance, Zenon
  <1>4. [x \in Leads |-> Buyers(x)]' = [x \in Leads |-> Buyers(x)]
    BY <1>1 DEF Buyers
  <1>5. QED
    BY <1>3, <1>4, Zenon DEF Market!marketVars

\* Every step of the handlers is a step of LeadMarket or a stutter.
LEMMA MarketStep ==
    ASSUME MarketplaceInv, [Next]_vars
    PROVE  [Market!Next]_(Market!marketVars)
  <1>1. CASE \E r \in Buys : PurchaseCommit(r)
    BY <1>1, PurchaseCommitBuys
  <1>2. CASE \E r \in Topups : TopupCommit(r)
    BY <1>2, TopupCommitAdds
  <1>3. CASE \E r \in Inits : InitCommit(r)
    BY <1>3, InitCommitStutters
  <1>4. CASE UNCHANGED <<credits, purchases>>
    BY <1>4, MarketStutters
  <1>5. ASSUME NEW r, NEW next, UpsertWithVersion(r, next)
        PROVE  UNCHANGED <<credits, purchases>>
    BY <1>5, Zenon DEF UpsertWithVersion, RetryOrGiveUp, Rollback
  <1>6. ASSUME NEW r \in Buys, PurchaseStart(r) \/ PurchaseStep(r), ~PurchaseCommit(r)
        PROVE  UNCHANGED <<credits, purchases>>
    BY <1>5, <1>6, Zenon DEF PurchaseStart, PurchaseStep, PurchaseLoadCredit, PurchaseSaveCredit,
       PurchaseLoadLead, PurchaseLockLead, PurchaseRecord, Rollback
  <1>7. ASSUME NEW r \in Topups, TopupStart(r) \/ TopupStep(r), ~TopupCommit(r)
        PROVE  UNCHANGED <<credits, purchases>>
    BY <1>5, <1>7, Zenon DEF TopupStart, TopupStep, TopupLoadCredit, TopupSaveCredit
  <1>8. ASSUME NEW r \in Inits, InitDeliver(r) \/ InitStep(r), ~InitCommit(r)
        PROVE  UNCHANGED <<credits, purchases>>
    BY <1>5, <1>8, Zenon DEF InitDeliver, InitStep, InitLoadCredit, InitSaveCredit, Rollback
  <1>9. ASSUME NEW r \in Requests, Abort(r) PROVE UNCHANGED <<credits, purchases>>
    BY <1>9 DEF Abort, Rollback
  <1>10. CASE UNCHANGED vars
    BY <1>4, <1>10 DEF vars
  <1>11. QED
    BY <1>1, <1>2, <1>3, <1>4, <1>6, <1>7, <1>8, <1>9, <1>10 DEF Next

\* The concurrent handlers implement the marketplace the documents describe:
\* each purchase and each top-up takes effect in one step.
THEOREM MarketplaceRefines == Spec => RefinesLeadMarket
  <1>1. Init => Market!Init
    <2> SUFFICES ASSUME Init PROVE Market!Init
      OBVIOUS
    <2>1. \A l \in Leads : Buyers(l) = {}
      BY Zenon DEF Init, Buyers
    <2>2. [t \in Tenants |-> Balance(credits[t])] = [t \in Tenants |-> Balance(OpeningCredits[t])]
      BY DEF Init
    <2>3. [l \in Leads |-> Buyers(l)] = [l \in Leads |-> {}]
      BY <2>1
    <2>4. QED
      BY <2>2, <2>3, Zenon DEF Market!Init
  <1>2. MarketplaceInv /\ [Next]_vars => [Market!Next]_(Market!marketVars)
    BY MarketStep
  <1>3. QED
    BY <1>1, <1>2, MarketplaceInvariant, PTL DEF Spec, RefinesLeadMarket, Market!Spec
====
