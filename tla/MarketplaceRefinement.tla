---- MODULE MarketplaceRefinement ----
(***************************************************************************)
(* Marketplace implements LeadMarket: a tenant without a lead_credits row  *)
(* has balance zero, the buyers of a lead are its lead_purchases rows.     *)
(***************************************************************************)
EXTENDS Marketplace

Balance(row) == IF row = NoRow THEN 0 ELSE row.balance

Market == INSTANCE LeadMarket WITH
    Limit      <- [l \in Leads |-> EffectiveSaleLimit(l)],
    Opening    <- [t \in Tenants |-> Balance(OpeningCredits[t])],
    MaxBalance <- MaxInt64,
    balance    <- [t \in Tenants |-> Balance(credits[t])],
    buyers     <- [l \in Leads |-> Buyers(l)]

\* Seen from outside, racing purchases and top-ups are single steps: each one
\* moves a credit and a buyer together, under the limit, or changes nothing.
RefinesLeadMarket == Market!Spec

-----------------------------------------------------------------------------
(* The inductive invariant behind the refinement.                          *)

HoldsCredit == {"loadLead", "lockLead", "record", "commit"}

\* The aggregate a handler would load now, and what its command makes of it.
Current(r) == IF credits[arg[r].tenant] = NoRow THEN NewForTenant
              ELSE credits[arg[r].tenant]

Mutated(r, credit) ==
    IF r \in Buys THEN Charge(credit)
    ELSE IF r \in Topups THEN Topup(credit, arg[r].delta)
    ELSE credit

\* Who is past which statement holds which row.
LockInv ==
    /\ \A r \in Requests :
         pc[r] \in HoldsCredit => creditLock[arg[r].tenant] = r
    /\ \A r \in Buys :
         /\ pc[r] \in {"lockLead", "record", "commit"} => arg[r].lead \in Leads
         /\ pc[r] \in {"record", "commit"} => leadLock[arg[r].lead] = r
    /\ \A r \in Topups \cup Inits : pc[r] \notin {"loadLead", "lockLead", "record"}

\* An aggregate in memory is stale, and then its version is below the row's, or
\* it is the command applied to the row.
WalletInv ==
    /\ \A t \in Tenants :
         credits[t] # NoRow => credits[t].version >= 1 /\ credits[t].balance <= MaxInt64
    /\ \A r \in Topups : arg[r] # NoCommand => arg[r].delta \in Deltas
    /\ \A r \in Requests :
         /\ pc[r] \in {"saveCredit"} \cup HoldsCredit =>
              /\ r \in Buys => loaded[r].version >= 1 /\ loaded[r].balance >= 0
              /\ r \in Inits => loaded[r].version = 0
              /\ loaded[r].version <= Current(r).version
              /\ loaded[r].version = Current(r).version => loaded[r] = Mutated(r, Current(r))
         /\ pc[r] \in HoldsCredit =>
              /\ loaded[r].version = Current(r).version
              /\ loaded[r].balance >= 0

\* A purchase about to commit still has its place.
PlaceInv ==
    \A r \in Buys : pc[r] = "commit" =>
      /\ arg[r].tenant \notin Buyers(arg[r].lead)
      /\ PurchaseCount(arg[r].lead) < EffectiveSaleLimit(arg[r].lead)

\* Racing handlers keep every statement of a transaction valid until it commits.
MarketplaceInv ==
    TypeOK /\ LockInv /\ WalletInv /\ PlaceInv /\ SaleLimitRespected /\ NoDoubleBuy
====
