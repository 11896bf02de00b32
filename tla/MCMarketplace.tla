---- MODULE MCMarketplace ----
(* Marketplace on small instances, and its refinement of LeadMarket. *)
EXTENDS MarketplaceRefinement, FiniteSetsExt, TLC

CONSTANTS l2, l3, t0, t1, t2, t3, b1, b2, b3

\* l2 overrides its tier's default limit, the other leads do not.
MCSaleLimit == [l \in Leads |-> IF l = l2 THEN 1 ELSE NoLimit]

MCDefaultLimit == [l \in Leads |-> 2]

\* The tier of l3 is free.
MCTierBase == [l \in Leads |-> IF l = l3 THEN 0 ELSE 50000]

\* Every wallet holds two credits; t0 has none yet.
MCOpening == [t \in Tenants |-> IF t = t0 THEN NoRow ELSE [balance |-> 2, version |-> 1]]

Started(r) == pc[r] # "idle"

\* The requests that are sent: three purchases by the tenants that have a wallet, or
\* one purchase, the top-ups and the creation of the wallet, all of t0.  Purchases
\* and tenants are interchangeable, so the purchases start in a fixed order and
\* the first is t1's, the second t1's or t2's.  Where there are three, none is of the
\* free lead and the third is of a lead that another one wants.
Sent ==
    \/ /\ \A r \in Topups \cup Inits : ~Started(r)
       /\ Started(b3) => /\ Started(b2) /\ arg[b3].tenant # t0
                         /\ \A b \in Buys : arg[b].lead # l3
                         /\ \E b \in {b1, b2} : arg[b].lead = arg[b3].lead
       /\ Started(b2) => Started(b1) /\ arg[b2].tenant \in {t1, t2}
       /\ Started(b1) => arg[b1].tenant = t1
    \/ /\ ~Started(b2) /\ ~Started(b3)
       /\ \A r \in Requests : Started(r) => arg[r].tenant = t0

\* Nobody has to send a request, so the fairness of Spec is not touched.
MCSpec == Init /\ [][Next /\ Sent']_vars /\ Fairness

\* The balance is the opening balance plus the adjustments announced for the
\* tenant: no top-up or charge is lost or counted twice, whoever raced for the
\* wallet (UpdateLeadCreditWithVersion's version test).
LedgerMatchesBalance ==
    \A t \in Tenants :
      LET adjustments == {e \in outbox : e.type = "LeadCreditAdjusted" /\ e.tenant = t}
      IN  Balance(credits[t]) = Balance(OpeningCredits[t])
                                + MapThenSumSet(LAMBDA e : e.delta, adjustments)
====
