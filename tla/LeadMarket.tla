---- MODULE LeadMarket ----
(***************************************************************************)
(* What the marketplace promises: every tenant has a balance, every lead a *)
(* set of buyers, and a purchase moves one credit and adds one buyer in a  *)
(* single step (ADR 0059, ADR 0065; internal/platform/domain/platformlead  *)
(* and leadcredit).                                                        *)
(***************************************************************************)
EXTENDS Integers, FiniteSets

CONSTANTS Tenants, Leads, Limit, Deltas, Opening, MaxBalance

VARIABLES balance, buyers

marketVars == <<balance, buyers>>

Init ==
    /\ balance = Opening
    /\ buyers = [l \in Leads |-> {}]

Buy(t, l) ==
    /\ balance[t] >= 1
    /\ t \notin buyers[l]
    /\ Cardinality(buyers[l]) < Limit[l]
    /\ balance' = [balance EXCEPT ![t] = @ - 1]
    /\ buyers' = [buyers EXCEPT ![l] = @ \cup {t}]

AddCredit(t, delta) ==
    /\ balance[t] + delta <= MaxBalance
    /\ balance' = [balance EXCEPT ![t] = @ + delta]
    /\ UNCHANGED buyers

Next ==
    \/ \E t \in Tenants, l \in Leads : Buy(t, l)
    \/ \E t \in Tenants, delta \in Deltas : AddCredit(t, delta)

Spec == Init /\ [][Next]_marketVars
====
