---- MODULE MCGoods ----
(***************************************************************************)
(* Small instances of Inventory, StockAlerts, Sales, Inbox and Paging,     *)
(* side by side: a behaviour exercises one of them.  A scan sees of the    *)
(* stock only which subjects are due, which StockAlerts lets change at any *)
(* time.                                                                   *)
(* Sales: one quotation and one order around the turn of the financial     *)
(* year that ends a century.  Creations and movements are interchangeable. *)
(***************************************************************************)
EXTENDS Inventory, StockAlerts, Sales, Inbox, Paging, TLC

CONSTANTS
    t1, t2, s1, s2,
    MaxStarted   \* bound: requests handled one at a time

ASSUME StockAlertsAssumption

\* Two tenants with a subject each.
MCTenantOf == (s1 :> t1) @@ (s2 :> t2)

Item(quantity, sale, mrp) == [quantity |-> quantity, sale |-> sale, mrp |-> mrp, bps |-> 1200]

MCLists == {<<Item(1, 99, 0), Item(1, 8, 9)>>, <<Item(2, 50, 60)>>, <<Item(1, 70, 60)>>, <<>>}

MCMonths == {12 * 1999 + 2, 12 * 1999 + 3}

\* Quotations, the states of an order and the documents are looked at one by one.
Quoted == quotes # [q \in Quotes |-> Missing]
Ordered == sales # [s \in SaleIds |-> Missing]
Moved == \E s \in SaleIds : Len(trail[s]) > 1
Booked == payments # <<>> \/ \E k \in DOMAIN sequence : sequence[k] > 0

SalesScope == (Quoted => ~ Booked /\ ~ Ordered) /\ (Moved => ~ Booked)

StockIdle == limit = 1 /\ \A r \in Requests : pc[r] = "idle"
ScansIdle == due = {} /\ day = 1 /\ changes = 0 /\ \A j \in Jobs : stage[j] = "available"
SalesIdle == ~ Quoted /\ ~ Ordered /\ ~ Booked
InboxIdle == age = 0 /\ told = {}
PagesIdle == list = "users" /\ walk = NoWalk /\ table = [i \in Ids |-> Absent]

GoodsInit == Init /\ ScanInit /\ SaleInit /\ InboxInit /\ PageInit

GoodsNext ==
    \/ /\ ScansIdle /\ SalesIdle /\ InboxIdle /\ PagesIdle
       /\ Next /\ UNCHANGED <<scanVars, saleVars, inboxVars, pageVars>>
    \/ /\ StockIdle /\ SalesIdle /\ InboxIdle /\ PagesIdle
       /\ ScanNext /\ UNCHANGED <<vars, saleVars, inboxVars, pageVars>>
    \/ /\ StockIdle /\ ScansIdle /\ InboxIdle /\ PagesIdle
       /\ SaleNext /\ UNCHANGED <<vars, scanVars, inboxVars, pageVars>>
    \/ /\ StockIdle /\ ScansIdle /\ SalesIdle /\ PagesIdle
       /\ InboxNext /\ UNCHANGED <<vars, scanVars, saleVars, pageVars>>
    \/ /\ StockIdle /\ ScansIdle /\ SalesIdle /\ InboxIdle
       /\ PageNext /\ UNCHANGED <<vars, scanVars, saleVars, inboxVars>>

GoodsSpec == GoodsInit /\ [][GoodsNext]_<<vars, scanVars, saleVars, inboxVars, pageVars>>

Started(S) == {r \in S : pc[r] # "idle"}

\* One at a time, any MaxStarted requests with one movement among them; overlapping,
\* the movements of one batch.  A list that is narrowed to a member begins with rows
\* that satisfy its query.
Scope ==
    /\ SalesScope
    /\ IF limit = 1
       THEN Cardinality(Started(Requests)) <= MaxStarted /\ Cardinality(Started(Moves)) <= 1
       ELSE /\ Cardinality(Started(Creates)) <= 1 /\ Cardinality(Started(Adds)) <= 1
            /\ Started(Updates \cup Deletes) = {}
    /\ list \in Narrowed /\ walk = NoWalk => \A i \in Ids : table[i] # Absent => table[i].kept

Symmetry == Permutations(Creates) \cup Permutations(Moves)
====
