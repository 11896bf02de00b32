---- MODULE Inventory ----
(***************************************************************************)
(* The inventory of one tenant: products, their batches and the ledger of  *)
(* stock movements (internal/inventory/domain/product, batch and           *)
(* stockmovement, app/command, adapters; ADR 0061).                        *)
(*                                                                         *)
(* A movement locks its batch (SELECT ... FOR UPDATE) before it reads it.  *)
(* Products are read without a lock; AddBatch and DeleteProduct check what *)
(* they read in one transaction and act on it in another.  A single INSERT *)
(* or UPDATE and its COMMIT are one step: the statement waits for the row  *)
(* or the index entry and then works on what is committed.                 *)
(***************************************************************************)
EXTENDS Integers, Sequences, FiniteSets

CONSTANTS
    Creates,      \* CreateProduct requests; each names the product it makes
    Updates, Deletes,
    Adds,         \* AddBatch requests; each names the batch it makes
    Moves,        \* LogStockMovement requests
    Skus, Numbers,
    Quantities,   \* bound: the magnitudes that requests ask for
    Width,        \* bits of quantity_on_hand (64 in the code)
    Limits,       \* bounds: how many requests are handled at the same time
    NoRow, Free, None

Requests == Creates \cup Updates \cup Deletes \cup Adds \cup Moves

Limit == 2 ^ (Width - 1)
Stock == 0 .. (Limit - 1)

Mutating == {"inbound", "outbound", "adjustment"}
MovementTypes == Mutating \cup {"reservation", "release"}

EventTypes == {"Created", "Updated", "SoftDeleted", "Added", "Logged"}

\* active stands for every column that an update may change.
ProductRows == [sku : Skus, active : BOOLEAN, deleted : BOOLEAN]
BatchRows == [product : Creates, number : Numbers, onHand : Stock, version : Nat]
Movements == [by : Moves, type : MovementTypes, quantity : (-Limit + 1) .. (Limit - 1), after : Stock]
Commands == [product : Creates \cup {None}, batch : Adds \cup {None},
             key : Skus \cup Numbers \cup {None}, active : BOOLEAN, type : MovementTypes, quantity : Int]
NoCommand == [product |-> None, batch |-> None, key |-> None, active |-> TRUE, type |-> "inbound", quantity |-> 1]

ASSUME InventoryAssumption ==
    /\ NoRow \notin ProductRows \cup BatchRows
    /\ Free \notin Moves /\ None \notin Creates \cup Adds \cup Skus \cup Numbers
    /\ Width \in Nat \ {0} /\ Quantities \subseteq Stock \ {0} /\ Limits \subseteq Nat

VARIABLES
    limit,     \* how many requests the server handles at the same time
    products, batches,  \* inventory.products, inventory.batches
    ledger,    \* inventory.stock_movements of each batch, in the order of their inserts
    outbox,    \* every event ever written to common.outbox
    expired,   \* batches past their expiry date
    lock,      \* the transaction that holds a batch's row
    pc, cmd,   \* where each handler is, and its command
    late,      \* the batch was expired at the handler's now
    mem,       \* the Batch in the handler's memory, with the version it was loaded at
    draft      \* the Product in the handler's memory, and whether it recorded an event

vars == <<limit, products, batches, ledger, outbox, expired, lock, pc, cmd, late, mem, draft>>

InTx == {"load", "persist"}
Running == InTx \cup {"create", "get", "stock", "update", "write", "insert", "lock"}
Outcomes == {"ok", "notFound", "refused", "conflict", "error"}

TypeOK ==
    /\ limit \in Limits
    /\ products \in [Creates -> ProductRows \cup {NoRow}]
    /\ batches \in [Adds -> BatchRows \cup {NoRow}]
    /\ ledger \in [Adds -> Seq(Movements)]
    /\ outbox \subseteq [type : EventTypes, by : Requests]
    /\ expired \subseteq Adds
    /\ lock \in [Adds -> Moves \cup {Free}]
    /\ pc \in [Requests -> {"idle"} \cup Running \cup Outcomes]
    /\ cmd \in [Requests -> Commands]
    /\ late \in [Moves -> BOOLEAN]
    /\ mem \in [Moves -> [onHand : -Limit .. (Limit - 1), version : Nat, loaded : Nat] \cup {NoRow}]
    /\ draft \in [Updates \cup Deletes -> [row : ProductRows, event : BOOLEAN] \cup {NoRow}]

-----------------------------------------------------------------------------
(* The aggregates.                                                          *)

NewProduct(sku) == [sku |-> sku, active |-> TRUE, deleted |-> FALSE]
UpdateProduct(p, active) == [row |-> [p EXCEPT !.active = active], event |-> p.active # active]
SoftDelete(p) == [row |-> [p EXCEPT !.deleted = TRUE], event |-> TRUE]

NewBatch(product, number) == [product |-> product, number |-> number, onHand |-> 0, version |-> 0]

\* Two's complement: what int64 addition yields at Width bits.
Wrap(n) == ((n + Limit) % (2 * Limit)) - Limit

Allowed(b, type, quantity, isLate) ==
    /\ type = "inbound" => ~isLate
    /\ type = "outbound" => quantity <= b.onHand
    /\ type = "adjustment" => Wrap(b.onHand + quantity) >= 0

ApplyMovement(b, type, quantity) ==
    [b EXCEPT !.version = @ + 1,
              !.onHand = CASE type \in {"inbound", "adjustment"} -> Wrap(@ + quantity)
                           [] type = "outbound" -> @ - quantity
                           [] OTHER -> @]

\* Fault: every quantity is stored as a magnitude.
Unsigned(type, quantity) == quantity

signedQuantityForType(type, quantity) == IF type = "outbound" THEN -quantity ELSE quantity

NewMovement(r, type, quantity, after) ==
    [by |-> r, type |-> type, quantity |-> signedQuantityForType(type, quantity), after |-> after]

-----------------------------------------------------------------------------
(* Requests.                                                                *)

Goto(r, next) == pc' = [pc EXCEPT ![r] = next]
Event(type, r) == {[type |-> type, by |-> r]}
Unlock(r) == lock' = [b \in Adds |-> IF lock[b] = r THEN Free ELSE lock[b]]
Live(p) == p # None /\ products[p] # NoRow /\ ~products[p].deleted

First(r) ==
    CASE r \in Creates -> "create"
      [] r \in Updates -> "update"
      [] r \in Deletes \cup Adds -> "get"
      [] r \in Moves -> "lock"

\* What a client may ask for: any row there is, or one that does not exist.
KnownProducts == {p \in Creates : products[p] # NoRow} \cup {None}
KnownBatches == {b \in Adds : batches[b] # NoRow} \cup {None}

CreateProducts == {[NoCommand EXCEPT !.key = s] : s \in Skus}
UpdateProducts == {[NoCommand EXCEPT !.product = p, !.active = a] : p \in KnownProducts, a \in BOOLEAN}
DeleteProducts == {[NoCommand EXCEPT !.product = p] : p \in KnownProducts}
AddBatches == {[NoCommand EXCEPT !.product = p, !.key = n] : p \in KnownProducts, n \in Numbers}
LogStockMovements == {[NoCommand EXCEPT !.batch = b, !.type = t, !.quantity = q] :
                         b \in KnownBatches, t \in MovementTypes, q \in Quantities}

Asked(r) ==
    CASE r \in Creates -> CreateProducts
      [] r \in Updates -> UpdateProducts
      [] r \in Deletes -> DeleteProducts
      [] r \in Adds -> AddBatches
      [] r \in Moves -> LogStockMovements

Start(r) ==
    /\ pc[r] = "idle"
    /\ Cardinality({q \in Requests : pc[q] \in Running}) < limit
    /\ \E c \in Asked(r) : cmd' = [cmd EXCEPT ![r] = c]
    /\ late' = IF r \in Moves THEN [late EXCEPT ![r] = cmd'[r].batch \in expired] ELSE late
    /\ Goto(r, First(r))
    /\ UNCHANGED <<products, batches, ledger, outbox, expired, lock, mem, draft>>

\* The statement fails and its transaction rolls back.
Fail(r) ==
    /\ pc[r] \in Running
    /\ Unlock(r)
    /\ mem' = IF r \in Moves THEN [mem EXCEPT ![r] = NoRow] ELSE mem
    /\ draft' = IF r \in Updates \cup Deletes THEN [draft EXCEPT ![r] = NoRow] ELSE draft
    /\ Goto(r, "error")
    /\ UNCHANGED <<products, batches, ledger, outbox, expired, cmd, late>>

\* uq_products_tenant_sku_live
SkuTaken(sku) == \E p \in Creates : Live(p) /\ products[p].sku = sku

InsertProduct(p, row) == products' = [products EXCEPT ![p] = row]

\* CreateProductHandler and insertProductRow.
Create(r) ==
    /\ pc[r] = "create"
    /\ \/ SkuTaken(cmd[r].key) /\ Goto(r, "conflict") /\ UNCHANGED <<products, outbox>>
       \/ /\ ~SkuTaken(cmd[r].key)
          /\ InsertProduct(r, NewProduct(cmd[r].key))
          /\ outbox' = outbox \cup Event("Created", r)
          /\ Goto(r, "ok")
    /\ UNCHANGED <<batches, ledger, expired, lock, cmd, late, mem, draft>>

\* ProductRepository.GetByID, in a transaction of its own.
Get(r) ==
    /\ pc[r] = "get"
    /\ Goto(r, IF ~Live(cmd[r].product) THEN "notFound" ELSE IF r \in Adds THEN "insert" ELSE "stock")
    /\ UNCHANGED <<products, batches, ledger, outbox, expired, lock, cmd, late, mem, draft>>

\* ProductRepository.UpdateByID: the product is loaded, without a lock, and changed in memory.
Update(r) ==
    LET p == products[cmd[r].product] IN
    /\ pc[r] = "update"
    /\ IF Live(cmd[r].product)
       THEN /\ draft' = [draft EXCEPT ![r] = IF r \in Deletes THEN SoftDelete(p)
                                             ELSE UpdateProduct(p, cmd[r].active)]
            /\ Goto(r, "write")
       ELSE Goto(r, "notFound") /\ UNCHANGED draft
    /\ UNCHANGED <<products, batches, ledger, outbox, expired, lock, cmd, late, mem>>

\* Fault: the stock check is left out.
CheckStockNever(r) ==
    /\ pc[r] = "stock"
    /\ Goto(r, "update")
    /\ UNCHANGED <<products, batches, ledger, outbox, expired, lock, cmd, late, mem, draft>>

AnyLiveWithStockForProduct(p) ==
    \E b \in Adds : batches[b] # NoRow /\ batches[b].product = p /\ batches[b].onHand > 0

\* DeleteProductHandler, in a transaction of its own.
CheckStock(r) ==
    /\ pc[r] = "stock"
    /\ Goto(r, IF AnyLiveWithStockForProduct(cmd[r].product) THEN "refused" ELSE "update")
    /\ UNCHANGED <<products, batches, ledger, outbox, expired, lock, cmd, late, mem, draft>>

\* Both UPDATEs say NOT is_deleted, and nobody looks at how many rows they changed.
SoftDeleteRow(p) ==
    products' = [products EXCEPT ![p] = IF @.deleted THEN @ ELSE [@ EXCEPT !.deleted = TRUE]]
UpdateRow(p, row) ==
    products' = [products EXCEPT ![p] = IF @.deleted THEN @ ELSE [@ EXCEPT !.active = row.active]]

persistProductState(p, row) == IF row.deleted THEN SoftDeleteRow(p) ELSE UpdateRow(p, row)

\* The row is written back, and the event if the aggregate recorded one.
Write(r) ==
    /\ pc[r] = "write"
    /\ persistProductState(cmd[r].product, draft[r].row)
    /\ outbox' = IF draft[r].event
                 THEN outbox \cup Event(IF r \in Deletes THEN "SoftDeleted" ELSE "Updated", r)
                 ELSE outbox
    /\ draft' = [draft EXCEPT ![r] = NoRow]
    /\ Goto(r, "ok")
    /\ UNCHANGED <<batches, ledger, expired, lock, cmd, late, mem>>

\* uq_batches_product_number_live
NumberTaken(product, number) ==
    \E b \in Adds : batches[b] # NoRow /\ batches[b].product = product /\ batches[b].number = number

InsertBatch(b, row) == batches' = [batches EXCEPT ![b] = row]

\* BatchRepository.Add: the foreign key accepts a deleted product.
Insert(r) ==
    LET c == cmd[r] IN
    /\ pc[r] = "insert"
    /\ \/ NumberTaken(c.product, c.key) /\ Goto(r, "conflict") /\ UNCHANGED <<batches, outbox>>
       \/ /\ ~NumberTaken(c.product, c.key)
          /\ InsertBatch(r, NewBatch(c.product, c.key))
          /\ outbox' = outbox \cup Event("Added", r)
          /\ Goto(r, "ok")
    /\ UNCHANGED <<products, ledger, expired, lock, cmd, late, mem, draft>>

lockBatchRowForUpdate(r) ==
    /\ pc[r] = "lock"
    /\ \/ cmd[r].batch = None /\ Goto(r, "notFound") /\ UNCHANGED lock
       \/ /\ cmd[r].batch # None
          /\ lock[cmd[r].batch] = Free
          /\ lock' = [lock EXCEPT ![cmd[r].batch] = r]
          /\ Goto(r, "load")
    /\ UNCHANGED <<products, batches, ledger, outbox, expired, cmd, late, mem, draft>>

\* loadBatch and the function of LogStockMovement.
Load(r) ==
    LET b == [onHand |-> batches[cmd[r].batch].onHand, version |-> batches[cmd[r].batch].version,
              loaded |-> batches[cmd[r].batch].version]
    IN  /\ pc[r] = "load"
        /\ \/ /\ Allowed(b, cmd[r].type, cmd[r].quantity, late[r])
              /\ mem' = [mem EXCEPT ![r] = ApplyMovement(b, cmd[r].type, cmd[r].quantity)]
              /\ Goto(r, "persist")
              /\ UNCHANGED lock
           \/ /\ ~Allowed(b, cmd[r].type, cmd[r].quantity, late[r])
              /\ Goto(r, "refused")
              /\ Unlock(r)
              /\ UNCHANGED mem
        /\ UNCHANGED <<products, batches, ledger, outbox, expired, cmd, late, draft>>

\* The CHECK constraint of the column.
Storable(n) == n >= 0

UpdateBatchWithVersionCheck(b, row) ==
    batches' = IF batches[b].version = row.loaded
               THEN [batches EXCEPT ![b].onHand = row.onHand, ![b].version = row.version]
               ELSE batches

InsertStockMovement(b, row) == ledger' = [ledger EXCEPT ![b] = Append(@, row)]

\* persistBatchState, the movement and its event, COMMIT.
Persist(r) ==
    LET b == cmd[r].batch
        current == batches[b].version = mem[r].loaded
    IN  /\ pc[r] = "persist"
        /\ IF current /\ Storable(mem[r].onHand)
           THEN /\ UpdateBatchWithVersionCheck(b, mem[r])
                /\ InsertStockMovement(b, NewMovement(r, cmd[r].type, cmd[r].quantity, mem[r].onHand))
                /\ outbox' = outbox \cup Event("Logged", r)
                /\ Goto(r, "ok")
           ELSE /\ Goto(r, IF current THEN "error" ELSE "conflict")
                /\ UNCHANGED <<batches, ledger, outbox>>
        /\ mem' = [mem EXCEPT ![r] = NoRow]
        /\ Unlock(r)
        /\ UNCHANGED <<products, expired, cmd, late, draft>>

Expire(b) ==
    /\ batches[b] # NoRow
    /\ expired' = expired \cup {b}
    /\ UNCHANGED <<products, batches, ledger, outbox, lock, pc, cmd, late, mem, draft>>

Init ==
    /\ limit \in Limits
    /\ products = [p \in Creates |-> NoRow]
    /\ batches = [b \in Adds |-> NoRow]
    /\ ledger = [b \in Adds |-> <<>>]
    /\ outbox = {}
    /\ expired = {}
    /\ lock = [b \in Adds |-> Free]
    /\ pc = [r \in Requests |-> "idle"]
    /\ cmd = [r \in Requests |-> NoCommand]
    /\ late = [r \in Moves |-> FALSE]
    /\ mem = [r \in Moves |-> NoRow]
    /\ draft = [r \in Updates \cup Deletes |-> NoRow]

Next ==
    /\ UNCHANGED limit
    /\ \/ \E r \in Requests : Start(r) \/ Fail(r)
       \/ \E r \in Creates : Create(r)
       \/ \E r \in Deletes \cup Adds : Get(r)
       \/ \E r \in Deletes : CheckStock(r)
       \/ \E r \in Updates \cup Deletes : Update(r) \/ Write(r)
       \/ \E r \in Adds : Insert(r)
       \/ \E r \in Moves : lockBatchRowForUpdate(r) \/ Load(r) \/ Persist(r)
       \/ \E b \in Adds : Expire(b)

Spec == Init /\ [][Next]_vars

-----------------------------------------------------------------------------
(* Properties.                                                              *)

Effect(m) == IF m.type \in Mutating THEN m.quantity ELSE 0

\* The ledger replays to the stock, so that "SUM(quantity) over Inbound/Outbound/
\* Adjustment rows for a batch equals batch.quantity_on_hand" (package
\* stockmovement): each row's quantity_on_hand_after is the one before it plus its
\* own quantity, the last one is the batch's stock, and the version counts the rows.
\* Every movement that was announced is in it once, and no other is (one transaction
\* for batch, movement and outbox); and "the WHERE version=$expected predicate cannot
\* fail because the row lock prevents two writers from sharing an expected version"
\* (BatchRepository).
LedgerBalances ==
    /\ TypeOK
    /\ \A b \in Adds : batches[b] # NoRow =>
         LET rows == ledger[b] IN
         /\ batches[b].version = Len(rows)
         /\ batches[b].onHand = IF rows = <<>> THEN 0 ELSE rows[Len(rows)].after
         /\ \A i \in 1 .. Len(rows) :
               rows[i].after = (IF i = 1 THEN 0 ELSE rows[i - 1].after) + Effect(rows[i])
    /\ \A r \in Moves :
         LET places == {<<b, i>> \in Adds \X (1 .. Cardinality(Moves)) :
                           i <= Len(ledger[b]) /\ ledger[b][i].by = r}
         IN  /\ Cardinality(places) = IF [type |-> "Logged", by |-> r] \in outbox THEN 1 ELSE 0
             /\ pc[r] = "persist" => batches[cmd[r].batch].version = mem[r].loaded

\* If requests come one at a time, deleted means empty and silent.  A product is only
\* deleted when no batch of it has stock (DeleteProductCommand: "rejected with
\* batch.ErrAnyLiveStock if any live batch has quantity_on_hand > 0"), a batch is only
\* added under a live product (AddBatchHandler re-reads it), and a deleted product is
\* neither updated nor deleted again ("a second call is a no-op", Product.SoftDelete).
\* And a change is announced exactly if the row changes.  A request that commits
\* between such a check or load and its write breaks each of them.
DeletedIsOver ==
    [][limit = 1 =>
         /\ \A b \in Adds : batches[b] = NoRow /\ batches'[b] # NoRow
               => ~products[batches'[b].product].deleted
         /\ \A p \in Creates : Live(p) /\ products'[p].deleted
               => \A b \in Adds : batches[b] # NoRow /\ batches[b].product = p
                                     => batches[b].onHand = 0
         /\ \A e \in outbox' \ outbox :
               e.type \in {"SoftDeleted", "Updated"} => Live(cmd[e.by].product)
         /\ (\E p \in Creates : products[p] # NoRow /\ products'[p] # products[p])
               <=> \E e \in outbox' \ outbox : e.type \in {"SoftDeleted", "Updated"}]_vars
====
