---- MODULE Sales ----
(***************************************************************************)
(* The aggregates of the Orders module (internal/orders/domain): a         *)
(* quotation is revised and approved, an order goes through its states,    *)
(* invoices, credit notes and payments are added and never changed, and    *)
(* an allocator numbers the documents of a financial year.  The module has *)
(* no handlers and no database yet; calls reach the aggregates through the *)
(* in-memory repositories of the *test packages, one after the other.      *)
(***************************************************************************)
EXTENDS Integers, Sequences, FiniteSets

CONSTANTS
    Quotes, SaleIds,  \* ids
    Lists,            \* lists of line items a caller may send
    Links,            \* ids of invoices and consignment notes
    References,       \* external references of payments
    Months,           \* moments, as months counted from January of year 0
    MaxRevisions,     \* bound: revisions of a quotation
    MaxDocuments,     \* bound: numbers that are allocated
    Missing

Kinds == {"invoice", "credit_note", "cancellation_note"}
Steps == <<"quotation_draft", "quotation_approved", "token_paid", "confirmed", "packed", "invoiced", "dispatched",
           "delivered", "complete">>
OrderStates == {Steps[i] : i \in 1 .. Len(Steps)} \cup {"cancelled"}
Milestones == OrderStates \ {"quotation_draft", "quotation_approved", "token_paid"}

QuoteStates == {"draft", "approved", "rejected"}
Quotations == [state : QuoteStates, revisions : Seq(Lists), approved : 0 .. MaxRevisions]

VARIABLES
    quotes,    \* quotations; approved is the revision that the approval announced
    sales,     \* orders
    trail,     \* the states that the events of an order announced, in order
    invoices, creditNotes, payments,
    sequence   \* of a financial year and a kind: the number allocated last

saleVars == <<quotes, sales, trail, invoices, creditNotes, payments, sequence>>

-----------------------------------------------------------------------------
(* Values.                                                                  *)

\* LineItem.Validate
Validate(item) ==
    /\ item.quantity > 0 /\ item.sale > 0
    /\ item.mrp > 0 => item.sale <= item.mrp
    /\ item.bps \in 0 .. 10000

Acceptable(list) == list # <<>> /\ \A i \in DOMAIN list : Validate(list[i])

\* Tax is rounded down line by line.
computeTotals(list) ==
    LET amount(i) == list[i].sale * list[i].quantity
        tax(i) == (amount(i) * list[i].bps) \div 10000
        sum[i \in 0 .. Len(list)] == IF i = 0 THEN [subtotal |-> 0, tax |-> 0]
                                     ELSE [subtotal |-> sum[i - 1].subtotal + amount(i), tax |-> sum[i - 1].tax + tax(i)]
    IN sum[Len(list)]

\* invoicenumber.FromDate: the year begins in April and is named by two years, the second
\* by its last two digits.
FromDate(month) ==
    LET year == IF month % 12 < 3 THEN month \div 12 - 1 ELSE month \div 12
    IN <<year, (year + 1) % 100>>

\* ParseFinancialYear accepts a pair of a year of four digits and the tail that follows it.
LastYear == 9999
ParseFinancialYear(fy) == fy[1] \in 0 .. LastYear /\ fy[2] = (fy[1] + 1) % 100

Totals == {computeTotals(list) : list \in {l \in Lists : Acceptable(l)}}
Amounts == {sums.subtotal + sums.tax : sums \in Totals}
Years == {FromDate(t) : t \in Months}

\* An order: the links and the times that its milestones left.
SaleRows == [quotation : Quotes, state : OrderStates, items : Lists, totals : Totals,
             invoice : Links \cup {Missing}, consignment : Links \cup {Missing}, stamped : SUBSET Milestones]
DocumentNumbers == [kind : Kinds, year : Years, seq : Nat]
InvoiceRows == [order : SaleIds, number : DocumentNumbers, total : Amounts]
CreditNoteRows == [invoice : DocumentNumbers, number : DocumentNumbers]
PaymentRows == [order : SaleIds, reference : References \cup {Missing}]

ASSUME SalesAssumption ==
    /\ MaxRevisions \in Nat \ {0}
    /\ \A t \in Months : t \in Nat /\ FromDate(t)[1] \in 0 .. LastYear
    /\ Missing \notin Links \cup References \cup Quotations \cup SaleRows

-----------------------------------------------------------------------------
(* Quotations.                                                              *)

\* Repository.Add and UpdateByID
PutQuote(q, row) == quotes' = [quotes EXCEPT ![q] = row] /\ UNCHANGED <<sales, trail, invoices, creditNotes, payments, sequence>>

NewQuotation(q, list) ==
    /\ quotes[q] = Missing /\ Acceptable(list)
    /\ PutQuote(q, [state |-> "draft", revisions |-> <<list>>, approved |-> 0])

Revise(q, list) ==
    /\ quotes[q] # Missing /\ Acceptable(list)
    /\ quotes[q].state = "draft" /\ Len(quotes[q].revisions) < MaxRevisions
    /\ PutQuote(q, [quotes[q] EXCEPT !.revisions = Append(@, list)])

\* The event names the current revision.
Approve(q) ==
    /\ quotes[q] # Missing /\ quotes[q].state = "draft"
    /\ PutQuote(q, [quotes[q] EXCEPT !.state = "approved", !.approved = Len(quotes[q].revisions)])

Reject(q) ==
    /\ quotes[q] # Missing /\ quotes[q].state = "draft"
    /\ PutQuote(q, [quotes[q] EXCEPT !.state = "rejected"])

-----------------------------------------------------------------------------
(* Orders.                                                                  *)

\* A state that is asked for again is announced no second time.
Announce(s, to) == trail' = [trail EXCEPT ![s] = IF @ # <<>> /\ @[Len(@)] = to THEN @ ELSE Append(@, to)]

\* Repository.Add and UpdateByID
PutSale(s, row) ==
    /\ sales' = [sales EXCEPT ![s] = row]
    /\ Announce(s, row.state)
    /\ UNCHANGED <<quotes, invoices, creditNotes, payments, sequence>>

\* The caller hands over the items of the quotation; New does not look at the quotation.
NewSale(s, q, list) ==
    /\ sales[s] = Missing /\ Acceptable(list)
    /\ PutSale(s, [quotation |-> q, state |-> "quotation_approved", items |-> list, totals |-> computeTotals(list),
                   invoice |-> Missing, consignment |-> Missing, stamped |-> {}])

IsTerminal(state) == state \in {"complete", "cancelled"}

\* Fault: a state may be skipped.
MayAdvanceSkipping(cur, to) == \E i, j \in 1 .. Len(Steps) : i < j /\ cur = Steps[i] /\ to = Steps[j]

MayAdvance(cur, to) == \E i \in 1 .. Len(Steps) - 1 : cur = Steps[i] /\ to = Steps[i + 1]

Accepts(o, to) == o.state = to \/ (~ IsTerminal(o.state) /\ MayAdvance(o.state, to))
Stamped(o, to) == [o EXCEPT !.state = to, !.stamped = @ \cup ({to} \cap Milestones)]

\* RecordTokenPayment, Confirm, MarkPacked, MarkDelivered, MarkComplete
AdvanceSale(s, to) ==
    /\ sales[s] # Missing /\ Accepts(sales[s], to)
    /\ PutSale(s, Stamped(sales[s], to))

\* The link is written whether or not the state changed: a repetition with another id
\* replaces it and announces nothing.
AttachInvoice(s, link) ==
    /\ sales[s] # Missing /\ Accepts(sales[s], "invoiced")
    /\ PutSale(s, [Stamped(sales[s], "invoiced") EXCEPT !.invoice = link])

AttachConsignment(s, link) ==
    /\ sales[s] # Missing /\ Accepts(sales[s], "dispatched")
    /\ PutSale(s, [Stamped(sales[s], "dispatched") EXCEPT !.consignment = link])

Cancel(s) ==
    /\ sales[s] # Missing /\ ~ IsTerminal(sales[s].state)
    /\ PutSale(s, Stamped(sales[s], "cancelled"))

-----------------------------------------------------------------------------
(* Documents.                                                               *)

\* The allocator counts up; a number whose document is refused afterwards is lost.
Allocate(fy, kind) ==
    /\ Cardinality({p \in (DOMAIN sequence) \X (1 .. MaxDocuments) : p[2] <= sequence[p[1]]}) < MaxDocuments
    /\ sequence' = [sequence EXCEPT ![<<fy, kind>>] = @ + 1]

NumberOf(fy, kind) == [kind |-> kind, year |-> fy, seq |-> sequence[<<fy, kind>>] + 1]

\* Fault: an order may have two invoices.
InvoicedNever(s) == FALSE

Invoiced(s) == \E i \in invoices : i.order = s

\* Allocate, invoice.New, Repository.Add: New refuses a total that does not add up.
AddInvoice(s, month, kind, total) ==
    LET fy == FromDate(month)
        sums == sales[s].totals
    IN
    /\ sales[s] # Missing
    /\ Allocate(fy, kind)
    /\ invoices' = IF kind = "invoice" /\ total = sums.subtotal + sums.tax /\ ~ Invoiced(s)
                   THEN invoices \cup {[order |-> s, number |-> NumberOf(fy, kind), total |-> total]}
                   ELSE invoices
    /\ UNCHANGED <<quotes, sales, trail, creditNotes, payments>>

Cancelled(i) == \E c \in creditNotes : c.invoice = i.number /\ c.number.kind = "cancellation_note"

\* A second cancellation of an invoice is refused; credit notes may follow each other.
AddCreditNote(i, month, kind) ==
    LET fy == FromDate(month) IN
    /\ Allocate(fy, kind)
    /\ creditNotes' = IF /\ kind \in {"credit_note", "cancellation_note"}
                         /\ kind = "cancellation_note" => ~ Cancelled(i)
                      THEN creditNotes \cup {[invoice |-> i.number, number |-> NumberOf(fy, kind)]}
                      ELSE creditNotes
    /\ UNCHANGED <<quotes, sales, trail, invoices, payments>>

Received(reference) == reference # Missing /\ \E i \in DOMAIN payments : payments[i].reference = reference

\* A retried receipt with the same external reference is refused.
AddPayment(s, reference, received, recorded) ==
    /\ recorded >= received /\ Len(payments) < MaxDocuments
    /\ ~ Received(reference)
    /\ payments' = Append(payments, [order |-> s, reference |-> reference])
    /\ UNCHANGED <<quotes, sales, trail, invoices, creditNotes, sequence>>

-----------------------------------------------------------------------------
(* Specification.                                                           *)

SaleInit ==
    /\ quotes = [q \in Quotes |-> Missing] /\ sales = [s \in SaleIds |-> Missing] /\ trail = [s \in SaleIds |-> <<>>]
    /\ invoices = {} /\ creditNotes = {} /\ payments = <<>> /\ sequence = [k \in Years \X Kinds |-> 0]

SaleNext ==
    \/ \E q \in Quotes : Approve(q) \/ Reject(q) \/ \E list \in Lists : NewQuotation(q, list) \/ Revise(q, list)
    \/ \E s \in SaleIds :
          \/ Cancel(s)
          \/ \E q \in Quotes : \E list \in Lists : NewSale(s, q, list)
          \/ \E to \in {"token_paid", "confirmed", "packed", "delivered", "complete"} : AdvanceSale(s, to)
          \/ \E link \in Links : AttachInvoice(s, link) \/ AttachConsignment(s, link)
          \/ \E month \in Months : \E kind \in Kinds : \E total \in Amounts : AddInvoice(s, month, kind, total)
          \/ \E reference \in References \cup {Missing} : \E received, recorded \in Months :
                AddPayment(s, reference, received, recorded)
    \/ \E i \in invoices : \E month \in Months : \E kind \in Kinds : AddCreditNote(i, month, kind)

SaleSpec == SaleInit /\ [][SaleNext]_saleVars

-----------------------------------------------------------------------------
(* Properties.                                                              *)

SaleTypeOK ==
    /\ \A s \in SaleIds : sales[s] # Missing => sales[s] \in SaleRows
    /\ \A q \in Quotes : quotes[q] # Missing => quotes[q] \in Quotations
    /\ invoices \subseteq InvoiceRows /\ creditNotes \subseteq CreditNoteRows /\ payments \in Seq(PaymentRows)

\* The events of an order tell its whole way, one step of the machine after the other
\* ("Strict machine, no skips/backtracking", order.State) and ending in its state; it
\* carries a time for each milestone it passed and no other, an invoice since it was
\* invoiced and a consignment note since it was dispatched, also after a cancellation.
OrderTellsItsPath ==
    /\ SaleTypeOK
    /\ \A s \in SaleIds : sales[s] # Missing =>
          LET visited == {trail[s][i] : i \in DOMAIN trail[s]} IN
          /\ trail[s][Len(trail[s])] = sales[s].state
          /\ \A i \in 1 .. Len(trail[s]) - 1 :
                trail[s][i] = Steps[i + 1] /\ (trail[s][i + 1] = Steps[i + 2] \/ trail[s][i + 1] = "cancelled")
          /\ sales[s].stamped = visited \cap Milestones
          /\ (sales[s].invoice # Missing) <=> "invoiced" \in visited
          /\ (sales[s].consignment # Missing) <=> "dispatched" \in visited

\* Every document has its own number, in a year that parses back; an order has one
\* invoice, an invoice one cancellation and an external reference one payment, and an
\* approved quotation stays at the revision its approval announced.
DocumentsAreUnique ==
    /\ \A i, j \in invoices \cup creditNotes :
          /\ i.number = j.number => i = j
          /\ ParseFinancialYear(i.number.year)
          /\ i.number.seq <= sequence[<<i.number.year, i.number.kind>>]
    /\ \A i, j \in invoices : i.order = j.order => i = j
    /\ \A c, d \in creditNotes : c.invoice = d.invoice /\ c.number.kind = "cancellation_note" /\ c.number.kind = d.number.kind
          => c = d
    /\ \A i, j \in DOMAIN payments : payments[i].reference # Missing /\ payments[i].reference = payments[j].reference
          => i = j
    /\ \A q \in Quotes : quotes[q] # Missing =>
          (quotes[q].state = "approved") <=> (quotes[q].approved = Len(quotes[q].revisions))
====
