---- MODULE Paging ----
(***************************************************************************)
(* The lists of the API (internal/common/pagination, ADR 0038): a client   *)
(* reads a list page by page while others write to it.  Each page is a new *)
(* query; the cursor in it is the sort value and the id of the last row    *)
(* that the client has seen.  The first page asks below a sentinel, or     *)
(* without a position.                                                     *)
(*                                                                         *)
(* A list has four layers: the HTTP handler (handleList...), the query     *)
(* handler, the repository and the SQL statement (...Page).  A behaviour   *)
(* is one walk through one list.                                           *)
(***************************************************************************)
EXTENDS Integers, Sequences, FiniteSets
LOCAL INSTANCE SequencesExt

CONSTANTS
    LastId, LastTime,  \* ids are 1 .. LastId and sort values 0 .. LastTime, in their order
    Callers,           \* members; they own rows
    Nobody,
    RawSizes,          \* values of page_size; 0 stands for none
    DefaultPageSize, MaxPageSize,
    MaxWrites,         \* bound: writes during a walk
    Absent, NoWalk,
    NoCursor, Blank    \* the zero cursor, and what it is encoded as

VARIABLES
    list,     \* which list the behaviour is about
    table,    \* its rows; kept: the row satisfies the condition of the query
    walk,     \* the client: what it asks for, its cursor and the ids it was shown
    always,   \* the rows that were to be listed ever since the walk began
    ever,     \* the rows that were to be listed at some time since
    writes    \* how many writes there were since

pageVars == <<list, table, walk, always, ever, writes>>

Standing == {"users", "leads", "reminders", "contacts", "marketplace", "tasks", "products", "batches"}
Returning == {"users", "leads", "tasks", "products"}
Narrowed == {"leads", "reminders", "tasks"}
Owned == Narrowed \cup {"userAudit", "myRequests"}
Directories == Standing \cup Owned \cup {"tenantAudit", "movements"}

Ids == 1 .. LastId
Cursors == [at : 0 .. LastTime, id : 1 .. LastId + 1]
TableRows(l) == [at : 0 .. LastTime, kept : IF l \in Standing THEN BOOLEAN ELSE {TRUE},
                 owner : IF l \in Owned THEN Callers ELSE {Nobody}]

\* A walk: the caller, whether they may read all rows, and the query parameters.
Walks(l) == [caller : IF l \in Owned THEN Callers ELSE {Nobody},
             readAll : IF l \in Narrowed THEN BOOLEAN ELSE {FALSE},
             assignee : {Nobody} \cup IF l \in Narrowed THEN Callers ELSE {},
             size : RawSizes, cursor : [json : Cursors] \cup {Blank},
             shown : Seq(Ids), done : {"no", "yes", "refused"}]

PageTypeOK ==
    /\ list \in Directories
    /\ table \in [Ids -> TableRows(list) \cup {Absent}]
    /\ walk \in Walks(list) \cup {NoWalk}
    /\ always \subseteq Ids /\ ever \subseteq Ids
    /\ writes \in 0 .. MaxWrites

-----------------------------------------------------------------------------
(* Package pagination.                                                      *)

ClampPageSize(n) == IF n <= 0 THEN DefaultPageSize ELSE IF n > MaxPageSize THEN MaxPageSize ELSE n

\* The text of a cursor keeps every digit of its time.
Encode(c) == IF c = NoCursor THEN Blank ELSE [json |-> c]
Decode(text) == IF text = Blank THEN NoCursor ELSE text.json

CursorOf(i) == [at |-> table[i].at, id |-> i]

\* Fault: the cursor is the row that was read to see whether there are more.
BuildPageBeyond(items, size) ==
    IF Len(items) > size
    THEN [items |-> SubSeq(items, 1, size), more |-> TRUE, next |-> Encode(CursorOf(items[size + 1]))]
    ELSE [items |-> items, more |-> FALSE, next |-> Blank]

BuildPage(items, size) ==
    IF Len(items) > size
    THEN [items |-> SubSeq(items, 1, size), more |-> TRUE, next |-> Encode(CursorOf(items[size]))]
    ELSE [items |-> items, more |-> FALSE, next |-> Blank]

\* What the repositories of CRM and tasks do instead of calling BuildPage.
CutPage(rows, size) ==
    LET hasMore == Len(rows) > size
        items == IF hasMore THEN SubSeq(rows, 1, size) ELSE rows
    IN [items |-> items, more |-> hasMore, next |-> IF hasMore THEN Encode(CursorOf(items[Len(items)])) ELSE Blank]

-----------------------------------------------------------------------------
(* The statements.  A position is a cursor, or NoCursor for NULL.           *)

Older(i, j) == table[i].at < table[j].at \/ (table[i].at = table[j].at /\ i < j)
Newer(i, j) == Older(j, i)

\* (at, id) < position and (at, id) > position
Below(i, p) == p = NoCursor \/ (p # NoCursor /\ (table[i].at < p.at \/ (table[i].at = p.at /\ i < p.id)))
Above(i, p) == p = NoCursor \/ (p # NoCursor /\ (table[i].at > p.at \/ (table[i].at = p.at /\ i > p.id)))

Existing(Where(_)) == {i \in Ids : IF table[i] = Absent THEN FALSE ELSE Where(table[i])}
FirstRows(rows, n) == SubSeq(rows, 1, IF n < Len(rows) THEN n ELSE Len(rows))

\* ORDER BY at DESC, id DESC LIMIT n; ORDER BY at ASC, id ASC LIMIT n
Descending(Where(_), p, n) == FirstRows(SetToSortSeq({i \in Existing(Where) : Below(i, p)}, Newer), n)
Ascending(Where(_), p, n) == FirstRows(SetToSortSeq({i \in Existing(Where) : Above(i, p)}, Older), n)

Every(r) == TRUE
Kept(r) == r.kept
OwnedBy(o) == {r \in TableRows(list) : o \in {Nobody, r.owner}}   \* NULL or equal

ListActiveMembershipsInTenantPage(p, n) == Descending(Kept, p, n)
ListAuditEventsByTenantPage(p, n) == Descending(Every, p, n)
ListAuditEventsByUserPage(u, p, n) == Descending(LAMBDA r : r.owner = u, p, n)
ListPermissionRequestsByRequesterPage(m, p, n) == Descending(LAMBDA r : r.owner = m, p, n)
ListCrmLeadsPage(assignee, self, p, n) ==
    Descending(LAMBDA r : r.kept /\ r \in OwnedBy(assignee) \cap OwnedBy(self), p, n)
ListPendingRemindersPage(assignee, p, n) == Ascending(LAMBDA r : r.kept /\ r \in OwnedBy(assignee), p, n)
ListUnverifiedContactsPage(p, n) == Descending(Kept, p, n)
MarketplaceBrowsePage(p, n) == Descending(Kept, p, n)
ListWorkItemsPage(assignee, self, p, n) ==
    Descending(LAMBDA r : r.kept /\ r \in OwnedBy(assignee) \cap OwnedBy(self), p, n)
ListProductsByTenantPage(p, n) == Descending(Kept, p, n)
ListBatchesByProductPage(p, n) == Descending(Kept, p, n)
ListMovementsByBatchPage(p, n) == Descending(Every, p, n)

-----------------------------------------------------------------------------
(* Repositories.  Some build the page, some hand its rows to the query      *)
(* handler.                                                                 *)

\* The position beyond every row: the year 9999 and the greatest id.
MaxCursor == [at |-> LastTime, id |-> LastId + 1]
OrSentinel(c) == IF c = NoCursor THEN MaxCursor ELSE c

ListForTenantPage(p, n) == ListActiveMembershipsInTenantPage(p, n)
ListByTenant(p, n) == ListAuditEventsByTenantPage(p, n)
ListByUser(u, p, n) == ListAuditEventsByUserPage(u, p, n)
ListByRequester(m, c, size) ==
    BuildPage(ListPermissionRequestsByRequesterPage(m, OrSentinel(c), size + 1), size)
ListLeadPage(assignee, self, c, raw) ==
    LET size == ClampPageSize(raw) IN CutPage(ListCrmLeadsPage(assignee, self, c, size + 1), size)
ListPagePending(assignee, c, raw) ==
    LET size == ClampPageSize(raw) IN CutPage(ListPendingRemindersPage(assignee, c, size + 1), size)
ReadUnverifiedContacts(c, n) == ListUnverifiedContactsPage(c, n)
MarketplaceBrowse(c, n) == MarketplaceBrowsePage(c, n)
ListWorkItemPage(assignee, self, c, raw) ==
    LET size == ClampPageSize(raw) IN CutPage(ListWorkItemsPage(assignee, self, c, size + 1), size)
ListProductPage(c, size) == BuildPage(ListProductsByTenantPage(OrSentinel(c), size + 1), size)
ListByProductPage(c, size) == BuildPage(ListBatchesByProductPage(OrSentinel(c), size + 1), size)
ListByBatchPage(c, size) == BuildPage(ListMovementsByBatchPage(OrSentinel(c), size + 1), size)

-----------------------------------------------------------------------------
(* Query handlers.                                                          *)

ListUsersPaged(c, raw) ==
    LET size == ClampPageSize(raw) IN BuildPage(ListForTenantPage(OrSentinel(c), size + 1), size)
ListAuditEventsByTenant(c, raw) ==
    LET size == ClampPageSize(raw) IN BuildPage(ListByTenant(OrSentinel(c), size + 1), size)
ListAuditEventsByUser(u, c, raw) ==
    LET size == ClampPageSize(raw) IN BuildPage(ListByUser(u, OrSentinel(c), size + 1), size)
ListMyPermissionRequests(m, c, raw) == ListByRequester(m, c, ClampPageSize(raw))
ListLeads(assignee, self, c, raw) == ListLeadPage(assignee, self, c, ClampPageSize(raw))
ListPendingReminders(assignee, self, c, raw) ==
    ListPagePending(IF self # Nobody THEN self ELSE assignee, c, ClampPageSize(raw))
ListUnverifiedContacts(c, raw) ==
    LET size == ClampPageSize(raw) IN BuildPage(ReadUnverifiedContacts(c, size + 1), size)
BrowseMarketplace(c, raw) ==
    LET size == ClampPageSize(raw) IN BuildPage(MarketplaceBrowse(c, size + 1), size)
ListWorkItems(assignee, self, c, raw) == ListWorkItemPage(assignee, self, c, ClampPageSize(raw))
ListProductsPage(c, raw) == ListProductPage(c, ClampPageSize(raw))
ListBatchesForProduct(c, raw) == ListByProductPage(c, ClampPageSize(raw))
ListMovementsForBatch(c, raw) == ListByBatchPage(c, ClampPageSize(raw))

-----------------------------------------------------------------------------
(* HTTP handlers.                                                           *)

Refusal == [items |-> <<>>, more |-> FALSE, next |-> Blank]

\* Only my rows, for a caller without read_all; asking for another assignee is refused.
SelfFilter(w) == IF w.readAll THEN Nobody ELSE w.caller
Forbidden(w) == SelfFilter(w) # Nobody /\ w.assignee \notin {Nobody, SelfFilter(w)}

handleListUsers(w) == ListUsersPaged(Decode(w.cursor), w.size)
handleListTenantAuditEvents(w) == ListAuditEventsByTenant(Decode(w.cursor), w.size)
handleListMyAuditEvents(w) == ListAuditEventsByUser(w.caller, Decode(w.cursor), w.size)
handleListPermissionRequests(w) == ListMyPermissionRequests(w.caller, Decode(w.cursor), w.size)
handleListLeads(w) ==
    IF Forbidden(w) THEN Refusal ELSE ListLeads(w.assignee, SelfFilter(w), Decode(w.cursor), w.size)
handleListReminders(w) ==
    IF Forbidden(w) THEN Refusal
    ELSE ListPendingReminders(w.assignee, SelfFilter(w), Decode(w.cursor), w.size)
handleListUnverifiedContacts(w) == ListUnverifiedContacts(Decode(w.cursor), ClampPageSize(w.size))
handleBrowseMarketplace(w) == BrowseMarketplace(Decode(w.cursor), ClampPageSize(w.size))
handleListWorkItems(w) ==
    IF Forbidden(w) THEN Refusal ELSE ListWorkItems(w.assignee, SelfFilter(w), Decode(w.cursor), w.size)
handleListProducts(w) == ListProductsPage(Decode(w.cursor), w.size)
handleListBatchesForProduct(w) == ListBatchesForProduct(Decode(w.cursor), w.size)
handleListBatchMovements(w) == ListMovementsForBatch(Decode(w.cursor), w.size)

Answer(w) ==
    CASE list = "users" -> handleListUsers(w)
      [] list = "tenantAudit" -> handleListTenantAuditEvents(w)
      [] list = "userAudit" -> handleListMyAuditEvents(w)
      [] list = "myRequests" -> handleListPermissionRequests(w)
      [] list = "leads" -> handleListLeads(w)
      [] list = "reminders" -> handleListReminders(w)
      [] list = "contacts" -> handleListUnverifiedContacts(w)
      [] list = "marketplace" -> handleBrowseMarketplace(w)
      [] list = "tasks" -> handleListWorkItems(w)
      [] list = "products" -> handleListProducts(w)
      [] list = "batches" -> handleListBatchesForProduct(w)
      [] list = "movements" -> handleListBatchMovements(w)

-----------------------------------------------------------------------------
(* The client and the writers.                                              *)

\* What the caller asked to see and may see.
Wanted(r, w) ==
    /\ r.kept
    /\ w.assignee \in {Nobody, r.owner}
    /\ list \in Owned /\ ~ w.readAll => r.owner = w.caller

WantedIds(t, w) == {i \in Ids : IF t[i] = Absent THEN FALSE ELSE Wanted(t[i], w)}

PageInit ==
    /\ list \in Directories
    /\ table \in [Ids -> TableRows(list) \cup {Absent}]
    /\ walk = NoWalk /\ always = {} /\ ever = {} /\ writes = 0

Open(w) ==
    /\ walk = NoWalk
    /\ walk' = w
    /\ always' = WantedIds(table, w) /\ ever' = WantedIds(table, w)
    /\ UNCHANGED <<list, table, writes>>

NextPage ==
    /\ walk # NoWalk /\ walk.done = "no"
    /\ LET page == Answer(walk)
       IN walk' = [walk EXCEPT !.shown = @ \o page.items, !.cursor = page.next,
                               !.done = IF page = Refusal /\ Forbidden(walk) THEN "refused"
                                        ELSE IF page.more THEN "no" ELSE "yes"]
    /\ UNCHANGED <<list, table, always, ever, writes>>

\* Others insert a row, change whether it satisfies the query, or hand it to another
\* member.  No list is sorted by something that changes.
Store(i, row) ==
    /\ walk # NoWalk /\ walk.done = "no" /\ writes < MaxWrites
    /\ table' = [table EXCEPT ![i] = row]
    /\ writes' = writes + 1
    /\ always' = always \cap WantedIds(table', walk) /\ ever' = ever \cup WantedIds(table', walk)
    /\ UNCHANGED <<list, walk>>

InsertRow(i, row) == table[i] = Absent /\ Store(i, row)

ChangeRow(i) ==
    /\ table[i] # Absent /\ list \in Standing
    /\ table[i].kept \/ list \in Returning
    /\ Store(i, [table[i] EXCEPT !.kept = ~ @])

HandOver(i, m) ==
    /\ table[i] # Absent /\ list \in {"leads", "tasks"}
    /\ m # table[i].owner
    /\ Store(i, [table[i] EXCEPT !.owner = m])

PageNext ==
    \/ \E c \in Callers \cup {Nobody}, all \in BOOLEAN, a \in Callers \cup {Nobody}, n \in RawSizes :
          LET w == [caller |-> c, readAll |-> all, assignee |-> a, size |-> n,
                    cursor |-> Blank, shown |-> <<>>, done |-> "no"]
          IN w \in Walks(list) /\ Open(w)
    \/ NextPage
    \/ \E i \in Ids :
          \/ \E row \in TableRows(list) : InsertRow(i, row)
          \/ ChangeRow(i)
          \/ \E m \in Callers : HandOver(i, m)

PageSpec == PageInit /\ [][PageNext]_pageVars

-----------------------------------------------------------------------------
(* A walk shows each row at most once and in the order of the list, only    *)
(* rows that the caller asked for and may see, and by its end every row     *)
(* that was to be listed all the time ("keyset", ADR 0038): whatever is     *)
(* inserted, withdrawn or handed over between two pages.                    *)
WalkIsExact ==
    /\ PageTypeOK
    /\ walk # NoWalk =>
          /\ \A k \in 1 .. Len(walk.shown) - 1 :
                IF list = "reminders" THEN Older(walk.shown[k], walk.shown[k + 1])
                ELSE Newer(walk.shown[k], walk.shown[k + 1])
          /\ \A k \in DOMAIN walk.shown : walk.shown[k] \in ever
          /\ walk.done = "yes" => \A i \in always : \E k \in DOMAIN walk.shown : walk.shown[k] = i

====
