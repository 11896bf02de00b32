# LeadKart in TLA+

A verification project for LeadKart, a multi-tenant marketplace, CRM and back-office server for
pharmaceutical leads. The server is a modular monolith in Go: modules (`internal/platform`,
`identity`, `crm`, `tasks`, `inventory`, `orders`, `dispatch`, `notifications`) with aggregates, command handlers, Postgres
repositories and HTTP ports, joined by events that travel through an outbox table to subscribers in
a worker process.

The TLA+ modules model the parts of it where several actors share state. `PROJECT.json` gives the
source lines of every definition, the runs, the mutants, the hazards and the theorems.

## Conventions

* A request, a message delivery or a job is an in-flight handler with a program counter: `pc`, or
  `agentStep`, `step`, `loginStep`, `stage` in modules that share a run with another. It takes one step
  per SQL statement. `pg.Transactor` opens transactions at READ COMMITTED, so a read sees what is
  committed, a write or a `FOR UPDATE` waits for the row's lock and keeps it until the end of the
  transaction, and all writes appear together at the commit.
* `Abort` and `Fail` are a rollback forced from outside: a cancelled context, a lost connection, a
  crash of the process.
* Row lock, version column and unique index are modelled where the SQL has them and nowhere else:
  `FOR UPDATE` in `platform_leads`, `inventory.batches` and `dispatch.consignment_notes`; a version
  in `lead_credits` and `batches`; unique indexes as guards of the inserts. Everywhere else
  `UpdateByID` loads a row unlocked and later writes all its columns back.
* `limit`, a value of the constant `Limits`, is how many requests the server handles at the same
  time. It never changes. (A module that a run puts beside another one prefixes such names:
  `accountLimit`, `VerifyInit`, `ScanNext`.) A property that begins with `limit = 1 =>` is one that
  the code keeps only while requests on the row do not overlap; its comment says what overlapping
  requests do, and "Known divergences" below lists them. Properties without that guard hold however
  requests overlap.
* The outbox is the set (or the sequence, or the count) of events ever written, since the modules
  write an event in the transaction of its row and never read it back.
* An operator under a comment that begins with "Fault" is not used by the specification. It is a
  plausible defect of the definition that follows it; a run in which it takes that definition's place
  violates the property that `PROJECT.json` names, so the property would notice the defect.
* `TypeOK` is the type invariant of each module. It is not a property of its own in a run: it is the
  first conjunct of the module's main invariant, or of the state part of its main property.
* A property of the form `[][I' /\ A]_vars` says that every step leaves `I` true, as it is of the
  initial rows, and is an `A`: what a row is and what may happen to it are one claim.
* Bounds are constants named `Max...` or the sizes of the request sets. A clock, a retry counter or a
  version never runs past them.

## Parts of the system

| Part (source) | Module | Status |
|---|---|---|
| Lead marketplace, credit wallets (`internal/platform`) | `Marketplace`, `LeadMarket`, `MarketplaceRefinement`, `MarketplaceProofs` | modelled, proved |
| Verification queue (`internal/platform`) | `Verification`, `GatewayVerificationAndScansProofs` | modelled, proved |
| Outbox, forwarder, router, inbox, dead letters (`internal/common/messaging`, `cmd/worker`) | `Messaging`, `MessagingAndWindowsProofs` | modelled, safety proved |
| Purchase to CRM lead, across platform, messaging and CRM | `LeadFlow` | modelled |
| CRM leads and call logs (`internal/crm`) | `CrmLeads`, `CrmLeadsProofs` | modelled, proved |
| CRM reminders and the mature-lead scan (`internal/crm`) | `Reminders` | partly: reminders made by hand are left out |
| Work items, overdue scan, purge (`internal/tasks`) | `Tasks` | modelled |
| Tenants: registration, lifecycle, settings (`internal/identity`) | `Tenants`, `TenantsAndAccountsProofs` | modelled, proved |
| Memberships and user management (`internal/identity`) | `Memberships`, `PermissionRequestsProofs` | modelled, proved |
| Permission requests and the resolver (`internal/identity`) | `PermissionRequests`, `PermissionRequestsProofs` | modelled, proved |
| Roles and role hierarchy (`internal/identity`) | `RoleHierarchy` | modelled |
| Refresh-token sessions (`internal/identity`) | `Sessions`, `SessionsProofs` | modelled, proved |
| Accounts: password, e-mail, suspension, erasure (`internal/identity`) | `Accounts`, `TenantsAndAccountsProofs` | partly: the erasure's walk over memberships is left out; proved |
| Login lockout (`internal/identity`) | `Lockout`, `MessagingAndWindowsProofs` | modelled, proved |
| Access tokens, security stamps, their cache (`internal/identity`, `internal/common/cache`) | `Gateway`, `GatewayVerificationAndScansProofs` | modelled, proved |
| Impersonation (`internal/identity`) | `Gateway`, `GatewayVerificationAndScansProofs` | partly: its audit rows are left out; proved |
| HTTP idempotency (`internal/common/idempotency`) | `Idempotency`, `MessagingAndWindowsProofs` | modelled, proved |
| List queries and pagination (`internal/common/pagination` and the lists of every module) | `Paging` | partly: queries without pages are left out |
| Products, batches, stock ledger (`internal/inventory`) | `Inventory` | modelled |
| Expiry and reorder scans (`internal/inventory/app/jobs`) | `StockAlerts`, `GatewayVerificationAndScansProofs` | modelled, proved |
| Quotations, orders, invoices, payments (`internal/orders`) | `Sales`, `SalesAndDispatchProofs` | modelled: aggregates only, as in the code; proved |
| Notifications (`internal/notifications`) | `Inbox`, `MessagingAndWindowsProofs` | modelled: aggregates only, as in the code; proved |
| Consignment notes (`internal/dispatch`) | `Dispatch`, `SalesAndDispatchProofs` | modelled, proved |
| Lead forms, audit log, HTTP layer, gateways, value objects, wiring, generated SQL | | not modelled, see below |

How they interact. A module's transaction leaves events in `common.outbox`; `Messaging` is the way
from there to a subscriber's commit. The other modules take from it that a message may be delivered
again, also while an earlier delivery is handled: the wallet creation in `Marketplace` (`Inits`), the
cascades in `Sessions`, the invalidations in `Gateway`, and the deliveries in `CrmLeads`, `Reminders`
and `Tasks`. The subscriber of `Dispatch` is written for that too, but no host registers it and nothing
publishes the event of a packed order yet, so `Dispatch` only says that a caller may call again. A verified contact (`Verification`) becomes a lead that `Marketplace` sells; a
purchase becomes a lead of `CrmLeads`; a logged call becomes a reminder and a task. `LeadFlow` puts
market, messaging and ingestion together. `PermissionRequests` extends `Memberships`: an approval is a
write to both. A stamp that `Accounts` rotates is what `Gateway` compares.

## The modules

**Marketplace.** State: `lead_credits`, `lead_purchases`, the outbox, the two kinds of row lock, and
per handler the aggregate it loaded, its command, its attempts. Actions: `PurchaseLeadHandler` in six
steps (load the wallet, charge it with the version test, read the lead, lock it, record the sale,
commit) with retry on `ErrConflict`; `TopupLeadCreditsHandler`; `InitialiseLeadCreditsHandler` behind
the `TenantRegistered` subscriber; `Abort`. int64 addition wraps at `MaxInt64` as Go's does.
`LeadMarket` is what the marketplace promises: balances and sets of buyers, and a purchase that moves
a credit and a buyer in one step. `MarketplaceRefinement` maps one to the other.

**Verification.** An `UnverifiedContact` row with its state, lead, window and reason; verify (guard
read, load, update, insert of the lead, event), reject, log a call (the call is validated only after
the row was updated), create.

**Messaging.** The outbox rows, the in-process channel, the subscriptions, and for every handler the
message it works on: inbox check, audit, attempts with a retry budget, the handler's commit, the inbox
row, poison queue and dead letters. `Crash` and a graceful shutdown lose what the channel holds.

**LeadFlow.** The composition. The market is the abstract `LeadMarket`, which stands for `Marketplace`
because `MarketplaceRefines` is proved; its `Buy` and the outbox rows of both events of a purchase are
one step, as they are one transaction. Where `Messaging` has a handler at "run", the steps of
`CrmLeads`' ingestion happen one by one, and a crash, a cancelled context or a failed statement (the
COMMIT included) may come between any two of them.

**Sessions.** The families and tokens of one person: login, `Refresh` with rotation, reuse detection
and the checks after the rotation, logout, revocation of one session, sign-out of all, and the
subscriber that revokes every family after a security change.

**Accounts, Lockout.** The `Person` aggregate behind `PersonRepository.UpdateByID`, and the three
lockout columns, which a login attempt writes by itself and every other update writes back.

**Tenants.** Registration in its steps (checks, one transaction for tenant, administrator and
membership, then one per seeded role), the administrator's updates, and the operator's suspension,
reactivation, scheduled deletion, restoration and hard deletion, which guards, loads and writes back
without a lock. The guard asks for an active super administrator in the tenant. One membership per
tenant, its first, stands for those that decide this: `UpdateMembership` gives it any standing that a
command on memberships can leave (active or not, super administrator or not), at any time. A person
whose membership is not active may register another tenant.

**Memberships, PermissionRequests, RoleHierarchy.** A membership with status, manager, profile, roles
and permission overlay, loaded with three SELECTs and written back whole under two unique
indexes; `EffectivePermissions` is the resolver. A request for a permission with its gates, its
decision and the grant that an approval writes into the overlay in the same transaction. Roles with
their permissions, and the edges between them with the trigger that walks upwards and refuses a cycle
that it can see.

**Gateway.** Tokens with the stamp, expiry and impersonation claims they were minted with; the
read-through cache (a fill in flight, its generation fence, the lifetime of an entry); rotation,
invalidation by the worker, failures of Redis; the request gate; the in-memory impersonation sessions,
the token that is signed after the session was stored (`Mint`, which may fail and leaves the session),
and the restart that loses them.

**Idempotency.** Look-up, handler and store of one command id as separate steps, expiry, the loss of a
record, and replays.

**Paging.** One walk through one list while rows are inserted, changed, withdrawn and handed over. The
twelve lists differ in order, filter, cursor and clamping of the page size; each is translated from its
handler, query, repository and SQL statement.

**Sales, Inbox.** The aggregates of modules that have no handlers yet: calls come one after the other,
through the in-memory repositories that the code has. Document numbers are modelled by what their
formatting and parsing do to the year and the sequence, on both sides of a turn of the century.

**Inventory, StockAlerts.** Products (unlocked), batches (`FOR UPDATE` and version), the movement
ledger with quantities of `Width` bits; the daily scans with their dedup ledger, which `river` retries.

**CrmLeads, Reminders, Tasks, Dispatch.** Aggregates with a state machine, made by subscribers under a
unique index, edited by users through `UpdateByID`, scanned by periodic jobs. Only `Dispatch` locks
the row it edits. What a packed order's message carries decides whether a note can be made of it
(`Contents`): without ids the call is refused at once, with boxes, weight or packer that no note may
have it is refused by `New`, and so it is once the expected delivery has passed (`Lapse`).

`MCLeads`, `MCIdentity`, `MCGoods`, `MCJobs`, `MCAuthz` and `MCPlatform` run several modules side by
side that share no variable: a behaviour exercises one of them, so the states of the run are the sum,
not the product, of theirs. They extend the modules, so a property of such a run is the very definition
that a theorem names; only `Tasks` (in `MCLeads`) and `Reminders` (in `MCJobs`) are instances.

## Runs

| Run (distinct states) | Instance | What it shows |
|---|---|---|
| `Marketplace` (91,154) | three purchases by three tenants of leads with a limit of two, of one and of a free tier, or a purchase, two top-ups and a twice delivered wallet creation of one tenant; a balance holds 2 bits | sale limit, atomic purchase at the scheduled price, ledger, refinement of `LeadMarket`, every begun request ends |
| `Messaging` (208,040) | `LeadFlow` with one purchase, its two events, one handler, one retry, one stop, one failed statement | inbox and audit rows tell the truth and there is no run after the inbox row; without a stop no event is lost and each settles; a purchase becomes one CRM lead |
| `Leads` (439,167) | `Verification`: one contact, its verifications, rejection and calls. `CrmLeads`: one purchase delivered twice and edits, three requests overlapping. `Tasks`: a call, two requests, both jobs, one failure | a decision is whole; one lead per purchase, announced iff in the history; one open task per source, every state announced. One at a time: decisions, ends and closed tasks are final |
| `Identity` (401,333) | `Sessions`: two logins, two refreshes, the revocations. `Accounts`: three requests of any kind. `Lockout`: three attempts or updates on a clock of six ticks | chains are linked; locks belong to counts; credential changes are announced and rotate the stamp. One at a time: a compromise ends every session, ends and erasures are final, only the newest reset token works |
| `Authz` (603,270) | three requests, two of them overlapping, or one failure, on two members and a third to be created, two elevation requests, three roles | effective permissions are justified by roles, overlay and time; one active membership per person; approval and grant are one; one parent per role. One at a time: one decision, no cycle, nothing of a deleted role |
| `Platform` (778,779) | `Tenants`: two registrations, four calls, two slugs. `Gateway`: a stamp that rotates once, three logins and impersonations, two requests, four units of time. `Idempotency`: two ids, two bodies, two runs | a registered tenant is whole and its slug its own; a tenant that always had an active super administrator stays active; the lifecycle follows its edges and its guard one call at a time; an impersonation is over when its session would be, has no rights on the platform and cannot be extended by another one; an old token is refused after a bounded time; a replay answers the same command. One at a time: a command id takes effect once while its record lives |
| `Goods` (472,798) | `Inventory`: four requests in turn, or two overlapping movements. `StockAlerts`: two scans, two tenants, two days. `Sales`, `Inbox`, `Paging`: one quotation, order, list | the ledger replays to the stock; complete scans with one alert per day; an order tells its path; documents are unique; one notice per window; a walk shows every standing row once. One at a time: no batch or stock under a deleted product |
| `Jobs` (156,193) | `Tasks`: a conversion, two requests, batches of one, one failure. `Reminders`: a call, two mature leads, an edit, one failure | late tasks are flagged and old ones purged; every mature lead within the scan's limit is reminded |
| `DispatchNotes` (175,712) | two calls for an order with any content, three transitions of which two overlap, one failure | one note, the outbox tells its path, every begun call and transition is answered |
| `StockAlertsScope` | the scan as a role that row-level security binds | violated: the scan completes and sees nothing |
| `TenantGrace` | `Tenants` as in `Platform` | violated: a scheduled tenant is deleted before its grace period is over |
| `CacheFence` | `Gateway` as in `Platform` | violated: a read that began before the rotation fills the cache after the invalidation |

Why the bounds are enough. A race on one row needs two writers and, for a stale copy to matter, a
third request that commits in between; the runs have those. The sale limits are 2, a tier's default,
and 1, a lead's own, so that three buyers meet both limits with a free place and without. Retry budgets are 1 or 2: first failure, last
attempt, exhaustion. Small machine words (2 and 3 bits) reach the wrap. Batches of one row make every
job run a full batch. In `Gateway` a login's token lives two units, and a session, an entry of the
cache, the leeway of the verifier and a read of the source one each: a session ends before, with or
after the token that began it, the last one begins in the leeway, and a clock of four is still running
when that session's own leeway is used. In `Lockout` window and lock are two units and the clock six: two
failures lock the account, and the third attempt comes during the lock or after its end. `LeadFlow` has one purchase
because a handler works on one message at a time and two purchases share no row behind it.

Where a run restricts which requests come together, the restriction is on requests that nobody has to
send, on time and on failures, never on a step of a handler that has begun. The operator `Scope` of the
MC modules says it; what it leaves out is this.

* `MCIdentity`: requests on sessions overlap for one session and one request that revokes it; a
  sign-out and a security change come with requests in turn, one of the two per behaviour. One token
  expires.
* `MCLeads`: requests on a lead overlap up to `MaxOverlapping`, and one request on a contact stays
  unsent where they overlap; a statement on a task fails while there is one task and no overlap.
* `MCMarketplace`: where all three purchases are sent, none is of the lead of the free tier, and the
  third is of a lead that one of the others wants.
* `MCPlatform`: the third login or impersonation of a behaviour comes without a rotation or a failure.
* `MCTenants` (also in `MCPlatform`): time and a failure come apart, and not with overlap; one part of
  the tenant stands for all of them where requests overlap and in the fourth request.
* `MCAuthz`: time and a failure come apart, and not with overlap; the third of three overlapping edits
  comes after a request for a permission.
* `MCGoods`: quotations, the states of an order and the documents one by one; requests overlap as
  movements of one batch; a list narrowed to a member begins with rows that satisfy its query.
* `MCDispatch`: the transitions start in a fixed order and two of the three overlap; where a message
  carries something else than a fit note, there is one transition.

`CONSTRAINT` is used only in runs without liveness; `MCDispatch` restricts its next-state relation
instead, by transitions that nobody has to start, as `MCMarketplace` does by requests. Symmetry, too, is used only in runs without liveness, over sets whose
elements are interchangeable; where many requests are, they start in a fixed order instead.

Deadlock is not checked in runs with a bounded set of requests: when all are answered the instance
has nothing left to do. `Jobs` has periodic jobs and is checked.

Fairness is weak, and only on what the code's scheduling keeps going: the steps of a handler that has
begun (a goroutine on a live connection), the forwarder's poll loop, the restart of a stopped worker,
the next run of a periodic `river` job, and in `Messaging` the redelivery of a message that was not
acknowledged. No user has to send a request, no time has to pass and nothing has to fail. `Dispatch` has
no fairness for its calls: nothing in the programs repeats one, and the handler does not repeat itself.

## Proofs

Eight modules hold the theorems. Each holds for every value of the constants that the assumption of its
component allows: sets of tenants, requests, messages and rows of any size, lifetimes, limits, widths
and retry budgets of any number. The assumptions say that markers for "no row" and the like are none of
the values they stand beside, that kinds of requests are disjoint, that the tables that give a delivery
its order or a subject its tenant are functions, that bounds are natural numbers (positive where zero
would mean nothing), and that a set is finite where the code counts it. They are `ASSUME`s of the
component, or definitions (`GatewayAssumption`, `VerificationAssumption`, `LockoutAssumption`,
`IdempotencyAssumption`, `AccountsAssumption`, `StockAlertsAssumption`) that the theorem assumes and the
MC module hands to TLC.

Every argument has the same form. The property is not inductive, because the danger is in what a handler
holds in memory. The inductive invariant adds what is true of those copies: unconditionally, what makes
a copy harmless whenever it is written back; under `limit = 1`, that the copy is the row. A lemma per
action, or per group of actions that change the same variables, shows that it is kept, and the property
follows from the invariant or, for an action property, from the invariant before and after the step.

**`MarketplaceProofs`**: `MarketplaceTypes` (no balance is negative, although addition wraps),
`NeverOversold` (`SaleLimitRespected`), `NeverSoldTwice`, `PurchasesAreAtomic` (`PurchaseIsAtomic`) and
`MarketplaceRefines` (`RefinesLeadMarket`). `MarketplaceInv` adds three facts: `LockInv`, a handler past
its charge holds the wallet row and one past its lead read holds the lead row; `WalletInv`, a handler
that holds the wallet row has in memory exactly what its command makes of the committed row, because
every committed write moves the version and the write that took the lock tested it; `PlaceInv`, a
handler that recorded a sale still finds a free place and is not yet among the buyers, because the lead
row is locked from before the buyers were read. `PriceInv` says the same of the price, which was
computed from the number of buyers there are now. The refinement follows: `PurchaseCommit` is `Buy`,
`TopupCommit` is `AddCredit` (`Add64Exact`: a balance that passed the column's CHECK did not wrap),
every other step stutters.

**`SalesAndDispatchProofs`**, two components.
* Consignment notes: `NoteIsUnique` (`OneNotePerOrder`), `OutboxTellsPath` (`AnnouncedPath`),
  `SentHasDocket` and the action property `FinishedStays`. A handler about to save holds the note's row
  lock and its copy is the committed note advanced along one edge. What the messages carry is arbitrary
  and may change with time; it decides whether there is a note, never how many.
* Sales: `OrdersTellTheirPath` (`OrderTellsItsPath`), `DocumentsAreNumberedOnce` (`DocumentsAreUnique`).
  An order's announced trail is a prefix of the state machine, its times and links are those of the
  states on the trail, and every number of a document is at most what its allocator gave out.

**`CrmLeadsProofs`**: `LeadsTellTheirStory` (`LeadTellsItsStory`), `EndsAreFinal` (`EndIsFinal`). A lead
is there iff its creation was announced, and is the only one of its purchase (the unique index); an
assignment is announced iff it is in a history; one edit at a time, the copy is the row and the history
leads from nobody to the assignee.

**`SessionsProofs`**: `ChainsAreLinked` (`ChainIsLinked`), `CompromiseIsContained`
(`CompromiseEndsSessions`), `EndsAreFinal` (`EndedStaysEnded`). However requests interleave, the stored
tokens and every copy about to be written are chains of generations that agree on family and generation.
One at a time, a copy is the stored family rotated once or revoked, an active family has one token that
is not consumed, and a cascade still has every earlier active family on its list.

**`MessagingAndWindowsProofs`**, four components.
* Messaging: `RecordsStayTrue` (`RecordsAreTrue`) and `NothingIsLost` (`AtLeastOnce`, the safety part of
  `EveryEventSettles`). A handler that is about to write the inbox row has carried the event out, one
  that runs has found no inbox row; while the worker was never stopped, what is published and not yet
  acknowledged has passed into every channel.
* Idempotency: `RetriesAreSafe` (`RetryIsSafe`). A record is the response of a run of its command; one
  at a time, the record of a run outlives its window or is about to be written, so nobody runs within it.
* Lockout: `LockoutAgrees` (`LocksAtLimit`). Not only the row but every copy has count and lock in
  agreement, so it does not matter which overlapping write is lost.
* Notifications: `NoticesAreApart` (`OneNoticePerWindow`).

**`TenantsAndAccountsProofs`**, two components.
* Tenants: `RegistrationsAreWhole` (`RegistrationIsWhole`), `LifecyclesAreObeyed` (`TenantLifecycle`).
  Tenant, administrator and membership are one transaction, and the partial unique index keeps one active
  membership per person. `exposed` collects the tenants that were ever without an active super
  administrator: a tenant outside it is active, and so is every copy of it about to be written, because
  a guarded command on it got past the guard only if it was already exposed. One at a time the copy is
  one edge ahead of the row, and nothing changed the standing that the guard read.
* Accounts: `CredentialChangesRotate` (`CredentialChangeRotatesStamp`), `ErasuresAreFinal`
  (`ErasureIsFinal`), `OnlyNewestResetsWork` (`OnlyNewestResetWorks`). Any two of the row and the copies
  in memory that carry one stamp carry the same credentials, so overwriting one by another changes the
  stamp whenever it changes a credential; each copy's credentials are announced, or will be by the commit
  that writes it; each erased one is inactive and nameless.

**`GatewayVerificationAndScansProofs`**, three components.
* Gateway: `ImpersonationsAreBounded` (`ImpersonationIsBounded`), `StaleStampsAreRefused`
  (`StaleTokensAreRefused`). A value in flight was replaced, if at all, after its read began, and a read
  takes at most `MaxFlight`; so an entry of the cache ends at most `StampTTL + MaxFlight` after its stamp
  was replaced, whatever invalidations were lost. A token that acts has the end of its session, a session
  was begun by a request whose token was from a login and not over when it was verified, and a request
  waits for at most one read; so the sums of the bounds add up for every choice of the lifetimes.
* Verification: `DecisionsAreWhole` (`DecisionIsWhole`), `DecisionsAreFinal` (`DecisionIsFinal`). Copies
  are whole decisions, too, and name a lead that is there or that their own commit adds; one at a time,
  the copy is what the row as it is now becomes.
* Stock scans: `ScansFollowTheirRole`, for both roles a pool can have. With `BypassesRLS` it is
  `ScanIsComplete`; without, as `leadkart_app` is created, no scan ever alerts anybody, which is what
  `StockAlertsScope` shows on an instance. The invariant is one for both: every subject that the role
  can see and that stayed due since the attempt began is alerted, among the rows in hand, or of a tenant
  that is still to be visited (`Covered`).

**`PermissionRequestsProofs`**: `EffectivesAreJustified` (`EffectiveIsJustified`), `ApprovalsAreGrants`
(`ApprovalGrants`). Every grant in a row or in a copy was written by an announced replacement of the
overlay or by an announced approval with that expiry; one at a time, a request that is being decided is
still pending.

Only model-checked:
* Liveness, which needs fairness and ENABLED: `RequestsFinish`, `EveryEventSettles` (its safety part is
  proved), `EveryMatureLeadReminded`, `JobsReachEveryTask`, `EveryCallIsAnswered`, the second half of
  `PurchaseBecomesLead`.
* What a fold or a recursion over data computes, which needs induction: `LedgerMatchesBalance`,
  `LedgerBalances`, `WalkIsExact`, and that `HierarchyIsForest` has no cycle.
* No proof written yet: `ClosedStaysClosed` (`Tasks`), `DeletedIsOver` (`Inventory`), and the first half
  of `PurchaseBecomesLead`, whose market rests on the proved refinement.

## Known divergences

Where the code and one of its comments, ADRs or migrations disagree. The first three are runs;
the others are met by giving a run other values: `Limits = {2}` and the property without `limit = 1 =>`,
or what the entry says.

* **Stock scans see no tenant** (`StockAlertsScope`). `internal/inventory/app/jobs/jobs.go:9` says "Both
  run platform-scope (no tenant GUC binding) so they see all tenants". `AlertScanRepository`
  (`adapters/alert_scan_pg.go:37`) queries the pool without `app.is_platform`, so as `leadkart_app`,
  which is created without BYPASSRLS, row-level security hides every row.
* **Hard deletion does not wait** (`TenantGrace`). The comment of the command asks for the end of the
  grace period; no step of `HardDeleteTenantHandler` or of the aggregate compares a time. The row itself
  then stays, with status "deleted": the `DELETE` meets foreign keys without CASCADE.
* **The cache's fence** (`CacheFence`). The facade's contract says that a load which began before an
  invalidation does not fill the cache after it. The fence is a counter in the memory of the process
  that loads; the invalidation runs in the worker. The entry's lifetime ends it (`StaleTokensAreRefused`).
* **A wallet made twice at once.** `initialise_lead_credits.go:84`: "A concurrent insert won the race —
  re-load + treat as "already existed"". The unique violation is not turned into `ErrConflict`, and the
  handler returns an error (`duplicateKey` in `Marketplace`); the next delivery succeeds.
* **A consignment note made twice at once.** `create_consignment_note.go:112` says the same, but re-loads
  in the transaction that the violation aborted (`aborted` in `Dispatch`); the next call finds the note.
* **Packed orders.** `order_packed.go:82` takes every error of the command for "DB hiccup or transient".
  An order whose message `New` refuses never gets a note, whoever repeats the call
  (`EveryCallIsAnswered`); and no host registers the subscriber yet.
* **Price of a free tier.** `pricing.go:30`: "The result is always >= 1 paisa". It is 0 when the tier's
  base price is 0, which the table allows; `RecordPurchase` then refuses the sale.
* **At-least-once delivery.** ADR 0008: "Outbox-in-Postgres guarantees at-least-once delivery". The row
  is deleted once its event is in an in-process channel, whose content a stop loses, and which drops an
  event that nobody subscribes to yet (`stops > 0` and `missed` in `EveryEventSettles` and `PurchaseBecomesLead`).
  `router.go:165` expects a cancelled message to be "redelivered next run".
* **Double verification.** `verify_unverified_contact.go:84` guards against "a phantom marketplace row".
  Two overlapping verifications both pass the guard, and an update that loaded the contact earlier
  overwrites a decision (`DecisionIsFinal`).
* **Sessions.** `family.go:70`: "exactly one such token at any time on a non-revoked family"; two
  overlapping refreshes of one token both rotate it (`ChainIsLinked`). A rotation that overlaps a
  revocation writes `revoked_at` back (`EndedStaysEnded`). A login between its password check and its
  insert is not seen by the cascade (`CompromiseEndsSessions`).
* **Accounts.** `person.go:718` calls erasure irreversible and `:483` a reset single-use; an update that
  loaded the row earlier undoes the one and repeats the other (`ErasureIsFinal`,
  `OnlyNewestResetWorks`). `person.go:851`: "lockedUntil is otherwise cleared only on successful login";
  every update that loaded the account before the lock writes the columns back. `person.go:726` says
  that the login flow must reject suspended persons; no step of it reads that column.
* **Inventory.** `add_batch.go:44` and `delete_product.go:15` promise checks that a request committing
  between the check and the write passes by, and overlapping deletions are both announced
  (`DeletedIsOver`).
* **CRM leads.** `crmlead.go:139` and `log_call.go:14` call ends final; overlapping edits and calls pass
  them by (`EndIsFinal`).
* **Reminders and tasks.** The partial unique indexes cover pending or open rows only, so a call
  delivered again after its reminder or task ended makes another. `reminder.go:14` calls its state
  machine strict and `state.go:9` closed tasks terminal; overlapping updates overwrite both
  (`ClosedStaysClosed`).
* **Mature leads beyond the limit.** `mature_lead_scan.go:41`: "Subsequent runs pick up the rest". The
  query does not leave out leads that have a reminder, so every run gets the same first rows.
  `EveryMatureLeadReminded` is about those.

* **Registration.** `register_tenant.go:350` calls a failure between the tenant's commit and its roles
  recoverable by running the command again with the same id; the handler mints a new id each time, and
  slug and e-mail are taken. `RegistrationIsWhole` promises the roles for a registration that succeeded
  only.
* **Tenants, memberships, roles, requests.** An update that loaded the row earlier writes an old status
  back, brings back a role assignment or repeats a decision (`TenantLifecycle`, `EffectiveIsJustified`,
  `ApprovalGrants`); a super administrator who is made between the guard of a suspension or deletion
  and its update does not stop it, and nothing keeps the last one of the platform tenant
  (`TenantLifecycle`); two edges whose triggers do not see each other close a cycle (`HierarchyIsForest`).
* **Managers.** `membership.go` says that the application detects cycles of managers;
  `AssignUserManagerHandler` (`user_authz.go:250`) does not, and the hierarchy query of the tasks module
  walks with UNION ALL and without a depth.
* **Ancestors' permissions.** ADR 0054 and 0058 give a role the permissions of its ancestors; the
  resolver does not read the hierarchy, and `EffectivePermissions` is translated from it.
* **The approver's queue.** `ListPendingApprovableBy` asks for pending requests of an approver, but the
  approver is written with the decision, so the list is always empty. It is left out of `Paging`.
* **Stamp invalidation.** `SecurityStampCache.Invalidate` lists the lifted suspension among its events;
  no handler is registered for it.
* **Idempotency.** `cmd/api/main.go:355` says that authentication runs before the middleware; it runs per
  route, after it, so the scope of a command id is the client's address. `Purge` has no caller.
* **Order links.** `order/state.go` calls self-transitions no-ops; a second `AttachInvoice` or
  `AttachConsignment` replaces the link (`OrderTellsItsPath`).
* **Product filters.** The repository does not hand the filters on dosage form and manufacturer to the
  query.
* **Connections.** `SetRoleParent` and `AddBatch` read through a second connection of the pool while
  their unit of work holds one. The pool's size is not modelled.

## Not modelled

* Lead forms: one aggregate without a protocol. The audit log: appended and deleted by age, never read
  back. HTTP ports and the rest of the middleware (rate limits, CORS, logging), password hashing, value
  objects: request-local or pure. E-mail and realtime gateways: outside services. Search and read models
  change nothing. Generated queries are modelled through the SQL they are generated from.
* The erasure's walk over memberships, and reminders made by hand, which repeat the actions of
  `Memberships` and `Reminders`.
* The row-level-security scope, except where a job runs without one.
* The in-process level of the hybrid cache: no instance in the programs turns it on.

## Plan

Proofs: `Tasks` (`ClosedStaysClosed`), `Inventory` (`DeletedIsOver`; the row lock and the version),
`RoleHierarchy` (one parent per role), and `LeadFlow` on top of `NothingIsLost`, with the refinement of
`LeadMarket` as the pattern. No module declares a RECURSIVE operator.

Models: `Verification` joined to `Marketplace` (a verified contact becomes one lead on sale), a logged
call joined to `Tasks` and `Reminders` as `LeadFlow` joins a purchase, and the handlers of orders and
notifications once they exist.
