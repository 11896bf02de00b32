---- MODULE Tenants ----
(***************************************************************************)
(* The life of a tenant (internal/identity): self-service registration,    *)
(* which writes tenant, administrator and membership in one transaction    *)
(* and seeds the catalogue of roles after it, one transaction per role;    *)
(* the updates of the administrator; and the operator's suspension,        *)
(* scheduled deletion, restoration and hard deletion.  A row is loaded     *)
(* without a lock and all of its columns are written back.  Of the         *)
(* memberships (module Memberships) the first of every tenant is here:     *)
(* whether it is active, and whether it holds the role of a super          *)
(* administrator.                                                          *)
(***************************************************************************)
EXTENDS Naturals, Sequences, FiniteSets

CONSTANTS
    TenantIds,      \* ids of tenants; Platform is the one of the operators
    Platform,
    Slugs,          \* slugs of the other tenants
    Admins,         \* people who register a tenant
    Catalogue,      \* seed.DefaultRoleCatalog, in its order
    Owner,          \* the CompanyOwner of the catalogue
    Values,         \* contents of a part of the row, reasons of a deletion
    Edited,         \* bound: the parts that are updated
    Calls,          \* requests of administrators and operators
    Limits,         \* bounds: how many requests are handled at the same time
    Grace,          \* the window between the schedule and the deletion (30 days)
    MaxTime,        \* bound: the clock
    MaxFailures,    \* bound: statements and processes that fail
    None

Statuses == {"pending", "active", "suspended", "pending_deletion", "deleted"}

Parts == {"profile", "statutory", "contact", "settings", "preferences"}

TenantRows == [slug : Slugs \cup {Platform}, status : Statuses, parts : [Parts -> Values \cup {None}],
               scheduled : 0 .. MaxTime \cup {None}, reason : Values \cup {None}]

ASSUME TenantsAssumption ==
    /\ Platform \in TenantIds /\ Edited \subseteq Parts
    /\ Catalogue \in Seq({Catalogue[i] : i \in DOMAIN Catalogue})
    /\ \E i \in DOMAIN Catalogue : Catalogue[i] = Owner
    /\ Limits \subseteq Nat /\ Grace \in Nat /\ MaxTime \in Nat /\ MaxFailures \in Nat
    /\ None \notin Nat \cup Values \cup Slugs \cup Admins \cup {Platform} \cup TenantRows
    /\ IsFiniteSet(Calls)

\* An update announces the part it changes.
Events == {"Registered", "Activated", "Suspended", "MarkedForDeletion", "Restored", "Deleted"}
              \cup Parts

VARIABLES
    limit,
    clock,
    tenants,    \* identity.tenants
    admin,      \* identity.tenant_memberships: the first member of a tenant
    active,     \* the tenants whose first member is active
    super,      \* the tenants whose first member has a role that is_super_admin
    exposed,    \* history: the tenants that were without an active super administrator
    seeded,     \* identity.roles of a tenant that the catalogue put there
    owner,      \* whether the first member has the role of the owner
    outbox,     \* events <<type, tenant>> of the last transaction (Messaging has the relay)
    pc, cmd,    \* of every request: where it is, <<command, tenant, argument>>
    mem,        \* the aggregate that a request has loaded and changed
    failures

vars == <<clock, tenants, admin, active, super, exposed, seeded, owner, outbox, pc, cmd, mem, failures>>

TypeOK ==
    /\ limit \in Limits /\ clock \in 0 .. MaxTime
    /\ \A t \in TenantIds : tenants[t] # None => tenants[t] \in TenantRows
    /\ admin \in [TenantIds -> Admins \cup {Platform, None}] /\ owner \in [TenantIds -> BOOLEAN]
    /\ active \subseteq TenantIds /\ super \subseteq {Platform} /\ exposed \subseteq TenantIds
    /\ seeded \in [TenantIds -> SUBSET {Catalogue[i] : i \in DOMAIN Catalogue}]
    /\ pc \in [Calls -> {"idle", "register", "seed", "own", "guard", "load", "save", "erase",
                         "registered", "over"}]
    /\ failures \in 0 .. MaxFailures

Goto(c, next) == pc' = [pc EXCEPT ![c] = next] /\ UNCHANGED <<cmd, mem>>
Finish(c) ==
    pc' = [pc EXCEPT ![c] = "over"] /\ cmd' = [cmd EXCEPT ![c] = None] /\ mem' = [mem EXCEPT ![c] = None]
Running == {c \in Calls : pc[c] \notin {"idle", "registered", "over"}}
Start(c, command, t, x, next) ==
    /\ pc[c] = "idle" /\ Cardinality(Running) < limit
    /\ cmd' = [cmd EXCEPT ![c] = <<command, t, x>>]
    /\ pc' = [pc EXCEPT ![c] = next]
    /\ UNCHANGED mem

-----------------------------------------------------------------------------
(* The aggregate.  A method that refuses returns None.                      *)

New(s) == [slug |-> s, status |-> "pending", parts |-> [p \in Parts |-> None], scheduled |-> None, reason |-> None]

Activate(t) ==
    CASE t.status = "active" -> t
      [] t.status \in {"pending", "suspended"} -> [t EXCEPT !.status = "active"]
      [] OTHER -> None

Suspend(t) ==
    CASE t.status = "suspended" -> t
      [] t.status \in {"pending", "active"} -> [t EXCEPT !.status = "suspended"]
      [] OTHER -> None

MarkForDeletion(t, why, now) ==
    CASE t.status \in {"active", "suspended"} ->
            [t EXCEPT !.status = "pending_deletion", !.scheduled = now, !.reason = why]
      [] t.status = "pending_deletion" /\ t.reason = why -> t
      [] OTHER -> None

RestoreFromDeletion(t) ==
    CASE t.status = "active" -> t
      [] t.status = "pending_deletion" -> [t EXCEPT !.status = "active", !.scheduled = None, !.reason = None]
      [] OTHER -> None

HardDelete(t) ==
    CASE t.status = "deleted" -> t
      [] t.status \in {"pending_deletion", "pending"} -> [t EXCEPT !.status = "deleted"]
      [] OTHER -> None

\* The only update that does not look at the status.
UpdateProfile(t, v) == [t EXCEPT !.parts["profile"] = v]

UpdateStatutory(t, v) == IF t.status = "deleted" THEN None ELSE [t EXCEPT !.parts["statutory"] = v]

UpdateAdminContact(t, v) == IF t.status = "deleted" THEN None ELSE [t EXCEPT !.parts["contact"] = v]

UpdateSettings(t, v) == IF t.status = "deleted" THEN None ELSE [t EXCEPT !.parts["settings"] = v]

UpdateDisplayPreferences(t, v) == IF t.status = "deleted" THEN None ELSE [t EXCEPT !.parts["preferences"] = v]

Announces(status, old) ==
    CASE status = "suspended" -> "Suspended"
      [] status = "pending_deletion" -> "MarkedForDeletion"
      [] status = "deleted" -> "Deleted"
      [] status = "active" -> IF old = "pending_deletion" THEN "Restored" ELSE "Activated"

EventsOf(before, after) ==
    (IF before.status = after.status THEN {} ELSE {Announces(after.status, before.status)})
    \cup {p \in Parts : before.parts[p] # after.parts[p]}

-----------------------------------------------------------------------------
(* Statements on identity.tenants.                                          *)

GetTenantByID(t) == tenants[t]

InsertTenant(t, a) == [tenants EXCEPT ![t] = a]

\* Every column is written; a row that is gone is not.
UpdateTenantRow(t, a) == IF tenants[t] = None THEN tenants ELSE [tenants EXCEPT ![t] = a]

HardDeleteTenantRow(t) == [tenants EXCEPT ![t] = None]

-----------------------------------------------------------------------------
(* Registration.                                                            *)

\* GetByEmail: who ever was a member has an account.
HasAccount(a) == \E t \in TenantIds : admin[t] = a

\* GetActiveForPerson.
Occupied(a) == \E t \in active : admin[t] = a

SlugTaken(s) == \E t \in TenantIds : tenants[t] # None /\ tenants[t].slug = s

\* The check of the administrator's account comes before the transaction.
RegisterTenant(c) ==
    /\ \E t \in TenantIds \ {Platform}, s \in Slugs, a \in Admins :
          /\ tenants[t] = None /\ \A o \in Running : cmd[o][2] # t
          /\ ~ Occupied(a)     \* ErrEmailHasActiveMembership
          /\ Start(c, "register", t, <<s, a, HasAccount(a)>>, "register")
    /\ UNCHANGED <<clock, tenants, admin, active, super, exposed, seeded, owner, outbox, failures>>

\* Fault: the membership has a transaction of its own.
PersistTenantAlone(c) ==
    LET t == cmd[c][2] IN
    /\ pc[c] = "register"
    /\ IF SlugTaken(cmd[c][3][1]) THEN Finish(c) /\ UNCHANGED <<tenants, admin, active, outbox>>
       ELSE /\ tenants' = InsertTenant(t, New(cmd[c][3][1]))
            /\ outbox' = {<<"Registered", t>>}
            /\ IF Occupied(cmd[c][3][2]) THEN Finish(c) /\ UNCHANGED <<admin, active>>
               ELSE /\ Goto(c, "seed")
                    /\ admin' = [admin EXCEPT ![t] = cmd[c][3][2]]
                    /\ active' = active \cup {t}
    /\ UNCHANGED <<clock, super, exposed, seeded, owner, failures>>

\* Tenant, person and membership; the slug, the address of a person whom the check did
\* not find, and the one active membership are unique.
persistAggregatesInTx(c) ==
    LET t == cmd[c][2]
        s == cmd[c][3][1]
        a == cmd[c][3][2]
    IN  /\ pc[c] = "register"
        /\ IF SlugTaken(s) \/ (HasAccount(a) /\ ~ cmd[c][3][3]) \/ Occupied(a)
           THEN Finish(c) /\ UNCHANGED <<tenants, admin, active, outbox>>
           ELSE /\ tenants' = InsertTenant(t, New(s))
                /\ admin' = [admin EXCEPT ![t] = a]
                /\ active' = active \cup {t}
                /\ outbox' = {<<"Registered", t>>}
                /\ Goto(c, "seed")
        /\ UNCHANGED <<clock, super, exposed, seeded, owner, failures>>

\* ApplyDefaultRoles: the next role of the catalogue that is not there yet.
ApplyDefaultRoles(c) ==
    LET t == cmd[c][2]
        missing == {i \in DOMAIN Catalogue : Catalogue[i] \notin seeded[t]}
    IN  /\ pc[c] = "seed"
        /\ \/ missing = {} /\ Goto(c, "own") /\ UNCHANGED seeded
           \/ \E i \in missing : /\ \A j \in missing : i <= j
                                  /\ seeded' = [seeded EXCEPT ![t] = @ \cup {Catalogue[i]}]
                                  /\ UNCHANGED <<pc, cmd, mem>>
        /\ UNCHANGED <<clock, tenants, admin, active, super, exposed, owner, outbox, failures>>

AssignOwner(c) ==
    /\ pc[c] = "own"
    /\ owner' = [owner EXCEPT ![cmd[c][2]] = TRUE]
    /\ Goto(c, "registered")
    /\ UNCHANGED <<clock, tenants, admin, active, super, exposed, seeded, outbox, failures>>

-----------------------------------------------------------------------------
(* Users.                                                                   *)

\* HasActiveSuperAdmin: an active membership with a role that is_super_admin.
HasActiveSuperAdmin(t) == t \in active \cap super

\* A command on a membership commits.  It deactivates, reactivates, assigns or revokes a
\* role, and writes the rest of the row back as it had loaded it, so any standing may
\* come out; the index on active memberships and the tenant of the role limit it, and
\* nothing asks whether the last super administrator goes.
UpdateMembership(c) ==
    /\ pc[c] = "idle" /\ Cardinality(Running) < limit
    /\ \E t \in TenantIds : \E on, privileged \in BOOLEAN :
          /\ admin[t] # None
          /\ on => \A u \in active \ {t} : admin[u] # admin[t]
          /\ privileged => t = Platform
          /\ active' = IF on THEN active \cup {t} ELSE active \ {t}
          /\ super' = IF privileged THEN super \cup {t} ELSE super \ {t}
    /\ exposed' = exposed \cup {t \in TenantIds : ~ HasActiveSuperAdmin(t)'}
    /\ Finish(c)
    /\ UNCHANGED <<clock, tenants, admin, seeded, owner, outbox, failures>>

-----------------------------------------------------------------------------
(* Updates.                                                                 *)

\* What the administrator of a tenant and the operators ask for.
UpdateCommands == Edited \X Values
LifecycleCommands == ({"suspend", "activate", "restore"} \X {None}) \cup ({"markForDeletion"} \X Values)

UpdateTenant(c) ==
    /\ \E t \in TenantIds, x \in UpdateCommands : Start(c, x[1], t, x[2], "load")
    /\ UNCHANGED <<clock, tenants, admin, active, super, exposed, seeded, owner, outbox, failures>>

\* Fault: no command is guarded.
GuardedNot(command) == FALSE

\* The commands that first ask for an active super administrator in the tenant.
Guarded(command) == command \in {"suspend", "markForDeletion", "hardDelete"}

ChangeLifecycle(c) ==
    /\ \E t \in TenantIds, x \in LifecycleCommands :
          Start(c, x[1], t, x[2], IF Guarded(x[1]) THEN "guard" ELSE "load")
    /\ UNCHANGED <<clock, tenants, admin, active, super, exposed, seeded, owner, outbox, failures>>

HardDeleteTenant(c) ==
    /\ \E t \in TenantIds : Start(c, "hardDelete", t, None, IF Guarded("hardDelete") THEN "guard" ELSE "load")
    /\ UNCHANGED <<clock, tenants, admin, active, super, exposed, seeded, owner, outbox, failures>>

\* The guard is a query of its own: what it saw may be over when the row is loaded.
ensureNotPlatformTenant(c) ==
    /\ pc[c] = "guard"
    /\ IF HasActiveSuperAdmin(cmd[c][2]) THEN Finish(c) ELSE Goto(c, "load")
    /\ UNCHANGED <<clock, tenants, admin, active, super, exposed, seeded, owner, outbox, failures>>

\* The functions that the handlers pass to UpdateByID, for the command <<name, tenant, argument>>.
ApplySuspension(t, x) == IF x[1] = "suspend" THEN Suspend(t) ELSE Activate(t)

ApplyDeletion(t, x) == IF x[1] = "restore" THEN RestoreFromDeletion(t) ELSE MarkForDeletion(t, x[3], clock)

ApplyIdentity(t, x) == IF x[1] = "profile" THEN UpdateProfile(t, x[3]) ELSE UpdateStatutory(t, x[3])

ApplyContact(t, x) == IF x[1] = "contact" THEN UpdateAdminContact(t, x[3]) ELSE UpdateSettings(t, x[3])

ApplyPreferences(t, x) == UpdateDisplayPreferences(t, x[3])

Apply(t, x) ==
    CASE x[1] \in {"suspend", "activate"} -> ApplySuspension(t, x)
      [] x[1] \in {"markForDeletion", "restore"} -> ApplyDeletion(t, x)
      [] x[1] = "hardDelete" -> HardDelete(t)
      [] x[1] \in {"profile", "statutory"} -> ApplyIdentity(t, x)
      [] x[1] \in {"contact", "settings"} -> ApplyContact(t, x)
      [] x[1] = "preferences" -> ApplyPreferences(t, x)

loadTenant(c) ==
    LET t == GetTenantByID(cmd[c][2])
        changed == IF t = None THEN None ELSE Apply(t, cmd[c])
    IN  /\ pc[c] = "load"
        /\ IF changed = None THEN Finish(c)
           ELSE /\ pc' = [pc EXCEPT ![c] = "save"]
                /\ mem' = [mem EXCEPT ![c] = <<t, changed>>]
                /\ UNCHANGED cmd
        /\ UNCHANGED <<clock, tenants, admin, active, super, exposed, seeded, owner, outbox, failures>>

\* The row and its events are one transaction.
persistTenant(c) ==
    LET t == cmd[c][2] IN
    /\ pc[c] = "save"
    /\ tenants' = UpdateTenantRow(t, mem[c][2])
    /\ outbox' = {<<ev, t>> : ev \in EventsOf(mem[c][1], mem[c][2])}
    /\ IF cmd[c][1] = "hardDelete" THEN Goto(c, "erase") ELSE Finish(c)
    /\ UNCHANGED <<clock, admin, active, super, exposed, seeded, owner, failures>>

\* The DELETE is a transaction of its own; memberships and roles refer to the row.
HardDeleteRow(c) ==
    LET t == cmd[c][2] IN
    /\ pc[c] = "erase"
    /\ IF admin[t] # None \/ seeded[t] # {} THEN Finish(c) /\ UNCHANGED tenants
       ELSE Finish(c) /\ tenants' = HardDeleteTenantRow(t)
    /\ UNCHANGED <<clock, admin, active, super, exposed, seeded, owner, outbox, failures>>

\* A statement fails or the process ends: the transaction rolls back, and what was
\* committed before stays.
Abort(c) ==
    /\ c \in Running /\ failures < MaxFailures
    /\ failures' = failures + 1
    /\ Finish(c)
    /\ UNCHANGED <<clock, tenants, admin, active, super, exposed, seeded, owner, outbox>>

Tick ==
    /\ clock < MaxTime
    /\ clock' = clock + 1
    /\ UNCHANGED <<tenants, admin, active, super, exposed, seeded, owner, outbox, pc, cmd, mem, failures>>

-----------------------------------------------------------------------------
(* Specification.                                                           *)

\* seedSuperAdmin: the platform tenant, its super administrator and role.
Bootstrapped == [New(Platform) EXCEPT !.status = "active"]

Init ==
    /\ limit \in Limits /\ clock = 0 /\ failures = 0 /\ outbox = {}
    /\ tenants = [t \in TenantIds |-> IF t = Platform THEN Bootstrapped ELSE None]
    /\ admin = [t \in TenantIds |-> IF t = Platform THEN Platform ELSE None]
    /\ active = {Platform} /\ super = {Platform} /\ exposed = TenantIds \ {Platform}
    /\ seeded = [t \in TenantIds |-> {}] /\ owner = [t \in TenantIds |-> FALSE]
    /\ pc = [c \in Calls |-> "idle"] /\ cmd = [c \in Calls |-> None] /\ mem = [c \in Calls |-> None]

Next ==
    /\ UNCHANGED limit
    /\ \/ Tick
       \/ \E c \in Calls : \/ RegisterTenant(c) \/ persistAggregatesInTx(c) \/ ApplyDefaultRoles(c) \/ AssignOwner(c)
                           \/ UpdateMembership(c) \/ UpdateTenant(c) \/ ChangeLifecycle(c) \/ HardDeleteTenant(c)
                           \/ ensureNotPlatformTenant(c) \/ loadTenant(c) \/ persistTenant(c)
                           \/ HardDeleteRow(c) \/ Abort(c)

Spec == Init /\ [][Next]_<<vars, limit>>

-----------------------------------------------------------------------------
(* Properties.                                                              *)

\* A registration is whole or not there: a tenant has its first member and the other way
\* round, nobody is an active member of two tenants, slugs are unique, and a registration
\* that succeeded has every role of the catalogue and the owner in it.
RegistrationIsWhole ==
    /\ TypeOK
    /\ \A t \in TenantIds : (tenants[t] # None) = (admin[t] # None)
    /\ \A t, u \in TenantIds : t # u /\ tenants[t] # None /\ tenants[u] # None =>
          tenants[t].slug # tenants[u].slug /\ (admin[t] # admin[u] \/ {t, u} \cap active # {t, u})
    /\ \A c \in Calls : pc[c] = "registered" =>
          owner[cmd[c][2]] /\ seeded[cmd[c][2]] = {Catalogue[i] : i \in DOMAIN Catalogue}

\* The moves of Status.
Moves ==
    {<<s, s>> : s \in Statuses}
        \cup {<<"pending", "active">>, <<"pending", "suspended">>, <<"pending", "deleted">>,
              <<"active", "suspended">>, <<"suspended", "active">>,
              <<"active", "pending_deletion">>, <<"suspended", "pending_deletion">>,
              <<"pending_deletion", "active">>, <<"pending_deletion", "deleted">>}

LifecycleStep ==
    /\ \A t \in TenantIds \ exposed' : tenants'[t].status = "active"
    /\ limit = 1 => \A t \in TenantIds : tenants[t] # None =>
          /\ tenants'[t] # None
          /\ <<tenants[t].status, tenants'[t].status>> \in Moves
          /\ tenants[t].status # tenants'[t].status =>
                /\ \E ev \in outbox' : ev = <<Announces(tenants'[t].status, tenants[t].status), t>>
                /\ tenants'[t].status # "active" => ~ HasActiveSuperAdmin(t)

\* Whatever overlaps, a tenant that was never without an active super administrator, as
\* the platform tenant is set up, stays active (ErrPlatformTenantUndeletable).  One at a
\* time, a tenant moves as the state machine of Status says and with the event of the
\* move, Deleted is terminal ("row retained for FK integrity"), and no tenant is suspended
\* or deleted while it has an active super administrator; overlapping updates write a
\* status back that is no longer true.
TenantLifecycle == [][LifecycleStep]_vars

\* "the grace window MUST have elapsed" before a tenant that was scheduled for deletion
\* is deleted (HardDeleteTenantCommand).
GraceIsRespected ==
    [][\A t \in TenantIds : tenants[t] # None /\ tenants'[t] # None =>
          (tenants[t].status = "pending_deletion" /\ tenants'[t].status = "deleted"
              => clock >= tenants[t].scheduled + Grace)]_vars
====
