---- MODULE Memberships ----
(***************************************************************************)
(* The memberships of persons in tenants (internal/identity): status,      *)
(* manager, profile, roles and the permission overlay.  A command loads    *)
(* the aggregate with three SELECTs, changes it in memory and writes all   *)
(* of it back (MembershipRepository.UpdateByID); none of the reads takes a *)
(* lock.  Two indexes guard the table: one membership per person and       *)
(* tenant, and one active membership per person.                           *)
(***************************************************************************)
EXTENDS Naturals, FiniteSets

CONSTANTS
    Members,        \* ids of memberships
    PersonOf, TenantOf,
    Seeded, ManagerOf, \* members that are there from the start, and their managers
    Roles, RolePermissions, \* the roles of the tenants and what they grant
    Permissions,
    Profiles,       \* designation, department and status message
    Edits,          \* requests of users
    Limits,         \* bounds: how many requests are handled at the same time
    MaxTime,        \* bound of the clock, in days
    MaxFailures,    \* bound: failed statements
    Never,          \* an expiry: the zero time
    None

Persons == {PersonOf[m] : m \in Members}
Expiries == Nat \cup {Never}

Statuses == {"active", "inactive"}

\* A row of identity.tenant_memberships, with its role assignments and overrides.
MembershipRows == [status : Statuses, manager : Members \cup {None}, profile : Profiles \cup {None},
                   roles : SUBSET Roles, granted : SUBSET (Permissions \X Expiries), revoked : SUBSET Permissions]

ASSUME MembershipsAssumption ==
    /\ Seeded \subseteq Members /\ ManagerOf \in [Seeded -> Members \cup {None}]
    /\ \A m, n \in Members : PersonOf[m] = PersonOf[n] /\ TenantOf[m] = TenantOf[n] => m = n
    /\ \A m, n \in Seeded : PersonOf[m] = PersonOf[n] => m = n
    /\ RolePermissions \in [Roles -> SUBSET Permissions]
    /\ Limits \subseteq Nat /\ MaxTime \in Nat /\ MaxFailures \in Nat
    /\ Never \notin Nat /\ None \notin Members \cup Profiles /\ None \notin MembershipRows

Events == {"Created", "Deactivated", "Reactivated", "RoleAssigned", "RoleRevoked", "PermissionsUpdated",
           "ProfileUpdated", "ManagerAssigned", "ManagerRemoved"}

VARIABLES
    limit,
    clock,
    persons,    \* identity.persons: who has an account
    members,    \* identity.tenant_memberships and its two child tables
    outbox,     \* events <<type, membership, request>>
    pc, cmd,    \* of every request: where it is, <<command, membership, argument>>
    mem,        \* the aggregate that a request has loaded
    failures

vars == <<clock, persons, members, outbox, pc, cmd, mem, failures>>

Goto(e, next) == pc' = [pc EXCEPT ![e] = next]
Running == {e \in Edits : pc[e] \notin {"idle", "done", "refused", "failed"}}
Exists(m) == members[m] # None

\* Whether one more request may be handled: one at a time, only when no other is.
MayBegin == IF limit = 1 THEN Running = {} ELSE Cardinality(Running) < limit

-----------------------------------------------------------------------------
(* The aggregate.  A method gives the membership that it leaves; the       *)
(* events of a method are told from what it changed.                       *)

New == [status |-> "active", manager |-> None, profile |-> None, roles |-> {}, granted |-> {}, revoked |-> {}]

Deactivate(a) == [a EXCEPT !.status = "inactive"]

Reactivate(a) == [a EXCEPT !.status = "active"]

AssignRole(a, r) == [a EXCEPT !.roles = @ \cup {r}]

RevokeRole(a, r) == [a EXCEPT !.roles = @ \ {r}]

GrantPermission(a, p, expires) ==
    [a EXCEPT !.granted = {g \in @ : g[1] # p} \cup {<<p, expires>>}, !.revoked = @ \ {p}]

ReplacePermissionOverlays(a, granted, revoked) ==
    [a EXCEPT !.granted = granted \X {Never}, !.revoked = revoked]

UpdateProfile(a, profile) == [a EXCEPT !.profile = profile]

AssignManager(a, m) == [a EXCEPT !.manager = m]

RemoveManager(a) == AssignManager(a, None)

\* Fault: the end of a grant is not looked at.
EffectivePermissionsUnexpired(a, now) ==
    ((UNION {RolePermissions[r] : r \in a.roles}) \cup {g[1] : g \in a.granted}) \ a.revoked

EffectivePermissions(a, now) ==
    ((UNION {RolePermissions[r] : r \in a.roles})
        \cup {g[1] : g \in {h \in a.granted : h[2] = Never \/ now < h[2]}}) \ a.revoked

\* The resolver: what a token of membership m is issued with.
Resolve(m) == EffectivePermissions(members[m], clock)

\* recordEvent: an overlay is replaced with an event in any case, everything else only
\* when it changes something.
EventsOf(before, after, c) ==
    {ev \in Events :
        \/ ev = "Deactivated" /\ before.status = "active" /\ after.status = "inactive"
        \/ ev = "Reactivated" /\ before.status = "inactive" /\ after.status = "active"
        \/ ev = "RoleAssigned" /\ after.roles \ before.roles # {}
        \/ ev = "RoleRevoked" /\ before.roles \ after.roles # {}
        \/ ev = "PermissionsUpdated" /\ (c = "replaceOverrides" \/ before.granted # after.granted)
        \/ ev = "ProfileUpdated" /\ before.profile # after.profile
        \/ ev = "ManagerAssigned" /\ before.manager # after.manager /\ after.manager # None
        \/ ev = "ManagerRemoved" /\ before.manager # None /\ after.manager = None}

-----------------------------------------------------------------------------
(* Creation.                                                                *)

Collides(m) == \E n \in Members \ {m} : Exists(n) /\ PersonOf[n] = PersonOf[m] /\ members[n].status = "active"

Fail ==
    /\ failures < MaxFailures
    /\ failures' = failures + 1

\* The membership of a known person is looked up before the transaction.
CreateUser(e) ==
    /\ pc[e] = "idle" /\ MayBegin
    /\ \E m \in Members \ Seeded :
          /\ cmd' = [cmd EXCEPT ![e] = <<"create", m, PersonOf[m] \in persons>>]
          /\ Goto(e, IF PersonOf[m] \in persons /\ Collides(m) THEN "refused" ELSE "create")
    /\ UNCHANGED <<clock, persons, members, outbox, mem, failures>>

\* findOrCreatePerson and createMembership: a person whom somebody else has created in
\* the meantime and the two indexes end the transaction.
Add(e) ==
    LET m == cmd[e][2] IN
    /\ pc[e] = "create"
    /\ IF (~cmd[e][3] /\ PersonOf[m] \in persons) \/ Exists(m) \/ Collides(m)
       THEN Goto(e, "refused") /\ UNCHANGED <<persons, members, outbox>>
       ELSE /\ persons' = persons \cup {PersonOf[m]}
            /\ members' = [members EXCEPT ![m] = New]
            /\ outbox' = outbox \cup {<<"Created", m, e>>}
            /\ Goto(e, "done")
    /\ UNCHANGED <<clock, cmd, mem, failures>>

-----------------------------------------------------------------------------
(* Updates.                                                                 *)

\* The commands of the HTTP handlers, as <<command, argument>>.
StatusCommands == {<<"updateProfile", x>> : x \in Profiles} \cup {"deactivate", "reactivate"} \X {None}
AuthorizationCommands ==
    {"assignRole", "revokeRole"} \X Roles
        \cup {"replaceOverrides"} \X ((SUBSET Permissions) \X (SUBSET Permissions))
ManagerCommands == {"assignManager"} \X Members \cup {<<"removeManager", None>>}

\* The update functions of the command handlers.
ApplyStatus(a, c) ==
    CASE c[1] = "updateProfile" -> UpdateProfile(a, c[3])
      [] c[1] = "deactivate" -> Deactivate(a)
      [] c[1] = "reactivate" -> Reactivate(a)

ApplyAuthorization(a, c) ==
    CASE c[1] = "assignRole" -> AssignRole(a, c[3])
      [] c[1] = "revokeRole" -> RevokeRole(a, c[3])
      [] c[1] = "replaceOverrides" -> ReplacePermissionOverlays(a, c[3][1], c[3][2])

ApplyManager(a, c) == IF c[1] = "assignManager" THEN AssignManager(a, c[3]) ELSE RemoveManager(a)

Apply(a, c) ==
    CASE c[1] \in {"updateProfile", "deactivate", "reactivate"} -> ApplyStatus(a, c)
      [] c[1] \in {"assignRole", "revokeRole", "replaceOverrides"} -> ApplyAuthorization(a, c)
      [] c[1] \in {"assignManager", "removeManager"} -> ApplyManager(a, c)
      [] c[1] = "approve" -> GrantPermission(a, c[3][1], c[3][2])

Begin(e) ==
    /\ pc[e] = "idle" /\ MayBegin
    /\ \E m \in Members, c \in StatusCommands \cup AuthorizationCommands \cup ManagerCommands :
          /\ Exists(m)
          /\ cmd' = [cmd EXCEPT ![e] = <<c[1], m, c[2]>>]
    /\ Goto(e, "row")
    /\ UNCHANGED <<clock, persons, members, outbox, mem, failures>>

\* loadMembership: the row, its role assignments and its overrides are three SELECTs.
LoadRow(e) ==
    /\ pc[e] = "row"
    /\ mem' = [mem EXCEPT ![e] = [members[cmd[e][2]] EXCEPT !.roles = {}, !.granted = {}, !.revoked = {}]]
    /\ Goto(e, "roles")
    /\ UNCHANGED <<clock, persons, members, outbox, cmd, failures>>

LoadRoleAssignments(e) ==
    /\ pc[e] = "roles"
    /\ mem' = [mem EXCEPT ![e] = [@ EXCEPT !.roles = members[cmd[e][2]].roles]]
    /\ Goto(e, "overrides")
    /\ UNCHANGED <<clock, persons, members, outbox, cmd, failures>>

LoadPermissionOverrides(e) ==
    LET a == members[cmd[e][2]] IN
    /\ pc[e] = "overrides"
    /\ mem' = [mem EXCEPT ![e] = [@ EXCEPT !.granted = a.granted, !.revoked = a.revoked]]
    /\ Goto(e, IF cmd[e][1] = "assignManager" /\ cmd[e][3] = cmd[e][2] THEN "refused" ELSE "save")
    /\ UNCHANGED <<clock, persons, members, outbox, cmd, failures>>

\* What the tables reject: a second active membership of the person, a manager who is
\* not a member of the tenant, and two overrides of one permission.
Rejects(m, a) ==
    \/ a.status = "active" /\ Collides(m)
    \/ {g[1] : g \in a.granted} \cap a.revoked # {}
    \/ a.manager # None /\ (~Exists(a.manager) \/ TenantOf[a.manager] # TenantOf[m])

\* The statements of an update, by what they write of the row and its child tables.
persistMembershipStatus(row, a) == [row EXCEPT !.status = a.status]
persistMembershipProfile(row, a) == [row EXCEPT !.profile = a.profile, !.manager = a.manager]
replaceRoleAssignments(row, a) == [row EXCEPT !.roles = a.roles]
replacePermissionOverrides(row, a) == [row EXCEPT !.granted = a.granted, !.revoked = a.revoked]

\* The statements and the events of a request, in its transaction.
Persist(e) ==
    LET m == cmd[e][2]
        a == Apply(mem[e], cmd[e])
        stored == persistMembershipProfile(persistMembershipStatus(members[m], a), a)
    IN  /\ members' = [members EXCEPT ![m] = replacePermissionOverrides(replaceRoleAssignments(stored, a), a)]
        /\ outbox' = outbox \cup {<<ev, m, e>> : ev \in EventsOf(mem[e], a, cmd[e][1])}

Save(e) ==
    /\ pc[e] = "save" /\ cmd[e][1] # "approve"
    /\ IF Rejects(cmd[e][2], Apply(mem[e], cmd[e]))
       THEN Goto(e, "refused") /\ UNCHANGED <<members, outbox>>
       ELSE Persist(e) /\ Goto(e, "done")
    /\ UNCHANGED <<clock, persons, cmd, mem, failures>>

\* A statement fails, and the transaction rolls back.
Abort(e) ==
    /\ e \in Running
    /\ Fail
    /\ Goto(e, "failed")
    /\ UNCHANGED <<clock, persons, members, outbox, cmd, mem>>

Tick ==
    /\ clock < MaxTime
    /\ clock' = clock + 1
    /\ UNCHANGED <<persons, members, outbox, pc, cmd, mem, failures>>
====
