---- MODULE RoleHierarchy ----
(***************************************************************************)
(* The roles of one tenant and their hierarchy (internal/identity).  A     *)
(* role is loaded without a lock and written back; the deletion is soft.   *)
(* The parent of a role is an edge of its own: a new parent removes the    *)
(* active edge and inserts another in one transaction, and a trigger of    *)
(* the table walks upwards from the new parent and rejects a cycle.  The   *)
(* trigger sees what is committed, and what its own transaction wrote.     *)
(***************************************************************************)
EXTENDS Naturals, Sequences, FiniteSets

CONSTANTS
    RoleIds,        \* ids of roles
    SystemRoles,    \* roles of the catalogue, seeded with the tenant
    SeededRoles,    \* custom roles that are there from the start
    Names,          \* names of roles
    NameOf,         \* the names of the roles that are there from the start
    Levels,         \* hierarchy levels
    Grants,         \* permissions
    Changes,        \* requests of users
    RoleLimits,     \* bounds: how many requests are handled at the same time
    MaxEdges,       \* bound: rows of identity.role_hierarchy_edges
    MaxDepth,       \* depth of the recursive query (32)
    Nothing

ASSUME RolesAssumption ==
    /\ SystemRoles \cup SeededRoles \subseteq RoleIds
    /\ NameOf \in [SystemRoles \cup SeededRoles -> Names]
    /\ RoleLimits \subseteq Nat /\ MaxEdges \in Nat /\ MaxDepth \in Nat
    /\ Nothing \notin RoleIds \cup Names \cup Levels

RoleRows == [name : Names, level : Levels, system : BOOLEAN, perms : SUBSET Grants, deleted : BOOLEAN]
EdgeRows == [child : RoleIds, parent : RoleIds, removed : BOOLEAN]

VARIABLES
    rlimit,
    roles,      \* identity.roles
    edges,      \* identity.role_hierarchy_edges, in the order of the inserts
    roleEvents, \* events <<type, role, request>>
    at, change, \* of every request: where it is, <<command, role, argument>>
    role,       \* the role that a request has loaded and changed
    edge        \* the index of the edge that a request removes

roleVars == <<roles, edges, roleEvents, at, change, role, edge>>

EventTypes == {"Created", "Renamed", "PermissionGranted", "PermissionRevoked", "Deleted",
               "EdgeEstablished", "EdgeRemoved"}

RolesTypeOK ==
    /\ rlimit \in RoleLimits
    /\ DOMAIN roles = RoleIds
    /\ \A r \in RoleIds : roles[r] # Nothing => roles[r] \in RoleRows
    /\ edges \in Seq(EdgeRows) /\ Len(edges) <= MaxEdges
    /\ roleEvents \subseteq EventTypes \X RoleIds \X Changes
    /\ at \in [Changes -> {"idle", "load", "save", "find", "remove", "unlink", "link", "commit", "done", "refused"}]
    /\ edge \in [Changes -> 0 .. MaxEdges]

Proceed(q, next) == at' = [at EXCEPT ![q] = next]
Open == {q \in Changes : at[q] \notin {"idle", "done", "refused"}}
Present(r) == roles[r] # Nothing

-----------------------------------------------------------------------------
(* The aggregate.                                                           *)

NewRole(n, l) == [name |-> n, level |-> l, system |-> FALSE, perms |-> {}, deleted |-> FALSE]

Rename(r, n) == [r EXCEPT !.name = n]

ChangeHierarchyLevel(r, l) == [r EXCEPT !.level = l]

Grant(r, p) == [r EXCEPT !.perms = @ \cup {p}]

Revoke(r, p) == [r EXCEPT !.perms = @ \ {p}]

ReplacePermissions(r, P) == [r EXCEPT !.perms = P]

Delete(r) == [r EXCEPT !.deleted = TRUE]

RoleEventsOf(before, after) ==
    {ev \in EventTypes :
        \/ ev = "Renamed" /\ before.name # after.name
        \/ ev = "PermissionGranted" /\ after.perms \ before.perms # {}
        \/ ev = "PermissionRevoked" /\ before.perms \ after.perms # {}
        \/ ev = "Deleted" /\ after.deleted}

-----------------------------------------------------------------------------
(* The hierarchy.                                                           *)

\* The edges that a transaction sees which has removed edge x (0: none).
ActiveEdges(x) == {i \in DOMAIN edges : ~edges[i].removed /\ i # x}

ParentsOf(S, x) == {edges[i].parent : i \in {j \in ActiveEdges(x) : edges[j].child \in S}}

\* GetHierarchyAncestorsByChild.
AncestorsOf(r, x) ==
    LET up[n \in 0 .. MaxDepth] == IF n = 0 THEN ParentsOf({r}, x) ELSE up[n - 1] \cup ParentsOf(up[n - 1], x)
    IN  up[MaxDepth]

\* Fault: the walk stops at the new parent.
ClosesCycleNear(child, parent, x) == child = parent

\* edge_check_cycle: the walk from the new parent meets the child, or goes round.
ClosesCycle(child, parent, x) ==
    \/ child \in {parent} \cup AncestorsOf(parent, x)
    \/ \E a \in {parent} \cup AncestorsOf(parent, x) : a \in AncestorsOf(a, x)

-----------------------------------------------------------------------------
(* Creation and the updates of a role.                                      *)

\* uq_roles_tenant_name.
NameTaken(n, r) == \E s \in RoleIds \ {r} : Present(s) /\ ~roles[s].deleted /\ roles[s].name = n

StartChange(q, c, r, x, next) ==
    /\ at[q] = "idle" /\ Cardinality(Open) < rlimit
    /\ change' = [change EXCEPT ![q] = <<c, r, x>>]
    /\ Proceed(q, next)

\* The role and its edge are inserted together; no path leads to a role that is new.
CreateRole(q) ==
    \E r \in RoleIds, n \in Names, l \in Levels, parent \in RoleIds \cup {Nothing} :
        LET hasParent == parent # Nothing
            refused == NameTaken(n, r) \/ (hasParent /\ ~Present(parent))
        IN  /\ ~Present(r) /\ Len(edges) < MaxEdges
            /\ StartChange(q, "create", r, Nothing, IF refused THEN "refused" ELSE "done")
            /\ IF refused THEN UNCHANGED <<roles, edges, roleEvents>>
               ELSE /\ roles' = [roles EXCEPT ![r] = NewRole(n, l)]
                    /\ edges' = IF hasParent THEN Append(edges, [child |-> r, parent |-> parent, removed |-> FALSE])
                                ELSE edges
                    /\ roleEvents' = roleEvents \cup {<<"Created", r, q>>}
                                        \cup (IF hasParent THEN {<<"EdgeEstablished", r, q>>} ELSE {})
            /\ UNCHANGED <<role, edge>>

\* What the HTTP handlers ask for: a new name or level, permissions, a deletion.
RoleCommands == ({"update"} \X ((Names \cup {Nothing}) \X (Levels \cup {Nothing})))
                    \cup ({"grant", "revoke"} \X Grants) \cup ({"replace"} \X (SUBSET Grants))
                    \cup {<<"delete", Nothing>>}

StartUpdate(q) ==
    /\ \E r \in RoleIds, c \in RoleCommands : Present(r) /\ StartChange(q, c[1], r, c[2], "load")
    /\ UNCHANGED <<roles, edges, roleEvents, role, edge>>

\* ErrSystemDefault, of Rename, ChangeHierarchyLevel and Delete.
RefusesChange(r, c) == r.system /\ (c[1] = "delete" \/ (c[1] = "update" /\ c[3] # <<Nothing, Nothing>>))

UpdateRole(r, n, l) ==
    LET renamed == IF n = Nothing THEN r ELSE Rename(r, n)
    IN  IF l = Nothing THEN renamed ELSE ChangeHierarchyLevel(renamed, l)

ApplyChange(r, c) ==
    CASE c[1] = "update" -> UpdateRole(r, c[3][1], c[3][2])
      [] c[1] = "grant" -> Grant(r, c[3])
      [] c[1] = "revoke" -> Revoke(r, c[3])
      [] c[1] = "replace" -> ReplacePermissions(r, c[3])
      [] c[1] = "delete" -> Delete(r)

\* loadRole hides a deleted role.
LoadRole(q) ==
    LET r == roles[change[q][2]] IN
    /\ at[q] = "load"
    /\ IF r.deleted \/ RefusesChange(r, change[q]) THEN Proceed(q, "refused") /\ UNCHANGED role
       ELSE Proceed(q, "save") /\ role' = [role EXCEPT ![q] = r]
    /\ UNCHANGED <<roles, edges, roleEvents, change, edge>>

\* SoftDeleteRole and UpdateRole: each leaves the columns of the other alone.
Written(stored, r) ==
    IF r.deleted THEN [stored EXCEPT !.deleted = TRUE] ELSE [stored EXCEPT !.name = r.name, !.level = r.level, !.perms = r.perms]

SaveRole(q) ==
    LET id == change[q][2]
        r == ApplyChange(role[q], change[q])
        row == Written(roles[id], r)
    IN  /\ at[q] = "save"
        /\ IF ~row.deleted /\ NameTaken(row.name, id) THEN Proceed(q, "refused") /\ UNCHANGED <<roles, roleEvents>>
           ELSE /\ roles' = [roles EXCEPT ![id] = row]
                /\ roleEvents' = roleEvents \cup {<<ev, id, q>> : ev \in RoleEventsOf(role[q], r)}
                /\ Proceed(q, "done")
        /\ UNCHANGED <<edges, change, role, edge>>

-----------------------------------------------------------------------------
(* SetRoleParent.                                                           *)

\* A new parent, or none.
SetRoleParent(q) ==
    /\ Len(edges) < MaxEdges
    /\ \E r \in RoleIds, p \in RoleIds \cup {Nothing} :
          Present(r) /\ StartChange(q, "setParent", r, p, "find")
    /\ UNCHANGED <<roles, edges, roleEvents, role, edge>>

\* GetActiveByChild always reads in a transaction of its own.
FindExistingEdge(q) ==
    LET found == {i \in ActiveEdges(0) : edges[i].child = change[q][2]} IN
    /\ at[q] = "find"
    /\ IF found = {}
       THEN Proceed(q, IF change[q][3] = Nothing THEN "done" ELSE "link") /\ UNCHANGED edge
       ELSE Proceed(q, "remove") /\ edge' = [edge EXCEPT ![q] = CHOOSE i \in found : TRUE]
    /\ UNCHANGED <<roles, edges, roleEvents, change, role>>

\* The edge is loaded; to remove one that is removed by now is an error.
LoadEdge(q) ==
    /\ at[q] = "remove"
    /\ Proceed(q, IF edges[edge[q]].removed THEN "refused" ELSE "unlink")
    /\ UNCHANGED <<roles, edges, roleEvents, change, role, edge>>

RemoveRow(q) == [edges EXCEPT ![edge[q]].removed = TRUE]

\* The UPDATE waits for a transaction that removes the same edge and goes by the id
\* alone.  Without a new parent, the removal is all that there is.
RemoveEdge(q) ==
    /\ at[q] = "unlink"
    /\ ~ \E o \in Changes \ {q} : at[o] \in {"link", "commit"} /\ edge[o] = edge[q]
    /\ IF change[q][3] # Nothing THEN Proceed(q, "link") /\ UNCHANGED <<edges, roleEvents>>
       ELSE /\ edges' = RemoveRow(q)
            /\ roleEvents' = roleEvents \cup {<<"EdgeRemoved", change[q][2], q>>}
            /\ Proceed(q, "done")
    /\ UNCHANGED <<roles, change, role, edge>>

\* The INSERT: the check of the table, the trigger and the foreign key.
InsertEdge(q) ==
    LET child == change[q][2]
        parent == change[q][3]
    IN  /\ at[q] = "link"
        /\ Proceed(q, IF ~Present(parent) \/ ClosesCycle(child, parent, edge[q]) THEN "refused" ELSE "commit")
        /\ UNCHANGED <<roles, edges, roleEvents, change, role, edge>>

\* The INSERT waits for another one of the same child, and then the index decides.
CommitEdge(q) ==
    LET child == change[q][2]
        parent == change[q][3]
        kept == IF edge[q] = 0 THEN edges ELSE RemoveRow(q)
    IN  /\ at[q] = "commit" /\ Len(edges) < MaxEdges
        /\ IF \E i \in ActiveEdges(edge[q]) : edges[i].child = child
           THEN Proceed(q, "refused") /\ UNCHANGED <<edges, roleEvents>>
           ELSE /\ edges' = Append(kept, [child |-> child, parent |-> parent, removed |-> FALSE])
                /\ roleEvents' = roleEvents \cup {<<"EdgeEstablished", child, q>>}
                                     \cup (IF edge[q] = 0 THEN {} ELSE {<<"EdgeRemoved", child, q>>})
                /\ Proceed(q, "done")
        /\ UNCHANGED <<roles, change, role, edge>>

RolesInit ==
    /\ rlimit \in RoleLimits
    /\ roles = [r \in RoleIds |-> IF r \in SystemRoles \cup SeededRoles
                                  THEN [NewRole(NameOf[r], CHOOSE l \in Levels : TRUE) EXCEPT !.system = r \in SystemRoles]
                                  ELSE Nothing]
    /\ edges = <<>> /\ roleEvents = {}
    /\ at = [q \in Changes |-> "idle"]
    /\ change = [q \in Changes |-> Nothing] /\ role = [q \in Changes |-> Nothing]
    /\ edge = [q \in Changes |-> 0]

RolesNext ==
    /\ UNCHANGED rlimit
    /\ \E q \in Changes : \/ CreateRole(q) \/ StartUpdate(q) \/ LoadRole(q) \/ SaveRole(q) \/ SetRoleParent(q)
                          \/ FindExistingEdge(q) \/ LoadEdge(q) \/ RemoveEdge(q) \/ InsertEdge(q) \/ CommitEdge(q)

RolesSpec == RolesInit /\ [][RolesNext]_<<roleVars, rlimit>>

-----------------------------------------------------------------------------
(* Properties.                                                              *)

\* The active edges form a forest of roles with different names.
Forest ==
    /\ RolesTypeOK
    /\ \A i, j \in ActiveEdges(0) : edges[i].child = edges[j].child => i = j
    /\ \A r \in RoleIds : Present(r) /\ ~roles[r].deleted => ~NameTaken(roles[r].name, r)
    /\ rlimit = 1 => \A i \in ActiveEdges(0) : edges[i].child \notin AncestorsOf(edges[i].child, 0)

\* A role has one parent at most, however requests overlap ("Single-parent invariant",
\* uq_role_hierarchy_active_edge_per_child), and the names of the roles that are not
\* deleted are different.  One at a time, no role is its own ancestor; two transactions
\* whose triggers do not see each other's edge close a cycle.
\* A deleted role never comes back, also when an update that loaded it before is saved
\* after the deletion; a role of the catalogue keeps its name and level and is
\* never deleted (ErrSystemDefault); and, one at a time, nothing is announced of a
\* deleted role but its place in the hierarchy.
HierarchyIsForest ==
    [][/\ Forest'
       /\ \A r \in RoleIds : Present(r) =>
            /\ roles[r].deleted => roles'[r].deleted
            /\ roles[r].system =>
                 /\ roles'[r].system /\ ~roles'[r].deleted
                 /\ roles'[r].name = roles[r].name /\ roles'[r].level = roles[r].level
            /\ rlimit = 1 /\ roles[r].deleted =>
                 \A ev \in roleEvents' \ roleEvents :
                   ev[2] = r => ev[1] \in {"EdgeEstablished", "EdgeRemoved"}]_roleVars
====
