---- MODULE MCAuthz ----
(***************************************************************************)
(* Small instances of PermissionRequests and of RoleHierarchy, side by     *)
(* side: they write different tables, so a behaviour exercises one of the  *)
(* two.  A member and a manager are in one tenant, and a membership of the *)
(* same person may come to be in another tenant.                           *)
(***************************************************************************)
EXTENDS PermissionRequests, RoleHierarchy, TLC

CONSTANTS m1, m2, m3, p1, r1, r2, n1, n2

MCPersonOf == m1 :> "ann" @@ m2 :> "bob" @@ m3 :> "ann"
MCTenantOf == m1 :> "a" @@ m2 :> "a" @@ m3 :> "b"
MCManagerOf == m1 :> m2 @@ m2 :> None
MCRolePermissions == [r \in Roles |-> {p1}]
MCNameOf == r1 :> n1 @@ r2 :> n2

BothInit == Init /\ RolesInit /\ limit = rlimit

BothNext ==
    \/ /\ \A q \in Changes : at[q] = "idle"
       /\ Next
       /\ UNCHANGED <<roleVars, rlimit>>
    \/ /\ clock = 0 /\ \A e \in Edits : pc[e] = "idle"
       /\ RolesNext
       /\ UNCHANGED <<allVars, limit>>

BothSpec == BothInit /\ [][BothNext]_<<allVars, limit, roleVars, rlimit>>

\* One at a time, a statement fails or time passes; of the requests that overlap the third
\* comes after a request for a permission; of the changes of roles two overlap.
Scope ==
    /\ failures = 0 \/ clock = 0
    /\ \/ limit = 1
       \/ failures = 0 /\ clock = 0 /\ (requests = <<>> => \E e \in Edits : pc[e] = "idle")
    /\ rlimit = 1 \/ \E q \in Changes : at[q] = "idle"

\* The requests of both.
Symmetry == Permutations(Edits)
====
