---- MODULE PermissionRequestsProofs ----
(***************************************************************************)
(* Memberships and permission requests: what a resolver puts into a token  *)
(* is explained, and an approval is a grant, for every number of members,  *)
(* permissions, requests and edits that overlap.                           *)
(***************************************************************************)
EXTENDS PermissionRequests, TLAPS

-----------------------------------------------------------------------------
(* The invariant.                                                           *)

Places == {"idle", "create", "row", "roles", "overrides", "save", "insert", "request", "requester", "decide", "update",
           "done", "refused", "failed"}
Deciding == {"request", "requester", "decide", "update"}
Updating == {"row", "roles", "overrides", "save"}
Approvers == Members \cup {Operator}

\* The variables of the edits are functions on Edits; the tables have their types.
Tables ==
    /\ limit \in Limits /\ clock \in 0 .. MaxTime /\ failures \in 0 .. MaxFailures /\ persons \subseteq Persons
    /\ members \in [Members -> MembershipRows \cup {None}]
    /\ outbox \subseteq Events \X Members \X Edits
    /\ requests \in Seq(Requests) /\ Len(requests) <= MaxRequests
    /\ pc \in [Edits -> Places]
    /\ cmd = [e \in Edits |-> cmd[e]] /\ mem = [e \in Edits |-> mem[e]]
    /\ about = [e \in Edits |-> about[e]] /\ loaded = [e \in Edits |-> loaded[e]]

\* The membership that a request is about is there, and decisions are about requests.
RequestInv ==
    /\ \A i \in DOMAIN requests : members[requests[i].requester] \in MembershipRows
    /\ \A d \in decisions : d[2] \in DOMAIN requests
    /\ \A i, j \in DOMAIN requests :
          /\ requests[i].state = "pending" /\ requests[j].state = "pending"
          /\ requests[i].requester = requests[j].requester /\ requests[i].permission = requests[j].permission
          => i = j

\* Only a finished edit has announced something.
OutboxInv == \A x \in outbox : pc[x[3]] = "done"

\* A grant of member m that an administrator wrote, or that an announced approval made.
Written(m, g) == \E e \in Edits : /\ pc[e] = "done" /\ cmd[e][1] = "replaceOverrides" /\ cmd[e][2] = m
                                  /\ g[1] \in cmd[e][3][1] /\ <<"PermissionsUpdated", m, e>> \in outbox
Approved(m, g) == \E d \in decisions : /\ d[1] = "Approved" /\ d[4] = g[2] /\ d[3] # m
                                       /\ requests[d[2]].requester = m /\ requests[d[2]].permission = g[1]
Justified(m, g) == (g[2] = Never /\ Written(m, g)) \/ (g[2] \in Nat /\ Approved(m, g))

GrantsInv == \A m \in Members : members[m] \in MembershipRows => \A g \in members[m].granted : Justified(m, g)

ActiveInv == \A m, n \in Members : Active(m) /\ Active(n) /\ PersonOf[m] = PersonOf[n] => m = n

\* The arguments of a command that changes a membership.
Argued(c) ==
    \/ c[1] = "updateProfile" /\ c[3] \in Profiles
    \/ c[1] \in {"deactivate", "reactivate", "removeManager"}
    \/ c[1] \in {"assignRole", "revokeRole"} /\ c[3] \in Roles
    \/ c[1] = "replaceOverrides" /\ c[3][1] \subseteq Permissions /\ c[3][2] \subseteq Permissions
    \/ c[1] = "assignManager" /\ c[3] \in Members
    \/ c[1] = "approve" /\ c[3][1] \in Permissions /\ c[3][2] \in Nat

\* A decision under way: c is the command, b says on what and who decides.
Deals(c, b) ==
    /\ c[1] \in {"approve", "deny", "cancel"} /\ b[1] \in DOMAIN requests /\ b[2] \in Approvers
    /\ c[2] = requests[b[1]].requester

\* What an approval has fixed once its approver was checked.
Fixed(c, b) ==
    c[1] = "approve" => /\ c[3][1] = requests[b[1]].permission /\ c[3][2] \in Nat /\ b[2] # requests[b[1]].requester

\* A request as an edit has decided it.
DecidedAs(c, b, r) ==
    /\ r \in Requests /\ r.requester = requests[b[1]].requester /\ r.permission = requests[b[1]].permission
    /\ \/ c[1] = "approve" /\ r.state = "approved" /\ r.approver = b[2] /\ r.expires = c[3][2]
       \/ c[1] = "deny" /\ r.state = "denied"
       \/ c[1] = "cancel" /\ r.state = "cancelled"

EditInv(e) ==
    /\ pc[e] = "create" => cmd[e][1] = "create" /\ cmd[e][2] \in Members
    /\ pc[e] = "insert" => /\ cmd[e][2] \in Members /\ members[cmd[e][2]] \in MembershipRows
                           /\ cmd[e][3][1] \in Permissions /\ cmd[e][3][2] \in Durations
    /\ pc[e] \in Deciding => Deals(cmd[e], about[e])
    /\ pc[e] = "requester" => about[e][2] # requests[about[e][1]].requester
    /\ pc[e] \in {"decide", "update"} => Fixed(cmd[e], about[e])
    /\ pc[e] = "update" => DecidedAs(cmd[e], about[e], loaded[e])
    /\ pc[e] \in Updating => /\ cmd[e][2] \in Members /\ members[cmd[e][2]] \in MembershipRows /\ Argued(cmd[e])
                             /\ cmd[e][1] = "approve" => /\ Deals(cmd[e], about[e]) /\ Fixed(cmd[e], about[e])
                                                         /\ DecidedAs(cmd[e], about[e], loaded[e])
    /\ pc[e] \in {"roles", "overrides", "save"} =>
          mem[e] \in MembershipRows /\ \A g \in mem[e].granted : Justified(cmd[e][2], g)

\* One at a time: only one edit runs, and what it has checked still holds.
Alone(e) ==
    /\ (pc[e] = "update" \/ (pc[e] \in Updating /\ cmd[e][1] = "approve")) => requests[about[e][1]].state = "pending"
    /\ pc[e] \in {"decide", "update"} \cup Updating /\ cmd[e][1] = "approve" =>
          about[e][2] = Operator \/ about[e][2] = members[cmd[e][2]].manager
Made(i) == {d \in decisions : d[2] = i /\ d[1] # "Requested"}
AloneInv ==
    limit = 1 => /\ \A e, f \in Running : e = f
                 /\ \A e \in Edits : Alone(e)
                 /\ \A i \in DOMAIN requests : IF requests[i].state = "pending" THEN Made(i) = {} ELSE \E d : Made(i) = {d}

MembershipInv ==
    /\ Tables /\ RequestInv /\ OutboxInv /\ GrantsInv /\ ActiveInv
    /\ (\A e \in Edits : EditInv(e)) /\ AloneInv

-----------------------------------------------------------------------------
(* The aggregate.                                                           *)

\* The commands that change status or profile.
LEMMA StatusGives ==
    ASSUME NEW a \in MembershipRows, NEW c, Argued(c), c[1] \in {"updateProfile", "deactivate", "reactivate"}
    PROVE  Apply(a, c) \in MembershipRows /\ Apply(a, c).granted = a.granted
  <1>1. Apply(a, c) = ApplyStatus(a, c)
    BY DEF Apply
  <1>2. CASE c[1] = "updateProfile"
    <2>1. c[3] \in Profiles /\ ApplyStatus(a, c) = UpdateProfile(a, c[3])
      BY <1>2 DEF ApplyStatus, Argued
    <2>2. QED
      BY <1>1, <2>1 DEF UpdateProfile, MembershipRows
  <1>3. CASE c[1] = "deactivate"
    <2>1. ApplyStatus(a, c) = Deactivate(a)
      BY <1>3 DEF ApplyStatus
    <2>2. QED
      BY <1>1, <2>1 DEF Deactivate, MembershipRows, Statuses
  <1>4. CASE c[1] = "reactivate"
    <2>1. ApplyStatus(a, c) = Reactivate(a)
      BY <1>4 DEF ApplyStatus
    <2>2. QED
      BY <1>1, <2>1 DEF Reactivate, MembershipRows, Statuses
  <1>5. QED
    BY <1>2, <1>3, <1>4, Zenon

\* The commands that change roles or the manager.
LEMMA RolesGive ==
    ASSUME NEW a \in MembershipRows, NEW c, Argued(c), c[1] \in {"assignRole", "revokeRole", "assignManager", "removeManager"}
    PROVE  Apply(a, c) \in MembershipRows /\ Apply(a, c).granted = a.granted
  <1>1. CASE c[1] = "assignRole"
    <2>1. c[3] \in Roles /\ Apply(a, c) = AssignRole(a, c[3])
      BY <1>1 DEF Apply, ApplyAuthorization, Argued
    <2>2. QED
      BY <2>1 DEF AssignRole, MembershipRows
  <1>2. CASE c[1] = "revokeRole"
    <2>1. Apply(a, c) = RevokeRole(a, c[3])
      BY <1>2 DEF Apply, ApplyAuthorization
    <2>2. QED
      BY <2>1 DEF RevokeRole, MembershipRows
  <1>3. CASE c[1] = "assignManager"
    <2>1. c[3] \in Members /\ Apply(a, c) = AssignManager(a, c[3])
      BY <1>3 DEF Apply, ApplyManager, Argued
    <2>2. QED
      BY <2>1 DEF AssignManager, MembershipRows
  <1>4. CASE c[1] = "removeManager"
    <2>1. Apply(a, c) = AssignManager(a, None)
      BY <1>4 DEF Apply, ApplyManager, RemoveManager
    <2>2. QED
      BY <2>1 DEF AssignManager, MembershipRows
  <1>5. QED
    BY <1>1, <1>2, <1>3, <1>4, Zenon

\* A row whose overlay changes.
Overlaid(a, G, R) == [a EXCEPT !.granted = G, !.revoked = R]
Grants == SUBSET (Permissions \X Expiries)
Revocations == SUBSET Permissions

\* It is a row.
LEMMA OverlaidGives ==
    ASSUME NEW a \in MembershipRows, NEW G \in Grants, NEW R \in Revocations
    PROVE  Overlaid(a, G, R) \in MembershipRows /\ Overlaid(a, G, R).granted = G /\ Overlaid(a, G, R).revoked = R
  <1>1. PICK N, P, Q, V : /\ N = Members \cup {None} /\ P = Profiles \cup {None} /\ Q = SUBSET Roles
                          /\ V = SUBSET Permissions
    BY Zenon
  <1>2. MembershipRows = [status : Statuses, manager : N, profile : P, roles : Q, granted : Grants, revoked : V]
    BY <1>1, Zenon DEF MembershipRows, Grants
  <1>3. R \in V
    BY <1>1, Zenon DEF Revocations
  <1>4. QED
    BY <1>2, <1>3, Zenon DEF Overlaid

\* The overlay that replaces the old one.
LEMMA OverlayGives ==
    ASSUME NEW a \in MembershipRows, NEW c, Argued(c), c[1] = "replaceOverrides"
    PROVE  Apply(a, c) \in MembershipRows /\ Apply(a, c).granted = c[3][1] \X {Never}
  <1>1. Apply(a, c) = ReplacePermissionOverlays(a, c[3][1], c[3][2])
    BY DEF Apply, ApplyAuthorization
  <1>2. c[3][1] \subseteq Permissions /\ c[3][2] \subseteq Permissions
    BY DEF Argued
  <1>3. c[3][1] \X {Never} \subseteq Permissions \X Expiries
    BY <1>2 DEF Expiries
  <1>4. PICK G, R : G = c[3][1] \X {Never} /\ R = c[3][2]
    BY Zenon
  <1>5. Apply(a, c) = Overlaid(a, G, R)
    BY <1>1, <1>4, Zenon DEF ReplacePermissionOverlays, Overlaid
  <1>6. G \in Grants /\ R \in Revocations
    BY <1>2, <1>3, <1>4, Zenon DEF Grants, Revocations
  <1>7. Overlaid(a, G, R) \in MembershipRows /\ Overlaid(a, G, R).granted = G /\ Overlaid(a, G, R).revoked = R
    BY <1>6, OverlaidGives
  <1>8. QED
    BY <1>4, <1>5, <1>7, Zenon

\* The grant of an approval.
LEMMA GrantGives ==
    ASSUME NEW a \in MembershipRows, NEW c, Argued(c), c[1] = "approve"
    PROVE  /\ Apply(a, c) \in MembershipRows
           /\ Apply(a, c).granted = {g \in a.granted : g[1] # c[3][1]} \cup {<<c[3][1], c[3][2]>>}
           /\ Apply(a, c).revoked = a.revoked \ {c[3][1]}
  <1>1. Apply(a, c) = GrantPermission(a, c[3][1], c[3][2])
    BY DEF Apply
  <1>2. c[3][1] \in Permissions /\ c[3][2] \in Expiries
    BY DEF Argued, Expiries
  <1>3. a.granted \subseteq Permissions \X Expiries /\ a.revoked \subseteq Permissions
    BY DEF MembershipRows
  <1>4. {g \in a.granted : g[1] # c[3][1]} \cup {<<c[3][1], c[3][2]>>} \subseteq Permissions \X Expiries
    BY <1>2, <1>3
  <1>5. PICK G, R : G = {g \in a.granted : g[1] # c[3][1]} \cup {<<c[3][1], c[3][2]>>} /\ R = a.revoked \ {c[3][1]}
    BY Zenon
  <1>6. Apply(a, c) = Overlaid(a, G, R)
    BY <1>1, <1>5, Zenon DEF GrantPermission, Overlaid
  <1>7. G \in Grants /\ R \in Revocations
    BY <1>3, <1>4, <1>5, Zenon DEF Grants, Revocations
  <1>8. Overlaid(a, G, R) \in MembershipRows /\ Overlaid(a, G, R).granted = G /\ Overlaid(a, G, R).revoked = R
    BY <1>7, OverlaidGives
  <1>9. QED
    BY <1>5, <1>6, <1>8, Zenon

\* The four statements of an update together write the whole aggregate.
LEMMA StoredIsApplied ==
    ASSUME NEW row \in MembershipRows, NEW a \in MembershipRows
    PROVE  replacePermissionOverrides(replaceRoleAssignments(persistMembershipProfile(persistMembershipStatus(row, a), a), a), a) = a
  <1>1. PICK r1 : r1 = persistMembershipStatus(row, a)
    OBVIOUS
  <1>2. r1 \in MembershipRows /\ r1.status = a.status
    BY <1>1 DEF persistMembershipStatus, MembershipRows
  <1>3. PICK r2 : r2 = persistMembershipProfile(r1, a)
    OBVIOUS
  <1>4. r2 \in MembershipRows /\ r2.status = a.status /\ r2.profile = a.profile /\ r2.manager = a.manager
    BY <1>2, <1>3, Zenon DEF persistMembershipProfile, MembershipRows
  <1>5. PICK r3 : r3 = replaceRoleAssignments(r2, a)
    OBVIOUS
  <1>6. r3 \in MembershipRows /\ r3.status = a.status /\ r3.profile = a.profile /\ r3.manager = a.manager /\ r3.roles = a.roles
    BY <1>4, <1>5 DEF replaceRoleAssignments, MembershipRows
  <1>7. PICK r4 : r4 = replacePermissionOverrides(r3, a)
    OBVIOUS
  <1>8. /\ r4 \in MembershipRows /\ r4.status = a.status /\ r4.profile = a.profile /\ r4.manager = a.manager
        /\ r4.roles = a.roles /\ r4.granted = a.granted /\ r4.revoked = a.revoked
    BY <1>6, <1>7, Zenon DEF replacePermissionOverrides, MembershipRows
  <1>9. r4 = a
    BY <1>8 DEF MembershipRows
  <1>10. QED
    BY <1>1, <1>3, <1>5, <1>7, <1>9, Zenon

-----------------------------------------------------------------------------
(* What a step leaves alone.                                                *)

\* Tables only grow: finished edits keep their commands, requests what they ask for.
Grows ==
    /\ outbox \subseteq outbox' /\ decisions \subseteq decisions'
    /\ \A e \in Edits : pc[e] = "done" => pc'[e] = "done" /\ cmd'[e] = cmd[e]
    /\ \A i \in DOMAIN requests : /\ i \in DOMAIN requests'
                                  /\ requests'[i].requester = requests[i].requester
                                  /\ requests'[i].permission = requests[i].permission
    /\ \A m \in Members : members[m] \in MembershipRows => members'[m] \in MembershipRows

\* A grant that is explained stays explained.
LEMMA JustifiedStays ==
    ASSUME RequestInv, Grows, NEW m, NEW g, Justified(m, g)
    PROVE  Justified(m, g)'
  <1>1. ASSUME Written(m, g) PROVE Written(m, g)'
    <2>1. PICK e \in Edits : /\ pc[e] = "done" /\ cmd[e][1] = "replaceOverrides" /\ cmd[e][2] = m
                             /\ g[1] \in cmd[e][3][1] /\ <<"PermissionsUpdated", m, e>> \in outbox
      BY <1>1, Zenon DEF Written
    <2>2. pc'[e] = "done" /\ cmd'[e] = cmd[e] /\ <<"PermissionsUpdated", m, e>> \in outbox'
      BY <2>1, Zenon DEF Grows
    <2>3. QED
      BY <2>1, <2>2, Zenon DEF Written
  <1>2. ASSUME Approved(m, g) PROVE Approved(m, g)'
    <2>1. PICK d \in decisions : /\ d[1] = "Approved" /\ d[4] = g[2] /\ d[3] # m
                                 /\ requests[d[2]].requester = m /\ requests[d[2]].permission = g[1]
      BY <1>2, Zenon DEF Approved
    <2>2. d \in decisions' /\ requests'[d[2]].requester = m /\ requests'[d[2]].permission = g[1]
      BY <2>1, Zenon DEF Grows, RequestInv
    <2>3. QED
      BY <2>1, <2>2, Zenon DEF Approved
  <1>3. QED
    BY <1>1, <1>2, Zenon DEF Justified

\* An edit that does not move keeps what is known of it.
LEMMA EditStays ==
    ASSUME RequestInv, Grows, NEW e \in Edits, EditInv(e), pc'[e] = pc[e], cmd'[e] = cmd[e],
           mem'[e] = mem[e], about'[e] = about[e], loaded'[e] = loaded[e]
    PROVE  EditInv(e)'
  <1>1. ASSUME Deals(cmd[e], about[e]) PROVE Deals(cmd[e], about[e])' /\ about[e][1] \in DOMAIN requests
    BY <1>1, Zenon DEF Deals, Grows
  <1>2. ASSUME Deals(cmd[e], about[e])
        PROVE  /\ requests'[about[e][1]].requester = requests[about[e][1]].requester
               /\ requests'[about[e][1]].permission = requests[about[e][1]].permission
    BY <1>2, Zenon DEF Deals, Grows
  <1>3. ASSUME Deals(cmd[e], about[e]), Fixed(cmd[e], about[e]) PROVE Fixed(cmd[e], about[e])'
    BY <1>2, <1>3, Zenon DEF Fixed
  <1>4. ASSUME Deals(cmd[e], about[e]), DecidedAs(cmd[e], about[e], loaded[e]) PROVE DecidedAs(cmd[e], about[e], loaded[e])'
    BY <1>2, <1>4, Zenon DEF DecidedAs
  <1>5. pc'[e] = "create" => cmd'[e][1] = "create" /\ cmd'[e][2] \in Members
    BY Zenon DEF EditInv
  <1>6. pc'[e] = "insert" => /\ cmd'[e][2] \in Members /\ members'[cmd'[e][2]] \in MembershipRows
                             /\ cmd'[e][3][1] \in Permissions /\ cmd'[e][3][2] \in Durations
    BY Zenon DEF EditInv, Grows
  <1>7. pc'[e] \in Deciding => Deals(cmd[e], about[e])'
    BY <1>1, Zenon DEF EditInv
  <1>8. pc'[e] = "requester" => about'[e][2] # requests'[about'[e][1]].requester
    <2>1. ASSUME pc[e] = "requester" PROVE Deals(cmd[e], about[e]) /\ about[e][2] # requests[about[e][1]].requester
      <3>1. pc[e] \in Deciding
        BY <2>1 DEF Deciding
      <3>2. QED
        BY <2>1, <3>1, Zenon DEF EditInv
    <2>2. QED
      BY <1>2, <2>1, Zenon
  <1>9. pc'[e] \in {"decide", "update"} => Fixed(cmd[e], about[e])'
    <2>1. ASSUME pc[e] \in {"decide", "update"} PROVE Deals(cmd[e], about[e]) /\ Fixed(cmd[e], about[e])
      <3>1. pc[e] \in Deciding
        BY <2>1 DEF Deciding
      <3>2. QED
        BY <2>1, <3>1, Zenon DEF EditInv
    <2>2. QED
      BY <1>3, <2>1, Zenon
  <1>10. pc'[e] = "update" => DecidedAs(cmd[e], about[e], loaded[e])'
    <2>1. ASSUME pc[e] = "update" PROVE Deals(cmd[e], about[e]) /\ DecidedAs(cmd[e], about[e], loaded[e])
      <3>1. pc[e] \in Deciding
        BY <2>1 DEF Deciding
      <3>2. QED
        BY <2>1, <3>1, Zenon DEF EditInv
    <2>2. QED
      BY <1>4, <2>1, Zenon
  <1>11. pc'[e] \in Updating => /\ cmd'[e][2] \in Members /\ members'[cmd'[e][2]] \in MembershipRows /\ Argued(cmd'[e])
                                /\ cmd'[e][1] = "approve" => /\ Deals(cmd[e], about[e])' /\ Fixed(cmd[e], about[e])'
                                                             /\ DecidedAs(cmd[e], about[e], loaded[e])'
    BY <1>1, <1>3, <1>4, Zenon DEF EditInv, Grows
  <1>12. pc'[e] \in {"roles", "overrides", "save"} =>
             mem'[e] \in MembershipRows /\ \A g \in mem'[e].granted : Justified(cmd[e][2], g)'
    <2>1. ASSUME pc[e] \in {"roles", "overrides", "save"}, NEW g \in mem[e].granted PROVE Justified(cmd[e][2], g)'
      <3>1. PICK m : m = cmd[e][2]
        OBVIOUS
      <3>2. Justified(m, g)
        BY <2>1, <3>1, Zenon DEF EditInv
      <3>3. Justified(m, g)'
        BY <3>2, JustifiedStays, Zenon
      <3>4. QED
        BY <3>1, <3>3, Zenon
    <2>2. QED
      BY <2>1, Zenon DEF EditInv
  <1>13. QED
    BY <1>5, <1>6, <1>7, <1>8, <1>9, <1>10, <1>11, <1>12, Zenon DEF EditInv

\* One entry of a function on Edits changes.
LEMMA SlotKept ==
    ASSUME NEW g, NEW h, NEW e \in Edits, NEW x, g = [f \in Edits |-> g[f]], h = [g EXCEPT ![e] = x]
    PROVE  /\ h = [f \in Edits |-> h[f]]
           /\ \A f \in Edits : h[f] = IF f = e THEN x ELSE g[f]
  OBVIOUS

\* Alone, an edit that moves is the only one that runs.
LEMMA OneRunner ==
    ASSUME MembershipInv, NEW e \in Edits, limit = 1, e \in Running \/ MayBegin, NEW f \in Running
    PROVE  f = e
  <1>1. CASE e \in Running
    BY <1>1, Zenon DEF MembershipInv, AloneInv
  <1>2. CASE MayBegin
    BY <1>2, Zenon DEF MayBegin
  <1>3. QED
    BY <1>1, <1>2, Zenon

\* What is known of a step about who runs.
LEMMA Stepping ==
    ASSUME MembershipInv, NEW e \in Edits, NEW next \in Places, pc' = [pc EXCEPT ![e] = next], limit' = limit,
           e \in Running \/ MayBegin,
           limit = 1 => Alone(e)' /\ \A i \in DOMAIN requests' :
                                        IF requests'[i].state = "pending" THEN Made(i)' = {} ELSE \E d : Made(i)' = {d}
    PROVE  AloneInv'
  <1>1. \A f \in Edits : pc'[f] = IF f = e THEN next ELSE pc[f]
    BY Zenon DEF MembershipInv, Tables
  <1>2. Running' \subseteq Running \cup {e}
    BY <1>1, Zenon DEF Running
  <1>4. ASSUME limit = 1 PROVE \A f \in Running' : f = e
    BY <1>2, <1>4, OneRunner, Zenon
  <1>5. ASSUME limit = 1, NEW f \in Edits PROVE Alone(f)'
    <2>1. CASE f = e
      BY <1>5, <2>1, Zenon
    <2>2. CASE f # e
      <3>1. f \notin Running /\ pc'[f] = pc[f]
        BY <1>1, <1>5, <2>2, OneRunner, Zenon
      <3>2. pc'[f] \in {"idle", "done", "refused", "failed"}
        BY <3>1, Zenon DEF Running
      <3>3. pc'[f] # "update" /\ pc'[f] \notin Updating /\ pc'[f] \notin {"decide", "update"} \cup Updating
        BY <3>2 DEF Updating
      <3>4. QED
        BY <3>3, Zenon DEF Alone
    <2>3. QED
      BY <2>1, <2>2, Zenon
  <1>6. QED
    BY <1>4, <1>5, Zenon DEF AloneInv

\* An edit that is at rest.
Rests == {"idle", "done", "refused", "failed"}

\* Nothing is asked of an edit that is at rest.
LEMMA Resting ==
    ASSUME NEW e, pc'[e] \in Rests
    PROVE  EditInv(e)' /\ Alone(e)'
  <1>1. /\ pc'[e] # "update" /\ pc'[e] # "create" /\ pc'[e] # "insert" /\ pc'[e] # "requester"
        /\ pc'[e] \notin Updating /\ pc'[e] \notin {"decide", "update"} \cup Updating /\ pc'[e] \notin Deciding
        /\ pc'[e] \notin {"decide", "update"} /\ pc'[e] \notin {"roles", "overrides", "save"}
    BY DEF Updating, Deciding, Rests
  <1>2. QED
    BY <1>1, Zenon DEF EditInv, Alone

\* What a step leaves of the edits.
Slots == /\ cmd = [e \in Edits |-> cmd[e]] /\ mem = [e \in Edits |-> mem[e]]
         /\ about = [e \in Edits |-> about[e]] /\ loaded = [e \in Edits |-> loaded[e]]
Others(e) == \A f \in Edits : f # e => /\ cmd'[f] = cmd[f] /\ mem'[f] = mem[f]
                                       /\ about'[f] = about[f] /\ loaded'[f] = loaded[f]

\* Edits that do not move keep what is known of them.
LEMMA OthersStay ==
    ASSUME MembershipInv, Grows, NEW e \in Edits, NEW next, pc' = [pc EXCEPT ![e] = next], Others(e),
           NEW f \in Edits, f # e
    PROVE  EditInv(f)'
  <1>1. pc'[f] = pc[f]
    BY Zenon DEF MembershipInv, Tables
  <1>2. QED
    BY <1>1, EditStays, Zenon DEF MembershipInv, Others

\* A step of an edit that writes no table.
LEMMA QuietKept ==
    ASSUME MembershipInv, NEW e \in Edits, NEW next \in Places, pc[e] # "done", pc' = [pc EXCEPT ![e] = next],
           e \in Running \/ MayBegin,
           limit' = limit, clock' = clock, persons' = persons, members' = members, outbox' = outbox,
           requests' = requests, decisions' = decisions, failures' \in 0 .. MaxFailures,
           Slots', Others(e), Grows => EditInv(e)', limit = 1 => Alone(e)'
    PROVE  MembershipInv'
  <1>1. \A f \in Edits : pc'[f] = IF f = e THEN next ELSE pc[f]
    BY Zenon DEF MembershipInv, Tables
  <1>2. Grows
    BY <1>1, Zenon DEF Grows, Others
  <1>3. Tables'
    <2>1. pc' \in [Edits -> Places]
      BY Zenon DEF MembershipInv, Tables
    <2>2. QED
      BY <2>1, Zenon DEF MembershipInv, Tables, Slots
  <1>4. RequestInv'
    BY Zenon DEF MembershipInv, RequestInv
  <1>5. OutboxInv'
    <2>1. ASSUME NEW x \in outbox' PROVE pc'[x[3]] = "done"
      <3>1. pc[x[3]] = "done" /\ x[3] \in Edits
        <4>1. x \in Events \X Members \X Edits
          BY Zenon DEF MembershipInv, Tables
        <4>2. x[3] \in Edits
          BY <4>1
        <4>3. QED
          BY <4>2, Zenon DEF MembershipInv, OutboxInv
      <3>2. QED
        BY <1>1, <3>1, Zenon
    <2>2. QED
      BY <2>1, Zenon DEF OutboxInv
  <1>6. GrantsInv'
    <2>1. ASSUME NEW m \in Members, members[m] \in MembershipRows, NEW g \in members[m].granted PROVE Justified(m, g)'
      <3>1. Justified(m, g) /\ RequestInv
        BY <2>1, Zenon DEF MembershipInv, GrantsInv
      <3>2. QED
        BY <1>2, <3>1, JustifiedStays, Zenon
    <2>2. QED
      BY <2>1, Zenon DEF GrantsInv
  <1>7. ActiveInv'
    BY Zenon DEF MembershipInv, ActiveInv, Active, Exists
  <1>8. AloneInv'
    <2>1. limit = 1 => \A i \in DOMAIN requests' : IF requests'[i].state = "pending" THEN Made(i)' = {} ELSE \E d : Made(i)' = {d}
      BY Zenon DEF MembershipInv, AloneInv, Made
    <2>2. QED
      BY <2>1, Stepping, Zenon
  <1>9. ASSUME NEW f \in Edits PROVE EditInv(f)'
    <2>1. CASE f = e
      BY <1>2, <2>1, Zenon
    <2>2. CASE f # e
      BY <1>2, <2>2, OthersStay, Zenon
    <2>3. QED
      BY <2>1, <2>2, Zenon
  <1>10. QED
    BY <1>3, <1>4, <1>5, <1>6, <1>7, <1>8, <1>9, Zenon DEF MembershipInv

-----------------------------------------------------------------------------
(* One lemma per action.                                                    *)

\* The slots after a step that sets one of them, or none.
LEMMA SameSlots ==
    ASSUME MembershipInv, NEW e \in Edits, cmd' = cmd, mem' = mem, about' = about, loaded' = loaded
    PROVE  Slots' /\ Others(e)
  BY Zenon DEF MembershipInv, Tables, Slots, Others

\* The same, of the command.
LEMMA CmdSlots ==
    ASSUME MembershipInv, NEW e \in Edits, NEW x, cmd' = [cmd EXCEPT ![e] = x], mem' = mem, about' = about, loaded' = loaded
    PROVE  Slots' /\ Others(e) /\ cmd'[e] = x
  <1>1. cmd = [f \in Edits |-> cmd[f]]
    BY Zenon DEF MembershipInv, Tables
  <1>2. cmd' = [f \in Edits |-> cmd'[f]] /\ \A f \in Edits : cmd'[f] = IF f = e THEN x ELSE cmd[f]
    BY <1>1, SlotKept
  <1>3. QED
    BY <1>2, Zenon DEF MembershipInv, Tables, Slots, Others

\* The same, of the aggregate in memory.
LEMMA MemSlots ==
    ASSUME MembershipInv, NEW e \in Edits, NEW x, mem' = [mem EXCEPT ![e] = x], cmd' = cmd, about' = about, loaded' = loaded
    PROVE  Slots' /\ Others(e) /\ mem'[e] = x
  <1>1. mem = [f \in Edits |-> mem[f]]
    BY Zenon DEF MembershipInv, Tables
  <1>2. mem' = [f \in Edits |-> mem'[f]] /\ \A f \in Edits : mem'[f] = IF f = e THEN x ELSE mem[f]
    BY <1>1, SlotKept
  <1>3. QED
    BY <1>2, Zenon DEF MembershipInv, Tables, Slots, Others

\* The same, of the request in memory.
LEMMA LoadedSlots ==
    ASSUME MembershipInv, NEW e \in Edits, NEW x, loaded' = [loaded EXCEPT ![e] = x], cmd' = cmd, about' = about, mem' = mem
    PROVE  Slots' /\ Others(e) /\ loaded'[e] = x
  <1>1. loaded = [f \in Edits |-> loaded[f]]
    BY Zenon DEF MembershipInv, Tables
  <1>2. loaded' = [f \in Edits |-> loaded'[f]] /\ \A f \in Edits : loaded'[f] = IF f = e THEN x ELSE loaded[f]
    BY <1>1, SlotKept
  <1>3. QED
    BY <1>2, Zenon DEF MembershipInv, Tables, Slots, Others

\* The same, of a decision that begins.
LEMMA DecisionSlots ==
    ASSUME MembershipInv, NEW e \in Edits, NEW x, NEW y, cmd' = [cmd EXCEPT ![e] = x], about' = [about EXCEPT ![e] = y],
           mem' = mem, loaded' = loaded
    PROVE  Slots' /\ Others(e) /\ cmd'[e] = x /\ about'[e] = y
  <1>1. cmd = [f \in Edits |-> cmd[f]] /\ about = [f \in Edits |-> about[f]]
    BY Zenon DEF MembershipInv, Tables
  <1>2. cmd' = [f \in Edits |-> cmd'[f]] /\ \A f \in Edits : cmd'[f] = IF f = e THEN x ELSE cmd[f]
    BY <1>1, SlotKept
  <1>3. about' = [f \in Edits |-> about'[f]] /\ \A f \in Edits : about'[f] = IF f = e THEN y ELSE about[f]
    BY <1>1, SlotKept
  <1>4. QED
    BY <1>2, <1>3, Zenon DEF MembershipInv, Tables, Slots, Others

\* The failures of a step that fails none.
LEMMA FailuresStay ==
    ASSUME MembershipInv, failures' = failures
    PROVE  failures' \in 0 .. MaxFailures
  BY Zenon DEF MembershipInv, Tables

\* A step that ends an edit, or that an edit at rest takes.
LEMMA EndKept ==
    ASSUME MembershipInv, NEW e \in Edits, NEW next \in {"done", "refused", "failed"}, pc[e] # "done",
           pc' = [pc EXCEPT ![e] = next], e \in Running \/ MayBegin,
           limit' = limit, clock' = clock, persons' = persons, members' = members, outbox' = outbox,
           requests' = requests, decisions' = decisions, failures' \in 0 .. MaxFailures, Slots', Others(e)
    PROVE  MembershipInv'
  <1>1. next \in Places
    BY DEF Places
  <1>2. pc'[e] = next
    BY Zenon DEF MembershipInv, Tables
  <1>3. pc'[e] \in Rests
    BY <1>2 DEF Rests
  <1>4. EditInv(e)' /\ Alone(e)'
    BY <1>3, Resting, Zenon
  <1>5. QED
    BY <1>1, <1>4, QuietKept, Zenon

\* A request to create an account.
LEMMA CreateUserKept ==
    ASSUME MembershipInv, NEW e \in Edits, CreateUser(e), UNCHANGED requestVars, limit' = limit
    PROVE  MembershipInv'
  <1>1. PICK m \in Members : /\ cmd' = [cmd EXCEPT ![e] = <<"create", m, PersonOf[m] \in persons>>]
                             /\ Goto(e, IF PersonOf[m] \in persons /\ Collides(m) THEN "refused" ELSE "create")
    BY Zenon DEF CreateUser
  <1>2. /\ clock' = clock /\ persons' = persons /\ members' = members /\ outbox' = outbox /\ mem' = mem
        /\ requests' = requests /\ decisions' = decisions /\ about' = about /\ loaded' = loaded /\ failures' = failures
        /\ pc[e] = "idle" /\ MayBegin
    BY Zenon DEF CreateUser, requestVars
  <1>3. failures' \in 0 .. MaxFailures /\ pc[e] # "done"
    BY <1>2, FailuresStay
  <1>4. PICK x : x = <<"create", m, PersonOf[m] \in persons>>
    BY Zenon
  <1>5. x[1] = "create" /\ x[2] = m
    BY <1>4
  <1>6. Slots' /\ Others(e) /\ cmd'[e] = x
    BY <1>1, <1>2, <1>4, CmdSlots, Zenon
  <1>7. CASE Goto(e, "refused")
    <2>1. PICK next \in {"done", "refused", "failed"} : next = "refused"
      BY Zenon
    <2>2. pc' = [pc EXCEPT ![e] = next]
      BY <1>7, <2>1, Zenon DEF Goto
    <2>3. QED
      BY <1>2, <1>3, <1>6, <2>2, EndKept, Zenon
  <1>8. CASE Goto(e, "create")
    <2>1. PICK next \in Places : next = "create"
      BY Zenon DEF Places
    <2>2. pc' = [pc EXCEPT ![e] = next]
      BY <1>8, <2>1, Zenon DEF Goto
    <2>3. pc'[e] = "create"
      BY <2>1, <2>2, Zenon DEF MembershipInv, Tables
    <2>4. /\ pc'[e] # "update" /\ pc'[e] # "insert" /\ pc'[e] # "requester"
          /\ pc'[e] \notin Updating /\ pc'[e] \notin {"decide", "update"} \cup Updating /\ pc'[e] \notin Deciding
          /\ pc'[e] \notin {"decide", "update"} /\ pc'[e] \notin {"roles", "overrides", "save"}
      BY <2>3 DEF Updating, Deciding
    <2>5. EditInv(e)' /\ Alone(e)'
      BY <1>5, <1>6, <2>4, Zenon DEF EditInv, Alone
    <2>6. QED
      BY <1>2, <1>3, <1>6, <2>2, <2>5, QuietKept, Zenon
  <1>9. QED
    BY <1>1, <1>7, <1>8, Zenon

\* A command that changes a membership begins.
LEMMA BeginKept ==
    ASSUME MembershipInv, NEW e \in Edits, Begin(e), UNCHANGED requestVars, limit' = limit
    PROVE  MembershipInv'
  <1>1. PICK m \in Members, c \in StatusCommands \cup AuthorizationCommands \cup ManagerCommands :
            Exists(m) /\ cmd' = [cmd EXCEPT ![e] = <<c[1], m, c[2]>>]
    BY Zenon DEF Begin
  <1>2. /\ clock' = clock /\ persons' = persons /\ members' = members /\ outbox' = outbox /\ mem' = mem
        /\ requests' = requests /\ decisions' = decisions /\ about' = about /\ loaded' = loaded /\ failures' = failures
        /\ pc[e] = "idle" /\ MayBegin /\ pc' = [pc EXCEPT ![e] = "row"]
    BY Zenon DEF Begin, requestVars, Goto
  <1>3. failures' \in 0 .. MaxFailures /\ pc[e] # "done"
    BY <1>2, FailuresStay
  <1>4. PICK x : x = <<c[1], m, c[2]>>
    BY Zenon
  <1>5. x[1] = c[1] /\ x[2] = m /\ x[3] = c[2]
    BY <1>4
  <1>6. Argued(x) /\ x[1] # "approve"
    <2>1. CASE c \in StatusCommands
      BY <1>5, <2>1 DEF StatusCommands, Argued
    <2>2. CASE c \in AuthorizationCommands
      <3>1. CASE c \in {"assignRole", "revokeRole"} \X Roles
        BY <1>5, <3>1 DEF Argued
      <3>2. CASE c \in {"replaceOverrides"} \X ((SUBSET Permissions) \X (SUBSET Permissions))
        BY <1>5, <3>2 DEF Argued
      <3>3. QED
        BY <2>2, <3>1, <3>2, Zenon DEF AuthorizationCommands
    <2>3. CASE c \in ManagerCommands
      BY <1>5, <2>3 DEF ManagerCommands, Argued
    <2>4. QED
      BY <1>1, <2>1, <2>2, <2>3, Zenon
  <1>7. members[m] \in MembershipRows
    BY <1>1, Zenon DEF Exists, MembershipInv, Tables
  <1>8. Slots' /\ Others(e) /\ cmd'[e] = x
    BY <1>1, <1>2, <1>4, CmdSlots, Zenon
  <1>9. PICK next \in Places : next = "row"
    BY Zenon DEF Places
  <1>10. pc'[e] = "row"
    BY <1>2, Zenon DEF MembershipInv, Tables
  <1>11. /\ pc'[e] # "update" /\ pc'[e] # "create" /\ pc'[e] # "insert" /\ pc'[e] # "requester" /\ pc'[e] \notin Deciding
         /\ pc'[e] \notin {"decide", "update"} /\ pc'[e] \notin {"roles", "overrides", "save"}
    BY <1>10 DEF Updating, Deciding
  <1>12. EditInv(e)' /\ Alone(e)'
    BY <1>2, <1>5, <1>6, <1>7, <1>8, <1>11, Zenon DEF EditInv, Alone
  <1>13. QED
    BY <1>2, <1>3, <1>8, <1>9, <1>12, QuietKept, Zenon

\* What is known of an edit that updates a membership.
Updates(e) ==
    /\ cmd[e][2] \in Members /\ members[cmd[e][2]] \in MembershipRows /\ Argued(cmd[e])
    /\ cmd[e][1] = "approve" => /\ Deals(cmd[e], about[e]) /\ Fixed(cmd[e], about[e])
                                /\ DecidedAs(cmd[e], about[e], loaded[e])

\* The next place of an edit that loads an aggregate.
LEMMA LoadKept ==
    ASSUME MembershipInv, NEW e \in Edits, NEW next \in {"roles", "overrides", "save"}, pc[e] \in Updating,
           pc' = [pc EXCEPT ![e] = next], NEW a \in MembershipRows, \A g \in a.granted : Justified(cmd[e][2], g),
           mem' = [mem EXCEPT ![e] = a], cmd' = cmd,
           clock' = clock, persons' = persons, members' = members, outbox' = outbox, failures' = failures,
           requests' = requests, decisions' = decisions, about' = about, loaded' = loaded, limit' = limit
    PROVE  MembershipInv'
  <1>1. next \in Places /\ pc[e] # "done" /\ next \in Updating
    BY DEF Places, Updating
  <1>2. e \in Running
    BY DEF Running, Updating
  <1>3. Slots' /\ Others(e) /\ mem'[e] = a
    BY MemSlots, Zenon
  <1>4. pc'[e] = next
    BY Zenon DEF MembershipInv, Tables
  <1>5. /\ pc'[e] # "update" /\ pc'[e] # "create" /\ pc'[e] # "insert" /\ pc'[e] # "requester" /\ pc'[e] \notin Deciding
        /\ pc'[e] \notin {"decide", "update"} /\ pc'[e] \in Updating
    BY <1>1, <1>4 DEF Deciding
  <1>6. Updates(e)
    BY Zenon DEF MembershipInv, EditInv, Updates
  <1>7. /\ cmd'[e][2] \in Members /\ members'[cmd'[e][2]] \in MembershipRows /\ Argued(cmd'[e])
        /\ cmd'[e][1] = "approve" => /\ Deals(cmd[e], about[e])' /\ Fixed(cmd[e], about[e])'
                                     /\ DecidedAs(cmd[e], about[e], loaded[e])'
    BY <1>6, Zenon DEF Updates, Deals, Fixed, DecidedAs
  <1>8. ASSUME Grows PROVE EditInv(e)'
    <2>1. ASSUME NEW g \in mem'[e].granted PROVE Justified(cmd[e][2], g)'
      <3>1. PICK m : m = cmd[e][2]
        OBVIOUS
      <3>2. Justified(m, g) /\ RequestInv
        BY <1>3, <2>1, <3>1, Zenon DEF MembershipInv
      <3>3. Justified(m, g)'
        BY <1>8, <3>2, JustifiedStays, Zenon
      <3>4. QED
        BY <3>1, <3>3, Zenon
    <2>2. mem'[e] \in MembershipRows
      BY <1>3, Zenon
    <2>3. QED
      BY <1>5, <1>7, <2>1, <2>2, Zenon DEF EditInv
  <1>9. limit = 1 => Alone(e)'
    <2>1. ASSUME limit = 1 PROVE Alone(e)
      BY <2>1, Zenon DEF MembershipInv, AloneInv
    <2>2. ASSUME limit = 1 PROVE Alone(e)'
      BY <1>5, <2>1, <2>2, Zenon DEF Alone
    <2>3. QED
      BY <2>2
  <1>10. failures' \in 0 .. MaxFailures
    BY FailuresStay, Zenon
  <1>11. QED
    BY <1>1, <1>2, <1>3, <1>8, <1>9, <1>10, QuietKept, Zenon

\* The three SELECTs of loadMembership.
LEMMA LoadsKept ==
    ASSUME MembershipInv, NEW e \in Edits, LoadRow(e) \/ LoadRoleAssignments(e) \/ LoadPermissionOverrides(e),
           UNCHANGED requestVars, limit' = limit
    PROVE  MembershipInv'
  <1>1. /\ clock' = clock /\ persons' = persons /\ members' = members /\ outbox' = outbox /\ cmd' = cmd
        /\ requests' = requests /\ decisions' = decisions /\ about' = about /\ loaded' = loaded /\ failures' = failures
    BY Zenon DEF LoadRow, LoadRoleAssignments, LoadPermissionOverrides, requestVars
  <1>2. pc[e] \in Updating
    BY DEF LoadRow, LoadRoleAssignments, LoadPermissionOverrides, Updating
  <1>3. PICK m : m = cmd[e][2]
    OBVIOUS
  <1>4. m \in Members /\ members[m] \in MembershipRows
    BY <1>2, <1>3, Zenon DEF MembershipInv, EditInv
  <1>5. CASE LoadRow(e)
    <2>1. PICK a : a = [members[m] EXCEPT !.roles = {}, !.granted = {}, !.revoked = {}]
      OBVIOUS
    <2>2. mem' = [mem EXCEPT ![e] = a]
      BY <1>3, <1>5, <2>1, Zenon DEF LoadRow
    <2>3. a \in MembershipRows /\ a.granted = {}
      BY <1>4, <2>1, Zenon DEF MembershipRows
    <2>4. PICK next \in {"roles", "overrides", "save"} : next = "roles"
      BY Zenon
    <2>5. pc' = [pc EXCEPT ![e] = next]
      BY <1>5, <2>4, Zenon DEF LoadRow, Goto
    <2>6. \A g \in a.granted : Justified(cmd[e][2], g)
      BY <2>3, Zenon
    <2>7. QED
      BY <1>1, <1>2, <2>2, <2>3, <2>5, <2>6, LoadKept, Zenon
  <1>6. CASE LoadRoleAssignments(e)
    <2>1. mem[e] \in MembershipRows /\ \A g \in mem[e].granted : Justified(cmd[e][2], g)
      <3>1. pc[e] \in {"roles", "overrides", "save"}
        BY <1>6 DEF LoadRoleAssignments
      <3>2. QED
        BY <3>1, Zenon DEF MembershipInv, EditInv
    <2>2. PICK a : a = [mem[e] EXCEPT !.roles = members[m].roles]
      BY Zenon
    <2>3. mem' = [mem EXCEPT ![e] = a]
      BY <1>3, <1>6, <2>2, Zenon DEF LoadRoleAssignments
    <2>4. a \in MembershipRows /\ a.granted = mem[e].granted
      BY <1>4, <2>1, <2>2 DEF MembershipRows
    <2>5. PICK next \in {"roles", "overrides", "save"} : next = "overrides"
      BY Zenon
    <2>6. pc' = [pc EXCEPT ![e] = next]
      BY <1>6, <2>5, Zenon DEF LoadRoleAssignments, Goto
    <2>7. \A g \in a.granted : Justified(cmd[e][2], g)
      BY <2>1, <2>4, Zenon
    <2>8. QED
      BY <1>1, <1>2, <2>3, <2>4, <2>6, <2>7, LoadKept, Zenon
  <1>7. CASE LoadPermissionOverrides(e)
    <2>1. mem[e] \in MembershipRows
      <3>1. pc[e] \in {"roles", "overrides", "save"}
        BY <1>7 DEF LoadPermissionOverrides
      <3>2. QED
        BY <3>1, Zenon DEF MembershipInv, EditInv
    <2>2. PICK a : a = [mem[e] EXCEPT !.granted = members[m].granted, !.revoked = members[m].revoked]
      OBVIOUS
    <2>3. mem' = [mem EXCEPT ![e] = a]
      BY <1>3, <1>7, <2>2, Zenon DEF LoadPermissionOverrides
    <2>4. a \in MembershipRows /\ a.granted = members[m].granted
      BY <1>4, <2>1, <2>2, Zenon DEF MembershipRows
    <2>5. \A g \in a.granted : Justified(cmd[e][2], g)
      BY <1>3, <1>4, <2>4, Zenon DEF MembershipInv, GrantsInv
    <2>6. CASE Goto(e, "save")
      <3>1. PICK next \in {"roles", "overrides", "save"} : next = "save"
        BY Zenon
      <3>2. pc' = [pc EXCEPT ![e] = next]
        BY <2>6, <3>1, Zenon DEF Goto
      <3>3. QED
        BY <1>1, <1>2, <2>3, <2>4, <2>5, <3>2, LoadKept, Zenon
    <2>7. CASE Goto(e, "refused")
      <3>1. PICK next \in {"done", "refused", "failed"} : next = "refused"
        BY Zenon
      <3>2. pc' = [pc EXCEPT ![e] = next]
        BY <2>7, <3>1, Zenon DEF Goto
      <3>3. Slots' /\ Others(e)
        BY <1>1, <2>3, MemSlots, Zenon
      <3>4. e \in Running /\ pc[e] # "done"
        BY <1>2 DEF Running, Updating
      <3>5. failures' \in 0 .. MaxFailures
        BY <1>1, FailuresStay, Zenon
      <3>6. QED
        BY <1>1, <3>2, <3>3, <3>4, <3>5, EndKept, Zenon
    <2>8. QED
      BY <1>7, <2>6, <2>7, Zenon DEF LoadPermissionOverrides
  <1>8. QED
    BY <1>5, <1>6, <1>7, Zenon

\* A statement that fails.
LEMMA AbortKept ==
    ASSUME MembershipInv, NEW e \in Edits, Abort(e), UNCHANGED requestVars, limit' = limit
    PROVE  MembershipInv'
  <1>1. /\ clock' = clock /\ persons' = persons /\ members' = members /\ outbox' = outbox /\ cmd' = cmd /\ mem' = mem
        /\ requests' = requests /\ decisions' = decisions /\ about' = about /\ loaded' = loaded
        /\ pc' = [pc EXCEPT ![e] = "failed"] /\ e \in Running
    BY Zenon DEF Abort, requestVars, Goto
  <1>2. failures' \in 0 .. MaxFailures
    BY MembershipsAssumption DEF Abort, Fail, MembershipInv, Tables
  <1>3. PICK next \in {"done", "refused", "failed"} : next = "failed"
    BY Zenon
  <1>4. pc[e] # "done"
    BY <1>1, Zenon DEF Running
  <1>5. Slots' /\ Others(e)
    BY <1>1, SameSlots, Zenon
  <1>6. QED
    BY <1>1, <1>2, <1>3, <1>4, <1>5, EndKept, Zenon

\* A member asks for a permission.
LEMMA AskKept ==
    ASSUME MembershipInv, NEW e \in Edits, RequestPermissionElevation(e), limit' = limit
    PROVE  MembershipInv'
  <1>1. PICK m \in Members, p \in Permissions, d \in Durations :
            Exists(m) /\ cmd' = [cmd EXCEPT ![e] = <<"request", m, <<p, d>>>>]
    BY Zenon DEF RequestPermissionElevation
  <1>2. /\ clock' = clock /\ persons' = persons /\ members' = members /\ outbox' = outbox /\ mem' = mem
        /\ requests' = requests /\ decisions' = decisions /\ about' = about /\ loaded' = loaded /\ failures' = failures
        /\ pc[e] = "idle" /\ MayBegin /\ pc' = [pc EXCEPT ![e] = "insert"]
    BY Zenon DEF RequestPermissionElevation, requestVars, Goto
  <1>3. failures' \in 0 .. MaxFailures /\ pc[e] # "done"
    BY <1>2, FailuresStay
  <1>4. PICK x : x = <<"request", m, <<p, d>>>>
    BY Zenon
  <1>5. x[2] = m /\ x[3][1] = p /\ x[3][2] = d
    BY <1>4
  <1>6. members[m] \in MembershipRows
    BY <1>1, Zenon DEF Exists, MembershipInv, Tables
  <1>7. Slots' /\ Others(e) /\ cmd'[e] = x
    BY <1>1, <1>2, <1>4, CmdSlots, Zenon
  <1>8. PICK next \in Places : next = "insert"
    BY Zenon DEF Places
  <1>9. pc'[e] = "insert"
    BY <1>2, Zenon DEF MembershipInv, Tables
  <1>10. /\ pc'[e] # "update" /\ pc'[e] # "create" /\ pc'[e] # "requester" /\ pc'[e] \notin Deciding
         /\ pc'[e] \notin {"decide", "update"} /\ pc'[e] \notin {"roles", "overrides", "save"}
         /\ pc'[e] \notin Updating /\ pc'[e] \notin {"decide", "update"} \cup Updating
    BY <1>9 DEF Updating, Deciding
  <1>11. EditInv(e)' /\ Alone(e)'
    BY <1>2, <1>5, <1>6, <1>7, <1>10, Zenon DEF EditInv, Alone
  <1>12. QED
    BY <1>2, <1>3, <1>7, <1>8, <1>11, QuietKept, Zenon

\* The places of a decision, told apart.
LEMMA DecidingPlaces ==
    ASSUME NEW e, NEW next \in Deciding, pc'[e] = next
    PROVE  /\ pc'[e] # "create" /\ pc'[e] # "insert" /\ pc'[e] \notin Updating /\ pc'[e] \notin {"roles", "overrides", "save"}
           /\ pc'[e] \in {"decide", "update"} \cup Updating => pc'[e] \in {"decide", "update"}
           /\ next \in Places
  BY DEF Deciding, Updating, Places

\* A step from one place of a decision to the next.
LEMMA DecidingKept ==
    ASSUME MembershipInv, NEW e \in Edits, NEW next \in Deciding, pc[e] # "done", pc' = [pc EXCEPT ![e] = next],
           e \in Running \/ MayBegin,
           limit' = limit, clock' = clock, persons' = persons, members' = members, outbox' = outbox,
           requests' = requests, decisions' = decisions, failures' = failures, Slots', Others(e),
           Deals(cmd'[e], about'[e]), next = "requester" => about'[e][2] # requests[about'[e][1]].requester,
           next \in {"decide", "update"} => Fixed(cmd'[e], about'[e]),
           next = "update" => DecidedAs(cmd'[e], about'[e], loaded'[e]),
           limit = 1 => /\ next = "update" => requests[about'[e][1]].state = "pending"
                        /\ next \in {"decide", "update"} /\ cmd'[e][1] = "approve" =>
                              about'[e][2] = Operator \/ about'[e][2] = members[cmd'[e][2]].manager
    PROVE  MembershipInv'
  <1>1. pc'[e] = next
    BY Zenon DEF MembershipInv, Tables
  <1>2. /\ pc'[e] # "create" /\ pc'[e] # "insert" /\ pc'[e] \notin Updating /\ pc'[e] \notin {"roles", "overrides", "save"}
        /\ pc'[e] \in {"decide", "update"} \cup Updating => pc'[e] \in {"decide", "update"}
        /\ next \in Places
    BY <1>1, DecidingPlaces
  <1>3. PICK c, b, r : c = cmd'[e] /\ b = about'[e] /\ r = loaded'[e]
    OBVIOUS
  <1>4. Deals(cmd[e], about[e])'
    <2>1. Deals(c, b)
      BY <1>3, Zenon
    <2>2. Deals(c, b)'
      BY <2>1, Zenon DEF Deals
    <2>3. QED
      BY <1>3, <2>2, Zenon
  <1>5. next \in {"decide", "update"} => Fixed(cmd[e], about[e])'
    <2>1. next \in {"decide", "update"} => Fixed(c, b)
      BY <1>3, Zenon
    <2>2. next \in {"decide", "update"} => Fixed(c, b)'
      BY <2>1, Zenon DEF Fixed
    <2>3. QED
      BY <1>3, <2>2, Zenon
  <1>6. next = "update" => DecidedAs(cmd[e], about[e], loaded[e])'
    <2>1. next = "update" => DecidedAs(c, b, r)
      BY <1>3, Zenon
    <2>2. next = "update" => DecidedAs(c, b, r)'
      BY <2>1, Zenon DEF DecidedAs
    <2>3. QED
      BY <1>3, <2>2, Zenon
  <1>7. EditInv(e)'
    BY <1>1, <1>2, <1>4, <1>5, <1>6, Zenon DEF EditInv
  <1>8. limit = 1 => Alone(e)'
    BY <1>1, <1>2, Zenon DEF Alone
  <1>9. failures' \in 0 .. MaxFailures
    BY FailuresStay, Zenon
  <1>10. QED
    BY <1>2, <1>7, <1>8, <1>9, QuietKept, Zenon

\* A decision begins.
LEMMA BeginDecisionKept ==
    ASSUME MembershipInv, NEW e \in Edits, NEW c \in {"approve", "deny", "cancel"}, NEW i \in DOMAIN requests,
           NEW by \in Approvers, BeginDecision(e, c, i, by), limit' = limit
    PROVE  MembershipInv'
  <1>1. PICK x, y : x = <<c, requests[i].requester, None>> /\ y = <<i, by>>
    BY Zenon
  <1>2. x[1] = c /\ x[2] = requests[i].requester /\ y[1] = i /\ y[2] = by
    BY <1>1
  <1>3. /\ clock' = clock /\ persons' = persons /\ members' = members /\ outbox' = outbox /\ mem' = mem
        /\ requests' = requests /\ decisions' = decisions /\ loaded' = loaded /\ failures' = failures
        /\ pc[e] = "idle" /\ MayBegin /\ pc' = [pc EXCEPT ![e] = "request"]
        /\ cmd' = [cmd EXCEPT ![e] = x] /\ about' = [about EXCEPT ![e] = y]
    BY <1>1, Zenon DEF BeginDecision, Goto
  <1>4. Slots' /\ Others(e) /\ cmd'[e] = x /\ about'[e] = y
    BY <1>3, DecisionSlots, Zenon
  <1>5. PICK next \in Deciding : next = "request"
    BY Zenon DEF Deciding
  <1>6. next # "requester" /\ next \notin {"decide", "update"} /\ next # "update" /\ pc[e] # "done"
    BY <1>3, <1>5
  <1>7. Deals(x, y)
    BY <1>2, Zenon DEF Deals
  <1>8. QED
    BY <1>3, <1>4, <1>5, <1>6, <1>7, DecidingKept, Zenon

\* What is known of an edit that decides.
LEMMA DecidingFacts ==
    ASSUME MembershipInv, NEW e \in Edits, pc[e] \in Deciding
    PROVE  /\ Deals(cmd[e], about[e]) /\ e \in Running /\ pc[e] # "done"
           /\ about[e][1] \in DOMAIN requests /\ requests[about[e][1]] \in Requests
           /\ cmd[e][2] = requests[about[e][1]].requester
           /\ requests[about[e][1]].requester \in Members /\ requests[about[e][1]].permission \in Permissions
           /\ requests[about[e][1]].days \in Nat
           /\ members[requests[about[e][1]].requester] \in MembershipRows
  <1>1. Deals(cmd[e], about[e])
    BY Zenon DEF MembershipInv, EditInv
  <1>2. e \in Running /\ pc[e] # "done"
    BY DEF Running, Deciding
  <1>3. about[e][1] \in DOMAIN requests /\ cmd[e][2] = requests[about[e][1]].requester
    BY <1>1, Zenon DEF Deals
  <1>4. PICK i : i = about[e][1]
    OBVIOUS
  <1>5. requests[i] \in Requests
    BY <1>3, <1>4 DEF MembershipInv, Tables
  <1>6. requests[i].requester \in Members /\ requests[i].permission \in Permissions /\ requests[i].days \in Nat
    BY <1>5, PermissionRequestsAssumption, Zenon DEF Requests
  <1>7. members[requests[i].requester] \in MembershipRows
    BY <1>3, <1>4, Zenon DEF MembershipInv, RequestInv
  <1>8. QED
    BY <1>1, <1>2, <1>3, <1>4, <1>5, <1>6, <1>7, Zenon

\* An edit that is refused without having changed anything.
LEMMA RefusedKept ==
    ASSUME MembershipInv, NEW e \in Edits, e \in Running, Goto(e, "refused"), Slots', Others(e),
           limit' = limit, clock' = clock, persons' = persons, members' = members, outbox' = outbox,
           requests' = requests, decisions' = decisions, failures' = failures
    PROVE  MembershipInv'
  <1>1. PICK next \in {"done", "refused", "failed"} : next = "refused"
    BY Zenon
  <1>2. pc' = [pc EXCEPT ![e] = next] /\ pc[e] # "done"
    BY <1>1, Zenon DEF Goto, Running
  <1>3. failures' \in 0 .. MaxFailures
    BY FailuresStay, Zenon
  <1>4. QED
    BY <1>1, <1>2, <1>3, EndKept, Zenon

\* The request must be pending, and its approver is not the requester.
LEMMA CheckRequestKept ==
    ASSUME MembershipInv, NEW e \in Edits, CheckRequest(e), limit' = limit
    PROVE  MembershipInv'
  <1>1. /\ clock' = clock /\ persons' = persons /\ members' = members /\ outbox' = outbox /\ mem' = mem /\ cmd' = cmd
        /\ requests' = requests /\ decisions' = decisions /\ about' = about /\ loaded' = loaded /\ failures' = failures
        /\ pc[e] = "request"
    BY Zenon DEF CheckRequest, requestVars
  <1>2. pc[e] \in Deciding
    BY <1>1 DEF Deciding
  <1>3. Deals(cmd[e], about[e]) /\ e \in Running /\ pc[e] # "done"
    BY <1>2, DecidingFacts, Zenon
  <1>4. Slots' /\ Others(e)
    BY <1>1, SameSlots, Zenon
  <1>5. Deals(cmd'[e], about'[e])
    BY <1>1, <1>3, Zenon
  <1>6. CASE Goto(e, "refused")
    BY <1>1, <1>3, <1>4, <1>6, RefusedKept, Zenon
  <1>7. CASE Goto(e, "decide") /\ cmd[e][1] = "cancel"
    <2>1. PICK next \in Deciding : next = "decide"
      BY Zenon DEF Deciding
    <2>2. pc' = [pc EXCEPT ![e] = next] /\ next # "requester" /\ next # "update" /\ cmd'[e][1] # "approve"
      BY <1>1, <1>7, <2>1 DEF Goto
    <2>3. Fixed(cmd'[e], about'[e])
      BY <2>2, Zenon DEF Fixed
    <2>4. QED
      BY <1>1, <1>3, <1>4, <1>5, <2>1, <2>2, <2>3, DecidingKept, Zenon
  <1>8. CASE Goto(e, "requester") /\ about[e][2] # requests[about[e][1]].requester
    <2>1. PICK next \in Deciding : next = "requester"
      BY Zenon DEF Deciding
    <2>2. pc' = [pc EXCEPT ![e] = next] /\ next # "update" /\ next \notin {"decide", "update"}
      BY <1>8, <2>1 DEF Goto
    <2>3. about'[e][2] # requests[about'[e][1]].requester
      BY <1>1, <1>8, Zenon
    <2>4. QED
      BY <1>1, <1>3, <1>4, <1>5, <2>1, <2>2, <2>3, DecidingKept, Zenon
  <1>9. QED
    BY <1>6, <1>7, <1>8, Zenon DEF CheckRequest

\* The approver is the operator or the manager; the moment of the check sets the end.
LEMMA CheckApproverKept ==
    ASSUME MembershipInv, NEW e \in Edits, CheckApprover(e), limit' = limit
    PROVE  MembershipInv'
  <1>1. PICK i, by, r, x : /\ i = about[e][1] /\ by = about[e][2] /\ r = requests[i]
                           /\ x = <<cmd[e][1], cmd[e][2], <<r.permission, clock + r.days>>>>
    BY Zenon
  <1>2. /\ clock' = clock /\ persons' = persons /\ members' = members /\ outbox' = outbox /\ mem' = mem
        /\ requests' = requests /\ decisions' = decisions /\ about' = about /\ loaded' = loaded /\ failures' = failures
        /\ pc[e] = "requester" /\ cmd' = [cmd EXCEPT ![e] = x]
        /\ Goto(e, IF callerCanApprove(members[r.requester], by) THEN "decide" ELSE "refused")
    BY <1>1, Zenon DEF CheckApprover, requestVars
  <1>3. pc[e] \in Deciding
    BY <1>2 DEF Deciding
  <1>4. /\ Deals(cmd[e], about[e]) /\ e \in Running /\ pc[e] # "done" /\ cmd[e][2] = r.requester /\ r.days \in Nat
    BY <1>1, <1>3, DecidingFacts, Zenon
  <1>5. by # r.requester
    BY <1>1, <1>2, Zenon DEF MembershipInv, EditInv
  <1>6. /\ x[1] = cmd[e][1] /\ x[2] = cmd[e][2] /\ x[3][1] = r.permission /\ x[3][2] \in Nat
    <2>1. clock + r.days \in Nat
      BY <1>4, MembershipsAssumption DEF MembershipInv, Tables
    <2>2. QED
      BY <1>1, <2>1
  <1>7. Slots' /\ Others(e) /\ cmd'[e] = x
    BY <1>2, CmdSlots, Zenon
  <1>8. Deals(cmd'[e], about'[e])
    BY <1>2, <1>4, <1>6, <1>7, Zenon DEF Deals
  <1>9. CASE Goto(e, "refused")
    BY <1>2, <1>4, <1>7, <1>9, RefusedKept, Zenon
  <1>10. CASE Goto(e, "decide") /\ callerCanApprove(members[r.requester], by)
    <2>1. PICK next \in Deciding : next = "decide"
      BY Zenon DEF Deciding
    <2>2. pc' = [pc EXCEPT ![e] = next] /\ next # "requester" /\ next # "update"
      BY <1>10, <2>1 DEF Goto
    <2>3. Fixed(cmd'[e], about'[e])
      BY <1>1, <1>2, <1>5, <1>6, <1>7, Zenon DEF Fixed
    <2>4. about'[e][2] = Operator \/ about'[e][2] = members[cmd'[e][2]].manager
      BY <1>1, <1>2, <1>4, <1>6, <1>7, <1>10, Zenon DEF callerCanApprove
    <2>5. QED
      BY <1>2, <1>4, <1>7, <1>8, <2>1, <2>2, <2>3, <2>4, DecidingKept, Zenon
  <1>11. QED
    BY <1>2, <1>9, <1>10, Zenon

\* What Approve, Deny and Cancel leave when they change the request.
LEMMA DecidedGives ==
    ASSUME NEW e \in Edits, NEW r \in Requests, cmd[e][1] \in {"approve", "deny", "cancel"}, about[e][2] \in Approvers,
           cmd[e][1] = "approve" => cmd[e][3][2] \in Nat, Decided(e, r) # r
    PROVE  /\ r.state = "pending" /\ Decided(e, r) \in Requests
           /\ Decided(e, r).requester = r.requester /\ Decided(e, r).permission = r.permission
           /\ \/ cmd[e][1] = "approve" /\ Decided(e, r).state = "approved" /\ Decided(e, r).approver = about[e][2]
                                       /\ Decided(e, r).expires = cmd[e][3][2]
              \/ cmd[e][1] = "deny" /\ Decided(e, r).state = "denied"
              \/ cmd[e][1] = "cancel" /\ Decided(e, r).state = "cancelled"
  <1>1. PICK by, end : by = about[e][2] /\ end = cmd[e][3][2]
    OBVIOUS
  <1>2. CASE cmd[e][1] = "approve"
    <2>1. Decided(e, r) = Approve(r, by, end) /\ end \in Expiries
      BY <1>1, <1>2 DEF Decided, Expiries
    <2>2. r.state = "pending" /\ Decided(e, r) = [r EXCEPT !.state = "approved", !.approver = by, !.expires = end]
      BY <2>1, Zenon DEF Approve
    <2>3. QED
      BY <1>1, <1>2, <2>1, <2>2, Zenon DEF Requests, RequestStates, Approvers
  <1>3. CASE cmd[e][1] = "deny"
    <2>1. Decided(e, r) = Deny(r, by)
      BY <1>1, <1>3 DEF Decided
    <2>2. r.state = "pending" /\ Decided(e, r) = [r EXCEPT !.state = "denied", !.approver = by]
      BY <2>1, Zenon DEF Deny
    <2>3. QED
      BY <1>1, <1>3, <2>2, Zenon DEF Requests, RequestStates, Approvers
  <1>4. CASE cmd[e][1] = "cancel"
    <2>1. Decided(e, r) = Cancel(r)
      BY <1>4 DEF Decided
    <2>2. r.state = "pending" /\ Decided(e, r) = [r EXCEPT !.state = "cancelled"]
      BY <2>1, Zenon DEF Cancel
    <2>3. QED
      BY <1>4, <2>2 DEF Requests, RequestStates
  <1>5. QED
    BY <1>2, <1>3, <1>4, Zenon

\* The request is loaded again and decided in memory.
LEMMA LoadRequestKept ==
    ASSUME MembershipInv, NEW e \in Edits, LoadRequest(e), limit' = limit
    PROVE  MembershipInv'
  <1>1. PICK r, x : r = requests[about[e][1]] /\ x = Decided(e, r)
    OBVIOUS
  <1>2. /\ clock' = clock /\ persons' = persons /\ members' = members /\ outbox' = outbox /\ mem' = mem /\ cmd' = cmd
        /\ requests' = requests /\ decisions' = decisions /\ about' = about /\ failures' = failures
        /\ pc[e] = "decide" /\ loaded' = [loaded EXCEPT ![e] = x] /\ Goto(e, IF x = r THEN "refused" ELSE "update")
    BY <1>1, Zenon DEF LoadRequest
  <1>3. pc[e] \in Deciding /\ pc[e] \in {"decide", "update"}
    BY <1>2 DEF Deciding
  <1>4. Deals(cmd[e], about[e]) /\ e \in Running /\ pc[e] # "done" /\ r \in Requests
    BY <1>1, <1>3, DecidingFacts, Zenon
  <1>5. Fixed(cmd[e], about[e])
    BY <1>3, Zenon DEF MembershipInv, EditInv
  <1>6. Slots' /\ Others(e) /\ loaded'[e] = x
    BY <1>2, LoadedSlots, Zenon
  <1>7. CASE x = r
    BY <1>2, <1>4, <1>6, <1>7, RefusedKept, Zenon
  <1>8. CASE x # r
    <2>1. PICK next \in Deciding : next = "update"
      BY Zenon DEF Deciding
    <2>2. pc' = [pc EXCEPT ![e] = next] /\ next # "requester"
      BY <1>2, <1>8, <2>1 DEF Goto
    <2>3. /\ cmd[e][1] \in {"approve", "deny", "cancel"} /\ about[e][2] \in Approvers
          /\ cmd[e][1] = "approve" => cmd[e][3][2] \in Nat
      BY <1>4, <1>5, Zenon DEF Deals, Fixed
    <2>4. /\ r.state = "pending" /\ x \in Requests /\ x.requester = r.requester /\ x.permission = r.permission
          /\ \/ cmd[e][1] = "approve" /\ x.state = "approved" /\ x.approver = about[e][2] /\ x.expires = cmd[e][3][2]
             \/ cmd[e][1] = "deny" /\ x.state = "denied"
             \/ cmd[e][1] = "cancel" /\ x.state = "cancelled"
      BY <1>1, <1>4, <1>8, <2>3, DecidedGives
    <2>5. DecidedAs(cmd'[e], about'[e], loaded'[e])
      BY <1>1, <1>2, <1>6, <2>4, Zenon DEF DecidedAs
    <2>6. Deals(cmd'[e], about'[e]) /\ Fixed(cmd'[e], about'[e])
      BY <1>2, <1>4, <1>5, Zenon
    <2>7. ASSUME limit = 1
          PROVE  /\ requests[about'[e][1]].state = "pending"
                 /\ cmd'[e][1] = "approve" => about'[e][2] = Operator \/ about'[e][2] = members[cmd'[e][2]].manager
      <3>1. Alone(e) /\ pc[e] \in {"decide", "update"} \cup Updating
        BY <1>3, <2>7, Zenon DEF MembershipInv, AloneInv
      <3>2. QED
        BY <1>1, <1>2, <2>4, <3>1, Zenon DEF Alone
    <2>8. QED
      BY <1>2, <1>4, <1>6, <2>2, <2>5, <2>6, <2>7, DecidingKept, Zenon
  <1>9. QED
    BY <1>7, <1>8, Zenon

\* The approval goes on to the membership of the requester.
LEMMA GoOnKept ==
    ASSUME MembershipInv, NEW e \in Edits, PersistDecision(e), cmd[e][1] = "approve", limit' = limit
    PROVE  MembershipInv'
  <1>1. /\ clock' = clock /\ persons' = persons /\ members' = members /\ outbox' = outbox /\ mem' = mem /\ cmd' = cmd
        /\ requests' = requests /\ decisions' = decisions /\ about' = about /\ loaded' = loaded /\ failures' = failures
        /\ pc[e] = "update" /\ pc' = [pc EXCEPT ![e] = "row"]
    BY Zenon DEF PersistDecision, Goto
  <1>2. pc[e] \in Deciding /\ pc[e] \in {"decide", "update"}
    BY <1>1 DEF Deciding
  <1>3. PICK i, m : i = about[e][1] /\ m = requests[i].requester
    OBVIOUS
  <1>4. /\ Deals(cmd[e], about[e]) /\ e \in Running /\ pc[e] # "done" /\ cmd[e][2] = m /\ m \in Members
        /\ members[m] \in MembershipRows /\ requests[i].permission \in Permissions
    BY <1>2, <1>3, DecidingFacts, Zenon
  <1>5. Fixed(cmd[e], about[e]) /\ DecidedAs(cmd[e], about[e], loaded[e])
    BY <1>1, <1>2, Zenon DEF MembershipInv, EditInv
  <1>6. Argued(cmd[e])
    BY <1>3, <1>4, <1>5, Zenon DEF Argued, Fixed
  <1>7. Slots' /\ Others(e)
    BY <1>1, SameSlots, Zenon
  <1>8. PICK next \in Places : next = "row"
    BY Zenon DEF Places
  <1>9. pc'[e] = "row"
    BY <1>1, Zenon DEF MembershipInv, Tables
  <1>10. /\ pc'[e] # "update" /\ pc'[e] # "create" /\ pc'[e] # "insert" /\ pc'[e] # "requester" /\ pc'[e] \notin Deciding
         /\ pc'[e] \notin {"decide", "update"} /\ pc'[e] \notin {"roles", "overrides", "save"}
    BY <1>9 DEF Deciding
  <1>11. Deals(cmd[e], about[e])' /\ Fixed(cmd[e], about[e])' /\ DecidedAs(cmd[e], about[e], loaded[e])'
    BY <1>1, <1>4, <1>5, Zenon DEF Deals, Fixed, DecidedAs
  <1>12. EditInv(e)'
    BY <1>1, <1>4, <1>6, <1>10, <1>11, Zenon DEF EditInv
  <1>13. limit = 1 => Alone(e)'
    <2>1. ASSUME limit = 1 PROVE Alone(e) /\ pc[e] \in {"decide", "update"} \cup Updating
      BY <1>2, <2>1, Zenon DEF MembershipInv, AloneInv
    <2>2. ASSUME limit = 1 PROVE Alone(e)'
      BY <1>1, <2>1, <2>2, Zenon DEF Alone
    <2>3. QED
      BY <2>2
  <1>14. failures' \in 0 .. MaxFailures
    BY <1>1, FailuresStay, Zenon
  <1>15. QED
    BY <1>1, <1>4, <1>7, <1>8, <1>12, <1>13, <1>14, QuietKept, Zenon

\* What the UPDATE of a request and its event leave.
LEMMA WriteFacts ==
    ASSUME MembershipInv, NEW e \in Edits, WriteRequest(e), Deals(cmd[e], about[e]), DecidedAs(cmd[e], about[e], loaded[e]),
           NEW i, i = about[e][1], NEW r, r = loaded[e], NEW d, decisions' = decisions \cup {d}, d[2] = i, d[1] # "Requested"
    PROVE  /\ requests' \in Seq(Requests) /\ Len(requests') = Len(requests) /\ DOMAIN requests' = DOMAIN requests
           /\ \A j \in DOMAIN requests : requests'[j] = IF j = i THEN r ELSE requests[j]
           /\ \A j \in DOMAIN requests : /\ requests'[j].requester = requests[j].requester
                                         /\ requests'[j].permission = requests[j].permission
           /\ \A x \in decisions' : x[2] \in DOMAIN requests'
           /\ \A j, k \in DOMAIN requests' :
                 /\ requests'[j].state = "pending" /\ requests'[k].state = "pending"
                 /\ requests'[j].requester = requests'[k].requester /\ requests'[j].permission = requests'[k].permission
                 => j = k
           /\ limit = 1 /\ requests[i].state = "pending" => \A j \in DOMAIN requests' :
                 IF requests'[j].state = "pending" THEN Made(j)' = {} ELSE \E x : Made(j)' = {x}
  <1>1. requests \in Seq(Requests) /\ i \in DOMAIN requests /\ r \in Requests /\ r.state # "pending"
        /\ r.requester = requests[i].requester /\ r.permission = requests[i].permission
    <2>1. requests \in Seq(Requests) /\ i \in DOMAIN requests /\ r \in Requests
          /\ r.requester = requests[i].requester /\ r.permission = requests[i].permission
          /\ (r.state = "approved" \/ r.state = "denied" \/ r.state = "cancelled")
      BY Zenon DEF MembershipInv, Tables, Deals, DecidedAs
    <2>2. QED
      BY <2>1
  <1>2. requests' = [requests EXCEPT ![i] = r]
    BY Zenon DEF WriteRequest
  <1>3. requests' \in Seq(Requests) /\ Len(requests') = Len(requests) /\ DOMAIN requests' = DOMAIN requests
    BY <1>1, <1>2
  <1>4. \A j \in DOMAIN requests : requests'[j] = IF j = i THEN r ELSE requests[j]
    BY <1>1, <1>2
  <1>5. \A j \in DOMAIN requests : /\ requests'[j].requester = requests[j].requester
                                   /\ requests'[j].permission = requests[j].permission
    BY <1>1, <1>4, Zenon
  <1>6. \A x \in decisions' : x[2] \in DOMAIN requests'
    BY <1>1, <1>3, Zenon DEF MembershipInv, RequestInv
  <1>7. ASSUME NEW j \in DOMAIN requests', NEW k \in DOMAIN requests', requests'[j].state = "pending", requests'[k].state = "pending",
               requests'[j].requester = requests'[k].requester, requests'[j].permission = requests'[k].permission
        PROVE  j = k
    <2>1. requests'[j] = requests[j] /\ requests'[k] = requests[k]
      BY <1>1, <1>3, <1>4, <1>7, Zenon
    <2>2. QED
      BY <1>3, <1>7, <2>1, Zenon DEF MembershipInv, RequestInv
  <1>8. ASSUME limit = 1, requests[i].state = "pending", NEW j \in DOMAIN requests'
        PROVE  IF requests'[j].state = "pending" THEN Made(j)' = {} ELSE \E x : Made(j)' = {x}
    <2>1. j \in DOMAIN requests
      BY <1>3, Zenon
    <2>2. CASE j = i
      <3>1. Made(i) = {}
        BY <1>1, <1>8, Zenon DEF MembershipInv, AloneInv
      <3>2. Made(i)' = {d}
        BY <3>1, Zenon DEF Made
      <3>3. requests'[j].state # "pending" /\ Made(j)' = {d}
        BY <1>1, <1>4, <2>2, <3>2, Zenon
      <3>4. QED
        BY <3>3, Zenon
    <2>3. CASE j # i
      <3>1. Made(j)' = Made(j)
        BY <2>3, Zenon DEF Made
      <3>2. QED
        <4>1. requests'[j] = requests[j]
          BY <1>4, <2>1, <2>3, Zenon
        <4>2. IF requests[j].state = "pending" THEN Made(j) = {} ELSE \E x : Made(j) = {x}
          BY <1>8, <2>1, Zenon DEF MembershipInv, AloneInv
        <4>3. QED
          BY <3>1, <4>1, <4>2, Zenon
    <2>4. QED
      BY <2>2, <2>3, Zenon
  <1>9. QED
    BY <1>3, <1>4, <1>5, <1>6, <1>7, <1>8, Zenon

-----------------------------------------------------------------------------
(* The steps that write tables.                                             *)

\* An edit writes and is done; what it wrote is given part by part.
LEMMA DoneKept ==
    ASSUME MembershipInv, NEW e \in Edits, e \in Running, pc' = [pc EXCEPT ![e] = "done"], Grows,
           limit' = limit, clock' = clock, failures' = failures, cmd' = cmd, mem' = mem, about' = about, loaded' = loaded,
           persons' \subseteq Persons, members' \in [Members -> MembershipRows \cup {None}],
           outbox' \subseteq Events \X Members \X Edits, \A x \in outbox' : x \in outbox \/ x[3] = e,
           requests' \in Seq(Requests), Len(requests') <= MaxRequests,
           RequestInv', GrantsInv', ActiveInv',
           limit = 1 => \A i \in DOMAIN requests' : IF requests'[i].state = "pending" THEN Made(i)' = {} ELSE \E d : Made(i)' = {d}
    PROVE  MembershipInv'
  <1>1. PICK next \in Places : next = "done"
    BY Zenon DEF Places
  <1>2. \A f \in Edits : pc'[f] = IF f = e THEN next ELSE pc[f]
    BY <1>1, Zenon DEF MembershipInv, Tables
  <1>3. Tables'
    <2>1. pc' \in [Edits -> Places]
      BY <1>1, Zenon DEF MembershipInv, Tables
    <2>2. QED
      BY <2>1, Zenon DEF MembershipInv, Tables
  <1>4. OutboxInv'
    <2>1. ASSUME NEW x \in outbox' PROVE pc'[x[3]] = "done"
      <3>1. x[3] \in Edits
        <4>1. x \in Events \X Members \X Edits
          BY Zenon
        <4>2. QED
          BY <4>1
      <3>2. QED
        BY <1>1, <1>2, <3>1, Zenon DEF MembershipInv, OutboxInv
    <2>2. QED
      BY <2>1, Zenon DEF OutboxInv
  <1>5. pc'[e] \in Rests
    BY <1>1, <1>2 DEF Rests
  <1>6. EditInv(e)' /\ Alone(e)'
    BY <1>5, Resting, Zenon
  <1>7. AloneInv'
    BY <1>1, <1>6, Stepping, Zenon
  <1>8. Others(e)
    BY SameSlots, Zenon
  <1>9. ASSUME NEW f \in Edits PROVE EditInv(f)'
    <2>1. CASE f = e
      BY <1>6, <2>1, Zenon
    <2>2. CASE f # e
      BY <1>8, <2>2, OthersStay, Zenon
    <2>3. QED
      BY <2>1, <2>2, Zenon
  <1>10. QED
    BY <1>3, <1>4, <1>7, <1>9, Zenon DEF MembershipInv

\* The grants of the memberships that a step does not write stay explained.
LEMMA GrantsStay ==
    ASSUME MembershipInv, Grows, NEW m, \A n \in Members : n # m => members'[n] = members[n],
           \A g \in members'[m].granted : Justified(m, g)'
    PROVE  GrantsInv'
  <1>1. ASSUME NEW n \in Members, members'[n] \in MembershipRows, NEW g \in members'[n].granted, n # m
        PROVE  Justified(n, g)'
    <2>1. Justified(n, g) /\ RequestInv
      BY <1>1, Zenon DEF MembershipInv, GrantsInv
    <2>2. QED
      BY <2>1, JustifiedStays, Zenon
  <1>2. QED
    BY <1>1, Zenon DEF GrantsInv

\* uq_memberships_person_active.
LEMMA ActiveStays ==
    ASSUME MembershipInv, NEW m \in Members, \A n \in Members : n # m => members'[n] = members[n],
           ~(members'[m].status = "active" /\ Collides(m))
    PROVE  ActiveInv'
  <1>1. ASSUME NEW n \in Members, n # m, Active(m)', Active(n)', PersonOf[m] = PersonOf[n] PROVE FALSE
    <2>1. members'[m].status = "active" /\ Exists(n) /\ members[n].status = "active"
      BY <1>1, Zenon DEF Active, Exists
    <2>2. Collides(m)
      BY <1>1, <2>1, Zenon DEF Collides
    <2>3. QED
      BY <2>1, <2>2, Zenon
  <1>2. ASSUME NEW k \in Members, NEW n \in Members, k # m, n # m, Active(k)', Active(n)', PersonOf[k] = PersonOf[n] PROVE k = n
    BY <1>2, Zenon DEF Active, Exists, ActiveInv, MembershipInv
  <1>3. QED
    BY <1>1, <1>2, Zenon DEF ActiveInv

\* Members ask.
LEMMA RequesterIsMember ==
    ASSUME MembershipInv
    PROVE  \A i \in DOMAIN requests : requests[i].requester \in Members
  <1>1. requests \in Seq(Requests)
    BY Zenon DEF MembershipInv, Tables
  <1>2. \A i \in DOMAIN requests : requests[i] \in Requests
    BY <1>1
  <1>3. QED
    BY <1>2 DEF Requests

\* A new membership.
LEMMA AddKept ==
    ASSUME MembershipInv, NEW e \in Edits, Add(e), UNCHANGED requestVars, limit' = limit
    PROVE  MembershipInv'
  <1>1. PICK m : m = cmd[e][2]
    OBVIOUS
  <1>2. /\ pc[e] = "create" /\ clock' = clock /\ cmd' = cmd /\ mem' = mem /\ failures' = failures
        /\ requests' = requests /\ decisions' = decisions /\ about' = about /\ loaded' = loaded
        /\ \/ pc' = [pc EXCEPT ![e] = "refused"] /\ persons' = persons /\ members' = members /\ outbox' = outbox
           \/ /\ ~Collides(m) /\ persons' = persons \cup {PersonOf[m]} /\ members' = [members EXCEPT ![m] = New]
              /\ outbox' = outbox \cup {<<"Created", m, e>>} /\ pc' = [pc EXCEPT ![e] = "done"]
    BY <1>1, Zenon DEF Add, Goto, requestVars
  <1>3. e \in Running /\ pc[e] # "done"
    BY <1>2 DEF Running
  <1>4. m \in Members
    BY <1>1, <1>2, Zenon DEF MembershipInv, EditInv
  <1>5. CASE pc' = [pc EXCEPT ![e] = "refused"] /\ persons' = persons /\ members' = members /\ outbox' = outbox
    <2>1. Slots' /\ Others(e) /\ failures' \in 0 .. MaxFailures
      BY <1>2, SameSlots, FailuresStay, Zenon
    <2>2. PICK next \in {"done", "refused", "failed"} : next = "refused"
      BY Zenon
    <2>3. QED
      BY <1>2, <1>3, <1>5, <2>1, <2>2, EndKept, Zenon
  <1>6. CASE /\ ~Collides(m) /\ persons' = persons \cup {PersonOf[m]} /\ members' = [members EXCEPT ![m] = New]
             /\ outbox' = outbox \cup {<<"Created", m, e>>} /\ pc' = [pc EXCEPT ![e] = "done"]
    <2>1. New \in MembershipRows /\ New.granted = {}
      BY DEF New, MembershipRows, Statuses
    <2>2. /\ members' \in [Members -> MembershipRows \cup {None}]
          /\ \A n \in Members : members'[n] = IF n = m THEN New ELSE members[n]
      BY <1>4, <1>6, <2>1, Zenon DEF MembershipInv, Tables
    <2>3. \A f \in Edits : pc'[f] = IF f = e THEN "done" ELSE pc[f]
      BY <1>6, Zenon DEF MembershipInv, Tables
    <2>4. Grows
      BY <1>2, <1>6, <2>1, <2>2, <2>3, Zenon DEF Grows
    <2>5. outbox' \subseteq Events \X Members \X Edits /\ \A x \in outbox' : x \in outbox \/ x[3] = e
      <3>1. <<"Created", m, e>> \in Events \X Members \X Edits /\ <<"Created", m, e>>[3] = e
        BY <1>4 DEF Events
      <3>2. QED
        BY <1>6, <3>1, Zenon DEF MembershipInv, Tables
    <2>6. persons' \subseteq Persons
      BY <1>4, <1>6, Zenon DEF MembershipInv, Tables, Persons
    <2>7. requests' \in Seq(Requests) /\ Len(requests') <= MaxRequests
      BY <1>2, Zenon DEF MembershipInv, Tables
    <2>8. RequestInv'
      <3>1. \A i \in DOMAIN requests : requests[i].requester \in Members
        BY RequesterIsMember, Zenon
      <3>2. \A i \in DOMAIN requests' : members'[requests'[i].requester] \in MembershipRows
        BY <1>2, <2>4, <3>1, Zenon DEF MembershipInv, RequestInv, Grows
      <3>3. QED
        BY <1>2, <3>2, Zenon DEF MembershipInv, RequestInv
    <2>9. GrantsInv'
      <3>1. \A g \in members'[m].granted : Justified(m, g)'
        BY <1>4, <2>1, <2>2, Zenon
      <3>2. QED
        BY <2>2, <2>4, <3>1, GrantsStay, Zenon
    <2>10. ActiveInv'
      BY <1>4, <1>6, <2>2, ActiveStays, Zenon
    <2>11. limit = 1 => \A i \in DOMAIN requests' : IF requests'[i].state = "pending" THEN Made(i)' = {} ELSE \E d : Made(i)' = {d}
      BY <1>2, Zenon DEF MembershipInv, AloneInv, Made
    <2>12. QED
      BY <1>2, <1>3, <1>6, <2>2, <2>4, <2>5, <2>6, <2>7, <2>8, <2>9, <2>10, <2>11, DoneKept, Zenon
  <1>7. QED
    BY <1>2, <1>5, <1>6, Zenon

\* A new request.
LEMMA AddRequestKept ==
    ASSUME MembershipInv, NEW e \in Edits, AddRequest(e), limit' = limit
    PROVE  MembershipInv'
  <1>1. PICK m, p, r, k : m = cmd[e][2] /\ p = cmd[e][3][1] /\ r = NewRequest(m, p, cmd[e][3][2]) /\ k = Len(requests) + 1
    BY Zenon
  <1>2. /\ pc[e] = "insert" /\ Len(requests) < MaxRequests
        /\ clock' = clock /\ persons' = persons /\ members' = members /\ outbox' = outbox /\ cmd' = cmd /\ mem' = mem
        /\ failures' = failures /\ about' = about /\ loaded' = loaded
        /\ \/ pc' = [pc EXCEPT ![e] = "refused"] /\ requests' = requests /\ decisions' = decisions
           \/ /\ PendingOf(m, p) = {} /\ requests' = Append(requests, r)
              /\ decisions' = decisions \cup {<<"Requested", k, None, Never>>} /\ pc' = [pc EXCEPT ![e] = "done"]
    BY <1>1, Zenon DEF AddRequest, Goto
  <1>3. e \in Running /\ pc[e] # "done"
    BY <1>2 DEF Running
  <1>4. /\ m \in Members /\ members[m] \in MembershipRows /\ p \in Permissions /\ cmd[e][3][2] \in Durations
    BY <1>1, <1>2, Zenon DEF MembershipInv, EditInv
  <1>5. CASE pc' = [pc EXCEPT ![e] = "refused"] /\ requests' = requests /\ decisions' = decisions
    <2>1. Slots' /\ Others(e) /\ failures' \in 0 .. MaxFailures
      BY <1>2, SameSlots, FailuresStay, Zenon
    <2>2. PICK next \in {"done", "refused", "failed"} : next = "refused"
      BY Zenon
    <2>3. QED
      BY <1>2, <1>3, <1>5, <2>1, <2>2, EndKept, Zenon
  <1>6. CASE /\ PendingOf(m, p) = {} /\ requests' = Append(requests, r)
             /\ decisions' = decisions \cup {<<"Requested", k, None, Never>>} /\ pc' = [pc EXCEPT ![e] = "done"]
    <2>1. r \in Requests /\ r.state = "pending" /\ r.requester = m /\ r.permission = p
      BY <1>1, <1>4 DEF NewRequest, Requests, RequestStates, Expiries
    <2>2. requests \in Seq(Requests) /\ Len(requests) \in Nat /\ MaxRequests \in Nat
      BY PermissionRequestsAssumption DEF MembershipInv, Tables
    <2>3. /\ requests' \in Seq(Requests) /\ Len(requests') <= MaxRequests
          /\ DOMAIN requests' = DOMAIN requests \cup {k} /\ k \notin DOMAIN requests
      BY <1>1, <1>2, <1>6, <2>1, <2>2
    <2>4. \A i \in DOMAIN requests' : requests'[i] = IF i = k THEN r ELSE requests[i]
      BY <1>1, <1>6, <2>1, <2>2
    <2>5. \A f \in Edits : pc'[f] = IF f = e THEN "done" ELSE pc[f]
      BY <1>6, Zenon DEF MembershipInv, Tables
    <2>6. Grows
      <3>1. \A i \in DOMAIN requests : /\ i \in DOMAIN requests' /\ requests'[i].requester = requests[i].requester
                                       /\ requests'[i].permission = requests[i].permission
        BY <2>3, <2>4, Zenon
      <3>2. QED
        BY <1>2, <1>6, <2>5, <3>1, Zenon DEF Grows
    <2>7. <<"Requested", k, None, Never>>[2] = k /\ <<"Requested", k, None, Never>>[1] = "Requested"
      OBVIOUS
    <2>8. RequestInv'
      <3>1. \A i \in DOMAIN requests' : members'[requests'[i].requester] \in MembershipRows
        BY <1>2, <1>4, <2>1, <2>3, <2>4, Zenon DEF MembershipInv, RequestInv
      <3>2. \A d \in decisions' : d[2] \in DOMAIN requests'
        BY <1>6, <2>3, <2>7, Zenon DEF MembershipInv, RequestInv
      <3>3. ASSUME NEW i \in DOMAIN requests', NEW j \in DOMAIN requests',
                   requests'[i].state = "pending", requests'[j].state = "pending",
                   requests'[i].requester = requests'[j].requester, requests'[i].permission = requests'[j].permission
            PROVE  i = j
        <4>1. CASE i # k /\ j # k
          BY <2>3, <2>4, <3>3, <4>1, Zenon DEF MembershipInv, RequestInv
        <4>2. CASE i = k /\ j # k
          <5>1. j \in PendingOf(m, p)
            BY <2>1, <2>3, <2>4, <3>3, <4>2, Zenon DEF PendingOf
          <5>2. QED
            BY <1>6, <5>1, Zenon
        <4>3. CASE i # k /\ j = k
          <5>1. i \in PendingOf(m, p)
            BY <2>1, <2>3, <2>4, <3>3, <4>3, Zenon DEF PendingOf
          <5>2. QED
            BY <1>6, <5>1, Zenon
        <4>4. QED
          BY <4>1, <4>2, <4>3, Zenon
      <3>4. QED
        BY <3>1, <3>2, <3>3, Zenon DEF RequestInv
    <2>9. GrantsInv'
      <3>1. ASSUME NEW n \in Members, members[n] \in MembershipRows, NEW g \in members[n].granted PROVE Justified(n, g)'
        <4>1. Justified(n, g) /\ RequestInv
          BY <3>1, Zenon DEF MembershipInv, GrantsInv
        <4>2. QED
          BY <2>6, <4>1, JustifiedStays, Zenon
      <3>2. QED
        BY <1>2, <3>1, Zenon DEF GrantsInv
    <2>10. ActiveInv'
      BY <1>2, Zenon DEF MembershipInv, ActiveInv, Active, Exists
    <2>11. ASSUME limit = 1, NEW i \in DOMAIN requests'
           PROVE  IF requests'[i].state = "pending" THEN Made(i)' = {} ELSE \E d : Made(i)' = {d}
      <3>1. Made(i)' = Made(i)
        BY <1>6, <2>7, Zenon DEF Made
      <3>2. CASE i = k
        <4>1. Made(i) = {}
          BY <2>3, <3>2, Zenon DEF Made, MembershipInv, RequestInv
        <4>2. QED
          BY <2>1, <2>4, <3>1, <3>2, <4>1, Zenon
      <3>3. CASE i # k
        BY <2>3, <2>4, <2>11, <3>1, <3>3, Zenon DEF MembershipInv, AloneInv
      <3>4. QED
        BY <3>2, <3>3, Zenon
    <2>12. /\ persons' \subseteq Persons /\ members' \in [Members -> MembershipRows \cup {None}]
           /\ outbox' \subseteq Events \X Members \X Edits /\ \A x \in outbox' : x \in outbox \/ x[3] = e
      BY <1>2, Zenon DEF MembershipInv, Tables
    <2>13. QED
      BY <1>2, <1>3, <1>6, <2>3, <2>6, <2>8, <2>9, <2>10, <2>11, <2>12, DoneKept, Zenon
  <1>7. QED
    BY <1>2, <1>5, <1>6, Zenon

\* A denial or a cancellation ends with the request.
LEMMA DenialKept ==
    ASSUME MembershipInv, NEW e \in Edits, PersistDecision(e), cmd[e][1] # "approve", limit' = limit
    PROVE  MembershipInv'
  <1>1. /\ clock' = clock /\ persons' = persons /\ members' = members /\ outbox' = outbox /\ mem' = mem /\ cmd' = cmd
        /\ about' = about /\ loaded' = loaded /\ failures' = failures
        /\ pc[e] = "update" /\ WriteRequest(e) /\ pc' = [pc EXCEPT ![e] = "done"]
    BY Zenon DEF PersistDecision, Goto
  <1>2. pc[e] \in Deciding /\ pc[e] \in {"decide", "update"}
    BY <1>1 DEF Deciding
  <1>3. Deals(cmd[e], about[e]) /\ e \in Running /\ DecidedAs(cmd[e], about[e], loaded[e])
    BY <1>1, <1>2, DecidingFacts, Zenon DEF MembershipInv, EditInv
  <1>4. PICK i, r : i = about[e][1] /\ r = loaded[e]
    OBVIOUS
  <1>5. i \in DOMAIN requests /\ r \in Requests /\ (r.state = "denied" \/ r.state = "cancelled")
    BY <1>3, <1>4, Zenon DEF Deals, DecidedAs
  <1>6. PICK d : d = <<[approved |-> "Approved", denied |-> "Denied", cancelled |-> "Cancelled"][r.state], i, r.approver, r.expires>>
    BY Zenon
  <1>7. d[2] = i /\ d[1] # "Requested"
    BY <1>5, <1>6
  <1>8. decisions' = decisions \cup {d}
    BY <1>1, <1>4, <1>6, Zenon DEF WriteRequest
  <1>9. /\ requests' \in Seq(Requests) /\ Len(requests') = Len(requests) /\ DOMAIN requests' = DOMAIN requests
        /\ \A j \in DOMAIN requests : /\ requests'[j].requester = requests[j].requester
                                      /\ requests'[j].permission = requests[j].permission
        /\ \A x \in decisions' : x[2] \in DOMAIN requests'
        /\ \A j, k \in DOMAIN requests' :
              /\ requests'[j].state = "pending" /\ requests'[k].state = "pending"
              /\ requests'[j].requester = requests'[k].requester /\ requests'[j].permission = requests'[k].permission
              => j = k
        /\ limit = 1 /\ requests[i].state = "pending" => \A j \in DOMAIN requests' :
              IF requests'[j].state = "pending" THEN Made(j)' = {} ELSE \E x : Made(j)' = {x}
    BY <1>1, <1>3, <1>4, <1>7, <1>8, WriteFacts, Zenon
  <1>10. \A f \in Edits : pc'[f] = IF f = e THEN "done" ELSE pc[f]
    BY <1>1, Zenon DEF MembershipInv, Tables
  <1>11. Grows
    BY <1>1, <1>8, <1>9, <1>10, Zenon DEF Grows
  <1>12. RequestInv'
    <2>1. \A j \in DOMAIN requests' : members'[requests'[j].requester] \in MembershipRows
      BY <1>1, <1>9, Zenon DEF MembershipInv, RequestInv
    <2>2. QED
      BY <1>9, <2>1, Zenon DEF RequestInv
  <1>13. GrantsInv'
    <2>1. ASSUME NEW n \in Members, members[n] \in MembershipRows, NEW g \in members[n].granted PROVE Justified(n, g)'
      <3>1. Justified(n, g) /\ RequestInv
        BY <2>1, Zenon DEF MembershipInv, GrantsInv
      <3>2. QED
        BY <1>11, <3>1, JustifiedStays, Zenon
    <2>2. QED
      BY <1>1, <2>1, Zenon DEF GrantsInv
  <1>14. ActiveInv'
    BY <1>1, Zenon DEF MembershipInv, ActiveInv, Active, Exists
  <1>15. limit = 1 => requests[i].state = "pending"
    <2>1. limit = 1 => Alone(e)
      BY Zenon DEF MembershipInv, AloneInv
    <2>2. QED
      BY <1>1, <1>4, <2>1, Zenon DEF Alone
  <1>16. /\ persons' \subseteq Persons /\ members' \in [Members -> MembershipRows \cup {None}]
         /\ outbox' \subseteq Events \X Members \X Edits /\ \A x \in outbox' : x \in outbox \/ x[3] = e
         /\ Len(requests') <= MaxRequests
    BY <1>1, <1>9, Zenon DEF MembershipInv, Tables
  <1>17. QED
    BY <1>1, <1>3, <1>9, <1>11, <1>12, <1>13, <1>14, <1>15, <1>16, DoneKept, Zenon

\* What is known of an edit that saves.
LEMMA SavingFacts ==
    ASSUME MembershipInv, NEW e \in Edits, pc[e] = "save", NEW m, m = cmd[e][2], NEW a, a = Apply(mem[e], cmd[e])
    PROVE  /\ e \in Running /\ pc[e] # "done" /\ m \in Members /\ members[m] \in MembershipRows /\ Argued(cmd[e])
           /\ mem[e] \in MembershipRows /\ (\A g \in mem[e].granted : Justified(m, g)) /\ a \in MembershipRows
           /\ cmd[e][1] = "approve" => /\ Deals(cmd[e], about[e]) /\ Fixed(cmd[e], about[e])
                                       /\ DecidedAs(cmd[e], about[e], loaded[e])
  <1>1. pc[e] \in Updating /\ pc[e] \in {"roles", "overrides", "save"} /\ e \in Running /\ pc[e] # "done"
    BY DEF Updating, Running
  <1>2. /\ m \in Members /\ members[m] \in MembershipRows /\ Argued(cmd[e]) /\ mem[e] \in MembershipRows
        /\ \A g \in mem[e].granted : Justified(m, g)
        /\ cmd[e][1] = "approve" => /\ Deals(cmd[e], about[e]) /\ Fixed(cmd[e], about[e])
                                    /\ DecidedAs(cmd[e], about[e], loaded[e])
    BY <1>1, Zenon DEF MembershipInv, EditInv
  <1>3. PICK b, c : b = mem[e] /\ c = cmd[e]
    OBVIOUS
  <1>4. Apply(b, c) \in MembershipRows
    <2>1. b \in MembershipRows /\ Argued(c)
      BY <1>2, <1>3, Zenon
    <2>2. CASE c[1] \in {"updateProfile", "deactivate", "reactivate"}
      BY <2>1, <2>2, StatusGives, Zenon
    <2>3. CASE c[1] \in {"assignRole", "revokeRole", "assignManager", "removeManager"}
      BY <2>1, <2>3, RolesGive, Zenon
    <2>4. CASE c[1] = "replaceOverrides"
      BY <2>1, <2>4, OverlayGives, Zenon
    <2>5. CASE c[1] = "approve"
      BY <2>1, <2>5, GrantGives, Zenon
    <2>6. QED
      BY <2>1, <2>2, <2>3, <2>4, <2>5, Zenon DEF Argued
  <1>5. QED
    BY <1>1, <1>2, <1>3, <1>4, Zenon

\* What is known once an update has been written.
Persisted(e, m, a) ==
    /\ members' \in [Members -> MembershipRows \cup {None}]
    /\ \A n \in Members : members'[n] = IF n = m THEN a ELSE members[n]
    /\ \A n \in Members : members[n] \in MembershipRows => members'[n] \in MembershipRows
    /\ outbox \subseteq outbox' /\ outbox' \subseteq Events \X Members \X Edits
    /\ \A x \in outbox' : x \in outbox \/ x[3] = e
    /\ cmd[e][1] = "replaceOverrides" => <<"PermissionsUpdated", m, e>> \in outbox'
    /\ ActiveInv'

\* What the statements of an update and its events leave.
LEMMA PersistFacts ==
    ASSUME MembershipInv, NEW e \in Edits, pc[e] = "save", NEW m, m = cmd[e][2], NEW a, a = Apply(mem[e], cmd[e]),
           ~Rejects(m, a), Persist(e)
    PROVE  Persisted(e, m, a)
  <1>1. m \in Members /\ members[m] \in MembershipRows /\ a \in MembershipRows
    BY SavingFacts, Zenon
  <1>2. PICK row : row = members[m]
    OBVIOUS
  <1>3. replacePermissionOverrides(replaceRoleAssignments(persistMembershipProfile(persistMembershipStatus(row, a), a), a), a) = a
    BY <1>1, <1>2, StoredIsApplied, Zenon
  <1>4. members' = [members EXCEPT ![m] = a]
    BY <1>2, <1>3, Zenon DEF Persist
  <1>5. /\ members' \in [Members -> MembershipRows \cup {None}]
        /\ \A n \in Members : members'[n] = IF n = m THEN a ELSE members[n]
    BY <1>1, <1>4, Zenon DEF MembershipInv, Tables
  <1>6. PICK E : E = EventsOf(mem[e], a, cmd[e][1])
    OBVIOUS
  <1>7. E \subseteq Events
    BY <1>6, Zenon DEF EventsOf
  <1>8. outbox' = outbox \cup {<<ev, m, e>> : ev \in E}
    BY <1>6, Zenon DEF Persist
  <1>9. \A ev \in E : <<ev, m, e>> \in Events \X Members \X Edits /\ <<ev, m, e>>[3] = e
    BY <1>1, <1>7
  <1>10. outbox \subseteq outbox' /\ outbox' \subseteq Events \X Members \X Edits /\ \A x \in outbox' : x \in outbox \/ x[3] = e
    <2>1. \A x \in outbox' : x \in outbox \/ \E ev \in E : x = <<ev, m, e>>
      BY <1>8, Zenon
    <2>2. \A x \in outbox' : x \in outbox \/ (x \in Events \X Members \X Edits /\ x[3] = e)
      BY <1>9, <2>1, Zenon
    <2>3. PICK U : U = Events \X Members \X Edits
      BY Zenon
    <2>4. outbox \subseteq U
      BY <2>3, Zenon DEF MembershipInv, Tables
    <2>5. \A x \in outbox' : x \in outbox \/ (x \in U /\ x[3] = e)
      BY <2>2, <2>3
    <2>6. outbox \subseteq outbox' /\ outbox' \subseteq U
      BY <1>8, <2>4, <2>5, Zenon
    <2>7. QED
      BY <2>2, <2>3, <2>6, Zenon
  <1>11. cmd[e][1] = "replaceOverrides" => "PermissionsUpdated" \in E
    <2>1. "PermissionsUpdated" \in Events
      BY DEF Events
    <2>2. QED
      BY <1>6, <2>1, Zenon DEF EventsOf
  <1>12. ActiveInv'
    <2>1. ~(members'[m].status = "active" /\ Collides(m))
      BY <1>1, <1>5, Zenon DEF Rejects
    <2>2. QED
      BY <1>1, <1>5, <2>1, ActiveStays, Zenon
  <1>13. QED
    BY <1>1, <1>5, <1>8, <1>10, <1>11, <1>12, Zenon DEF Persisted

\* A refused update.
LEMMA RefusedSaveKept ==
    ASSUME MembershipInv, NEW e \in Edits, pc[e] = "save", pc' = [pc EXCEPT ![e] = "refused"], limit' = limit,
           clock' = clock, persons' = persons, members' = members, outbox' = outbox, requests' = requests,
           decisions' = decisions, failures' = failures, cmd' = cmd, mem' = mem, about' = about, loaded' = loaded
    PROVE  MembershipInv'
  <1>1. e \in Running /\ pc[e] # "done"
    BY DEF Running
  <1>2. Slots' /\ Others(e) /\ failures' \in 0 .. MaxFailures
    BY SameSlots, FailuresStay, Zenon
  <1>3. PICK next \in {"done", "refused", "failed"} : next = "refused"
    BY Zenon
  <1>4. QED
    BY <1>1, <1>2, <1>3, EndKept, Zenon

\* An update of a membership.
LEMMA SaveKept ==
    ASSUME MembershipInv, NEW e \in Edits, Save(e), UNCHANGED requestVars, limit' = limit
    PROVE  MembershipInv'
  <1>1. PICK m, a : m = cmd[e][2] /\ a = Apply(mem[e], cmd[e])
    OBVIOUS
  <1>2. /\ pc[e] = "save" /\ cmd[e][1] # "approve"
        /\ clock' = clock /\ persons' = persons /\ cmd' = cmd /\ mem' = mem /\ failures' = failures
        /\ requests' = requests /\ decisions' = decisions /\ about' = about /\ loaded' = loaded
        /\ \/ pc' = [pc EXCEPT ![e] = "refused"] /\ members' = members /\ outbox' = outbox
           \/ ~Rejects(m, a) /\ Persist(e) /\ pc' = [pc EXCEPT ![e] = "done"]
    BY <1>1, Zenon DEF Save, Goto, requestVars
  <1>3. CASE pc' = [pc EXCEPT ![e] = "refused"] /\ members' = members /\ outbox' = outbox
    BY <1>2, <1>3, RefusedSaveKept, Zenon
  <1>4. CASE ~Rejects(m, a) /\ Persist(e) /\ pc' = [pc EXCEPT ![e] = "done"]
    <2>1. /\ e \in Running /\ m \in Members /\ Argued(cmd[e])
          /\ mem[e] \in MembershipRows /\ (\A g \in mem[e].granted : Justified(m, g))
      BY <1>1, <1>2, SavingFacts, Zenon
    <2>2. /\ members' \in [Members -> MembershipRows \cup {None}]
          /\ \A n \in Members : members'[n] = IF n = m THEN a ELSE members[n]
          /\ \A n \in Members : members[n] \in MembershipRows => members'[n] \in MembershipRows
          /\ outbox \subseteq outbox' /\ outbox' \subseteq Events \X Members \X Edits
          /\ \A x \in outbox' : x \in outbox \/ x[3] = e
          /\ cmd[e][1] = "replaceOverrides" => <<"PermissionsUpdated", m, e>> \in outbox'
          /\ ActiveInv'
      <3>1. Persisted(e, m, a)
        BY <1>1, <1>2, <1>4, PersistFacts, Zenon
      <3>2. QED
        BY <3>1, Zenon DEF Persisted
    <2>3. \A f \in Edits : pc'[f] = IF f = e THEN "done" ELSE pc[f]
      BY <1>4, Zenon DEF MembershipInv, Tables
    <2>4. Grows
      BY <1>2, <2>2, <2>3, Zenon DEF Grows
    <2>5. \A g \in a.granted : Justified(m, g)'
      <3>1. PICK b, c : b = mem[e] /\ c = cmd[e]
        OBVIOUS
      <3>2. b \in MembershipRows /\ Argued(c) /\ a = Apply(b, c) /\ c[1] # "approve" /\ RequestInv
        BY <1>1, <1>2, <2>1, <3>1, Zenon DEF MembershipInv
      <3>3. ASSUME a.granted = b.granted PROVE \A g \in a.granted : Justified(m, g)'
        BY <2>1, <2>4, <3>1, <3>2, <3>3, JustifiedStays, Zenon
      <3>4. CASE c[1] \in {"updateProfile", "deactivate", "reactivate"}
        BY <3>2, <3>3, <3>4, StatusGives, Zenon
      <3>5. CASE c[1] \in {"assignRole", "revokeRole", "assignManager", "removeManager"}
        BY <3>2, <3>3, <3>5, RolesGive, Zenon
      <3>6. CASE c[1] = "replaceOverrides"
        <4>1. ASSUME NEW g \in a.granted PROVE Justified(m, g)'
          <5>1. g \in c[3][1] \X {Never}
            BY <3>2, <3>6, <4>1, OverlayGives, Zenon
          <5>2. g[1] \in c[3][1] /\ g[2] = Never
            BY <5>1
          <5>3. pc'[e] = "done" /\ cmd'[e] = c /\ c[2] = m /\ <<"PermissionsUpdated", m, e>> \in outbox'
            BY <1>1, <1>2, <2>2, <2>3, <3>1, <3>6, Zenon
          <5>4. Written(m, g)'
            BY <3>6, <5>2, <5>3, Zenon DEF Written
          <5>5. QED
            BY <5>2, <5>4, Zenon DEF Justified
        <4>2. QED
          BY <4>1, Zenon
      <3>7. QED
        BY <3>2, <3>4, <3>5, <3>6, Zenon DEF Argued
    <2>6. GrantsInv'
      <3>1. \A g \in members'[m].granted : Justified(m, g)'
        BY <2>1, <2>2, <2>5, Zenon
      <3>2. QED
        BY <2>2, <2>4, <3>1, GrantsStay, Zenon
    <2>7. RequestInv'
      <3>1. \A i \in DOMAIN requests' : members'[requests'[i].requester] \in MembershipRows
        BY <1>2, <2>2, RequesterIsMember, Zenon DEF MembershipInv, RequestInv
      <3>2. QED
        BY <1>2, <3>1, Zenon DEF MembershipInv, RequestInv
    <2>8. limit = 1 => \A i \in DOMAIN requests' : IF requests'[i].state = "pending" THEN Made(i)' = {} ELSE \E d : Made(i)' = {d}
      BY <1>2, Zenon DEF MembershipInv, AloneInv, Made
    <2>9. persons' \subseteq Persons /\ requests' \in Seq(Requests) /\ Len(requests') <= MaxRequests
      BY <1>2, Zenon DEF MembershipInv, Tables
    <2>10. QED
      BY <1>2, <1>4, <2>1, <2>2, <2>4, <2>6, <2>7, <2>8, <2>9, DoneKept, Zenon
  <1>5. QED
    BY <1>2, <1>3, <1>4, Zenon

\* What is known once an approval has been written: r is the request, a the aggregate.
Granted(e, m, a, i, r) ==
    /\ i \in DOMAIN requests /\ r \in Requests /\ requests'[i] = r
    /\ decisions' = decisions \cup {<<"Approved", i, r.approver, r.expires>>}
    /\ r.state = "approved" /\ r.requester = m /\ r.expires \in Nat /\ r.approver # m /\ r.approver = about[e][2]
    /\ <<r.permission, r.expires>> \in a.granted /\ a.granted \subseteq mem[e].granted \cup {<<r.permission, r.expires>>}
    /\ r.permission \notin a.revoked

\* What an approval that commits writes.
LEMMA GrantFacts ==
    ASSUME MembershipInv, NEW e \in Edits, pc[e] = "save", cmd[e][1] = "approve", WriteRequest(e),
           NEW m, m = cmd[e][2], NEW a, a = Apply(mem[e], cmd[e]), NEW i, i = about[e][1], NEW r, r = loaded[e]
    PROVE  Granted(e, m, a, i, r)
  <1>1. /\ Argued(cmd[e]) /\ mem[e] \in MembershipRows /\ Deals(cmd[e], about[e]) /\ Fixed(cmd[e], about[e])
        /\ DecidedAs(cmd[e], about[e], loaded[e])
    BY SavingFacts, Zenon
  <1>2. PICK b, c : b = mem[e] /\ c = cmd[e]
    OBVIOUS
  <1>3. /\ i \in DOMAIN requests /\ m = requests[i].requester /\ c[3][1] = requests[i].permission /\ c[3][2] \in Nat
        /\ about[e][2] # requests[i].requester
    BY <1>1, <1>2, Zenon DEF Deals, Fixed
  <1>4. /\ r \in Requests /\ r.requester = requests[i].requester /\ r.permission = requests[i].permission
        /\ r.state = "approved" /\ r.approver = about[e][2] /\ r.expires = c[3][2]
    <2>1. cmd[e][1] # "deny" /\ cmd[e][1] # "cancel"
      OBVIOUS
    <2>2. QED
      BY <1>1, <1>2, <2>1, Zenon DEF DecidedAs
  <1>5. requests'[i] = r
    <2>1. requests \in Seq(Requests) /\ requests' = [requests EXCEPT ![i] = r]
      BY Zenon DEF WriteRequest, MembershipInv, Tables
    <2>2. QED
      BY <1>3, <1>4, <2>1
  <1>6. decisions' = decisions \cup {<<"Approved", i, r.approver, r.expires>>}
    <2>1. PICK t : t = [approved |-> "Approved", denied |-> "Denied", cancelled |-> "Cancelled"][r.state]
      OBVIOUS
    <2>2. t = "Approved"
      BY <1>4, <2>1
    <2>3. decisions' = decisions \cup {<<t, i, r.approver, r.expires>>}
      BY <2>1, Zenon DEF WriteRequest
    <2>4. QED
      BY <2>2, <2>3, Zenon
  <1>7. b \in MembershipRows /\ Argued(c) /\ c[1] = "approve" /\ a = Apply(b, c)
    BY <1>1, <1>2, Zenon
  <1>8. /\ a.granted = {g \in b.granted : g[1] # c[3][1]} \cup {<<c[3][1], c[3][2]>>}
        /\ a.revoked = b.revoked \ {c[3][1]}
    BY <1>7, GrantGives
  <1>9. /\ <<r.permission, r.expires>> \in a.granted /\ a.granted \subseteq b.granted \cup {<<r.permission, r.expires>>}
        /\ r.permission \notin a.revoked
    BY <1>3, <1>4, <1>8, Zenon
  <1>10. QED
    BY <1>2, <1>3, <1>4, <1>5, <1>6, <1>9, Zenon DEF Granted

\* An approval: the request and the grant.
LEMMA SaveApprovalKept ==
    ASSUME MembershipInv, NEW e \in Edits, SaveApproval(e), limit' = limit
    PROVE  MembershipInv'
  <1>1. PICK m, a, i, r : m = cmd[e][2] /\ a = Apply(mem[e], cmd[e]) /\ i = about[e][1] /\ r = loaded[e]
    OBVIOUS
  <1>2. /\ pc[e] = "save" /\ cmd[e][1] = "approve"
        /\ clock' = clock /\ persons' = persons /\ cmd' = cmd /\ mem' = mem /\ failures' = failures
        /\ about' = about /\ loaded' = loaded
        /\ \/ /\ pc' = [pc EXCEPT ![e] = "refused"] /\ members' = members /\ outbox' = outbox
              /\ requests' = requests /\ decisions' = decisions
           \/ ~Rejects(m, a) /\ Persist(e) /\ WriteRequest(e) /\ pc' = [pc EXCEPT ![e] = "done"]
    BY <1>1, Zenon DEF SaveApproval, Goto
  <1>3. CASE /\ pc' = [pc EXCEPT ![e] = "refused"] /\ members' = members /\ outbox' = outbox
             /\ requests' = requests /\ decisions' = decisions
    BY <1>2, <1>3, RefusedSaveKept, Zenon
  <1>4. CASE ~Rejects(m, a) /\ Persist(e) /\ WriteRequest(e) /\ pc' = [pc EXCEPT ![e] = "done"]
    <2>1. /\ e \in Running /\ m \in Members /\ (\A g \in mem[e].granted : Justified(m, g))
          /\ Deals(cmd[e], about[e]) /\ DecidedAs(cmd[e], about[e], loaded[e])
      BY <1>1, <1>2, SavingFacts, Zenon
    <2>2. /\ members' \in [Members -> MembershipRows \cup {None}]
          /\ \A n \in Members : members'[n] = IF n = m THEN a ELSE members[n]
          /\ \A n \in Members : members[n] \in MembershipRows => members'[n] \in MembershipRows
          /\ outbox \subseteq outbox' /\ outbox' \subseteq Events \X Members \X Edits
          /\ \A x \in outbox' : x \in outbox \/ x[3] = e
          /\ ActiveInv'
      <3>1. Persisted(e, m, a)
        BY <1>1, <1>2, <1>4, PersistFacts
      <3>2. QED
        BY <3>1, Zenon DEF Persisted
    <2>3. PICK d : d = <<"Approved", i, r.approver, r.expires>>
      BY Zenon
    <2>4. d[1] = "Approved" /\ d[1] # "Requested" /\ d[2] = i /\ d[3] = r.approver /\ d[4] = r.expires
      BY <2>3
    <2>5. /\ i \in DOMAIN requests /\ r \in Requests /\ requests'[i] = r /\ decisions' = decisions \cup {d}
          /\ r.state = "approved" /\ r.requester = m /\ r.expires \in Nat /\ r.approver # m
          /\ a.granted \subseteq mem[e].granted \cup {<<r.permission, r.expires>>}
      <3>1. Granted(e, m, a, i, r)
        BY <1>1, <1>2, <1>4, GrantFacts
      <3>2. QED
        BY <2>3, <3>1, Zenon DEF Granted
    <2>6. /\ requests' \in Seq(Requests) /\ Len(requests') = Len(requests) /\ DOMAIN requests' = DOMAIN requests
          /\ \A j \in DOMAIN requests : /\ requests'[j].requester = requests[j].requester
                                        /\ requests'[j].permission = requests[j].permission
          /\ \A x \in decisions' : x[2] \in DOMAIN requests'
          /\ \A j, k \in DOMAIN requests' :
                /\ requests'[j].state = "pending" /\ requests'[k].state = "pending"
                /\ requests'[j].requester = requests'[k].requester /\ requests'[j].permission = requests'[k].permission
                => j = k
          /\ limit = 1 /\ requests[i].state = "pending" => \A j \in DOMAIN requests' :
                IF requests'[j].state = "pending" THEN Made(j)' = {} ELSE \E x : Made(j)' = {x}
      BY <1>1, <1>4, <2>1, <2>4, <2>5, WriteFacts, Zenon
    <2>7. \A f \in Edits : pc'[f] = IF f = e THEN "done" ELSE pc[f]
      BY <1>4, Zenon DEF MembershipInv, Tables
    <2>8. Grows
      BY <1>2, <2>2, <2>5, <2>6, <2>7, Zenon DEF Grows
    <2>9. \A g \in a.granted : Justified(m, g)'
      <3>1. ASSUME NEW g, g \in mem[e].granted PROVE Justified(m, g)'
        <4>1. Justified(m, g) /\ RequestInv
          BY <2>1, <3>1, Zenon DEF MembershipInv
        <4>2. QED
          BY <2>8, <4>1, JustifiedStays, Zenon
      <3>2. ASSUME NEW g, g = <<r.permission, r.expires>> PROVE Justified(m, g)'
        <4>1. g[1] = r.permission /\ g[2] = r.expires
          BY <3>2
        <4>2. Approved(m, g)'
          BY <2>4, <2>5, <4>1, Zenon DEF Approved
        <4>3. QED
          BY <2>5, <4>1, <4>2, Zenon DEF Justified
      <3>3. QED
        BY <2>5, <3>1, <3>2, Zenon
    <2>10. GrantsInv'
      <3>1. \A g \in members'[m].granted : Justified(m, g)'
        BY <2>1, <2>2, <2>9, Zenon
      <3>2. QED
        BY <2>2, <2>8, <3>1, GrantsStay, Zenon
    <2>11. RequestInv'
      <3>1. \A j \in DOMAIN requests' : members'[requests'[j].requester] \in MembershipRows
        BY <2>2, <2>6, RequesterIsMember, Zenon DEF MembershipInv, RequestInv
      <3>2. QED
        BY <2>6, <3>1, Zenon DEF RequestInv
    <2>12. limit = 1 => requests[i].state = "pending"
      <3>1. (limit = 1 => Alone(e)) /\ pc[e] \in Updating
        BY <1>2, Zenon DEF MembershipInv, AloneInv, Updating
      <3>2. QED
        BY <1>1, <1>2, <3>1, Zenon DEF Alone
    <2>13. persons' \subseteq Persons /\ Len(requests') <= MaxRequests
      BY <1>2, <2>6, Zenon DEF MembershipInv, Tables
    <2>14. QED
      BY <1>2, <1>4, <2>1, <2>2, <2>6, <2>8, <2>10, <2>11, <2>12, <2>13, DoneKept, Zenon
  <1>5. QED
    BY <1>2, <1>3, <1>4, Zenon

\* Nothing happens, or time passes.
LEMMA TimeKept ==
    ASSUME MembershipInv, limit' = limit, clock' = clock \/ (clock < MaxTime /\ clock' = clock + 1),
           persons' = persons, members' = members, outbox' = outbox, pc' = pc, cmd' = cmd, mem' = mem,
           failures' = failures, requests' = requests, decisions' = decisions, about' = about, loaded' = loaded
    PROVE  MembershipInv'
  <1>1. /\ persons' = persons /\ members' = members /\ outbox' = outbox /\ pc' = pc /\ cmd' = cmd /\ mem' = mem
        /\ failures' = failures /\ requests' = requests /\ decisions' = decisions /\ about' = about /\ loaded' = loaded
    OBVIOUS
  <1>2. clock' \in 0 .. MaxTime
    <2>1. clock \in 0 .. MaxTime /\ MaxTime \in Nat
      BY MembershipsAssumption, Zenon DEF MembershipInv, Tables
    <2>2. QED
      BY <2>1
  <1>3. Grows
    BY <1>1, Zenon DEF Grows
  <1>4. Tables'
    BY <1>1, <1>2, Zenon DEF MembershipInv, Tables
  <1>5. RequestInv' /\ OutboxInv' /\ ActiveInv'
    BY <1>1, Zenon DEF MembershipInv, RequestInv, OutboxInv, ActiveInv, Active, Exists
  <1>6. GrantsInv'
    <2>1. ASSUME NEW n \in Members, members[n] \in MembershipRows, NEW g \in members[n].granted PROVE Justified(n, g)'
      <3>1. Justified(n, g) /\ RequestInv
        BY <2>1, Zenon DEF MembershipInv, GrantsInv
      <3>2. QED
        BY <1>3, <3>1, JustifiedStays, Zenon
    <2>2. QED
      BY <1>1, <2>1, Zenon DEF GrantsInv
  <1>8. AloneInv'
    <2>1. Running' = Running /\ limit' = limit /\ requests' = requests
      BY <1>1, Zenon DEF Running
    <2>2. \A e \in Edits : Alone(e) => Alone(e)'
      BY <1>1, Zenon DEF Alone
    <2>3. \A i : Made(i)' = Made(i)
      BY <1>1, Zenon DEF Made
    <2>4. QED
      BY <2>1, <2>2, <2>3, Zenon DEF MembershipInv, AloneInv
  <1>9. \A e \in Edits : EditInv(e)'
    BY <1>1, <1>3, EditStays, Zenon DEF MembershipInv
  <1>10. QED
    BY <1>4, <1>5, <1>6, <1>8, <1>9, Zenon DEF MembershipInv

-----------------------------------------------------------------------------
(* The theorems.                                                            *)

\* Every step keeps the invariant.
LEMMA StepKept ==
    ASSUME MembershipInv, [Next]_<<allVars, limit>>
    PROVE  MembershipInv'
  <1>1. CASE UNCHANGED <<allVars, limit>>
    <2>1. /\ limit' = limit /\ clock' = clock /\ persons' = persons /\ members' = members /\ outbox' = outbox /\ pc' = pc
          /\ cmd' = cmd /\ mem' = mem /\ failures' = failures /\ requests' = requests /\ decisions' = decisions
          /\ about' = about /\ loaded' = loaded
      BY <1>1, Zenon DEF allVars, vars, requestVars
    <2>2. QED
      BY <2>1, TimeKept, Zenon
  <1>2. CASE Tick /\ UNCHANGED requestVars /\ limit' = limit
    <2>1. /\ clock < MaxTime /\ clock' = clock + 1 /\ limit' = limit
          /\ persons' = persons /\ members' = members /\ outbox' = outbox /\ pc' = pc /\ cmd' = cmd /\ mem' = mem
          /\ failures' = failures /\ requests' = requests /\ decisions' = decisions /\ about' = about /\ loaded' = loaded
      BY <1>2, Zenon DEF Tick, requestVars
    <2>2. QED
      BY <2>1, TimeKept, Zenon
  <1>3. ASSUME NEW e \in Edits, UNCHANGED requestVars, limit' = limit,
               \/ CreateUser(e) \/ Add(e) \/ Begin(e) \/ LoadRow(e) \/ LoadRoleAssignments(e)
               \/ LoadPermissionOverrides(e) \/ Save(e) \/ Abort(e)
        PROVE  MembershipInv'
    BY <1>3, CreateUserKept, AddKept, BeginKept, LoadsKept, SaveKept, AbortKept, Zenon
  <1>4. ASSUME NEW e \in Edits, limit' = limit,
               ApprovePermissionRequest(e) \/ DenyPermissionRequest(e) \/ CancelPermissionRequest(e)
        PROVE  MembershipInv'
    <2>1. CASE ApprovePermissionRequest(e)
      <3>1. PICK c \in {"approve", "deny", "cancel"} : c = "approve"
        BY Zenon
      <3>2. PICK i \in DOMAIN requests, by \in Approvers : BeginDecision(e, c, i, by)
        BY <2>1, <3>1, Zenon DEF ApprovePermissionRequest, Approvers
      <3>3. QED
        BY <1>4, <3>2, BeginDecisionKept, Zenon
    <2>2. CASE DenyPermissionRequest(e)
      <3>1. PICK c \in {"approve", "deny", "cancel"} : c = "deny"
        BY Zenon
      <3>2. PICK i \in DOMAIN requests, by \in Approvers : BeginDecision(e, c, i, by)
        BY <2>2, <3>1, Zenon DEF DenyPermissionRequest, Approvers
      <3>3. QED
        BY <1>4, <3>2, BeginDecisionKept, Zenon
    <2>3. CASE CancelPermissionRequest(e)
      <3>1. PICK c \in {"approve", "deny", "cancel"} : c = "cancel"
        BY Zenon
      <3>2. PICK i \in DOMAIN requests : BeginDecision(e, c, i, requests[i].requester)
        BY <2>3, <3>1, Zenon DEF CancelPermissionRequest
      <3>3. PICK by \in Approvers : by = requests[i].requester
        BY RequesterIsMember, Zenon DEF Approvers
      <3>4. BeginDecision(e, c, i, by)
        BY <3>2, <3>3, Zenon
      <3>5. QED
        BY <1>4, <3>4, BeginDecisionKept, Zenon
    <2>4. QED
      BY <1>4, <2>1, <2>2, <2>3, Zenon
  <1>5. ASSUME NEW e \in Edits, limit' = limit,
               \/ RequestPermissionElevation(e) \/ AddRequest(e) \/ CheckRequest(e) \/ CheckApprover(e)
               \/ LoadRequest(e) \/ PersistDecision(e) \/ SaveApproval(e)
        PROVE  MembershipInv'
    BY <1>5, AskKept, AddRequestKept, CheckRequestKept, CheckApproverKept, LoadRequestKept, GoOnKept, DenialKept,
       SaveApprovalKept, Zenon
  <1>6. QED
    BY <1>1, <1>2, <1>3, <1>4, <1>5, Zenon DEF Next, MembershipNext

\* The invariant holds at the start.
LEMMA InitKept ==
    ASSUME Init
    PROVE  MembershipInv
  <1>1. /\ limit \in Limits /\ clock = 0 /\ failures = 0 /\ persons = {PersonOf[m] : m \in Seeded}
        /\ members = [m \in Members |-> IF m \in Seeded THEN [New EXCEPT !.manager = ManagerOf[m]] ELSE None]
        /\ outbox = {} /\ requests = <<>> /\ decisions = {} /\ pc = [e \in Edits |-> "idle"]
        /\ cmd = [e \in Edits |-> None] /\ mem = [e \in Edits |-> None]
        /\ about = [e \in Edits |-> None] /\ loaded = [e \in Edits |-> None]
    BY Zenon DEF Init
  <1>2. \A m \in Members : IF m \in Seeded THEN members[m] \in MembershipRows /\ members[m].granted = {} ELSE members[m] = None
    <2>1. ASSUME NEW m \in Seeded
          PROVE  [New EXCEPT !.manager = ManagerOf[m]] \in MembershipRows /\ [New EXCEPT !.manager = ManagerOf[m]].granted = {}
      <3>1. PICK b \in Members \cup {None} : b = ManagerOf[m]
        BY MembershipsAssumption
      <3>2. [New EXCEPT !.manager = b] \in MembershipRows /\ [New EXCEPT !.manager = b].granted = {}
        BY DEF New, MembershipRows, Statuses
      <3>3. QED
        BY <3>1, <3>2, Zenon
    <2>2. QED
      BY <1>1, <2>1, Zenon
  <1>3. GrantsInv
    BY <1>2, MembershipsAssumption, Zenon DEF GrantsInv
  <1>4. requests \in Seq(Requests) /\ Len(requests) = 0 /\ DOMAIN requests = {}
    BY <1>1
  <1>5. \A e \in Edits : pc[e] = "idle"
    BY <1>1, Zenon
  <1>6. Tables
    <2>1. clock \in 0 .. MaxTime /\ failures \in 0 .. MaxFailures /\ Len(requests) <= MaxRequests
      BY <1>1, <1>4, MembershipsAssumption, PermissionRequestsAssumption
    <2>2. members = [m \in Members |-> members[m]] /\ \A m \in Members : members[m] \in MembershipRows \cup {None}
      BY <1>1, <1>2, Zenon
    <2>3. members \in [Members -> MembershipRows \cup {None}]
      BY <2>2, Zenon
    <2>4. persons \subseteq Persons
      BY <1>1, MembershipsAssumption, Zenon DEF Persons
    <2>5. pc \in [Edits -> Places]
      <3>1. "idle" \in Places
        BY DEF Places
      <3>2. QED
        BY <1>1, <3>1, Zenon
    <2>6. /\ cmd = [e \in Edits |-> cmd[e]] /\ mem = [e \in Edits |-> mem[e]]
          /\ about = [e \in Edits |-> about[e]] /\ loaded = [e \in Edits |-> loaded[e]]
      BY <1>1, Zenon
    <2>7. QED
      BY <1>1, <1>4, <2>1, <2>3, <2>4, <2>5, <2>6, Zenon DEF Tables
  <1>7. RequestInv /\ OutboxInv
    BY <1>1, <1>4, Zenon DEF RequestInv, OutboxInv
  <1>8. \A m \in Members : Active(m) => m \in Seeded
    BY <1>2, Zenon DEF Active, Exists
  <1>9. ActiveInv
    BY <1>8, MembershipsAssumption, Zenon DEF ActiveInv
  <1>10. Running = {}
    <2>1. \A e \in Edits : pc[e] \in Rests
      BY <1>5 DEF Rests
    <2>2. QED
      BY <2>1, Zenon DEF Running, Rests
  <1>12. ASSUME NEW e \in Edits PROVE EditInv(e) /\ Alone(e)
    <2>1. /\ pc[e] # "update" /\ pc[e] # "create" /\ pc[e] # "insert" /\ pc[e] # "requester"
          /\ pc[e] \notin Updating /\ pc[e] \notin {"decide", "update"} \cup Updating /\ pc[e] \notin Deciding
          /\ pc[e] \notin {"decide", "update"} /\ pc[e] \notin {"roles", "overrides", "save"}
      BY <1>5 DEF Updating, Deciding
    <2>2. QED
      BY <2>1, Zenon DEF EditInv, Alone
  <1>13. AloneInv
    BY <1>4, <1>10, <1>12, Zenon DEF AloneInv
  <1>14. QED
    BY <1>3, <1>6, <1>7, <1>9, <1>12, <1>13, Zenon DEF MembershipInv

\* The invariant of memberships and permission requests: tables and edits, row by row,
\* for every number of members, requests and edits (internal/identity).
THEOREM MembershipInvariant == Spec => []MembershipInv
  <1>1. Init => MembershipInv
    BY InitKept
  <1>2. MembershipInv /\ [Next]_<<allVars, limit>> => MembershipInv'
    BY StepKept
  <1>3. QED
    BY <1>1, <1>2, PTL DEF Spec

\* Where an effective permission comes from.
LEMMA EffectiveComesFrom ==
    ASSUME NEW a, NEW t, NEW p \in EffectivePermissions(a, t)
    PROVE  \/ \E r \in a.roles : p \in RolePermissions[r]
           \/ \E g \in a.granted : p = g[1] /\ (g[2] = Never \/ t < g[2])
  BY DEF EffectivePermissions

\* What the resolver grants has a grant, a role or an approval behind it.
LEMMA GrantsExplain ==
    ASSUME MembershipInv, NEW m \in Members, Exists(m), NEW p \in Resolve(m)
    PROVE  \/ \E r \in members[m].roles : p \in RolePermissions[r]
           \/ \E e \in Edits : /\ pc[e] = "done" /\ cmd[e][1] = "replaceOverrides" /\ cmd[e][2] = m
                               /\ p \in cmd[e][3][1] /\ <<"PermissionsUpdated", m, e>> \in outbox
           \/ \E d \in decisions : /\ d[1] = "Approved" /\ clock < d[4] /\ d[3] # m
                                   /\ requests[d[2]].requester = m /\ requests[d[2]].permission = p
  <1>1. members[m] \in MembershipRows
    BY Zenon DEF MembershipInv, Tables, Exists
  <1>2. \/ \E r \in members[m].roles : p \in RolePermissions[r]
        \/ \E g \in members[m].granted : p = g[1] /\ (g[2] = Never \/ clock < g[2])
    BY EffectiveComesFrom, Zenon DEF Resolve
  <1>3. ASSUME NEW g \in members[m].granted, p = g[1], g[2] = Never \/ clock < g[2]
        PROVE  \/ \E e \in Edits : /\ pc[e] = "done" /\ cmd[e][1] = "replaceOverrides" /\ cmd[e][2] = m
                                   /\ p \in cmd[e][3][1] /\ <<"PermissionsUpdated", m, e>> \in outbox
               \/ \E d \in decisions : /\ d[1] = "Approved" /\ clock < d[4] /\ d[3] # m
                                       /\ requests[d[2]].requester = m /\ requests[d[2]].permission = p
    <2>1. Justified(m, g)
      BY <1>1, Zenon DEF MembershipInv, GrantsInv
    <2>2. CASE Written(m, g)
      BY <1>3, <2>2, Zenon DEF Written
    <2>3. CASE g[2] \in Nat /\ Approved(m, g)
      <3>1. g[2] # Never
        BY <2>3, MembershipsAssumption, Zenon
      <3>2. clock < g[2]
        BY <1>3, <3>1, Zenon
      <3>3. QED
        BY <1>3, <2>3, <3>2, Zenon DEF Approved
    <2>4. QED
      BY <2>1, <2>2, <2>3, Zenon DEF Justified
  <1>4. QED
    BY <1>2, <1>3, Zenon

\* A person has at most one active membership, and every permission of a token has a
\* role, an overlay of an administrator or an announced approval that is not over behind
\* it (MembershipRepository, the resolver), however edits overlap.
THEOREM EffectivesAreJustified == Spec => []EffectiveIsJustified
  <1>1. MembershipInv => EffectiveIsJustified
    <2>1. SUFFICES ASSUME MembershipInv PROVE EffectiveIsJustified
      OBVIOUS
    <2>2. TypeOK
      <3>1. DOMAIN members = Members /\ \A m \in Members : Exists(m) => members[m] \in MembershipRows
        BY <2>1, Zenon DEF MembershipInv, Tables, Exists
      <3>2. QED
        BY <2>1, <3>1, Zenon DEF MembershipInv, Tables, TypeOK, Places
    <2>3. \A m, n \in Members : Active(m) /\ Active(n) /\ PersonOf[m] = PersonOf[n] => m = n
      BY <2>1, Zenon DEF MembershipInv, ActiveInv
    <2>4. QED
      BY <2>1, <2>2, <2>3, GrantsExplain, Zenon DEF EffectiveIsJustified
  <1>2. QED
    BY <1>1, MembershipInvariant, PTL

\* A decision that a step adds.
LEMMA ApprovalsGrant ==
    ASSUME MembershipInv, Next, NEW d \in decisions' \ decisions, d[1] = "Approved"
    PROVE  /\ requests'[d[2]].state = "approved"
           /\ <<requests'[d[2]].permission, d[4]>> \in members'[requests'[d[2]].requester].granted
           /\ requests'[d[2]].permission \notin members'[requests'[d[2]].requester].revoked
           /\ limit = 1 => d[3] = Operator \/ d[3] = members[requests'[d[2]].requester].manager
  <1>1. PICK e \in Edits : AddRequest(e) \/ PersistDecision(e) \/ SaveApproval(e)
    <2>1. CASE UNCHANGED requestVars
      BY <2>1, Zenon DEF requestVars
    <2>2. ASSUME NEW e \in Edits, \/ RequestPermissionElevation(e) \/ ApprovePermissionRequest(e) \/ DenyPermissionRequest(e)
                                  \/ CancelPermissionRequest(e) \/ CheckRequest(e) \/ CheckApprover(e) \/ LoadRequest(e)
          PROVE  FALSE
      <3>1. decisions' = decisions
        BY <2>2, Zenon DEF RequestPermissionElevation, ApprovePermissionRequest, DenyPermissionRequest,
             CancelPermissionRequest, BeginDecision, CheckRequest, CheckApprover, LoadRequest, requestVars
      <3>2. QED
        BY <3>1, Zenon
    <2>3. QED
      BY <2>1, <2>2, Zenon DEF Next
  <1>2. CASE AddRequest(e)
    <2>1. \A n : <<"Requested", n, None, Never>>[1] # "Approved"
      OBVIOUS
    <2>2. QED
      BY <1>2, <2>1, Zenon DEF AddRequest
  <1>3. CASE PersistDecision(e)
    <2>1. PICK r, i : r = loaded[e] /\ i = about[e][1]
      OBVIOUS
    <2>2. pc[e] = "update" /\ cmd[e][1] # "approve" /\ WriteRequest(e)
      BY <1>3, Zenon DEF PersistDecision
    <2>3. r.state = "denied" \/ r.state = "cancelled"
      BY <2>1, <2>2, Zenon DEF MembershipInv, EditInv, DecidedAs
    <2>4. PICK t : t = [approved |-> "Approved", denied |-> "Denied", cancelled |-> "Cancelled"][r.state]
      OBVIOUS
    <2>5. t # "Approved"
      BY <2>3, <2>4
    <2>6. d = <<t, i, r.approver, r.expires>>
      BY <2>1, <2>2, <2>4, Zenon DEF WriteRequest
    <2>7. d[1] = t
      BY <2>6
    <2>8. QED
      BY <2>5, <2>7, Zenon
  <1>4. CASE SaveApproval(e)
    <2>1. PICK m, a, i, r : m = cmd[e][2] /\ a = Apply(mem[e], cmd[e]) /\ i = about[e][1] /\ r = loaded[e]
      OBVIOUS
    <2>2. pc[e] = "save" /\ cmd[e][1] = "approve" /\ ~Rejects(m, a) /\ Persist(e) /\ WriteRequest(e)
      BY <1>4, <2>1, Zenon DEF SaveApproval
    <2>3. Granted(e, m, a, i, r)
      BY <2>1, <2>2, GrantFacts
    <2>4. Persisted(e, m, a)
      BY <2>1, <2>2, PersistFacts
    <2>5. m \in Members
      BY <2>1, <2>2, SavingFacts, Zenon
    <2>6. d = <<"Approved", i, r.approver, r.expires>>
      BY <2>3, Zenon DEF Granted
    <2>7. d[2] = i /\ d[3] = r.approver /\ d[4] = r.expires
      BY <2>6
    <2>8. members'[m] = a
      BY <2>4, <2>5, Zenon DEF Persisted
    <2>9. limit = 1 => r.approver = Operator \/ r.approver = members[m].manager
      <3>1. (limit = 1 => Alone(e)) /\ pc[e] \in {"decide", "update"} \cup Updating
        BY <2>2, Zenon DEF MembershipInv, AloneInv, Updating
      <3>2. QED
        BY <2>1, <2>2, <2>3, <3>1, Zenon DEF Alone, Granted
    <2>10. QED
      BY <2>3, <2>7, <2>8, <2>9, Zenon DEF Granted
  <1>5. QED
    BY <1>1, <1>2, <1>3, <1>4, Zenon

\* An approval is a grant: whoever announces one leaves the request approved and the
\* permission granted until the announced end, no permission is asked for twice at the
\* same time, and one at a time a request has one decision (ApprovePermissionRequest).
THEOREM ApprovalsAreGrants == Spec => ApprovalGrants
  <1>1. MembershipInv => OneDecision
    <2>1. SUFFICES ASSUME MembershipInv PROVE OneDecision
      OBVIOUS
    <2>2. ASSUME limit = 1, NEW i \in DOMAIN requests
          PROVE  IF requests[i].state = "pending" THEN Made(i) = {} ELSE \E d \in Made(i) : Made(i) = {d}
      BY <2>1, <2>2, Zenon DEF MembershipInv, AloneInv
    <2>3. QED
      BY <2>1, <2>2, Zenon DEF OneDecision, Made, MembershipInv, RequestInv
  <1>2. MembershipInv /\ OneDecision' /\ [Next]_<<allVars, limit>> => [ApprovalStep]_allVars
    <2>1. ASSUME MembershipInv, OneDecision', Next PROVE ApprovalStep
      BY <2>1, ApprovalsGrant, Zenon DEF ApprovalStep
    <2>2. QED
      BY <2>1, Zenon
  <1>3. QED
    BY <1>1, <1>2, MembershipInvariant, PTL DEF Spec, ApprovalGrants
====
