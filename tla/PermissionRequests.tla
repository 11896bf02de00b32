---- MODULE PermissionRequests ----
(***************************************************************************)
(* Requests for a permission for some days.  A member asks, the member's   *)
(* manager or a platform operator approves or denies, and the member may   *)
(* cancel.  The approval writes the request and the requester's overlay in *)
(* one transaction; the checks before it run in transactions of their own. *)
(* The row of a request is loaded without a lock, and its UPDATE does not  *)
(* look at the state again.                                                *)
(***************************************************************************)
EXTENDS Memberships, Sequences

CONSTANTS
    Durations,      \* days that can be asked for
    Operator,       \* a platform operator, who is not a member of the tenant
    MaxRequests     \* bound: rows of identity.permission_requests

ASSUME PermissionRequestsAssumption ==
    /\ Durations \subseteq Nat \ {0} /\ MaxRequests \in Nat
    /\ Operator \notin Members \cup {None}

RequestStates == {"pending", "approved", "denied", "cancelled"}
Requests == [state : RequestStates, requester : Members, permission : Permissions, days : Durations,
             approver : Members \cup {Operator, None}, expires : Expiries]

VARIABLES
    requests,   \* identity.permission_requests, in the order of the inserts
    decisions,  \* events <<type, request, approver, expiry>> of the requests
    about,      \* the request that an edit is about, and who decides: <<index, approver>>
    loaded      \* the request as the transaction of an edit has loaded and changed it

requestVars == <<requests, decisions, about, loaded>>
allVars == <<vars, requestVars>>

TypeOK ==
    /\ limit \in Limits /\ clock \in 0 .. MaxTime /\ persons \subseteq Persons
    /\ DOMAIN members = Members
    /\ \A m \in Members : Exists(m) => members[m] \in MembershipRows
    /\ outbox \subseteq Events \X Members \X Edits
    /\ pc \in [Edits -> {"idle", "create", "row", "roles", "overrides", "save", "insert", "request",
                         "requester", "decide", "update", "done", "refused", "failed"}]
    /\ requests \in Seq(Requests) /\ Len(requests) <= MaxRequests
    /\ failures \in 0 .. MaxFailures

-----------------------------------------------------------------------------
(* The aggregate.                                                           *)

NewRequest(m, p, days) == [state |-> "pending", requester |-> m, permission |-> p, days |-> days,
                           approver |-> None, expires |-> Never]

\* Approve, Deny and Cancel leave a request as it is when they return an error.
Approve(r, by, expires) ==
    IF r.state = "pending" /\ by # r.requester
    THEN [r EXCEPT !.state = "approved", !.approver = by, !.expires = expires]
    ELSE r

Deny(r, by) ==
    IF r.state = "pending" /\ by # r.requester THEN [r EXCEPT !.state = "denied", !.approver = by] ELSE r

Cancel(r) == IF r.state = "pending" THEN [r EXCEPT !.state = "cancelled"] ELSE r

-----------------------------------------------------------------------------
(* The request.                                                             *)

\* uq_permission_requests_pending.
PendingOf(m, p) == {i \in DOMAIN requests : /\ requests[i].state = "pending" /\ requests[i].requester = m
                                            /\ requests[i].permission = p}

\* The requester is loaded first, in a transaction of its own.
RequestPermissionElevation(e) ==
    /\ pc[e] = "idle" /\ MayBegin /\ Len(requests) < MaxRequests
    /\ \E m \in Members, p \in Permissions, d \in Durations :
          /\ Exists(m)
          /\ cmd' = [cmd EXCEPT ![e] = <<"request", m, <<p, d>>>>]
    /\ Goto(e, "insert")
    /\ UNCHANGED <<clock, persons, members, outbox, mem, failures, requestVars>>

AddRequest(e) ==
    LET m == cmd[e][2]
        p == cmd[e][3][1]
    IN  /\ pc[e] = "insert" /\ Len(requests) < MaxRequests
        /\ IF PendingOf(m, p) # {} THEN Goto(e, "refused") /\ UNCHANGED <<requests, decisions>>
           ELSE /\ requests' = Append(requests, NewRequest(m, p, cmd[e][3][2]))
                /\ decisions' = decisions \cup {<<"Requested", Len(requests) + 1, None, Never>>}
                /\ Goto(e, "done")
        /\ UNCHANGED <<clock, persons, members, outbox, cmd, mem, failures, about, loaded>>

-----------------------------------------------------------------------------
(* The decision.                                                            *)

BeginDecision(e, c, i, by) ==
    /\ pc[e] = "idle" /\ MayBegin
    /\ cmd' = [cmd EXCEPT ![e] = <<c, requests[i].requester, None>>]
    /\ about' = [about EXCEPT ![e] = <<i, by>>]
    /\ Goto(e, "request")
    /\ UNCHANGED <<clock, persons, members, outbox, mem, failures, requests, decisions, loaded>>

ApprovePermissionRequest(e) ==
    \E i \in DOMAIN requests, by \in Members \cup {Operator} : BeginDecision(e, "approve", i, by)

DenyPermissionRequest(e) ==
    \E i \in DOMAIN requests, by \in Members \cup {Operator} : BeginDecision(e, "deny", i, by)

\* Only the requester gets past the first check of a cancellation.
CancelPermissionRequest(e) ==
    \E i \in DOMAIN requests : BeginDecision(e, "cancel", i, requests[i].requester)

callerCanApprove(a, by) == by = Operator \/ (a.manager # None /\ a.manager = by)

\* The request is read in a transaction of its own; it must be pending.
CheckRequest(e) ==
    LET i == about[e][1]
        c == cmd[e][1]
        r == requests[i]
    IN  /\ pc[e] = "request"
        /\ Goto(e, IF r.state # "pending" \/ (c # "cancel" /\ about[e][2] = r.requester) THEN "refused"
                   ELSE IF c = "cancel" THEN "decide" ELSE "requester")
        /\ UNCHANGED <<clock, persons, members, outbox, cmd, mem, failures, requestVars>>

\* The requester is read in another one; then the handler looks at the clock.
CheckApprover(e) ==
    LET r == requests[about[e][1]] IN
    /\ pc[e] = "requester"
    /\ Goto(e, IF callerCanApprove(members[r.requester], about[e][2]) THEN "decide" ELSE "refused")
    /\ cmd' = [cmd EXCEPT ![e] = <<@[1], @[2], <<r.permission, clock + r.days>>>>]
    /\ UNCHANGED <<clock, persons, members, outbox, mem, failures, requestVars>>

\* What the update function of a decision leaves of the request.
Decided(e, r) ==
    CASE cmd[e][1] = "approve" -> Approve(r, about[e][2], cmd[e][3][2])
      [] cmd[e][1] = "deny" -> Deny(r, about[e][2])
      [] cmd[e][1] = "cancel" -> Cancel(r)

\* PermissionRequestRepository.UpdateByID: the request is loaded again, without a lock.
LoadRequest(e) ==
    LET r == requests[about[e][1]] IN
    /\ pc[e] = "decide"
    /\ loaded' = [loaded EXCEPT ![e] = Decided(e, r)]
    /\ Goto(e, IF Decided(e, r) = r THEN "refused" ELSE "update")
    /\ UNCHANGED <<clock, persons, members, outbox, cmd, mem, failures, requests, decisions, about>>

\* An approval that has written its request holds the row until it ends.
Approving(i) == {f \in Edits : /\ pc[f] \in {"row", "roles", "overrides", "save"}
                               /\ cmd[f][1] = "approve" /\ about[f][1] = i}

WriteRequest(e) ==
    LET i == about[e][1]
        r == loaded[e]
        type == [approved |-> "Approved", denied |-> "Denied", cancelled |-> "Cancelled"]
    IN  /\ requests' = [requests EXCEPT ![i] = r]
        /\ decisions' = decisions \cup {<<type[r.state], i, r.approver, r.expires>>}

\* A denial and a cancellation end with the request; an approval goes on to the grant.
PersistDecision(e) ==
    /\ pc[e] = "update" /\ Approving(about[e][1]) = {}
    /\ IF cmd[e][1] = "approve" THEN Goto(e, "row") /\ UNCHANGED <<requests, decisions>>
       ELSE WriteRequest(e) /\ Goto(e, "done")
    /\ UNCHANGED <<clock, persons, members, outbox, cmd, mem, failures, about, loaded>>

\* Fault: the grant has a transaction of its own and fails, the approval stays.
SaveApprovalAlone(e) ==
    /\ pc[e] = "save" /\ cmd[e][1] = "approve"
    /\ WriteRequest(e)
    /\ Goto(e, "failed")
    /\ UNCHANGED <<clock, persons, members, outbox, cmd, mem, failures, about, loaded>>

\* The grant, and the COMMIT of both.
SaveApproval(e) ==
    /\ pc[e] = "save" /\ cmd[e][1] = "approve"
    /\ IF Rejects(cmd[e][2], Apply(mem[e], cmd[e]))
       THEN Goto(e, "refused") /\ UNCHANGED <<members, outbox, requests, decisions>>
       ELSE Persist(e) /\ WriteRequest(e) /\ Goto(e, "done")
    /\ UNCHANGED <<clock, persons, cmd, mem, failures, about, loaded>>

-----------------------------------------------------------------------------
(* Specification.                                                           *)

Init ==
    /\ limit \in Limits /\ clock = 0 /\ failures = 0
    /\ persons = {PersonOf[m] : m \in Seeded}
    /\ members = [m \in Members |-> IF m \in Seeded THEN [New EXCEPT !.manager = ManagerOf[m]] ELSE None]
    /\ outbox = {} /\ requests = <<>> /\ decisions = {}
    /\ pc = [e \in Edits |-> "idle"]
    /\ cmd = [e \in Edits |-> None] /\ mem = [e \in Edits |-> None]
    /\ about = [e \in Edits |-> None] /\ loaded = [e \in Edits |-> None]

MembershipNext ==
    \/ Tick
    \/ \E e \in Edits : \/ CreateUser(e) \/ Add(e) \/ Begin(e) \/ LoadRow(e) \/ LoadRoleAssignments(e)
                        \/ LoadPermissionOverrides(e) \/ Save(e) \/ Abort(e)

Next ==
    /\ UNCHANGED limit
    /\ \/ MembershipNext /\ UNCHANGED requestVars
       \/ \E e \in Edits : \/ RequestPermissionElevation(e) \/ AddRequest(e) \/ ApprovePermissionRequest(e)
                           \/ DenyPermissionRequest(e) \/ CancelPermissionRequest(e) \/ CheckRequest(e)
                           \/ CheckApprover(e) \/ LoadRequest(e) \/ PersistDecision(e) \/ SaveApproval(e)

Spec == Init /\ [][Next]_<<allVars, limit>>

-----------------------------------------------------------------------------
(* Properties.                                                              *)

Active(m) == Exists(m) /\ members[m].status = "active"

\* A token speaks for one membership, and what the resolver puts into it is explained.
\* However requests overlap, a person is an active member of at most one tenant ("A
\* Person can have at most ONE Active Membership system-wide at any time",
\* uq_memberships_person_active): neither an account that is created while another
\* tenant creates one, nor a reactivation or a stale write-back makes a second.  A
\* permission comes from a role, from an overlay that an administrator wrote, or from an
\* approval that is announced, is not over, and was not given by the requester ("approver
\* must not be the requester"), also after updates of a membership overwrote each other.
EffectiveIsJustified ==
    /\ TypeOK
    /\ \A m, n \in Members : Active(m) /\ Active(n) /\ PersonOf[m] = PersonOf[n] => m = n
    /\ \A m \in Members : Exists(m) => \A p \in Resolve(m) :
        \/ \E r \in members[m].roles : p \in RolePermissions[r]
        \/ \E e \in Edits : /\ pc[e] = "done" /\ cmd[e][1] = "replaceOverrides" /\ cmd[e][2] = m
                            /\ p \in cmd[e][3][1] /\ <<"PermissionsUpdated", m, e>> \in outbox
        \/ \E d \in decisions : /\ d[1] = "Approved" /\ clock < d[4] /\ d[3] # m
                                /\ requests[d[2]].requester = m /\ requests[d[2]].permission = p

\* No member and permission has two pending requests, and a request has one decision.
OneDecision ==
    /\ \A i, j \in DOMAIN requests :
          /\ requests[i].state = "pending" /\ requests[j].state = "pending"
          /\ requests[i].requester = requests[j].requester /\ requests[i].permission = requests[j].permission
          => i = j
    /\ limit = 1 => \A i \in DOMAIN requests :
          LET made == {d \in decisions : d[2] = i /\ d[1] # "Requested"}
          IN  IF requests[i].state = "pending" THEN made = {} ELSE \E d \in made : made = {d}

\* Whoever announces an approval leaves the request approved and the permission granted
\* until the announced end; the approver is the operator or, one at a time, the manager.
ApprovalStep ==
    /\ OneDecision'
    /\ \A d \in decisions' \ decisions : d[1] = "Approved" =>
         LET r == requests'[d[2]] IN
         /\ r.state = "approved"
         /\ <<r.permission, d[4]>> \in members'[r.requester].granted
         /\ r.permission \notin members'[r.requester].revoked
         /\ limit = 1 => d[3] = Operator \/ d[3] = members[r.requester].manager

\* One at a time, the record of a request is the truth: a pending one is undecided, no
\* member and permission has two, and the state is the one decision that was announced;
\* two decisions that overlap are both announced, and the later UPDATE wins.  In any case
\* the approval and the grant are one: whoever announces an approval leaves the request
\* approved and the permission granted until the announced end, and the approver is the
\* operator or the requester's manager -- one at a time, the manager of that moment ("no
\* orphan Approved-without-grant rows").
ApprovalGrants == [][ApprovalStep]_allVars
====
