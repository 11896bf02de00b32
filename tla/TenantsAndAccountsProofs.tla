---- MODULE TenantsAndAccountsProofs ----
(***************************************************************************)
(* The life of a tenant, for every set of tenants and requests: a          *)
(* registration is whole or not there, a tenant that never lacked an       *)
(* active super administrator stays active whatever overlaps, and one      *)
(* request at a time a tenant moves as Status says.  Then the accounts of  *)
(* its people: what a change of credentials rotates and an erasure takes   *)
(* away.  The two share no state.                                          *)
(***************************************************************************)
EXTENDS Tenants, Accounts, FiniteSetTheorems, TLAPS

Roles == {Catalogue[i] : i \in DOMAIN Catalogue}

PCs == {"idle", "register", "seed", "own", "guard", "load", "save", "erase", "registered", "over"}

\* What the administrator and the operators may ask for.
Known(name, x) ==
    \/ name \in Parts \cup {"markForDeletion"} /\ x \in Values
    \/ name \in {"suspend", "activate", "restore", "hardDelete"}

Asked(x) == Known(x[1], x[3])

-----------------------------------------------------------------------------
(* The aggregate.                                                           *)

\* What holds of a changed aggregate.
Changed(t, r) == r \in TenantRows /\ r.slug = t.slug /\ <<t.status, r.status>> \in Moves

\* An aggregate that is left as it is.
LEMMA LeftAlone == ASSUME NEW t \in TenantRows PROVE Changed(t, t)
  BY DEF Changed, TenantRows, Moves

\* Tenant.Activate, Suspend, RestoreFromDeletion and HardDelete move along Status.
LEMMA LifecycleMoves ==
    ASSUME NEW t \in TenantRows, NEW r, r # None,
           r \in {Activate(t), Suspend(t), RestoreFromDeletion(t), HardDelete(t)}
    PROVE  Changed(t, r)
  <1> DEFINE To(s) == [t EXCEPT !.status = s]
  <1>1. ASSUME NEW s \in Statuses, <<t.status, s>> \in Moves PROVE Changed(t, To(s))
    BY <1>1 DEF TenantRows, Changed
  <1>2. CASE r = Activate(t)
    <2>1. r = t \/ (t.status \in {"pending", "suspended"} /\ r = To("active"))
      BY <1>2, Zenon DEF Activate
    <2>2. QED
      BY <1>1, <2>1, LeftAlone DEF Moves, Statuses
  <1>3. CASE r = Suspend(t)
    <2>1. r = t \/ (t.status \in {"pending", "active"} /\ r = To("suspended"))
      BY <1>3, Zenon DEF Suspend
    <2>2. QED
      BY <1>1, <2>1, LeftAlone DEF Moves, Statuses
  <1>4. CASE r = HardDelete(t)
    <2>1. r = t \/ (t.status \in {"pending", "pending_deletion"} /\ r = To("deleted"))
      BY <1>4, Zenon DEF HardDelete
    <2>2. QED
      BY <1>1, <2>1, LeftAlone DEF Moves, Statuses
  <1>5. CASE r = RestoreFromDeletion(t)
    <2>1. \/ r = t
          \/ /\ t.status = "pending_deletion"
             /\ r = [t EXCEPT !.status = "active", !.scheduled = None, !.reason = None]
      BY <1>5, Zenon DEF RestoreFromDeletion
    <2>2. CASE /\ t.status = "pending_deletion"
               /\ r = [t EXCEPT !.status = "active", !.scheduled = None, !.reason = None]
      <3>1. r \in TenantRows /\ r.slug = t.slug /\ r.status = "active"
        BY <2>2, Zenon DEF TenantRows, Statuses
      <3>2. QED
        BY <2>2, <3>1 DEF Changed, Moves
    <2>3. QED
      BY <2>1, <2>2, LeftAlone, Zenon
  <1>6. QED
    BY <1>2, <1>3, <1>4, <1>5, Zenon

\* So does Tenant.MarkForDeletion.
LEMMA DeletionMoves ==
    ASSUME NEW t \in TenantRows, NEW why \in Values, NEW now \in 0 .. MaxTime,
           NEW r, r = MarkForDeletion(t, why, now), r # None
    PROVE  Changed(t, r)
  <1>1. \/ r = t
        \/ /\ t.status \in {"active", "suspended"}
           /\ r = [t EXCEPT !.status = "pending_deletion", !.scheduled = now, !.reason = why]
    BY Zenon DEF MarkForDeletion
  <1>2. CASE /\ t.status \in {"active", "suspended"}
             /\ r = [t EXCEPT !.status = "pending_deletion", !.scheduled = now, !.reason = why]
    <2>1. r \in TenantRows /\ r.slug = t.slug /\ r.status = "pending_deletion"
      BY <1>2, Zenon DEF TenantRows, Statuses
    <2>2. QED
      BY <1>2, <2>1 DEF Changed, Moves
  <1>3. QED
    BY <1>1, <1>2, LeftAlone, Zenon

\* An update of a part keeps the slug and the status.
LEMMA PartMoves ==
    ASSUME NEW t \in TenantRows, NEW v \in Values, NEW p \in Parts, NEW r, r = [t EXCEPT !.parts[p] = v]
    PROVE  Changed(t, r) /\ r.status = t.status
  <1>1. r \in TenantRows /\ r.slug = t.slug /\ r.status = t.status
    BY DEF TenantRows
  <1>2. <<t.status, t.status>> \in Moves
    BY DEF TenantRows, Moves
  <1>3. QED
    BY <1>1, <1>2, Zenon DEF Changed

\* The function of a handler leaves an aggregate that the state machine allows, and one
\* that is not guarded leaves the status or makes the tenant active.
LEMMA ApplyMoves ==
    ASSUME NEW t \in TenantRows, NEW x, Asked(x), clock \in 0 .. MaxTime, NEW r, r = Apply(t, x), r # None
    PROVE  /\ Changed(t, r)
           /\ ~ Guarded(x[1]) => r.status \in {t.status, "active"}
  <1>1. CASE x[1] \in {"suspend", "hardDelete"}
    <2>1. r = Suspend(t) \/ r = HardDelete(t)
      BY <1>1 DEF Apply, ApplySuspension
    <2>2. Guarded(x[1])
      BY <1>1, Zenon DEF Guarded
    <2>3. QED
      BY <2>1, <2>2, LifecycleMoves, Zenon
  <1>2. CASE x[1] \in {"activate", "restore"}
    <2>1. r = Activate(t) \/ r = RestoreFromDeletion(t)
      BY <1>2 DEF Apply, ApplySuspension, ApplyDeletion
    <2>2. r = t \/ r = [t EXCEPT !.status = "active"]
          \/ r = [t EXCEPT !.status = "active", !.scheduled = None, !.reason = None]
      BY <2>1, Zenon DEF Activate, RestoreFromDeletion
    <2>3. r.status \in {t.status, "active"}
      BY <2>2 DEF TenantRows
    <2>4. QED
      BY <2>1, <2>3, LifecycleMoves, Zenon
  <1>3. CASE x[1] = "markForDeletion"
    <2>1. r = MarkForDeletion(t, x[3], clock) /\ x[3] \in Values
      BY <1>3 DEF Apply, ApplyDeletion, Asked, Known
    <2>2. Guarded(x[1])
      BY <1>3, Zenon DEF Guarded
    <2>3. QED
      BY <2>1, <2>2, DeletionMoves, Zenon
  <1>4. CASE x[1] \in Parts
    <2>1. x[3] \in Values
      BY <1>4 DEF Asked, Known, Parts
    <2>2. \E p \in Parts : r = [t EXCEPT !.parts[p] = x[3]]
      <3>1. CASE x[1] \in {"profile", "statutory"}
        <4>1. r = UpdateProfile(t, x[3]) \/ r = UpdateStatutory(t, x[3])
          BY <3>1 DEF Apply, ApplyIdentity
        <4>2. r = [t EXCEPT !.parts["profile"] = x[3]] \/ r = [t EXCEPT !.parts["statutory"] = x[3]]
          BY <4>1, Zenon DEF UpdateProfile, UpdateStatutory
        <4>3. QED
          BY <4>2, Zenon DEF Parts
      <3>2. CASE x[1] \in {"contact", "settings"}
        <4>1. r = UpdateAdminContact(t, x[3]) \/ r = UpdateSettings(t, x[3])
          BY <3>2 DEF Apply, ApplyContact
        <4>2. r = [t EXCEPT !.parts["contact"] = x[3]] \/ r = [t EXCEPT !.parts["settings"] = x[3]]
          BY <4>1, Zenon DEF UpdateAdminContact, UpdateSettings
        <4>3. QED
          BY <4>2, Zenon DEF Parts
      <3>3. CASE x[1] = "preferences"
        <4>1. r = UpdateDisplayPreferences(t, x[3])
          BY <3>3 DEF Apply, ApplyPreferences
        <4>2. QED
          BY <4>1, Zenon DEF UpdateDisplayPreferences, Parts
      <3>4. QED
        BY <1>4, <3>1, <3>2, <3>3, Zenon DEF Parts
    <2>3. PICK p \in Parts : r = [t EXCEPT !.parts[p] = x[3]]
      BY <2>2, Zenon
    <2>4. Changed(t, r) /\ r.status = t.status
      BY <2>1, <2>3, PartMoves
    <2>5. QED
      BY <2>4, Zenon
  <1>5. QED
    BY <1>1, <1>2, <1>3, <1>4, Zenon DEF Asked, Known

-----------------------------------------------------------------------------
(* The inductive invariant.                                                 *)

TenantTypes ==
    /\ limit \in Limits /\ clock \in 0 .. MaxTime /\ failures \in 0 .. MaxFailures
    /\ tenants \in [TenantIds -> TenantRows \cup {None}]
    /\ admin \in [TenantIds -> Admins \cup {Platform, None}]
    /\ active \subseteq TenantIds /\ super \subseteq {Platform} /\ exposed \subseteq TenantIds
    /\ owner \in [TenantIds -> BOOLEAN]
    /\ seeded \in [TenantIds -> SUBSET Roles]

RequestTypes ==
    /\ pc \in [Calls -> PCs]
    /\ cmd = [c \in Calls |-> cmd[c]]
    /\ mem = [c \in Calls |-> mem[c]]

\* The rows: a tenant and its first member come together, no slug and no active first
\* member is there twice, and a tenant that never lacked an active super administrator
\* has one and is active.
RowsInv ==
    /\ \A t \in TenantIds : tenants[t] # None <=> admin[t] # None
    /\ \A t, u \in TenantIds : t # u /\ tenants[t] # None /\ tenants[u] # None =>
          tenants[t].slug # tenants[u].slug
    /\ \A t, u \in active : t # u => admin[t] # admin[u]
    /\ \A t \in TenantIds \ exposed :
          HasActiveSuperAdmin(t) /\ tenants[t] # None /\ tenants[t].status = "active"

\* An aggregate that is about to be written: the row is still there and has its slug, and
\* is active if the tenant never lacked an active super administrator; with one request
\* at a time the row is the one that was loaded, and what the guard saw still holds.
SaveInv(c) ==
    /\ tenants[cmd[c][2]] # None
    /\ mem[c][2] \in TenantRows /\ mem[c][2].slug = tenants[cmd[c][2]].slug
    /\ cmd[c][2] \notin exposed => mem[c][2].status = "active"
    /\ limit = 1 => /\ mem[c][1] = tenants[cmd[c][2]]
                    /\ <<tenants[cmd[c][2]].status, mem[c][2].status>> \in Moves
                    /\ \/ mem[c][2].status \in {tenants[cmd[c][2]].status, "active"}
                       \/ ~ HasActiveSuperAdmin(cmd[c][2])

\* A request: a registration's tenant is still free, the roles are there before the owner
\* is assigned, and a guarded command that goes on found no active super administrator.
CallInv(c) ==
    /\ pc[c] \notin {"idle", "over"} => cmd[c][2] \in TenantIds
    /\ pc[c] = "register" => /\ tenants[cmd[c][2]] = None
                             /\ cmd[c][3][1] \in Slugs /\ cmd[c][3][2] \in Admins
    /\ pc[c] \in {"own", "registered"} => Roles \subseteq seeded[cmd[c][2]]
    /\ pc[c] = "registered" => owner[cmd[c][2]] = TRUE
    /\ pc[c] \in {"guard", "load"} => Asked(cmd[c])
    /\ pc[c] = "load" /\ Guarded(cmd[c][1]) =>
          cmd[c][2] \in exposed /\ (limit = 1 => ~ HasActiveSuperAdmin(cmd[c][2]))
    /\ pc[c] = "save" => SaveInv(c)

\* Two requests: no tenant is registered twice, and a limit of one is one.
ApartInv ==
    \A c, d \in Calls : c # d =>
        /\ pc[c] = "register" /\ pc[d] = "register" => cmd[c][2] # cmd[d][2]
        /\ limit = 1 => c \notin Running \/ d \notin Running

TenantsInv == TenantTypes /\ RequestTypes /\ RowsInv /\ (\A c \in Calls : CallInv(c)) /\ ApartInv

-----------------------------------------------------------------------------
(* The frame of a step: one request moves.                                  *)

Moved(c) ==
    /\ RequestTypes'
    /\ \A d \in Calls \ {c} : pc'[d] = pc[d] /\ cmd'[d] = cmd[d] /\ mem'[d] = mem[d]

\* What a step may do to the tables while other requests are on their way.
Grows ==
    /\ \A t \in TenantIds : tenants[t] # None => tenants'[t] # None /\ tenants'[t].slug = tenants[t].slug
    /\ \A t \in TenantIds : seeded[t] \subseteq seeded'[t] /\ (owner[t] = TRUE => owner'[t] = TRUE)
    /\ exposed \subseteq exposed'

\* A request ends.
LEMMA Finishes ==
    ASSUME RequestTypes, NEW c \in Calls, Finish(c)
    PROVE  Moved(c) /\ pc'[c] = "over"
  <1>1. \A d \in Calls : /\ pc'[d] = (IF d = c THEN "over" ELSE pc[d])
                         /\ cmd'[d] = (IF d = c THEN None ELSE cmd[d])
                         /\ mem'[d] = (IF d = c THEN None ELSE mem[d])
    BY Zenon DEF RequestTypes, Finish
  <1>2. pc' \in [Calls -> PCs] /\ cmd' = [d \in Calls |-> cmd'[d]] /\ mem' = [d \in Calls |-> mem'[d]]
    BY Zenon DEF RequestTypes, Finish, PCs
  <1>3. QED
    BY <1>1, <1>2, Zenon DEF Moved, RequestTypes

\* A request goes on.
LEMMA Goes ==
    ASSUME RequestTypes, NEW c \in Calls, NEW next \in PCs, Goto(c, next)
    PROVE  Moved(c) /\ pc'[c] = next /\ cmd'[c] = cmd[c] /\ mem'[c] = mem[c]
  <1>1. \A d \in Calls : /\ pc'[d] = (IF d = c THEN next ELSE pc[d])
                         /\ cmd'[d] = cmd[d] /\ mem'[d] = mem[d]
    BY DEF RequestTypes, Goto
  <1>2. pc' \in [Calls -> PCs] /\ cmd' = [d \in Calls |-> cmd'[d]] /\ mem' = [d \in Calls |-> mem'[d]]
    BY DEF RequestTypes, Goto
  <1>3. QED
    BY <1>1, <1>2, Zenon DEF Moved, RequestTypes

\* With a limit of one, a request starts when no other runs.
LEMMA NobodyRuns ==
    ASSUME TenantsAssumption, Cardinality(Running) < limit, limit = 1
    PROVE  Running = {}
  <1>1. IsFiniteSet(Running)
    BY FS_Subset, Zenon DEF TenantsAssumption, Running
  <1>2. Cardinality(Running) \in Nat /\ Cardinality(Running) < 1
    BY <1>1, FS_CardinalityType
  <1>3. Cardinality(Running) = 0
    BY <1>2
  <1>4. QED
    BY <1>1, <1>3, FS_EmptySet

\* A request starts: with a limit of one, nobody else runs.
LEMMA Starts ==
    ASSUME TenantsAssumption, TenantsInv, NEW c \in Calls, NEW name, NEW t, NEW x, NEW next \in PCs,
           Start(c, name, t, x, next)
    PROVE  /\ Moved(c) /\ pc'[c] = next /\ cmd'[c] = <<name, t, x>> /\ pc[c] = "idle"
           /\ limit = 1 => Running = {}
  <1>1. \A d \in Calls : /\ pc'[d] = (IF d = c THEN next ELSE pc[d])
                         /\ cmd'[d] = (IF d = c THEN <<name, t, x>> ELSE cmd[d]) /\ mem'[d] = mem[d]
    BY DEF TenantsInv, RequestTypes, Start
  <1>2. pc' \in [Calls -> PCs] /\ cmd' = [d \in Calls |-> cmd'[d]] /\ mem' = [d \in Calls |-> mem'[d]]
    BY Zenon DEF TenantsInv, RequestTypes, Start
  <1>3. ASSUME limit = 1 PROVE Running = {}
    <2>1. Cardinality(Running) < limit
      BY Zenon DEF Start
    <2>2. QED
      BY <1>3, <2>1, NobodyRuns, Zenon
  <1>4. pc[c] = "idle"
    BY Zenon DEF Start
  <1>5. QED
    BY <1>1, <1>2, <1>3, <1>4, Zenon DEF Moved, RequestTypes

\* What the step of one request has to show for the invariant to hold after it.
LEMMA OneStep ==
    ASSUME TenantsInv, NEW c \in Calls, limit' = limit, TenantTypes', Moved(c), Grows, RowsInv', CallInv(c)',
           \A d \in Calls \ {c} : pc[d] = "register" => tenants'[cmd[d][2]] = tenants[cmd[d][2]],
           \A d \in Calls \ {c} : pc[d] = "register" /\ pc'[c] = "register" => cmd[d][2] # cmd'[c][2],
           limit = 1 => \A d \in Calls \ {c} : d \notin Running
    PROVE  TenantsInv'
  <1>1. ASSUME NEW d \in Calls, d # c PROVE CallInv(d)'
    <2>1. pc'[d] = pc[d] /\ cmd'[d] = cmd[d] /\ mem'[d] = mem[d]
      BY <1>1, Zenon DEF Moved
    <2>2. CallInv(d)
      BY Zenon DEF TenantsInv
    <2>3. pc[d] = "register" => tenants'[cmd[d][2]] = tenants[cmd[d][2]]
      BY <1>1, Zenon
    <2>4. pc[d] \in {"own", "registered"} => Roles \subseteq seeded'[cmd[d][2]]
      BY <2>2 DEF CallInv, Grows
    <2>5. pc[d] = "registered" => owner'[cmd[d][2]] = TRUE
      BY <2>2 DEF CallInv, Grows
    <2>6. ASSUME pc[d] = "save"
          PROVE  /\ tenants'[cmd[d][2]] # None
                 /\ mem[d][2] \in TenantRows /\ mem[d][2].slug = tenants'[cmd[d][2]].slug
                 /\ cmd[d][2] \notin exposed' => mem[d][2].status = "active"
                 /\ limit # 1
      <3>1. SaveInv(d) /\ cmd[d][2] \in TenantIds
        BY <2>2, <2>6 DEF CallInv
      <3>2. tenants'[cmd[d][2]] # None /\ tenants'[cmd[d][2]].slug = tenants[cmd[d][2]].slug
        BY <3>1, Zenon DEF SaveInv, Grows
      <3>3. d \in Running
        BY <2>6 DEF Running
      <3>4. limit # 1
        BY <1>1, <3>3, Zenon
      <3>5. cmd[d][2] \notin exposed' => cmd[d][2] \notin exposed
        BY Zenon DEF Grows
      <3>6. QED
        BY <3>1, <3>2, <3>4, <3>5, Zenon DEF SaveInv
    <2>7. pc[d] = "save" => SaveInv(d)'
      BY <2>1, <2>6, Zenon DEF SaveInv
    <2>8. pc[d] = "load" /\ Guarded(cmd[d][1]) => cmd[d][2] \in exposed' /\ limit # 1
      <3>1. pc[d] = "load" => d \in Running
        BY DEF Running
      <3>2. QED
        BY <1>1, <2>2, <3>1, Zenon DEF CallInv, Grows
    <2>9. QED
      BY <2>1, <2>2, <2>3, <2>4, <2>5, <2>7, <2>8, Zenon DEF CallInv
  <1>2. ASSUME NEW d \in Calls, NEW e \in Calls, d # e
        PROVE  /\ pc'[d] = "register" /\ pc'[e] = "register" => cmd'[d][2] # cmd'[e][2]
               /\ limit = 1 => d \notin Running' \/ e \notin Running'
    <2>1. \A f \in Calls \ {c} : pc'[f] = pc[f] /\ cmd'[f] = cmd[f]
      BY Zenon DEF Moved
    <2>2. \A f \in Calls \ {c} : f \in Running' => f \in Running
      BY <2>1, Zenon DEF Running
    <2>3. limit = 1 => d \notin Running' \/ e \notin Running'
      BY <1>2, <2>2, Zenon
    <2>4. pc[d] = "register" /\ pc[e] = "register" => cmd[d][2] # cmd[e][2]
      BY <1>2, Zenon DEF TenantsInv, ApartInv
    <2>5. CASE d = c
      BY <1>2, <2>1, <2>3, <2>5, Zenon
    <2>6. CASE e = c
      BY <1>2, <2>1, <2>3, <2>6, Zenon
    <2>7. CASE d # c /\ e # c
      BY <2>1, <2>3, <2>4, <2>7, Zenon
    <2>8. QED
      BY <2>5, <2>6, <2>7, Zenon
  <1>3. ApartInv'
    BY <1>2, Zenon DEF ApartInv
  <1>4. \A d \in Calls : CallInv(d)'
    BY <1>1, Zenon
  <1>5. RequestTypes'
    BY Zenon DEF Moved
  <1>6. QED
    BY <1>3, <1>4, <1>5, Zenon DEF TenantsInv

\* With a limit of one, a request that runs is the only one.
LEMMA AloneWhenRunning ==
    ASSUME TenantsInv, NEW c \in Calls, pc[c] \notin {"idle", "registered", "over"}
    PROVE  limit = 1 => \A d \in Calls \ {c} : d \notin Running
  <1>1. c \in Running
    BY Zenon DEF Running
  <1>2. QED
    BY <1>1, Zenon DEF TenantsInv, ApartInv

\* A step that leaves the tables alone.
LEMMA TablesStay ==
    ASSUME TenantsInv, NEW c \in Calls, limit' = limit, Moved(c), CallInv(c)',
           clock' \in 0 .. MaxTime, failures' \in 0 .. MaxFailures, UNCHANGED <<tenants, admin, active, super, exposed, seeded, owner>>,
           \A d \in Calls \ {c} : pc[d] = "register" /\ pc'[c] = "register" => cmd[d][2] # cmd'[c][2],
           limit = 1 => \A d \in Calls \ {c} : d \notin Running
    PROVE  TenantsInv'
  <1>1. /\ tenants' = tenants /\ admin' = admin /\ seeded' = seeded /\ owner' = owner
        /\ active' = active /\ super' = super /\ exposed' = exposed
    OBVIOUS
  <1>2. TenantTypes'
    BY <1>1, Zenon DEF TenantsInv, TenantTypes
  <1>3. Grows
    BY <1>1, Zenon DEF Grows
  <1>4. RowsInv'
    BY <1>1, Zenon DEF TenantsInv, RowsInv, HasActiveSuperAdmin
  <1>5. QED
    BY <1>1, <1>2, <1>3, <1>4, OneStep, Zenon

\* A request that ends leaves nothing to show.
LEMMA OverIsQuiet ==
    ASSUME NEW c, pc'[c] = "over"
    PROVE  CallInv(c)'
  BY DEF CallInv

-----------------------------------------------------------------------------
(* The steps.                                                               *)

\* RegisterTenant.Handle up to its transaction.
LEMMA RegisterKept ==
    ASSUME TenantsAssumption, TenantsInv, NEW c \in Calls, limit' = limit, RegisterTenant(c)
    PROVE  TenantsInv'
  <1>1. PICK t \in TenantIds \ {Platform}, s \in Slugs, a \in Admins :
            /\ tenants[t] = None /\ \A o \in Running : cmd[o][2] # t
            /\ Start(c, "register", t, <<s, a, HasAccount(a)>>, "register")
    BY Zenon DEF RegisterTenant
  <1>2. "register" \in PCs
    BY DEF PCs
  <1>3. PICK x : x = <<s, a, HasAccount(a)>>
    BY Zenon
  <1>4. /\ Moved(c) /\ pc'[c] = "register" /\ cmd'[c] = <<"register", t, x>> /\ pc[c] = "idle"
        /\ limit = 1 => Running = {}
    <2>1. Start(c, "register", t, x, "register")
      BY <1>1, <1>3, Zenon
    <2>2. QED
      BY <1>2, <2>1, Starts
  <1>5. cmd'[c][2] = t /\ cmd'[c][3] = x /\ x[1] = s /\ x[2] = a
    BY <1>3, <1>4
  <1>6. /\ clock' = clock /\ failures' = failures /\ tenants' = tenants
        /\ UNCHANGED <<tenants, admin, active, super, exposed, seeded, owner>>
    BY Zenon DEF RegisterTenant
  <1>7. CallInv(c)'
    BY <1>1, <1>4, <1>5, <1>6 DEF CallInv
  <1>8. \A d \in Calls \ {c} : pc[d] = "register" => cmd[d][2] # cmd'[c][2]
    BY <1>1, <1>5 DEF Running
  <1>9. clock' \in 0 .. MaxTime /\ failures' \in 0 .. MaxFailures
    BY <1>6, Zenon DEF TenantsInv, TenantTypes
  <1>10. QED
    BY <1>4, <1>6, <1>7, <1>8, <1>9, TablesStay, Zenon

\* The other requests that start: the rows stay, and the command is one that the
\* handlers know.
LEMMA AskedKept ==
    ASSUME TenantsAssumption, TenantsInv, NEW c \in Calls, limit' = limit,
           UNCHANGED <<clock, tenants, admin, active, super, exposed, seeded, owner, outbox, failures>>,
           NEW t \in TenantIds, NEW name, NEW x, NEW next \in {"guard", "load"},
           Known(name, x), next = "load" => ~ Guarded(name),
           Start(c, name, t, x, next)
    PROVE  TenantsInv'
  <1>1. next \in PCs
    BY DEF PCs
  <1>2. Moved(c) /\ pc'[c] = next /\ cmd'[c][1] = name /\ cmd'[c][2] = t /\ cmd'[c][3] = x
    BY <1>1, Starts
  <1>3. Asked(cmd[c])'
    BY <1>2, Zenon DEF Asked, Known
  <1>4. CallInv(c)'
    BY <1>2, <1>3 DEF CallInv
  <1>5. limit = 1 => \A d \in Calls \ {c} : d \notin Running
    BY <1>1, Starts, Zenon
  <1>6. pc'[c] # "register"
    BY <1>2
  <1>7. clock' \in 0 .. MaxTime /\ failures' \in 0 .. MaxFailures /\ UNCHANGED <<tenants, admin, active, super, exposed, seeded, owner>>
    BY Zenon DEF TenantsInv, TenantTypes
  <1>8. QED
    BY <1>2, <1>4, <1>5, <1>6, <1>7, TablesStay, Zenon

\* The update handlers of the administrator.
LEMMA UpdateKept ==
    ASSUME TenantsAssumption, TenantsInv, NEW c \in Calls, limit' = limit, UpdateTenant(c)
    PROVE  TenantsInv'
  <1>1. PICK t \in TenantIds, y \in UpdateCommands : Start(c, y[1], t, y[2], "load")
    BY Zenon DEF UpdateTenant
  <1>2. y[1] \in Parts /\ Known(y[1], y[2])
    BY DEF UpdateCommands, TenantsAssumption, Known
  <1>3. ~ Guarded(y[1])
    BY <1>2 DEF Guarded, Parts
  <1>4. UNCHANGED <<clock, tenants, admin, active, super, exposed, seeded, owner, outbox, failures>>
    BY Zenon DEF UpdateTenant
  <1>5. QED
    BY <1>1, <1>2, <1>3, <1>4, AskedKept, Zenon

\* The lifecycle handlers of the operators.
LEMMA LifecycleKept ==
    ASSUME TenantsAssumption, TenantsInv, NEW c \in Calls, limit' = limit, ChangeLifecycle(c)
    PROVE  TenantsInv'
  <1>1. PICK t \in TenantIds, y \in LifecycleCommands :
            Start(c, y[1], t, y[2], IF Guarded(y[1]) THEN "guard" ELSE "load")
    BY Zenon DEF ChangeLifecycle
  <1>2. y[1] \in {"suspend", "activate", "restore"} \/ (y[1] = "markForDeletion" /\ y[2] \in Values)
    BY DEF LifecycleCommands
  <1>3. PICK next : next = IF Guarded(y[1]) THEN "guard" ELSE "load"
    OBVIOUS
  <1>4. next \in {"guard", "load"} /\ (next = "load" => ~ Guarded(y[1]))
    BY <1>3
  <1>5. UNCHANGED <<clock, tenants, admin, active, super, exposed, seeded, owner, outbox, failures>>
    BY Zenon DEF ChangeLifecycle
  <1>6. Known(y[1], y[2])
    BY <1>2, Zenon DEF Known
  <1>7. Start(c, y[1], t, y[2], next)
    BY <1>1, <1>3, Zenon
  <1>8. QED
    BY <1>4, <1>5, <1>6, <1>7, AskedKept, Zenon

\* HardDeleteTenant.Handle, up to its guard.
LEMMA HardDeleteKept ==
    ASSUME TenantsAssumption, TenantsInv, NEW c \in Calls, limit' = limit, HardDeleteTenant(c)
    PROVE  TenantsInv'
  <1>1. Guarded("hardDelete")
    BY Zenon DEF Guarded
  <1>2. PICK t \in TenantIds : Start(c, "hardDelete", t, None, "guard")
    BY <1>1, Zenon DEF HardDeleteTenant
  <1>3. UNCHANGED <<clock, tenants, admin, active, super, exposed, seeded, owner, outbox, failures>>
    BY Zenon DEF HardDeleteTenant
  <1>4. PICK name, next : name = "hardDelete" /\ next = "guard"
    OBVIOUS
  <1>5. Known(name, None)
    BY <1>4 DEF Known
  <1>6. Start(c, name, t, None, next)
    BY <1>2, <1>4, Zenon
  <1>7. next \in {"guard", "load"} /\ (next = "load" => ~ Guarded(name))
    BY <1>4
  <1>8. QED
    BY <1>3, <1>5, <1>6, <1>7, AskedKept, Zenon

\* ensureNotPlatformTenant.
LEMMA GuardKept ==
    ASSUME TenantsAssumption, TenantsInv, NEW c \in Calls, limit' = limit, ensureNotPlatformTenant(c)
    PROVE  TenantsInv'
  <1>1. pc[c] = "guard" /\ CallInv(c) /\ RequestTypes /\ "load" \in PCs
    BY DEF ensureNotPlatformTenant, TenantsInv, PCs
  <1>2. clock' \in 0 .. MaxTime /\ failures' \in 0 .. MaxFailures /\ UNCHANGED <<tenants, admin, active, super, exposed, seeded, owner>>
    BY Zenon DEF TenantsInv, TenantTypes, ensureNotPlatformTenant
  <1>3. limit = 1 => \A d \in Calls \ {c} : d \notin Running
    BY <1>1, AloneWhenRunning
  <1>4. CASE HasActiveSuperAdmin(cmd[c][2])
    <2>1. Finish(c)
      BY <1>4, Zenon DEF ensureNotPlatformTenant
    <2>2. Moved(c) /\ pc'[c] = "over"
      BY <1>1, <2>1, Finishes, Zenon
    <2>3. CallInv(c)' /\ pc'[c] # "register"
      BY <2>2, OverIsQuiet
    <2>4. QED
      BY <1>2, <1>3, <2>2, <2>3, TablesStay, Zenon
  <1>5. CASE ~ HasActiveSuperAdmin(cmd[c][2])
    <2>1. Goto(c, "load")
      BY <1>5, Zenon DEF ensureNotPlatformTenant
    <2>2. Moved(c) /\ pc'[c] = "load" /\ cmd'[c] = cmd[c] /\ mem'[c] = mem[c]
      BY <1>1, <2>1, Goes, Zenon
    <2>3. Asked(cmd[c]) /\ cmd[c][2] \in TenantIds
      BY <1>1 DEF CallInv
    <2>4. CallInv(c)'
      <3>1. cmd[c][2] \in exposed
        BY <1>5, <2>3, Zenon DEF TenantsInv, RowsInv
      <3>2. active' = active /\ super' = super /\ exposed' = exposed
        BY <1>2
      <3>3. ~ HasActiveSuperAdmin(cmd[c][2])'
        BY <1>5, <2>2, <3>2, Zenon DEF HasActiveSuperAdmin
      <3>4. QED
        BY <2>2, <2>3, <3>1, <3>2, <3>3 DEF CallInv
    <2>5. pc'[c] # "register"
      BY <2>2
    <2>6. QED
      BY <1>2, <1>3, <2>2, <2>4, <2>5, TablesStay, Zenon
  <1>6. QED
    BY <1>4, <1>5, Zenon

\* UpdateByID reads the row and applies the function: what it leaves behind is a change
\* that the state machine allows.
LEMMA LoadKept ==
    ASSUME TenantsAssumption, TenantsInv, NEW c \in Calls, limit' = limit, loadTenant(c)
    PROVE  TenantsInv'
  <1>1. pc[c] = "load" /\ CallInv(c) /\ RequestTypes /\ RowsInv /\ TenantTypes
    BY Zenon DEF loadTenant, TenantsInv
  <1>2. /\ clock' \in 0 .. MaxTime /\ failures' \in 0 .. MaxFailures
        /\ tenants' = tenants /\ active' = active /\ super' = super /\ exposed' = exposed
        /\ UNCHANGED <<tenants, admin, active, super, exposed, seeded, owner>>
    BY Zenon DEF TenantsInv, TenantTypes, loadTenant
  <1>3. limit = 1 => \A d \in Calls \ {c} : d \notin Running
    BY <1>1, AloneWhenRunning
  <1>4. PICK t : t = tenants[cmd[c][2]]
    OBVIOUS
  <1>5. PICK r : r = IF t = None THEN None ELSE Apply(t, cmd[c])
    OBVIOUS
  <1>6. CASE r = None
    <2>1. Finish(c)
      BY <1>4, <1>5, <1>6, Zenon DEF loadTenant, GetTenantByID
    <2>2. Moved(c) /\ pc'[c] = "over"
      BY <1>1, <2>1, Finishes, Zenon
    <2>3. CallInv(c)' /\ pc'[c] # "register"
      BY <2>2, OverIsQuiet
    <2>4. QED
      BY <1>2, <1>3, <2>2, <2>3, TablesStay, Zenon
  <1>7. CASE r # None
    <2>1. /\ pc' = [pc EXCEPT ![c] = "save"] /\ mem' = [mem EXCEPT ![c] = <<t, r>>] /\ cmd' = cmd
      BY <1>4, <1>5, <1>7, Zenon DEF loadTenant, GetTenantByID
    <2>2. /\ t # None /\ r = Apply(t, cmd[c])
          /\ cmd[c][2] \in TenantIds /\ t \in TenantRows /\ Asked(cmd[c]) /\ clock \in 0 .. MaxTime
      <3>1. t # None /\ r = Apply(t, cmd[c])
        BY <1>5, <1>7, Zenon
      <3>2. cmd[c][2] \in TenantIds /\ Asked(cmd[c])
        BY <1>1 DEF CallInv
      <3>3. QED
        BY <1>1, <1>4, <3>1, <3>2 DEF TenantTypes
    <2>3. Changed(t, r) /\ (~ Guarded(cmd[c][1]) => r.status \in {t.status, "active"})
      BY <1>7, <2>2, ApplyMoves, Zenon
    <2>4. \A d \in Calls : pc'[d] = IF d = c THEN "save" ELSE pc[d]
      BY <1>1, <2>1, Zenon DEF RequestTypes
    <2>5. \A d \in Calls : mem'[d] = IF d = c THEN <<t, r>> ELSE mem[d]
      BY <1>1, <2>1 DEF RequestTypes
    <2>6. /\ pc' \in [Calls -> PCs] /\ mem' = [d \in Calls |-> mem'[d]] /\ cmd' = [d \in Calls |-> cmd'[d]]
      BY <1>1, <2>1, Zenon DEF RequestTypes, PCs
    <2>7. Moved(c)
      BY <2>1, <2>4, <2>5, <2>6, Zenon DEF Moved, RequestTypes
    <2>8. pc'[c] = "save" /\ mem'[c][1] = t /\ mem'[c][2] = r /\ cmd'[c] = cmd[c]
      BY <2>1, <2>4, <2>5
    <2>9. /\ cmd[c][2] \notin exposed => r.status = "active"
          /\ limit = 1 => r.status \in {t.status, "active"} \/ ~ HasActiveSuperAdmin(cmd[c][2])
      <3>1. Guarded(cmd[c][1]) =>
                cmd[c][2] \in exposed /\ (limit = 1 => ~ HasActiveSuperAdmin(cmd[c][2]))
        BY <1>1, Zenon DEF CallInv
      <3>2. cmd[c][2] \notin exposed => t.status = "active"
        BY <1>1, <1>4, <2>2, Zenon DEF RowsInv
      <3>3. QED
        BY <2>3, <3>1, <3>2
    <2>10. SaveInv(c)'
      BY <1>2, <1>4, <2>2, <2>3, <2>8, <2>9, Zenon DEF SaveInv, Changed, HasActiveSuperAdmin
    <2>11. CallInv(c)'
      BY <2>2, <2>8, <2>10 DEF CallInv
    <2>12. pc'[c] # "register"
      BY <2>8
    <2>13. QED
      BY <1>2, <1>3, <2>7, <2>11, <2>12, TablesStay, Zenon
  <1>8. QED
    BY <1>6, <1>7, Zenon

\* UpdateByID writes every column: the row keeps its slug, and a tenant that never lacked
\* an active super administrator its status.
LEMMA PersistKept ==
    ASSUME TenantsAssumption, TenantsInv, NEW c \in Calls, limit' = limit, persistTenant(c)
    PROVE  TenantsInv'
  <1>1. pc[c] = "save" /\ CallInv(c) /\ RequestTypes /\ RowsInv /\ TenantTypes
    BY Zenon DEF persistTenant, TenantsInv
  <1>2. PICK t, r : t = cmd[c][2] /\ r = mem[c][2]
    OBVIOUS
  <1>3. /\ t \in TenantIds /\ tenants[t] # None /\ r \in TenantRows /\ r.slug = tenants[t].slug
        /\ t \notin exposed => r.status = "active"
    BY <1>1, <1>2 DEF CallInv, SaveInv
  <1>4. r # None
    BY <1>3 DEF TenantsAssumption
  <1>5. tenants' = [tenants EXCEPT ![t] = r]
    BY <1>2, <1>3, Zenon DEF persistTenant, UpdateTenantRow
  <1>6. /\ clock' = clock /\ failures' = failures /\ admin' = admin /\ seeded' = seeded /\ owner' = owner
        /\ active' = active /\ super' = super /\ exposed' = exposed
    BY Zenon DEF persistTenant
  <1>7. \A u \in TenantIds : tenants'[u] = IF u = t THEN r ELSE tenants[u]
    BY <1>1, <1>5, Zenon DEF TenantTypes
  <1>8. tenants' \in [TenantIds -> TenantRows \cup {None}]
    BY <1>1, <1>3, <1>5 DEF TenantTypes
  <1>9. TenantTypes'
    BY <1>1, <1>6, <1>8, Zenon DEF TenantTypes
  <1>10. \A u \in TenantIds : /\ tenants'[u] # None <=> tenants[u] # None
                              /\ tenants[u] # None => tenants'[u].slug = tenants[u].slug
    BY <1>3, <1>4, <1>7, Zenon
  <1>11. Grows
    <2>1. \A u \in TenantIds : seeded[u] \subseteq seeded'[u] /\ (owner[u] = TRUE => owner'[u] = TRUE)
      BY <1>6, Zenon
    <2>2. \A u \in TenantIds : tenants[u] # None => tenants'[u] # None /\ tenants'[u].slug = tenants[u].slug
      BY <1>10, Zenon
    <2>3. QED
      BY <1>6, <2>1, <2>2, Zenon DEF Grows
  <1>12. \A u \in TenantIds \ exposed' :
            HasActiveSuperAdmin(u)' /\ tenants'[u] # None /\ tenants'[u].status = "active"
    <2>1. SUFFICES ASSUME NEW u \in TenantIds, u \notin exposed
                   PROVE  HasActiveSuperAdmin(u)' /\ tenants'[u] # None /\ tenants'[u].status = "active"
      BY <1>6, Zenon
    <2>2. HasActiveSuperAdmin(u) /\ tenants[u] # None /\ tenants[u].status = "active"
      BY <1>1, <2>1, Zenon DEF RowsInv
    <2>3. tenants'[u] # None /\ tenants'[u].status = "active"
      BY <1>3, <1>4, <1>7, <2>1, <2>2, Zenon
    <2>4. QED
      BY <1>6, <2>2, <2>3, Zenon DEF HasActiveSuperAdmin
  <1>13. RowsInv'
    <2>1. \A u \in TenantIds : tenants'[u] # None <=> admin'[u] # None
      BY <1>1, <1>6, <1>10 DEF RowsInv
    <2>2. ASSUME NEW u \in TenantIds, NEW v \in TenantIds, u # v, tenants'[u] # None, tenants'[v] # None
          PROVE  tenants'[u].slug # tenants'[v].slug
      <3>1. tenants[u] # None /\ tenants[v] # None
        BY <1>10, <2>2, Zenon
      <3>2. tenants[u].slug # tenants[v].slug
        BY <1>1, <2>2, <3>1, Zenon DEF RowsInv
      <3>3. tenants'[u].slug = tenants[u].slug /\ tenants'[v].slug = tenants[v].slug
        BY <1>10, <3>1, Zenon
      <3>4. QED
        BY <1>6, <3>2, <3>3, Zenon
    <2>3. \A u, v \in active' : u # v => admin'[u] # admin'[v]
      BY <1>1, <1>6, Zenon DEF RowsInv
    <2>4. QED
      BY <1>12, <2>1, <2>2, <2>3, Zenon DEF RowsInv
  <1>14. limit = 1 => \A d \in Calls \ {c} : d \notin Running
    BY <1>1, AloneWhenRunning
  <1>15. \A d \in Calls \ {c} : pc[d] = "register" => tenants'[cmd[d][2]] = tenants[cmd[d][2]]
    <2>1. SUFFICES ASSUME NEW d \in Calls, pc[d] = "register" PROVE tenants'[cmd[d][2]] = tenants[cmd[d][2]]
      BY Zenon
    <2>2. tenants[cmd[d][2]] = None /\ cmd[d][2] \in TenantIds
      BY <2>1, Zenon DEF TenantsInv, CallInv
    <2>3. QED
      BY <1>3, <1>7, <2>2, Zenon
  <1>16. Moved(c) /\ CallInv(c)' /\ pc'[c] # "register"
    <2>1. CASE cmd[c][1] = "hardDelete"
      <3>1. Goto(c, "erase") /\ "erase" \in PCs
        BY <2>1, Zenon DEF persistTenant, PCs
      <3>2. Moved(c) /\ pc'[c] = "erase" /\ cmd'[c] = cmd[c]
        BY <1>1, <3>1, Goes, Zenon
      <3>3. CallInv(c)'
        BY <1>2, <1>3, <3>2 DEF CallInv
      <3>4. QED
        BY <3>2, <3>3
    <2>2. CASE cmd[c][1] # "hardDelete"
      <3>1. Finish(c)
        BY <2>2, Zenon DEF persistTenant
      <3>2. Moved(c) /\ pc'[c] = "over"
        BY <1>1, <3>1, Finishes, Zenon
      <3>3. QED
        BY <3>2, OverIsQuiet
    <2>3. QED
      BY <2>1, <2>2, Zenon
  <1>17. QED
    BY <1>9, <1>11, <1>13, <1>14, <1>15, <1>16, OneStep, Zenon

\* A step that ends its request and leaves the tables alone.
LEMMA EndKept ==
    ASSUME TenantsInv, NEW c \in Calls, pc[c] \notin {"idle", "registered", "over"}, limit' = limit, Finish(c),
           clock' \in 0 .. MaxTime, failures' \in 0 .. MaxFailures, UNCHANGED <<tenants, admin, active, super, exposed, seeded, owner>>
    PROVE  TenantsInv'
  <1>1. RequestTypes
    BY Zenon DEF TenantsInv
  <1>2. Moved(c) /\ pc'[c] = "over"
    BY <1>1, Finishes, Zenon
  <1>3. CallInv(c)' /\ pc'[c] # "register"
    BY <1>2, OverIsQuiet
  <1>4. limit = 1 => \A d \in Calls \ {c} : d \notin Running
    BY AloneWhenRunning, Zenon
  <1>5. QED
    BY <1>2, <1>3, <1>4, TablesStay, Zenon

\* A row that persistAggregatesInTx writes.
LEMMA NewIsARow ==
    ASSUME NEW s \in Slugs PROVE New(s) \in TenantRows /\ New(s).slug = s
  BY DEF New, TenantRows, Statuses

\* The transaction of a registration writes the tenant and its first member, or neither.
LEMMA AggregatesKept ==
    ASSUME TenantsAssumption, TenantsInv, NEW c \in Calls, limit' = limit, persistAggregatesInTx(c)
    PROVE  TenantsInv'
  <1>1. pc[c] = "register" /\ CallInv(c) /\ RequestTypes /\ RowsInv /\ TenantTypes
    BY Zenon DEF persistAggregatesInTx, TenantsInv
  <1>2. PICK t, s, a : t = cmd[c][2] /\ s = cmd[c][3][1] /\ a = cmd[c][3][2]
    BY Zenon
  <1>3. /\ clock' = clock /\ failures' = failures /\ seeded' = seeded /\ owner' = owner
        /\ super' = super /\ exposed' = exposed
        /\ clock' \in 0 .. MaxTime /\ failures' \in 0 .. MaxFailures
    BY <1>1, Zenon DEF persistAggregatesInTx, TenantTypes
  <1> DEFINE taken == SlugTaken(s) \/ (HasAccount(a) /\ ~ cmd[c][3][3]) \/ Occupied(a)
  <1>4. CASE taken
    <2>1. Finish(c) /\ UNCHANGED <<tenants, admin, active>>
      BY <1>2, <1>4, Zenon DEF persistAggregatesInTx
    <2>2. UNCHANGED <<tenants, admin, active, super, exposed, seeded, owner>> /\ pc[c] \notin {"idle", "registered", "over"}
      BY <1>1, <1>3, <2>1
    <2>3. QED
      BY <1>3, <2>1, <2>2, EndKept, Zenon
  <1>5. CASE ~ taken
    <2>1. /\ tenants' = [tenants EXCEPT ![t] = New(s)] /\ admin' = [admin EXCEPT ![t] = a] /\ Goto(c, "seed")
          /\ active' = active \cup {t}
      BY <1>2, <1>5, Zenon DEF persistAggregatesInTx, InsertTenant
    <2>2. t \in TenantIds /\ tenants[t] = None /\ s \in Slugs /\ a \in Admins
      BY <1>1, <1>2 DEF CallInv
    <2>3. PICK r : r = New(s)
      OBVIOUS
    <2>4. r \in TenantRows /\ r.slug = s /\ r # None /\ a # None
      BY <2>2, <2>3, NewIsARow DEF TenantsAssumption
    <2>5. \A u \in TenantIds : /\ tenants'[u] = (IF u = t THEN r ELSE tenants[u])
                               /\ admin'[u] = (IF u = t THEN a ELSE admin[u])
      BY <1>1, <2>1, <2>3, Zenon DEF TenantTypes
    <2>6. tenants' \in [TenantIds -> TenantRows \cup {None}] /\ admin' \in [TenantIds -> Admins \cup {Platform, None}]
      BY <1>1, <2>1, <2>2, <2>3, <2>4 DEF TenantTypes
    <2>7. TenantTypes'
      <3>1. active' \subseteq TenantIds
        BY <1>1, <2>1, <2>2, Zenon DEF TenantTypes
      <3>2. QED
        BY <1>1, <1>3, <2>6, <3>1, Zenon DEF TenantTypes
    <2>8. Grows
      <3>1. \A u \in TenantIds : seeded[u] \subseteq seeded'[u] /\ (owner[u] = TRUE => owner'[u] = TRUE)
        BY <1>3, Zenon
      <3>2. \A u \in TenantIds : tenants[u] # None => tenants'[u] # None /\ tenants'[u].slug = tenants[u].slug
        BY <2>2, <2>5, Zenon
      <3>3. QED
        BY <1>3, <3>1, <3>2, Zenon DEF Grows
    <2>9. RowsInv'
      <3>1. ASSUME NEW u \in TenantIds PROVE tenants'[u] # None <=> admin'[u] # None
        BY <1>1, <2>4, <2>5, Zenon DEF RowsInv
      <3>2. ASSUME NEW u \in TenantIds, tenants[u] # None PROVE tenants[u].slug # s
        BY <1>5, <3>2, Zenon DEF SlugTaken
      <3>3. ASSUME NEW u \in TenantIds, NEW v \in TenantIds, u # v, tenants'[u] # None, tenants'[v] # None
            PROVE  tenants'[u].slug # tenants'[v].slug
        <4>1. CASE u = t
          <5>1. tenants'[u] = r /\ tenants'[v] = tenants[v] /\ tenants[v] # None
            BY <2>5, <3>3, <4>1, Zenon
          <5>2. QED
            BY <2>4, <3>2, <5>1, Zenon
        <4>2. CASE v = t
          <5>1. tenants'[v] = r /\ tenants'[u] = tenants[u] /\ tenants[u] # None
            BY <2>5, <3>3, <4>2, Zenon
          <5>2. QED
            BY <2>4, <3>2, <5>1, Zenon
        <4>3. CASE u # t /\ v # t
          <5>1. tenants'[v] = tenants[v] /\ tenants'[u] = tenants[u]
            BY <2>5, <4>3, Zenon
          <5>2. QED
            BY <1>1, <3>3, <5>1, Zenon DEF RowsInv
        <4>4. QED
          BY <4>1, <4>2, <4>3, Zenon
      <3>4. ASSUME NEW u \in active', NEW v \in active', u # v PROVE admin'[u] # admin'[v]
        <4>1. \A w \in active' : w # t => w \in active /\ w \in TenantIds /\ admin'[w] = admin[w] /\ admin[w] # a
          BY <1>1, <1>5, <2>1, <2>5, Zenon DEF TenantTypes, Occupied
        <4>2. admin'[t] = a
          BY <2>2, <2>5, Zenon
        <4>3. QED
          BY <1>1, <3>4, <4>1, <4>2, Zenon DEF RowsInv
      <3>5. ASSUME NEW u \in TenantIds \ exposed'
            PROVE  HasActiveSuperAdmin(u)' /\ tenants'[u] # None /\ tenants'[u].status = "active"
        <4>1. HasActiveSuperAdmin(u) /\ tenants[u] # None /\ tenants[u].status = "active"
          BY <1>1, <1>3, Zenon DEF RowsInv
        <4>2. tenants'[u] = tenants[u]
          BY <2>2, <2>5, <4>1, Zenon
        <4>3. QED
          BY <1>3, <2>1, <4>1, <4>2, Zenon DEF HasActiveSuperAdmin
      <3>6. QED
        BY <3>1, <3>3, <3>4, <3>5, Zenon DEF RowsInv
    <2>10. Moved(c) /\ pc'[c] = "seed" /\ cmd'[c] = cmd[c]
      <3>1. "seed" \in PCs
        BY DEF PCs
      <3>2. QED
        BY <1>1, <2>1, <3>1, Goes, Zenon
    <2>11. CallInv(c)' /\ pc'[c] # "register"
      BY <1>2, <2>2, <2>10, Zenon DEF CallInv
    <2>12. \A d \in Calls \ {c} : pc[d] = "register" => tenants'[cmd[d][2]] = tenants[cmd[d][2]]
      <3>1. SUFFICES ASSUME NEW d \in Calls, d # c, pc[d] = "register"
                     PROVE  tenants'[cmd[d][2]] = tenants[cmd[d][2]]
        BY Zenon
      <3>2. cmd[d][2] \in TenantIds
        BY <3>1, Zenon DEF TenantsInv, CallInv
      <3>3. cmd[d][2] # t
        BY <1>1, <1>2, <3>1, Zenon DEF TenantsInv, ApartInv
      <3>4. QED
        BY <2>5, <3>2, <3>3, Zenon
    <2>13. limit = 1 => \A d \in Calls \ {c} : d \notin Running
      BY <1>1, AloneWhenRunning
    <2>14. QED
      BY <2>7, <2>8, <2>9, <2>10, <2>11, <2>12, <2>13, OneStep, Zenon
  <1>6. QED
    BY <1>4, <1>5, Zenon

\* ApplyDefaultRoles only adds roles of the catalogue, and goes on once all are there.
LEMMA RolesKept ==
    ASSUME TenantsAssumption, TenantsInv, NEW c \in Calls, limit' = limit, ApplyDefaultRoles(c)
    PROVE  TenantsInv'
  <1>1. pc[c] = "seed" /\ CallInv(c) /\ RequestTypes /\ RowsInv /\ TenantTypes
    BY Zenon DEF ApplyDefaultRoles, TenantsInv
  <1>2. PICK t : t = cmd[c][2]
    OBVIOUS
  <1>3. t \in TenantIds
    BY <1>1, <1>2 DEF CallInv
  <1>4. /\ clock' = clock /\ failures' = failures /\ tenants' = tenants /\ admin' = admin /\ owner' = owner
        /\ active' = active /\ super' = super /\ exposed' = exposed
        /\ clock' \in 0 .. MaxTime /\ failures' \in 0 .. MaxFailures
    BY <1>1, Zenon DEF ApplyDefaultRoles, TenantTypes
  <1>5. limit = 1 => \A d \in Calls \ {c} : d \notin Running
    BY <1>1, AloneWhenRunning
  <1>6. CASE /\ {i \in DOMAIN Catalogue : Catalogue[i] \notin seeded[t]} = {}
             /\ Goto(c, "own") /\ UNCHANGED seeded
    <2>1. Roles \subseteq seeded[t]
      BY <1>6 DEF Roles
    <2>2. Moved(c) /\ pc'[c] = "own" /\ cmd'[c] = cmd[c]
      <3>1. "own" \in PCs
        BY DEF PCs
      <3>2. QED
        BY <1>1, <1>6, <3>1, Goes, Zenon
    <2>3. seeded' = seeded /\ UNCHANGED <<tenants, admin, active, super, exposed, seeded, owner>>
      BY <1>4, <1>6, Zenon
    <2>4. CallInv(c)' /\ pc'[c] # "register"
      BY <1>2, <1>3, <2>1, <2>2, <2>3, Zenon DEF CallInv
    <2>5. QED
      BY <1>4, <1>5, <2>2, <2>3, <2>4, TablesStay, Zenon
  <1>7. CASE \E i \in DOMAIN Catalogue : /\ seeded' = [seeded EXCEPT ![t] = @ \cup {Catalogue[i]}]
                                         /\ UNCHANGED <<pc, cmd, mem>>
    <2>1. PICK i \in DOMAIN Catalogue : /\ seeded' = [seeded EXCEPT ![t] = @ \cup {Catalogue[i]}]
                                        /\ UNCHANGED <<pc, cmd, mem>>
      BY <1>7, Zenon
    <2>2. PICK all : all = seeded[t] \cup {Catalogue[i]}
      BY Zenon
    <2>3. seeded' = [seeded EXCEPT ![t] = all]
      BY <2>1, <2>2, Zenon
    <2>4. all \in SUBSET Roles
      BY <1>1, <1>3, <2>2 DEF TenantTypes, Roles
    <2>5. \A u \in TenantIds : seeded'[u] = IF u = t THEN all ELSE seeded[u]
      BY <1>1, <2>3, Zenon DEF TenantTypes
    <2>6. seeded' \in [TenantIds -> SUBSET Roles]
      BY <1>1, <2>3, <2>4, Zenon DEF TenantTypes
    <2>7. TenantTypes'
      BY <1>1, <1>4, <2>6, Zenon DEF TenantTypes
    <2>8. Grows
      <3>1. \A u \in TenantIds : seeded[u] \subseteq seeded'[u]
        BY <2>2, <2>5
      <3>2. QED
        BY <1>4, <3>1, Zenon DEF Grows
    <2>9. RowsInv'
      BY <1>1, <1>4, Zenon DEF RowsInv, HasActiveSuperAdmin
    <2>10. pc' = pc /\ cmd' = cmd /\ mem' = mem
      BY <2>1, Zenon
    <2>11. Moved(c)
      <3>1. RequestTypes'
        BY <1>1, <2>10, Zenon DEF RequestTypes
      <3>2. QED
        BY <2>10, <3>1, Zenon DEF Moved
    <2>12. CallInv(c)' /\ pc'[c] # "register"
      BY <1>1, <1>2, <1>3, <2>10 DEF CallInv
    <2>13. \A d \in Calls \ {c} : pc[d] = "register" => tenants'[cmd[d][2]] = tenants[cmd[d][2]]
      BY <1>4, Zenon
    <2>14. QED
      BY <1>5, <2>7, <2>8, <2>9, <2>11, <2>12, <2>13, OneStep, Zenon
  <1>8. QED
    <2>1. \/ /\ {i \in DOMAIN Catalogue : Catalogue[i] \notin seeded[t]} = {}
             /\ Goto(c, "own") /\ UNCHANGED seeded
          \/ \E i \in {j \in DOMAIN Catalogue : Catalogue[j] \notin seeded[t]} :
                /\ seeded' = [seeded EXCEPT ![t] = @ \cup {Catalogue[i]}]
                /\ UNCHANGED <<pc, cmd, mem>>
      BY <1>2, Zenon DEF ApplyDefaultRoles
    <2>2. QED
      BY <1>6, <1>7, <2>1, Zenon

\* The owner is assigned once every role is there.
LEMMA OwnerKept ==
    ASSUME TenantsAssumption, TenantsInv, NEW c \in Calls, limit' = limit, AssignOwner(c)
    PROVE  TenantsInv'
  <1>1. pc[c] = "own" /\ CallInv(c) /\ RequestTypes /\ RowsInv /\ TenantTypes
    BY Zenon DEF AssignOwner, TenantsInv
  <1>2. PICK t : t = cmd[c][2]
    OBVIOUS
  <1>3. t \in TenantIds /\ Roles \subseteq seeded[t]
    BY <1>1, <1>2, Zenon DEF CallInv
  <1>4. /\ clock' = clock /\ failures' = failures /\ tenants' = tenants /\ admin' = admin /\ seeded' = seeded
        /\ active' = active /\ super' = super /\ exposed' = exposed
        /\ Goto(c, "registered") /\ owner' = [owner EXCEPT ![t] = TRUE]
    BY <1>2, Zenon DEF AssignOwner
  <1>5. \A u \in TenantIds : owner'[u] = IF u = t THEN TRUE ELSE owner[u]
    BY <1>1, <1>4, Zenon DEF TenantTypes
  <1>6. owner' \in [TenantIds -> BOOLEAN]
    BY <1>1, <1>4, Zenon DEF TenantTypes
  <1>7. TenantTypes'
    BY <1>1, <1>4, <1>6, Zenon DEF TenantTypes
  <1>8. Grows
    <2>1. \A u \in TenantIds : owner[u] = TRUE => owner'[u] = TRUE
      BY <1>5, Zenon
    <2>2. QED
      BY <1>4, <2>1, Zenon DEF Grows
  <1>9. RowsInv'
    BY <1>1, <1>4, Zenon DEF RowsInv, HasActiveSuperAdmin
  <1>10. Moved(c) /\ pc'[c] = "registered" /\ cmd'[c] = cmd[c]
    <2>1. "registered" \in PCs
      BY DEF PCs
    <2>2. QED
      BY <1>1, <1>4, <2>1, Goes, Zenon
  <1>11. owner'[t] = TRUE
    BY <1>3, <1>5, Zenon
  <1>12. CallInv(c)' /\ pc'[c] # "register"
    BY <1>2, <1>3, <1>4, <1>10, <1>11 DEF CallInv
  <1>13. \A d \in Calls \ {c} : pc[d] = "register" => tenants'[cmd[d][2]] = tenants[cmd[d][2]]
    BY <1>4, Zenon
  <1>14. limit = 1 => \A d \in Calls \ {c} : d \notin Running
    BY <1>1, AloneWhenRunning
  <1>15. QED
    BY <1>7, <1>8, <1>9, <1>10, <1>12, <1>13, <1>14, OneStep, Zenon

\* A command on a membership: nobody becomes active twice, and a tenant that it leaves
\* without an active super administrator is exposed from then on.
LEMMA UsersKept ==
    ASSUME TenantsAssumption, TenantsInv, NEW c \in Calls, limit' = limit, UpdateMembership(c)
    PROVE  TenantsInv'
  <1>1. RequestTypes /\ RowsInv /\ TenantTypes
    BY Zenon DEF TenantsInv
  <1>2. PICK t \in TenantIds, on \in BOOLEAN, privileged \in BOOLEAN :
            /\ on => \A u \in active \ {t} : admin[u] # admin[t]
            /\ privileged => t = Platform
            /\ active' = IF on THEN active \cup {t} ELSE active \ {t}
            /\ super' = IF privileged THEN super \cup {t} ELSE super \ {t}
    BY Zenon DEF UpdateMembership
  <1>3. /\ clock' = clock /\ failures' = failures /\ tenants' = tenants /\ admin' = admin /\ seeded' = seeded
        /\ owner' = owner /\ exposed' = exposed \cup {u \in TenantIds : ~ HasActiveSuperAdmin(u)'}
        /\ Finish(c)
    BY Zenon DEF UpdateMembership
  <1>4. TenantTypes'
    <2>1. active' \subseteq TenantIds
      BY <1>1, <1>2, Zenon DEF TenantTypes
    <2>2. super' \subseteq {Platform}
      BY <1>1, <1>2, Zenon DEF TenantTypes
    <2>3. exposed' \subseteq TenantIds
      BY <1>1, <1>3, Zenon DEF TenantTypes
    <2>4. QED
      BY <1>1, <1>3, <2>1, <2>2, <2>3, Zenon DEF TenantTypes
  <1>5. Grows
    BY <1>3, Zenon DEF Grows
  <1>6. RowsInv'
    <2>1. \A u, v \in active' : u # v => admin'[u] # admin'[v]
      <3>1. ASSUME NEW u \in active', u # t PROVE u \in active /\ (on => admin[u] # admin[t])
        BY <1>2, <3>1, Zenon
      <3>2. t \in active' => on
        BY <1>2, Zenon
      <3>3. QED
        BY <1>1, <1>3, <3>1, <3>2, Zenon DEF RowsInv
    <2>2. ASSUME NEW u \in TenantIds \ exposed' PROVE u \in TenantIds \ exposed /\ HasActiveSuperAdmin(u)'
      BY <1>3, Zenon
    <2>3. QED
      BY <1>1, <1>3, <2>1, <2>2, Zenon DEF RowsInv
  <1>7. Moved(c) /\ pc'[c] = "over"
    BY <1>1, <1>3, Finishes, Zenon
  <1>8. CallInv(c)' /\ pc'[c] # "register"
    BY <1>7, OverIsQuiet
  <1>9. limit = 1 => \A d \in Calls \ {c} : d \notin Running
    <2>1. Cardinality(Running) < limit
      BY Zenon DEF UpdateMembership
    <2>2. QED
      BY <2>1, NobodyRuns, Zenon
  <1>10. \A d \in Calls \ {c} : pc[d] = "register" => tenants'[cmd[d][2]] = tenants[cmd[d][2]]
    BY <1>3, Zenon
  <1>11. QED
    BY <1>4, <1>5, <1>6, <1>7, <1>8, <1>9, <1>10, OneStep, Zenon

\* A row that still has its first member is not deleted, and every row has one: the
\* DELETE finds nothing.
LEMMA EraseFindsNothing ==
    ASSUME TenantsInv, NEW c \in Calls, HardDeleteRow(c)
    PROVE  tenants' = tenants /\ Finish(c)
  <1>1. pc[c] = "erase" /\ CallInv(c) /\ RowsInv /\ TenantTypes
    BY Zenon DEF HardDeleteRow, TenantsInv
  <1>2. PICK t : t = cmd[c][2]
    OBVIOUS
  <1>3. t \in TenantIds
    BY <1>1, <1>2 DEF CallInv
  <1>4. CASE admin[t] # None \/ seeded[t] # {}
    BY <1>2, <1>4, Zenon DEF HardDeleteRow
  <1>5. CASE admin[t] = None /\ seeded[t] = {}
    <2>1. Finish(c) /\ tenants' = [tenants EXCEPT ![t] = None]
      BY <1>2, <1>5, Zenon DEF HardDeleteRow, HardDeleteTenantRow
    <2>2. tenants[t] = None
      BY <1>1, <1>3, <1>5, Zenon DEF RowsInv
    <2>3. tenants' = tenants
      BY <1>1, <1>3, <2>1, <2>2 DEF TenantTypes
    <2>4. QED
      BY <2>1, <2>3, Zenon
  <1>6. QED
    BY <1>4, <1>5, Zenon

\* HardDeleteTenant's DELETE.
LEMMA EraseKept ==
    ASSUME TenantsAssumption, TenantsInv, NEW c \in Calls, limit' = limit, HardDeleteRow(c)
    PROVE  TenantsInv'
  <1>1. tenants' = tenants /\ Finish(c)
    BY EraseFindsNothing, Zenon
  <1>2. pc[c] \notin {"idle", "registered", "over"}
    BY DEF HardDeleteRow
  <1>3. /\ clock' \in 0 .. MaxTime /\ failures' \in 0 .. MaxFailures /\ UNCHANGED <<tenants, admin, active, super, exposed, seeded, owner>>
    BY <1>1, Zenon DEF TenantsInv, TenantTypes, HardDeleteRow
  <1>4. QED
    BY <1>1, <1>2, <1>3, EndKept, Zenon

\* A failure.
LEMMA AbortKept ==
    ASSUME TenantsAssumption, TenantsInv, NEW c \in Calls, limit' = limit, Abort(c)
    PROVE  TenantsInv'
  <1>1. Finish(c) /\ UNCHANGED <<tenants, admin, active, super, exposed, seeded, owner>> /\ clock' = clock
    BY Zenon DEF Abort
  <1>2. pc[c] \notin {"idle", "registered", "over"}
    BY Zenon DEF Abort, Running
  <1>3. failures \in 0 .. MaxFailures /\ clock \in 0 .. MaxTime
    BY Zenon DEF TenantsInv, TenantTypes
  <1>4. failures' \in 0 .. MaxFailures
    BY <1>3 DEF Abort, TenantsAssumption
  <1>5. clock' \in 0 .. MaxTime
    BY <1>1, <1>3, Zenon
  <1>6. QED
    BY <1>1, <1>2, <1>4, <1>5, EndKept, Zenon

\* The clock, and a step that changes nothing.
LEMMA TablesAndRequestsStay ==
    ASSUME TenantsInv, limit' = limit, clock' \in 0 .. MaxTime,
           UNCHANGED <<tenants, admin, active, super, exposed, seeded, owner, pc, cmd, mem, failures>>
    PROVE  TenantsInv'
  <1>1. /\ tenants' = tenants /\ admin' = admin /\ seeded' = seeded /\ owner' = owner
        /\ active' = active /\ super' = super /\ exposed' = exposed
        /\ pc' = pc /\ cmd' = cmd /\ mem' = mem /\ failures' = failures
    OBVIOUS
  <1>2. TenantTypes' /\ RequestTypes'
    BY <1>1, Zenon DEF TenantsInv, TenantTypes, RequestTypes
  <1>3. RowsInv'
    BY <1>1, Zenon DEF TenantsInv, RowsInv, HasActiveSuperAdmin
  <1>4. ASSUME NEW c \in Calls PROVE CallInv(c)'
    <2>1. CallInv(c)
      BY Zenon DEF TenantsInv
    <2>2. SaveInv(c)' <=> SaveInv(c)
      BY <1>1, Zenon DEF SaveInv, HasActiveSuperAdmin
    <2>3. HasActiveSuperAdmin(cmd[c][2])' <=> HasActiveSuperAdmin(cmd[c][2])
      BY <1>1, Zenon DEF HasActiveSuperAdmin
    <2>4. QED
      BY <1>1, <2>1, <2>2, <2>3, Zenon DEF CallInv
  <1>5. ApartInv'
    <2>1. Running' = Running
      BY <1>1, Zenon DEF Running
    <2>2. QED
      BY <1>1, <2>1, Zenon DEF TenantsInv, ApartInv
  <1>6. QED
    BY <1>2, <1>3, <1>4, <1>5, Zenon DEF TenantsInv

\* Every step keeps the invariant.
LEMMA StepKept ==
    ASSUME TenantsAssumption, TenantsInv, [Next]_<<vars, limit>>
    PROVE  TenantsInv'
  <1>1. CASE UNCHANGED <<vars, limit>>
    <2>1. /\ limit' = limit /\ clock' = clock
          /\ UNCHANGED <<tenants, admin, active, super, exposed, seeded, owner, pc, cmd, mem, failures>>
      BY <1>1 DEF vars
    <2>2. clock' \in 0 .. MaxTime
      BY <2>1, Zenon DEF TenantsInv, TenantTypes
    <2>3. QED
      BY <2>1, <2>2, TablesAndRequestsStay, Zenon
  <1>2. CASE Next
    <2>1. limit' = limit
      BY <1>2, Zenon DEF Next
    <2>2. CASE Tick
      <3>1. clock' \in 0 .. MaxTime
        BY <2>2 DEF Tick, TenantsInv, TenantTypes, TenantsAssumption
      <3>2. UNCHANGED <<tenants, admin, active, super, exposed, seeded, owner, pc, cmd, mem, failures>>
        BY <2>2 DEF Tick
      <3>3. QED
        BY <2>1, <3>1, <3>2, TablesAndRequestsStay, Zenon
    <2>3. ASSUME NEW c \in Calls, RegisterTenant(c) \/ persistAggregatesInTx(c) \/ ApplyDefaultRoles(c) \/ AssignOwner(c)
          PROVE  TenantsInv'
      BY <2>1, <2>3, RegisterKept, AggregatesKept, RolesKept, OwnerKept, Zenon
    <2>4. ASSUME NEW c \in Calls, UpdateMembership(c) PROVE TenantsInv'
      BY <2>1, <2>4, UsersKept, Zenon
    <2>5. ASSUME NEW c \in Calls, UpdateTenant(c) \/ ChangeLifecycle(c) \/ HardDeleteTenant(c) \/ ensureNotPlatformTenant(c)
          PROVE  TenantsInv'
      BY <2>1, <2>5, UpdateKept, LifecycleKept, HardDeleteKept, GuardKept, Zenon
    <2>6. ASSUME NEW c \in Calls, loadTenant(c) \/ persistTenant(c) \/ HardDeleteRow(c) \/ Abort(c)
          PROVE  TenantsInv'
      BY <2>1, <2>6, LoadKept, PersistKept, EraseKept, AbortKept, Zenon
    <2>7. QED
      BY <1>2, <2>2, <2>3, <2>4, <2>5, <2>6, Zenon DEF Next
  <1>3. QED
    BY <1>1, <1>2, Zenon

\* The programs start with the platform tenant alone.
LEMMA InitHolds ==
    ASSUME TenantsAssumption, Init
    PROVE  TenantsInv
  <1>1. Bootstrapped \in TenantRows /\ Bootstrapped.status = "active" /\ Bootstrapped # None
    BY DEF Bootstrapped, New, TenantRows, Statuses, TenantsAssumption
  <1>2. Platform \in TenantIds /\ Platform # None
    BY DEF TenantsAssumption
  <1>3. \A t \in TenantIds : /\ tenants[t] = (IF t = Platform THEN Bootstrapped ELSE None)
                             /\ admin[t] = (IF t = Platform THEN Platform ELSE None)
    BY DEF Init
  <1>4. TenantTypes
    <2>1. clock \in 0 .. MaxTime /\ failures \in 0 .. MaxFailures
      BY DEF Init, TenantsAssumption
    <2>2. tenants \in [TenantIds -> TenantRows \cup {None}] /\ admin \in [TenantIds -> Admins \cup {Platform, None}]
      BY <1>1 DEF Init
    <2>3. owner \in [TenantIds -> BOOLEAN] /\ seeded \in [TenantIds -> SUBSET Roles]
      BY DEF Init
    <2>4. active \subseteq TenantIds /\ super \subseteq {Platform} /\ exposed \subseteq TenantIds
      BY <1>2 DEF Init
    <2>5. QED
      BY <2>1, <2>2, <2>3, <2>4, Zenon DEF Init, TenantTypes
  <1>5. RequestTypes /\ \A c \in Calls : pc[c] = "idle"
    BY DEF Init, RequestTypes, PCs
  <1>6. RowsInv
    <2>1. active = {Platform} /\ super = {Platform} /\ exposed = TenantIds \ {Platform}
      BY Zenon DEF Init
    <2>2. \A t \in TenantIds \ exposed : t = Platform /\ HasActiveSuperAdmin(t)
      BY <2>1, Zenon DEF HasActiveSuperAdmin
    <2>3. \A t, u \in active : t # u => admin[t] # admin[u]
      BY <2>1, Zenon
    <2>4. QED
      BY <1>1, <1>2, <1>3, <2>2, <2>3, Zenon DEF RowsInv
  <1>7. \A c \in Calls : CallInv(c)
    BY <1>5 DEF CallInv
  <1>8. ApartInv
    BY <1>5 DEF ApartInv, Running
  <1>9. QED
    BY <1>4, <1>5, <1>6, <1>7, <1>8, Zenon DEF TenantsInv

-----------------------------------------------------------------------------
(* What is promised.                                                        *)

\* The inductive invariant of registration and lifecycle holds in every run, for any
\* tenants, requests, catalogue and bounds.
THEOREM TenantsInvariant == Spec => []TenantsInv
  <1>1. Init => TenantsInv
    BY InitHolds, TenantsAssumption
  <1>2. TenantsInv /\ [Next]_<<vars, limit>> => TenantsInv'
    BY StepKept, TenantsAssumption
  <1>3. QED
    BY <1>1, <1>2, PTL DEF Spec

\* A registration is whole or not there (RegistrationIsWhole): persistAggregatesInTx is
\* one transaction, and RegisterTenant reports success only after every role and the owner.
THEOREM RegistrationsAreWhole == Spec => []RegistrationIsWhole
  <1>1. TenantsInv => RegistrationIsWhole
    <2>1. SUFFICES ASSUME TenantsInv PROVE RegistrationIsWhole
      BY Zenon
    <2>2. TenantTypes /\ RequestTypes /\ RowsInv
      BY <2>1, Zenon DEF TenantsInv
    <2>3. ASSUME NEW t \in TenantIds, tenants[t] # None PROVE tenants[t] \in TenantRows
      BY <2>2, <2>3 DEF TenantTypes
    <2>4. TypeOK
      BY <2>2, <2>3, Zenon DEF TypeOK, TenantTypes, RequestTypes, PCs, Roles
    <2>5. ASSUME NEW c \in Calls, pc[c] = "registered"
          PROVE  owner[cmd[c][2]] /\ seeded[cmd[c][2]] = {Catalogue[i] : i \in DOMAIN Catalogue}
      <3>1. cmd[c][2] \in TenantIds /\ owner[cmd[c][2]] = TRUE /\ Roles \subseteq seeded[cmd[c][2]]
        BY <2>1, <2>5 DEF TenantsInv, CallInv
      <3>2. seeded[cmd[c][2]] \subseteq Roles
        BY <2>2, <3>1 DEF TenantTypes
      <3>3. seeded[cmd[c][2]] = Roles
        BY <3>1, <3>2, Zenon
      <3>4. QED
        BY <3>1, <3>3, Zenon DEF Roles
    <2>6. \A t \in TenantIds : (tenants[t] # None) = (admin[t] # None)
      BY <2>2 DEF RowsInv
    <2>7. ASSUME NEW t \in TenantIds, NEW u \in TenantIds, t # u, tenants[t] # None, tenants[u] # None
          PROVE  tenants[t].slug # tenants[u].slug /\ (admin[t] # admin[u] \/ {t, u} \cap active # {t, u})
      <3>1. tenants[t].slug # tenants[u].slug
        BY <2>2, <2>7, Zenon DEF RowsInv
      <3>2. t \in active /\ u \in active => admin[t] # admin[u]
        BY <2>2, <2>7, Zenon DEF RowsInv
      <3>3. {t, u} \cap active = {t, u} => t \in active /\ u \in active
        OBVIOUS
      <3>4. QED
        BY <3>1, <3>2, <3>3, Zenon
    <2>8. QED
      BY <2>4, <2>5, <2>6, <2>7, Zenon DEF RegistrationIsWhole
  <1>2. QED
    BY <1>1, TenantsInvariant, PTL

\* A step that leaves every row that is there as it is moves no tenant.
LEMMA RowsStay ==
    ASSUME TenantsInv, TenantsInv', \A t \in TenantIds : tenants[t] # None => tenants'[t] = tenants[t]
    PROVE  LifecycleStep
  <1>1. \A t \in TenantIds \ exposed' : tenants'[t].status = "active"
    BY Zenon DEF TenantsInv, RowsInv
  <1>2. ASSUME NEW t \in TenantIds, tenants[t] # None
        PROVE  tenants'[t] # None /\ tenants'[t].status = tenants[t].status /\ tenants[t].status \in Statuses
    BY <1>2 DEF TenantsInv, TenantTypes, TenantRows
  <1>3. \A s \in Statuses : <<s, s>> \in Moves
    BY Zenon DEF Moves
  <1>4. ASSUME NEW t \in TenantIds, tenants[t] # None PROVE <<tenants[t].status, tenants'[t].status>> \in Moves
    BY <1>2, <1>3, <1>4, Zenon
  <1>5. QED
    BY <1>1, <1>2, <1>4, Zenon DEF LifecycleStep

\* UpdateByID, one request at a time: the row it writes is a move of the one it read,
\* and the events are those of the move.
LEMMA PersistMoves ==
    ASSUME TenantsInv, TenantsInv', NEW c \in Calls, persistTenant(c)
    PROVE  LifecycleStep
  <1>1. pc[c] = "save" /\ CallInv(c) /\ TenantTypes
    BY Zenon DEF persistTenant, TenantsInv
  <1>2. PICK t, o, r : t = cmd[c][2] /\ o = mem[c][1] /\ r = mem[c][2]
    OBVIOUS
  <1>3. /\ t \in TenantIds /\ tenants[t] # None /\ r \in TenantRows
        /\ limit = 1 => /\ o = tenants[t] /\ <<tenants[t].status, r.status>> \in Moves
                        /\ r.status \in {tenants[t].status, "active"} \/ ~ HasActiveSuperAdmin(t)
    BY <1>1, <1>2, Zenon DEF CallInv, SaveInv
  <1>4. /\ tenants' = [tenants EXCEPT ![t] = r]
        /\ outbox' = {<<ev, t>> : ev \in EventsOf(o, r)}
    BY <1>2, <1>3, Zenon DEF persistTenant, UpdateTenantRow
  <1>5. \A u \in TenantIds : tenants'[u] = IF u = t THEN r ELSE tenants[u]
    BY <1>1, <1>4, Zenon DEF TenantTypes
  <1>6. \A u \in TenantIds \ exposed' : tenants'[u].status = "active"
    BY Zenon DEF TenantsInv, RowsInv
  <1>7. \A s \in Statuses : <<s, s>> \in Moves
    BY Zenon DEF Moves
  <1>8. ASSUME limit = 1, NEW u \in TenantIds, tenants[u] # None
        PROVE  /\ tenants'[u] # None
               /\ <<tenants[u].status, tenants'[u].status>> \in Moves
               /\ tenants[u].status # tenants'[u].status =>
                     /\ \E ev \in outbox' : ev = <<Announces(tenants'[u].status, tenants[u].status), u>>
                     /\ tenants'[u].status # "active" => ~ HasActiveSuperAdmin(u)
    <2>1. tenants'[u] # None
      <3>1. tenants'[t] = r /\ (RowsInv /\ RowsInv')
        BY <1>3, <1>5, Zenon DEF TenantsInv
      <3>2. admin' = admin
        BY Zenon DEF persistTenant
      <3>3. QED
        BY <1>8, <3>1, <3>2, Zenon DEF RowsInv
    <2>2. CASE u = t
      <3>1. tenants'[u] = r /\ o = tenants[u] /\ <<tenants[u].status, r.status>> \in Moves
        BY <1>3, <1>5, <1>8, <2>2, Zenon
      <3>2. ASSUME o.status # r.status
            PROVE  \E ev \in outbox' : ev = <<Announces(r.status, o.status), u>>
        <4>1. Announces(r.status, o.status) \in EventsOf(o, r)
          BY <3>2, Zenon DEF EventsOf
        <4>2. QED
          BY <1>4, <2>2, <4>1, Zenon
      <3>3. tenants[u].status # r.status /\ r.status # "active" => ~ HasActiveSuperAdmin(u)
        BY <1>3, <1>8, <2>2, Zenon
      <3>4. QED
        BY <2>1, <3>1, <3>2, <3>3, Zenon
    <2>3. CASE u # t
      <3>1. tenants'[u] = tenants[u]
        BY <1>5, <2>3, Zenon
      <3>2. tenants[u].status \in Statuses
        BY <1>1, <1>8 DEF TenantTypes, TenantRows
      <3>3. <<tenants[u].status, tenants[u].status>> \in Moves
        BY <1>7, <3>2, Zenon
      <3>4. QED
        BY <2>1, <3>1, <3>3, Zenon
    <2>4. QED
      BY <2>2, <2>3, Zenon
  <1>9. QED
    BY <1>6, <1>8, Zenon DEF LifecycleStep

\* A tenant that never lacked an active super administrator stays active whatever overlaps;
\* one request at a time a tenant moves as Status says, with the event of the move, and not
\* away from active while it has an active super administrator (TenantLifecycle).
THEOREM LifecyclesAreObeyed == Spec => TenantLifecycle
  <1>1. TenantsInv /\ TenantsInv' /\ [Next]_<<vars, limit>> => [LifecycleStep]_vars
    <2>1. SUFFICES ASSUME TenantsInv, TenantsInv', Next PROVE LifecycleStep
      BY DEF vars
    <2>2. CASE \A t \in TenantIds : tenants[t] # None => tenants'[t] = tenants[t]
      BY <2>1, <2>2, RowsStay, Zenon
    <2>3. ASSUME NEW c \in Calls, persistTenant(c) PROVE LifecycleStep
      BY <2>1, <2>3, PersistMoves, Zenon
    <2>4. ASSUME NEW c \in Calls, HardDeleteRow(c) PROVE tenants' = tenants
      BY <2>1, <2>4, EraseFindsNothing, Zenon
    <2>5. ASSUME NEW c \in Calls, persistAggregatesInTx(c)
          PROVE  \A t \in TenantIds : tenants[t] # None => tenants'[t] = tenants[t]
      <3>1. /\ tenants[cmd[c][2]] = None /\ tenants \in [TenantIds -> TenantRows \cup {None}]
        BY <2>1, <2>5, Zenon DEF persistAggregatesInTx, TenantsInv, TenantTypes, CallInv
      <3>2. tenants' = tenants \/ \E r : tenants' = [tenants EXCEPT ![cmd[c][2]] = r]
        BY <2>5, Zenon DEF persistAggregatesInTx, InsertTenant
      <3>3. QED
        BY <3>1, <3>2
    <2>6. ASSUME NEW c \in Calls, ApplyDefaultRoles(c) \/ AssignOwner(c) \/ RegisterTenant(c) \/ UpdateMembership(c) \/ Abort(c)
          PROVE  tenants' = tenants
      BY <2>6, Zenon DEF ApplyDefaultRoles, AssignOwner, RegisterTenant, UpdateMembership, Abort
    <2>7. ASSUME NEW c \in Calls, \/ UpdateTenant(c) \/ ChangeLifecycle(c) \/ HardDeleteTenant(c)
                                  \/ ensureNotPlatformTenant(c) \/ loadTenant(c)
          PROVE  tenants' = tenants
      BY <2>7, Zenon DEF UpdateTenant, ChangeLifecycle, HardDeleteTenant, ensureNotPlatformTenant, loadTenant
    <2>8. CASE Tick
      <3>1. tenants' = tenants
        BY <2>8, Zenon DEF Tick
      <3>2. QED
        BY <2>2, <3>1, Zenon
    <2>9. QED
      BY <2>1, <2>2, <2>3, <2>4, <2>5, <2>6, <2>7, <2>8, Zenon DEF Next
  <1>2. QED
    BY <1>1, TenantsInvariant, PTL DEF Spec, TenantLifecycle

-----------------------------------------------------------------------------


-----------------------------------------------------------------------------
(* The account's row and the copies handlers hold.                          *)

Held == {"update", "commit"}
Finished == {q \in AccountRequests : step[q] = "ok"}
Copies == [person : Persons, events : SUBSET EventTypes]

\* The events of p's password, address, suspension and erasure are among events.
Told(p, events) ==
    /\ p.password # Initial => [type |-> "PasswordChanged", by |-> p.password] \in events /\ ~p.mustChange
    /\ p.email # Initial => \E e \in events : e.type = "EmailChanged"
    /\ p.suspended => \E e \in events : e.type = "Suspended"
    /\ p.anonymised => \E e \in events : e.type = "Anonymised"

\* An erased account is inactive and nameless.
Erased(p) == p.anonymised => ~p.active /\ p.name = "anonymised"

SameCredentials(p, q) == p.password = q.password /\ p.email = q.email /\ p.anonymised = q.anonymised

\* Two versions of the account with one stamp have the same credentials.
Agree(p, q) == p.stamp = q.stamp => SameCredentials(p, q)

ResetOps == {"changePassword", "requestReset", "confirmReset"}

\* What a method called by request r makes of account p: q and the events.
Follows(r, p, q, events) ==
    /\ q.stamp = r \/ (q.stamp = p.stamp /\ SameCredentials(q, p))
    /\ \/ q.password = p.password /\ q.mustChange = p.mustChange
       \/ q.password = r /\ ~q.mustChange /\ "PasswordChanged" \in events
    /\ q.email = p.email \/ "EmailChanged" \in events
    /\ q.suspended => p.suspended \/ "Suspended" \in events
    /\ q.anonymised => p.anonymised \/ "Anonymised" \in events
    /\ Erased(p) => Erased(q)
    /\ p.anonymised => q.anonymised
    /\ IF op[r] \in ResetOps THEN q.reset \in {r, NoToken} ELSE q.reset = p.reset
    /\ op[r] = "confirmReset" => p.reset = token[r]

Written(x) == {[type |-> e, by |-> x] : e \in copy[x].events}

\* The copy of a handler that is about to write it.
CopyInv(x) ==
    step[x] \in Held =>
       /\ copy[x] \in Copies
       /\ Told(copy[x].person, accountEvents \cup Written(x))
       /\ Erased(copy[x].person)
       /\ copy[x].person.stamp \in {Initial, x} \cup Finished
       /\ Agree(row, copy[x].person)
       /\ accountLimit = 1 => Follows(x, row, copy[x].person, copy[x].events)

RowInv ==
    /\ Told(row, accountEvents)
    /\ Erased(row)
    /\ row.stamp \in {Initial} \cup Finished
    /\ dead \subseteq Finished
    /\ accountLimit = 1 => row.reset \notin dead

\* Any two copies agree as the row does with each.
Pairs ==
    \A x, y \in AccountRequests :
       step[x] \in Held /\ step[y] \in Held => Agree(copy[x].person, copy[y].person)

OneAtATime ==
    \A x, y \in AccountRequests :
       accountLimit = 1 /\ step[x] \in Handling /\ step[y] \in Handling => x = y

NoLogin == \A x \in AccountRequests : step[x] \in Updating => op[x] # "login"

AccountInv ==
    /\ AccountTypeOK
    /\ RowInv
    /\ \A x \in AccountRequests : CopyInv(x)
    /\ Pairs /\ OneAtATime /\ NoLogin

\* A result that is not a refusal is what the method makes of the account.
LEMMA AllowedOnly ==
    ASSUME NEW allowed, NEW result, NEW x \in If(allowed, result), x # Refused
    PROVE  allowed /\ x = result
  BY Zenon DEF If

\* The parts of a result.
LEMMA ResultParts ==
    ASSUME NEW q \in Persons, NEW events \in SUBSET EventTypes
    PROVE  /\ Result(q, events) \in Copies
           /\ Result(q, events).person = q /\ Result(q, events).events = events
  BY SMT DEF Result, Copies

\* A method that leaves the account as it is.
LEMMA UnchangedFollows ==
    ASSUME NEW r \in AccountRequests, NEW p \in Persons, NEW events \in SUBSET EventTypes, op[r] \notin ResetOps
    PROVE  Result(p, events) \in Copies /\ Follows(r, p, Result(p, events).person, Result(p, events).events)
  <1>1. /\ Result(p, events) \in Copies
        /\ Result(p, events).person = p /\ Result(p, events).events = events
    BY ResultParts, Zenon
  <1>2. op[r] # "confirmReset"
    BY Zenon DEF ResetOps
  <1>3. Follows(r, p, p, events)
    BY <1>2, Zenon DEF Follows, SameCredentials
  <1>4. QED
    BY <1>1, <1>3, Zenon

\* UpdatePersonProfile.
LEMMA ProfileFollows ==
    ASSUME NEW r \in AccountRequests, NEW p \in Persons, op[r] = "profile", NEW x \in UpdatePersonProfile(p), x # Refused
    PROVE  x \in Copies /\ Follows(r, p, x.person, x.events)
  <1>1. x = Result(p, {"ProfileUpdated"}) \/ x = Result(p, {})
    BY Zenon DEF UpdatePersonProfile, Unchanged
  <1>2. {"ProfileUpdated"} \in SUBSET EventTypes /\ {} \in SUBSET EventTypes /\ op[r] \notin ResetOps
    BY SMT DEF EventTypes, ResetOps
  <1>3. QED
    BY <1>1, <1>2, UnchangedFollows, Zenon

\* A new password: the stamp is the request's, a pending reset is gone.
LEMMA PasswordFollows ==
    ASSUME NEW r \in AccountRequests, NEW p \in Persons, NEW events \in SUBSET EventTypes, "PasswordChanged" \in events,
           op[r] \in {"changePassword", "confirmReset"}, op[r] = "confirmReset" => p.reset = token[r],
           NEW q, q = [p EXCEPT !.password = r, !.stamp = r, !.mustChange = FALSE, !.reset = NoToken]
    PROVE  Result(q, events) \in Copies /\ Follows(r, p, Result(q, events).person, Result(q, events).events)
  <1>1. /\ q \in Persons
        /\ q.password = r /\ q.stamp = r /\ q.mustChange = FALSE /\ q.reset = NoToken
        /\ q.name = p.name /\ q.active = p.active /\ q.anonymised = p.anonymised
        /\ q.suspended = p.suspended /\ q.email = p.email
    BY Zenon DEF Persons
  <1>2. /\ Result(q, events) \in Copies
        /\ Result(q, events).person = q /\ Result(q, events).events = events
    BY <1>1, ResultParts, Zenon
  <1>3. op[r] \in ResetOps
    BY Zenon DEF ResetOps
  <1>4. Erased(p) => Erased(q)
    BY <1>1, Zenon DEF Erased
  <1>5. Follows(r, p, q, events)
    BY <1>1, <1>3, <1>4, Zenon DEF Follows
  <1>6. QED
    BY <1>2, <1>5, Zenon

\* ChangePassword.
LEMMA ChangeFollows ==
    ASSUME NEW r \in AccountRequests, NEW p \in Persons, op[r] = "changePassword", NEW x \in ChangePassword(p, r), x # Refused
    PROVE  x \in Copies /\ Follows(r, p, x.person, x.events)
  <1> DEFINE events == {"PasswordChanged"} \cup IF p.reset = NoToken THEN {} ELSE {"ResetCancelled"}
             q == [p EXCEPT !.password = r, !.stamp = r, !.mustChange = FALSE, !.reset = NoToken]
  <1>1. x = Result(q, events)
    BY Zenon DEF ChangePassword
  <1>2. events \in SUBSET EventTypes /\ "PasswordChanged" \in events
    BY SMT DEF EventTypes
  <1>3. op[r] \in {"changePassword", "confirmReset"} /\ (op[r] = "confirmReset" => p.reset = token[r])
    BY SMT
  <1> HIDE DEF events
  <1>4. QED
    BY <1>1, <1>2, <1>3, PasswordFollows, Zenon

\* ConfirmPasswordReset: the pending token is the one presented.
LEMMA ConfirmFollows ==
    ASSUME NEW r \in AccountRequests, NEW p \in Persons, op[r] = "confirmReset",
           NEW x \in ConfirmPasswordReset(p, r, token[r], wasLate[r]), x # Refused
    PROVE  x \in Copies /\ Follows(r, p, x.person, x.events)
  <1> DEFINE events == {"ResetConfirmed", "PasswordChanged"}
             q == [p EXCEPT !.password = r, !.stamp = r, !.mustChange = FALSE, !.reset = NoToken]
             allowed == Reachable(p) /\ p.reset = token[r] /\ token[r] # NoToken /\ ~wasLate[r]
  <1>1. x \in If(allowed, Result(q, events))
    BY Zenon DEF ConfirmPasswordReset
  <1> HIDE DEF allowed
  <1>2. allowed /\ x = Result(q, events)
    BY <1>1, AllowedOnly, Zenon
  <1>3. events \in SUBSET EventTypes /\ "PasswordChanged" \in events
    BY SMT DEF EventTypes
  <1>4. p.reset = token[r]
    BY <1>2, Zenon DEF allowed
  <1>5. op[r] \in {"changePassword", "confirmReset"}
    BY SMT
  <1> HIDE DEF events
  <1>6. QED
    BY <1>2, <1>3, <1>4, <1>5, PasswordFollows, Zenon

\* RequestPasswordReset: the token is the request's.
LEMMA ResetFollows ==
    ASSUME NEW r \in AccountRequests, NEW p \in Persons, op[r] = "requestReset",
           NEW x \in RequestPasswordReset(p, r), x # Refused
    PROVE  x \in Copies /\ Follows(r, p, x.person, x.events)
  <1> DEFINE events == {"ResetRequested"}
  <1>1. PICK q : q = [p EXCEPT !.reset = r]
    BY Zenon
  <1>2. x = Result(q, events)
    BY <1>1, AllowedOnly, Zenon DEF RequestPasswordReset
  <1>3. events \in SUBSET EventTypes
    BY SMT DEF EventTypes
  <1>4. /\ q \in Persons
        /\ q.password = p.password /\ q.stamp = p.stamp /\ q.mustChange = p.mustChange /\ q.reset = r
        /\ q.name = p.name /\ q.active = p.active /\ q.anonymised = p.anonymised
        /\ q.suspended = p.suspended /\ q.email = p.email
    BY <1>1, Zenon DEF Persons
  <1> HIDE DEF events
  <1>5. x \in Copies /\ x.person = q /\ x.events = events
    BY <1>2, <1>3, <1>4, ResultParts, Zenon
  <1>6. op[r] \in ResetOps /\ op[r] # "confirmReset"
    BY SMT DEF ResetOps
  <1>7. Erased(p) => Erased(q)
    BY <1>4, Zenon DEF Erased
  <1>8. Follows(r, p, q, events)
    BY <1>4, <1>6, <1>7, Zenon DEF Follows, SameCredentials
  <1>9. QED
    BY <1>5, <1>8, Zenon

\* RequestEmailChange: only the pending address changes.
LEMMA AddressFollows ==
    ASSUME NEW r \in AccountRequests, NEW p \in Persons, op[r] = "requestEmail",
           NEW x \in RequestEmailChange(p, r), x # Refused
    PROVE  x \in Copies /\ Follows(r, p, x.person, x.events)
  <1> DEFINE events == {"EmailChangeRequested"}
  <1>1. PICK q : q = [p EXCEPT !.change = r]
    BY Zenon
  <1>2. x = Result(q, events)
    BY <1>1, AllowedOnly, Zenon DEF RequestEmailChange
  <1>3. events \in SUBSET EventTypes
    BY SMT DEF EventTypes
  <1>4. /\ q \in Persons
        /\ q.password = p.password /\ q.stamp = p.stamp /\ q.mustChange = p.mustChange /\ q.reset = p.reset
        /\ q.name = p.name /\ q.active = p.active /\ q.anonymised = p.anonymised
        /\ q.suspended = p.suspended /\ q.email = p.email
    BY <1>1, Zenon DEF Persons
  <1> HIDE DEF events
  <1>5. x \in Copies /\ x.person = q /\ x.events = events
    BY <1>2, <1>3, <1>4, ResultParts, Zenon
  <1>6. op[r] \notin ResetOps /\ op[r] # "confirmReset"
    BY SMT DEF ResetOps
  <1>7. Erased(p) => Erased(q)
    BY <1>4, Zenon DEF Erased
  <1>8. Follows(r, p, q, events)
    BY <1>4, <1>6, <1>7, Zenon DEF Follows, SameCredentials
  <1>9. QED
    BY <1>5, <1>8, Zenon

\* ConfirmEmailChange: the stamp is the request's.
LEMMA EmailFollows ==
    ASSUME NEW r \in AccountRequests, NEW p \in Persons, op[r] = "confirmEmail",
           token[r] \in AccountRequests \cup {NoToken},
           NEW x \in ConfirmEmailChange(p, r, token[r], wasLate[r]), x # Refused
    PROVE  x \in Copies /\ Follows(r, p, x.person, x.events)
  <1> DEFINE events == {"EmailChanged"}
             allowed == Reachable(p) /\ p.change = token[r] /\ token[r] # NoToken /\ ~wasLate[r]
  <1>1. PICK q : q = [p EXCEPT !.email = token[r], !.stamp = r, !.change = NoToken]
    OBVIOUS
  <1>a. x \in If(allowed, Result(q, events))
    BY <1>1, Zenon DEF ConfirmEmailChange
  <1> HIDE DEF allowed
  <1>b. allowed /\ x = Result(q, events)
    BY <1>a, AllowedOnly, Zenon
  <1>2. x = Result(q, events) /\ token[r] \in AccountRequests
    BY <1>b, Zenon DEF allowed
  <1>3. events \in SUBSET EventTypes /\ "EmailChanged" \in events
    BY SMT DEF EventTypes
  <1>4. /\ q \in Persons
        /\ q.password = p.password /\ q.stamp = r /\ q.mustChange = p.mustChange /\ q.reset = p.reset
        /\ q.name = p.name /\ q.active = p.active /\ q.anonymised = p.anonymised
        /\ q.suspended = p.suspended
    BY <1>1, <1>2, Zenon DEF Persons
  <1> HIDE DEF events
  <1>5. x \in Copies /\ x.person = q /\ x.events = events
    BY <1>2, <1>3, <1>4, ResultParts, Zenon
  <1>6. op[r] \notin ResetOps /\ op[r] # "confirmReset"
    BY SMT DEF ResetOps
  <1>7. Erased(p) => Erased(q)
    BY <1>4, Zenon DEF Erased
  <1>8. Follows(r, p, q, events)
    BY <1>3, <1>4, <1>6, <1>7, Zenon DEF Follows
  <1>9. QED
    BY <1>5, <1>8, Zenon
\* GloballySuspend: the stamp is the request's.
LEMMA SuspendFollows ==
    ASSUME NEW r \in AccountRequests, NEW p \in Persons, op[r] = "suspend",
           NEW x \in GloballySuspend(p, r), x # Refused
    PROVE  x \in Copies /\ Follows(r, p, x.person, x.events)
  <1> DEFINE events == {"Suspended"}
  <1>1. PICK q : q = [p EXCEPT !.suspended = TRUE, !.stamp = r]
    OBVIOUS
  <1>2. x = Result(p, {}) \/ x = Result(q, events)
    BY <1>1, Zenon DEF GloballySuspend, Unchanged
  <1>3. events \in SUBSET EventTypes /\ "Suspended" \in events /\ {} \in SUBSET EventTypes
    BY SMT DEF EventTypes
  <1>4. /\ q \in Persons
        /\ q.password = p.password /\ q.stamp = r /\ q.mustChange = p.mustChange /\ q.reset = p.reset
        /\ q.name = p.name /\ q.active = p.active /\ q.anonymised = p.anonymised
        /\ q.email = p.email
    BY <1>1, Zenon DEF Persons
  <1> HIDE DEF events
  <1>5. Result(q, events) \in Copies /\ Result(q, events).person = q /\ Result(q, events).events = events
    BY <1>3, <1>4, ResultParts, Zenon
  <1>6. op[r] \notin ResetOps /\ op[r] # "confirmReset"
    BY SMT DEF ResetOps
  <1>7. Erased(p) => Erased(q)
    BY <1>4, Zenon DEF Erased
  <1>8. Follows(r, p, q, events)
    BY <1>3, <1>4, <1>6, <1>7, Zenon DEF Follows
  <1>9. QED
    BY <1>2, <1>3, <1>5, <1>6, <1>8, UnchangedFollows, Zenon

\* LiftGlobalSuspension: the account is not suspended, all else stays.
LEMMA LiftFollows ==
    ASSUME NEW r \in AccountRequests, NEW p \in Persons, op[r] = "lift",
           NEW x \in LiftGlobalSuspension(p), x # Refused
    PROVE  x \in Copies /\ Follows(r, p, x.person, x.events)
  <1> DEFINE events == {"SuspensionLifted"}
  <1>1. PICK q : q = [p EXCEPT !.suspended = FALSE]
    BY Zenon
  <1>2. x = Result(p, {}) \/ x = Result(q, events)
    BY <1>1, Zenon DEF LiftGlobalSuspension, Unchanged
  <1>3. events \in SUBSET EventTypes /\ {} \in SUBSET EventTypes
    BY SMT DEF EventTypes
  <1>4. /\ q \in Persons
        /\ q.password = p.password /\ q.stamp = p.stamp /\ q.mustChange = p.mustChange /\ q.reset = p.reset
        /\ q.name = p.name /\ q.active = p.active /\ q.anonymised = p.anonymised
        /\ ~q.suspended /\ q.email = p.email
    BY <1>1, Zenon DEF Persons
  <1> HIDE DEF events
  <1>5. Result(q, events) \in Copies /\ Result(q, events).person = q /\ Result(q, events).events = events
    BY <1>3, <1>4, ResultParts, Zenon
  <1>6. op[r] \notin ResetOps /\ op[r] # "confirmReset"
    BY SMT DEF ResetOps
  <1>7. Erased(p) => Erased(q)
    BY <1>4, Zenon DEF Erased
  <1>8. Follows(r, p, q, events)
    BY <1>4, <1>6, <1>7, Zenon DEF Follows, SameCredentials
  <1>9. QED
    BY <1>2, <1>3, <1>5, <1>6, <1>8, UnchangedFollows, Zenon

\* Anonymise: the account is inactive and nameless, the stamp is the request's.
LEMMA AnonymiseFollows ==
    ASSUME NEW r \in AccountRequests, NEW p \in Persons, op[r] = "anonymise",
           NEW x \in Anonymise(p, r), x # Refused
    PROVE  x \in Copies /\ Follows(r, p, x.person, x.events)
  <1> DEFINE events == {"Anonymised"}
  <1>1. PICK q : q = [p EXCEPT !.name = "anonymised", !.active = FALSE, !.anonymised = TRUE, !.stamp = r]
    OBVIOUS
  <1>2. x = Result(p, {}) \/ x = Result(q, events)
    BY <1>1, Zenon DEF Anonymise, Unchanged
  <1>3. events \in SUBSET EventTypes /\ "Anonymised" \in events /\ {} \in SUBSET EventTypes
    BY SMT DEF EventTypes
  <1>4. /\ q \in Persons
        /\ q.password = p.password /\ q.stamp = r /\ q.mustChange = p.mustChange /\ q.reset = p.reset
        /\ q.name = "anonymised" /\ ~q.active /\ q.anonymised
        /\ q.suspended = p.suspended /\ q.email = p.email
    BY <1>1, Zenon DEF Persons
  <1> HIDE DEF events
  <1>5. Result(q, events) \in Copies /\ Result(q, events).person = q /\ Result(q, events).events = events
    BY <1>3, <1>4, ResultParts, Zenon
  <1>6. op[r] \notin ResetOps /\ op[r] # "confirmReset"
    BY SMT DEF ResetOps
  <1>7. Erased(q)
    BY <1>4, Zenon DEF Erased
  <1>8. Follows(r, p, q, events)
    BY <1>3, <1>4, <1>6, <1>7, Zenon DEF Follows
  <1>9. QED
    BY <1>2, <1>3, <1>5, <1>6, <1>8, UnchangedFollows, Zenon

\* Every method that is not refused makes of the account what Follows says.
LEMMA ResultsFollow ==
    ASSUME NEW r \in AccountRequests, NEW p \in Persons, op[r] \in Ops, op[r] # "login",
           token[r] \in AccountRequests \cup {NoToken}, NEW x \in Results(r, p), x # Refused
    PROVE  x \in Copies /\ Follows(r, p, x.person, x.events)
  <1>1. \/ op[r] = "profile" /\ x \in UpdatePersonProfile(p)
        \/ op[r] = "changePassword" /\ x \in ChangePassword(p, r)
        \/ op[r] = "requestReset" /\ x \in RequestPasswordReset(p, r)
        \/ op[r] = "confirmReset" /\ x \in ConfirmPasswordReset(p, r, token[r], wasLate[r])
        \/ op[r] = "requestEmail" /\ x \in RequestEmailChange(p, r)
        \/ op[r] = "confirmEmail" /\ x \in ConfirmEmailChange(p, r, token[r], wasLate[r])
        \/ op[r] = "suspend" /\ x \in GloballySuspend(p, r)
        \/ op[r] = "lift" /\ x \in LiftGlobalSuspension(p)
        \/ op[r] = "anonymise" /\ x \in Anonymise(p, r)
    BY SMT DEF Results, Ops, Gated, Confirmations
  <1>2. QED
    BY <1>1, ProfileFollows, ChangeFollows, ResetFollows, ConfirmFollows, AddressFollows, EmailFollows,
       SuspendFollows, LiftFollows, AnonymiseFollows, Zenon
\* More events tell no less.
LEMMA ToldByMore ==
    ASSUME NEW p, NEW E, NEW F, Told(p, E), E \subseteq F
    PROVE  Told(p, F)
  BY Zenon DEF Told

\* What a method made of the account is told by the events it recorded.
LEMMA ToldAfter ==
    ASSUME NEW r \in AccountRequests, NEW p, NEW q, NEW es, NEW E, Told(p, E), Follows(r, p, q, es)
    PROVE  Told(q, E \cup {[type |-> e, by |-> r] : e \in es})
  <1> DEFINE W == {[type |-> e, by |-> r] : e \in es}
  <1>1. \A e \in es : [type |-> e, by |-> r] \in W /\ [type |-> e, by |-> r].type = e
    BY Zenon
  <1> HIDE DEF W
  <1>2. /\ \/ q.password = p.password /\ q.mustChange = p.mustChange
           \/ q.password = r /\ ~q.mustChange /\ "PasswordChanged" \in es
        /\ q.email = p.email \/ "EmailChanged" \in es
        /\ q.suspended => p.suspended \/ "Suspended" \in es
        /\ q.anonymised => p.anonymised \/ "Anonymised" \in es
    BY Zenon DEF Follows
  <1>3. q.password # Initial => [type |-> "PasswordChanged", by |-> q.password] \in E \cup W /\ ~q.mustChange
    <2>1. CASE q.password = p.password /\ q.mustChange = p.mustChange
      BY <2>1, Zenon DEF Told
    <2>2. CASE q.password = r /\ ~q.mustChange /\ "PasswordChanged" \in es
      BY <1>1, <2>2, Zenon
    <2>3. QED
      BY <1>2, <2>1, <2>2, Zenon
  <1>4. q.email # Initial => \E e \in E \cup W : e.type = "EmailChanged"
    <2>1. p.email # Initial => \E e \in E : e.type = "EmailChanged"
      BY Zenon DEF Told
    <2>2. QED
      BY <1>1, <1>2, <2>1, Zenon
  <1>5. q.suspended => \E e \in E \cup W : e.type = "Suspended"
    <2>1. p.suspended => \E e \in E : e.type = "Suspended"
      BY Zenon DEF Told
    <2>2. QED
      BY <1>1, <1>2, <2>1, Zenon
  <1>6. q.anonymised => \E e \in E \cup W : e.type = "Anonymised"
    <2>1. p.anonymised => \E e \in E : e.type = "Anonymised"
      BY Zenon DEF Told
    <2>2. QED
      BY <1>1, <1>2, <2>1, Zenon
  <1>7. QED
    BY <1>3, <1>4, <1>5, <1>6, Zenon DEF Told, W

-----------------------------------------------------------------------------
(* The steps of requests.                                                   *)

\* A step of request r that writes nothing and makes no copy (StartRequest, Check, a
\* refusal, Update, AbortRequest, ExpireToken).
QuietRequest(r) ==
    /\ row' = row /\ accountEvents' = accountEvents /\ dead' = dead /\ accountLimit' = accountLimit
    /\ \A q \in AccountRequests : q # r => /\ step'[q] = step[q] /\ copy'[q] = copy[q]
                                           /\ op'[q] = op[q] /\ token'[q] = token[q]
    /\ step[r] = "ok" => step'[r] = "ok"
    /\ step'[r] \in Held => /\ step[r] \in Held /\ copy'[r] = copy[r]
                            /\ op'[r] = op[r] /\ token'[r] = token[r]
    /\ step'[r] \in Updating => op'[r] # "login"
    /\ accountLimit = 1 /\ step'[r] \in Handling => \A q \in AccountRequests : q # r => step[q] \notin Handling

\* Such a step keeps the row's invariant and those of the copies.
LEMMA QuietRequestKeeps ==
    ASSUME AccountInv, NEW r \in AccountRequests, QuietRequest(r), AccountTypeOK'
    PROVE  AccountInv'
  <1>1. Finished \subseteq Finished'
    BY Zenon DEF Finished, QuietRequest
  <1>2. RowInv'
    <2>1. RowInv
      BY Zenon DEF AccountInv
    <2>2. row' = row /\ accountEvents' = accountEvents /\ dead' = dead /\ accountLimit' = accountLimit
      BY Zenon DEF QuietRequest
    <2>3. QED
      BY <1>1, <2>1, <2>2, Zenon DEF RowInv, Finished
  <1>3. ASSUME NEW x \in AccountRequests, step'[x] \in Held
        PROVE  /\ step[x] \in Held /\ copy'[x] = copy[x] /\ op'[x] = op[x] /\ token'[x] = token[x]
               /\ row' = row /\ accountEvents' = accountEvents /\ accountLimit' = accountLimit
    BY <1>3, Zenon DEF QuietRequest
  <1>4. ASSUME NEW x \in AccountRequests PROVE CopyInv(x)'
    <2> SUFFICES ASSUME step'[x] \in Held PROVE CopyInv(x)'
      BY Zenon DEF CopyInv
    <2>1. CopyInv(x) /\ step[x] \in Held
      BY <1>3, Zenon DEF AccountInv
    <2>2. /\ copy'[x] = copy[x] /\ op'[x] = op[x] /\ token'[x] = token[x]
          /\ row' = row /\ accountEvents' = accountEvents /\ accountLimit' = accountLimit
      BY <1>3, Zenon
    <2>3. Written(x)' = Written(x)
      BY <2>2, Zenon DEF Written
    <2>4. Told(copy[x].person, accountEvents \cup Written(x)) => Told(copy[x].person, accountEvents \cup Written(x))'
      BY <2>2, <2>3, Zenon DEF Told
    <2>5. Follows(x, row, copy[x].person, copy[x].events) => Follows(x, row, copy[x].person, copy[x].events)'
      BY <2>2, Zenon DEF Follows
    <2>6. QED
      BY <1>1, <2>1, <2>2, <2>4, <2>5, Zenon DEF CopyInv
  <1>5. Pairs'
    BY <1>3, Zenon DEF AccountInv, Pairs
  <1>6. OneAtATime'
    <2>1. OneAtATime
      BY Zenon DEF AccountInv
    <2>2. QED
      BY <2>1, Zenon DEF OneAtATime, QuietRequest
  <1>7. NoLogin'
    <2>1. NoLogin
      BY Zenon DEF AccountInv
    <2>2. QED
      BY <2>1, Zenon DEF NoLogin, QuietRequest
  <1>8. QED
    BY <1>2, <1>4, <1>5, <1>6, <1>7, Zenon DEF AccountInv

\* The parts of the type invariant that a step may change.
LEMMA AccountTypes ==
    ASSUME AccountTypeOK
    PROVE  /\ row \in Persons /\ accountEvents \subseteq [type : EventTypes, by : AccountRequests]
           /\ \A q \in AccountRequests :
                 /\ op[q] \in Ops /\ token[q] \in AccountRequests \cup {NoToken} /\ wasLate[q] \in BOOLEAN
                 /\ step[q] \in {"idle", "ok", "rejected", "error"} \cup Handling
                 /\ copy[q] \in Copies \cup {NoPerson}
  BY Zenon DEF AccountTypeOK, Copies

\* Where a request goes.
LEMMA StepIs ==
    ASSUME AccountTypeOK, NEW r \in AccountRequests,
           NEW next \in {"idle", "ok", "rejected", "error"} \cup Handling, Proceed(r, next)
    PROVE  /\ step' \in [AccountRequests -> {"idle", "ok", "rejected", "error"} \cup Handling]
           /\ step'[r] = next /\ \A q \in AccountRequests : q # r => step'[q] = step[q]
  BY Zenon DEF AccountTypeOK, Proceed

\* Where each place of a handler belongs.
LEMMA Places ==
    /\ {"load", "check", "update", "commit"} \subseteq Handling
    /\ Held \subseteq Updating /\ Updating \subseteq Handling
    /\ {"ok", "rejected", "error", "idle", "check"} \cap Updating = {}
    /\ {"ok", "rejected", "error", "idle"} \cap Handling = {}
    /\ "load" \notin Held /\ "commit" \in Held /\ "update" \in Held
    /\ "ok" \notin {"load", "check", "update", "commit", "rejected", "error", "idle"}
  BY SMT DEF Handling, Updating, Held

\* StartRequest.
LEMMA StartKeeps ==
    ASSUME AccountsAssumption, AccountInv, NEW r \in AccountRequests, StartRequest(r), accountLimit' = accountLimit
    PROVE  AccountInv'
  <1>1. AccountTypeOK
    BY Zenon DEF AccountInv
  <1>2. PICK o \in Ops : \E t \in Presentable(o) :
          /\ op' = [op EXCEPT ![r] = o] /\ token' = [token EXCEPT ![r] = t]
          /\ Proceed(r, IF o \in Gated \cup {"login"} THEN "check" ELSE "load")
    BY Zenon DEF StartRequest
  <1>a. PICK t \in Presentable(o) :
          /\ op' = [op EXCEPT ![r] = o] /\ token' = [token EXCEPT ![r] = t]
          /\ Proceed(r, IF o \in Gated \cup {"login"} THEN "check" ELSE "load")
    BY <1>2, Zenon
  <1>3. PICK next : next = IF o \in Gated \cup {"login"} THEN "check" ELSE "load"
    OBVIOUS
  <1>4. /\ next \in {"check", "load"} /\ next \in {"idle", "ok", "rejected", "error"} \cup Handling
        /\ next \notin Held /\ (next \in Updating => o # "login")
    BY <1>3, SMT DEF Handling, Updating, Held
  <1>5. Proceed(r, next)
    BY <1>a, <1>3, Zenon
  <1>6. /\ step' \in [AccountRequests -> {"idle", "ok", "rejected", "error"} \cup Handling]
        /\ step'[r] = next /\ \A q \in AccountRequests : q # r => step'[q] = step[q]
    BY <1>1, <1>4, <1>5, StepIs, Zenon
  <1>7. t \in AccountRequests \cup {NoToken}
    BY Zenon DEF Presentable, Mailed
  <1>8. /\ op \in [AccountRequests -> Ops] /\ token \in [AccountRequests -> AccountRequests \cup {NoToken}]
    BY <1>1, Zenon DEF AccountTypeOK
  <1>9. /\ op' \in [AccountRequests -> Ops] /\ token' \in [AccountRequests -> AccountRequests \cup {NoToken}]
        /\ op'[r] = o /\ \A q \in AccountRequests : q # r => op'[q] = op[q] /\ token'[q] = token[q]
    BY <1>a, <1>7, <1>8, Zenon
  <1>10. /\ row' = row /\ accountEvents' = accountEvents /\ lapsed' = lapsed /\ rowLock' = rowLock
         /\ wasLate' = wasLate /\ copy' = copy /\ dead' = dead
         /\ step[r] = "idle" /\ MayStart
    BY Zenon DEF StartRequest
  <1>11. AccountTypeOK'
    BY <1>1, <1>6, <1>9, <1>10, Zenon DEF AccountTypeOK
  <1>12. QuietRequest(r)
    BY <1>4, <1>6, <1>9, <1>10, Places, Zenon DEF QuietRequest, MayStart
  <1>13. QED
    BY <1>11, <1>12, QuietRequestKeeps, Zenon

\* Check: a handler that is rejected has not begun its transaction.
LEMMA CheckKeeps ==
    ASSUME AccountsAssumption, AccountInv, NEW r \in AccountRequests, Check(r), accountLimit' = accountLimit
    PROVE  AccountInv'
  <1>1. AccountTypeOK
    BY Zenon DEF AccountInv
  <1>2. PICK next \in {"ok", "load", "rejected"} : Proceed(r, next) /\ (next = "load" => op[r] # "login")
    BY SMT DEF Check
  <1>3. next \in {"idle", "ok", "rejected", "error"} \cup Handling
    BY <1>2, Places, Zenon
  <1>4. /\ step' \in [AccountRequests -> {"idle", "ok", "rejected", "error"} \cup Handling]
        /\ step'[r] = next /\ \A q \in AccountRequests : q # r => step'[q] = step[q]
    BY <1>1, <1>2, <1>3, StepIs, Zenon
  <1>5. /\ row' = row /\ accountEvents' = accountEvents /\ lapsed' = lapsed /\ rowLock' = rowLock
        /\ op' = op /\ token' = token /\ copy' = copy /\ dead' = dead
        /\ step[r] = "check"
    BY Zenon DEF Check
  <1>6. wasLate' \in [AccountRequests -> BOOLEAN]
    <2>1. wasLate \in [AccountRequests -> BOOLEAN] /\ wasLate' = [wasLate EXCEPT ![r] = token[r] \in lapsed]
      BY <1>1, Zenon DEF AccountTypeOK, Check
    <2>2. (token[r] \in lapsed) \in BOOLEAN
      BY SMT
    <2>3. QED
      BY <2>1, <2>2, Zenon
  <1>7. AccountTypeOK'
    BY <1>1, <1>4, <1>5, <1>6, Zenon DEF AccountTypeOK
  <1>8. accountLimit = 1 => \A q \in AccountRequests : q # r => step[q] \notin Handling
    BY <1>5, Places, Zenon DEF AccountInv, OneAtATime
  <1>9. QuietRequest(r)
    BY <1>2, <1>4, <1>5, <1>8, Places, Zenon DEF QuietRequest
  <1>10. QED
    BY <1>7, <1>9, QuietRequestKeeps, Zenon
\* LoadAccount: what the method made of the row is the handler's copy, or it is refused.
LEMMA LoadKeeps ==
    ASSUME AccountsAssumption, AccountInv, NEW r \in AccountRequests, LoadAccount(r), accountLimit' = accountLimit
    PROVE  AccountInv'
  <1>1. AccountTypeOK /\ RowInv /\ (\A x \in AccountRequests : CopyInv(x)) /\ Pairs /\ OneAtATime /\ NoLogin
    BY Zenon DEF AccountInv
  <1>2. /\ row' = row /\ accountEvents' = accountEvents /\ lapsed' = lapsed /\ rowLock' = rowLock
        /\ op' = op /\ token' = token /\ wasLate' = wasLate /\ dead' = dead
        /\ step[r] = "load"
    BY Zenon DEF LoadAccount
  <1>3. op[r] # "login" /\ step[r] # "ok" /\ step[r] \in Handling
    BY <1>1, <1>2, Places, SMT DEF NoLogin, Updating
  <1>4. accountLimit = 1 => \A q \in AccountRequests : q # r => step[q] \notin Handling
    BY <1>1, <1>3, Zenon DEF OneAtATime
  <1>5. CASE Proceed(r, "rejected") /\ copy' = copy
    <2>1. /\ step' \in [AccountRequests -> {"idle", "ok", "rejected", "error"} \cup Handling]
          /\ step'[r] = "rejected" /\ \A q \in AccountRequests : q # r => step'[q] = step[q]
      BY <1>1, <1>5, StepIs, Zenon
    <2>2. AccountTypeOK'
      BY <1>1, <1>2, <1>5, <2>1, Zenon DEF AccountTypeOK
    <2>3. QuietRequest(r)
      BY <1>2, <1>3, <1>4, <1>5, <2>1, Places, Zenon DEF QuietRequest
    <2>4. QED
      BY <2>2, <2>3, QuietRequestKeeps, Zenon
  <1>6. ASSUME NEW x \in Results(r, row), x # Refused, Proceed(r, "update"), copy' = [copy EXCEPT ![r] = x]
        PROVE  AccountInv'
    <2>1. /\ row \in Persons /\ op[r] \in Ops /\ token[r] \in AccountRequests \cup {NoToken}
      BY <1>1, AccountTypes, Zenon
    <2>2. x \in Copies /\ Follows(r, row, x.person, x.events)
      BY <1>3, <1>6, <2>1, ResultsFollow, Zenon
    <2>3. /\ step' \in [AccountRequests -> {"idle", "ok", "rejected", "error"} \cup Handling]
          /\ step'[r] = "update" /\ \A q \in AccountRequests : q # r => step'[q] = step[q]
      BY <1>1, <1>6, Places, StepIs, Zenon
    <2>4. /\ copy' \in [AccountRequests -> Copies \cup {NoPerson}]
          /\ copy'[r] = x /\ \A q \in AccountRequests : q # r => copy'[q] = copy[q]
      BY <1>1, <1>6, <2>2, Zenon DEF AccountTypeOK, Copies
    <2>5. AccountTypeOK'
      BY <1>1, <1>2, <2>3, <2>4, Zenon DEF AccountTypeOK, Copies
    <2>6. Finished' = Finished /\ r \notin Finished /\ r # Initial
      <3>1. step'[r] # "ok"
        BY <2>3, Places, Zenon
      <3>2. r # Initial
        BY Zenon DEF AccountsAssumption
      <3>3. QED
        BY <1>3, <2>3, <3>1, <3>2, Zenon DEF Finished
    <2>7. RowInv'
      BY <1>1, <1>2, <2>6, Zenon DEF RowInv
    <2>8. x.person.stamp = r \/ (x.person.stamp = row.stamp /\ SameCredentials(x.person, row))
      BY <2>2, Zenon DEF Follows
    <2>9. row.stamp \in {Initial} \cup Finished /\ Erased(row) /\ Told(row, accountEvents)
      BY <1>1, Zenon DEF RowInv
    <2>10. Agree(row, x.person)
      BY <2>6, <2>8, <2>9, Zenon DEF Agree, SameCredentials
    <2>11. CopyInv(r)'
      <3>1. Told(x.person, accountEvents \cup {[type |-> e, by |-> r] : e \in x.events})
        BY <2>2, <2>9, ToldAfter, Zenon
      <3>2. (accountEvents \cup Written(r))' = accountEvents \cup {[type |-> e, by |-> r] : e \in x.events}
        BY <1>2, <2>4, Zenon DEF Written
      <3>3. Told(copy[r].person, accountEvents \cup Written(r))'
        BY <2>4, <3>1, <3>2, Zenon DEF Told
      <3>4. Erased(x.person)
        BY <2>2, <2>9, Zenon DEF Follows
      <3>5. x.person.stamp \in {Initial, r} \cup Finished
        BY <2>8, <2>9, Zenon
      <3>6. Follows(r, row, copy[r].person, copy[r].events)'
        BY <1>2, <2>2, <2>4, Zenon DEF Follows
      <3>7. QED
        BY <1>2, <2>2, <2>4, <2>6, <2>10, <3>3, <3>4, <3>5, <3>6, Zenon DEF CopyInv
    <2>12. ASSUME NEW y \in AccountRequests, y # r, step'[y] \in Held
           PROVE  CopyInv(y)' /\ Agree(x.person, copy[y].person) /\ Agree(copy[y].person, x.person)
      <3>1. /\ step[y] \in Held /\ copy'[y] = copy[y] /\ op'[y] = op[y] /\ token'[y] = token[y]
            /\ CopyInv(y)
        BY <1>1, <1>2, <2>3, <2>4, <2>12, Zenon
      <3>2. /\ copy[y].person.stamp \in {Initial, y} \cup Finished /\ Agree(row, copy[y].person)
        BY <3>1, Zenon DEF CopyInv
      <3>3. copy[y].person.stamp # r
        BY <2>6, <2>12, <3>2, Zenon
      <3>4. Agree(x.person, copy[y].person) /\ Agree(copy[y].person, x.person)
        BY <2>8, <3>2, <3>3, Zenon DEF Agree, SameCredentials
      <3>5. (accountEvents \cup Written(y))' = accountEvents \cup Written(y)
        BY <1>2, <3>1, Zenon DEF Written
      <3>6. Told(copy[y].person, accountEvents \cup Written(y))'
        BY <3>1, <3>5, Zenon DEF Told, CopyInv
      <3>7. accountLimit # 1
        BY <1>4, <2>12, <3>1, Places, Zenon
      <3>8. QED
        BY <1>2, <2>6, <3>1, <3>2, <3>4, <3>6, <3>7, Zenon DEF CopyInv
    <2>13. \A y \in AccountRequests : CopyInv(y)'
      BY <2>11, <2>12, Zenon DEF CopyInv
    <2>14. Pairs'
      <3> SUFFICES ASSUME NEW y \in AccountRequests, NEW z \in AccountRequests, step'[y] \in Held, step'[z] \in Held
                   PROVE  Agree(copy'[y].person, copy'[z].person)
        BY Zenon DEF Pairs, Agree
      <3>1. CASE y = r /\ z = r
        BY <3>1, Zenon DEF Agree, SameCredentials
      <3>2. CASE y = r /\ z # r
        BY <2>4, <2>12, <3>2, Zenon
      <3>3. CASE y # r /\ z = r
        BY <2>4, <2>12, <3>3, Zenon
      <3>4. CASE y # r /\ z # r
        BY <1>1, <2>3, <2>4, <3>4, Zenon DEF Pairs
      <3>5. QED
        BY <3>1, <3>2, <3>3, <3>4, Zenon
    <2>15. OneAtATime'
      BY <1>4, <2>3, Zenon DEF OneAtATime
    <2>16. NoLogin'
      BY <1>1, <1>2, <1>3, <2>3, Zenon DEF NoLogin
    <2>17. QED
      BY <2>5, <2>7, <2>13, <2>14, <2>15, <2>16, Zenon DEF AccountInv
  <1>7. QED
    BY <1>5, <1>6, Zenon DEF LoadAccount

\* Update takes the row, AbortRequest gives it up.
LEMMA LockKeeps ==
    ASSUME AccountsAssumption, AccountInv, NEW r \in AccountRequests, Update(r) \/ AbortRequest(r),
           accountLimit' = accountLimit
    PROVE  AccountInv'
  <1>1. AccountTypeOK /\ OneAtATime /\ NoLogin
    BY Zenon DEF AccountInv
  <1>2. /\ row' = row /\ accountEvents' = accountEvents /\ lapsed' = lapsed
        /\ op' = op /\ token' = token /\ wasLate' = wasLate /\ dead' = dead
        /\ step[r] \in Updating
    <2>1. CASE Update(r)
      BY <2>1, Zenon DEF Update, Updating
    <2>2. CASE AbortRequest(r)
      BY <2>2, Zenon DEF AbortRequest
    <2>3. QED
      BY <2>1, <2>2, Zenon
  <1>3. step[r] # "ok" /\ step[r] \in Handling /\ op[r] # "login"
    BY <1>1, <1>2, Places, Zenon DEF NoLogin
  <1>4. accountLimit = 1 => \A q \in AccountRequests : q # r => step[q] \notin Handling
    BY <1>1, <1>3, Zenon DEF OneAtATime
  <1>5. rowLock' \in AccountRequests \cup {Unlocked}
    BY <1>1, Zenon DEF AccountTypeOK, Update, AbortRequest
  <1>6. CASE Update(r)
    <2>1. /\ step' \in [AccountRequests -> {"idle", "ok", "rejected", "error"} \cup Handling]
          /\ step'[r] = "commit" /\ \A q \in AccountRequests : q # r => step'[q] = step[q]
      BY <1>1, <1>6, Places, StepIs, Zenon DEF Update
    <2>2. copy' = copy /\ step[r] \in Held
      BY <1>6, Places, Zenon DEF Update
    <2>3. AccountTypeOK'
      BY <1>1, <1>2, <1>5, <2>1, <2>2, Zenon DEF AccountTypeOK
    <2>4. QuietRequest(r)
      BY <1>2, <1>3, <1>4, <2>1, <2>2, Zenon DEF QuietRequest
    <2>5. QED
      BY <2>3, <2>4, QuietRequestKeeps, Zenon
  <1>7. CASE AbortRequest(r)
    <2>1. /\ step' \in [AccountRequests -> {"idle", "ok", "rejected", "error"} \cup Handling]
          /\ step'[r] = "error" /\ \A q \in AccountRequests : q # r => step'[q] = step[q]
      BY <1>1, <1>7, StepIs, Zenon DEF AbortRequest
    <2>2. /\ copy' \in [AccountRequests -> [person : Persons, events : SUBSET EventTypes] \cup {NoPerson}]
          /\ \A q \in AccountRequests : q # r => copy'[q] = copy[q]
      BY <1>1, <1>7, Zenon DEF AccountTypeOK, AbortRequest
    <2>3. AccountTypeOK'
      BY <1>1, <1>2, <1>5, <2>1, <2>2, Zenon DEF AccountTypeOK
    <2>4. QuietRequest(r)
      BY <1>2, <1>3, <1>4, <2>1, <2>2, Places, Zenon DEF QuietRequest
    <2>5. QED
      BY <2>3, <2>4, QuietRequestKeeps, Zenon
  <1>8. QED
    BY <1>6, <1>7, Zenon

\* ExpireToken.
LEMMA ExpiryKeeps ==
    ASSUME AccountsAssumption, AccountInv, NEW r \in AccountRequests, ExpireToken(r), accountLimit' = accountLimit
    PROVE  AccountInv'
  <1>1. AccountTypeOK /\ OneAtATime /\ NoLogin
    BY Zenon DEF AccountInv
  <1>2. /\ row' = row /\ accountEvents' = accountEvents /\ rowLock' = rowLock /\ step' = step /\ copy' = copy
        /\ op' = op /\ token' = token /\ wasLate' = wasLate /\ dead' = dead
        /\ lapsed' = lapsed \cup {r} /\ step[r] = "ok"
    BY Zenon DEF ExpireToken, Mailed
  <1>3. AccountTypeOK'
    BY <1>1, <1>2, Zenon DEF AccountTypeOK
  <1>4. QuietRequest(r)
    BY <1>2, Places, Zenon DEF QuietRequest
  <1>5. QED
    BY <1>3, <1>4, QuietRequestKeeps, Zenon

\* CommitAccount: the copy becomes the row, its events are in the outbox, and the
\* mailed reset tokens it takes the place of are dead.
LEMMA CommitKeeps ==
    ASSUME AccountsAssumption, AccountInv, NEW r \in AccountRequests, CommitAccount(r), accountLimit' = accountLimit
    PROVE  AccountInv'
  <1>1. AccountTypeOK /\ RowInv /\ (\A x \in AccountRequests : CopyInv(x)) /\ Pairs /\ OneAtATime /\ NoLogin
    BY Zenon DEF AccountInv
  <1>2. /\ row' = copy[r].person /\ accountEvents' = accountEvents \cup Written(r)
        /\ lapsed' = lapsed /\ rowLock' = Unlocked /\ op' = op /\ token' = token /\ wasLate' = wasLate
        /\ step[r] = "commit" /\ Proceed(r, "ok") /\ copy' = [copy EXCEPT ![r] = NoPerson]
    BY Zenon DEF CommitAccount, Written
  <1>3. dead' = IF op[r] \in ResetOps THEN dead \cup Mailed("requestReset") ELSE dead
    BY Zenon DEF CommitAccount, ResetOps
  <1>4. step[r] \in Held /\ step[r] \in Handling /\ step[r] # "ok"
    BY <1>2, Places, Zenon
  <1>5. accountLimit = 1 => \A q \in AccountRequests : q # r => step[q] \notin Handling
    BY <1>1, <1>4, Zenon DEF OneAtATime
  <1>6. /\ copy[r] \in Copies
        /\ Told(copy[r].person, accountEvents \cup Written(r))
        /\ Erased(copy[r].person)
        /\ copy[r].person.stamp \in {Initial, r} \cup Finished
        /\ accountLimit = 1 => Follows(r, row, copy[r].person, copy[r].events)
    BY <1>1, <1>4, Zenon DEF CopyInv
  <1>7. /\ step' \in [AccountRequests -> {"idle", "ok", "rejected", "error"} \cup Handling]
        /\ step'[r] = "ok" /\ \A q \in AccountRequests : q # r => step'[q] = step[q]
    BY <1>1, <1>2, StepIs, Zenon
  <1>8. /\ copy' \in [AccountRequests -> [person : Persons, events : SUBSET EventTypes] \cup {NoPerson}]
        /\ \A q \in AccountRequests : q # r => copy'[q] = copy[q]
    BY <1>1, <1>2, Zenon DEF AccountTypeOK
  <1>9. copy[r].person \in Persons /\ copy[r].events \subseteq EventTypes
    BY <1>6, Zenon DEF Copies
  <1>10. Written(r) \subseteq [type : EventTypes, by : AccountRequests]
    BY <1>9, SMT DEF Written
  <1>11. Finished \subseteq Finished' /\ r \in Finished' /\ r \notin Finished
    BY <1>4, <1>7, Zenon DEF Finished
  <1>12. Mailed("requestReset") \subseteq Finished /\ Finished \subseteq AccountRequests
    BY Zenon DEF Mailed, Finished
  <1>13. dead \subseteq Finished /\ (accountLimit = 1 => row.reset \notin dead)
    BY <1>1, Zenon DEF RowInv
  <1>14. AccountTypeOK'
    <2>1. /\ accountEvents' \subseteq [type : EventTypes, by : AccountRequests] /\ dead' \subseteq AccountRequests
      BY <1>1, <1>2, <1>3, <1>10, <1>12, <1>13, Zenon DEF AccountTypeOK
    <2>2. QED
      BY <1>1, <1>2, <1>7, <1>8, <1>9, <2>1, Zenon DEF AccountTypeOK
  <1>15. RowInv'
    <2>1. Told(row, accountEvents)'
      BY <1>2, <1>6, Zenon DEF Told
    <2>2. row'.stamp \in {Initial} \cup Finished' /\ dead' \subseteq Finished'
      BY <1>2, <1>3, <1>6, <1>11, <1>12, <1>13, Zenon
    <2>3. accountLimit = 1 => row'.reset \notin dead'
      <3>1. ASSUME accountLimit = 1
            PROVE  IF op[r] \in ResetOps THEN row'.reset \in {r, NoToken} ELSE row'.reset = row.reset
        BY <1>2, <1>6, <3>1, Zenon DEF Follows
      <3>2. NoToken \notin AccountRequests
        BY Zenon DEF AccountsAssumption
      <3>3. QED
        BY <1>3, <1>11, <1>12, <1>13, <3>1, <3>2, Zenon
    <2>4. QED
      BY <1>2, <1>6, <2>1, <2>2, <2>3, Zenon DEF RowInv, Erased
  <1>16. step'[r] \notin Held /\ step'[r] \notin Handling /\ step'[r] \notin Updating
    BY <1>7, Places, Zenon
  <1>17. ASSUME NEW y \in AccountRequests, step'[y] \in Held PROVE CopyInv(y)'
    <2>1. y # r /\ step[y] \in Held /\ copy'[y] = copy[y] /\ CopyInv(y)
      BY <1>1, <1>7, <1>8, <1>16, <1>17, Zenon
    <2>2. Agree(copy[r].person, copy[y].person)
      BY <1>1, <1>4, <2>1, Zenon DEF Pairs
    <2>3. Written(y)' = Written(y)
      BY <2>1, Zenon DEF Written
    <2>4. Told(copy[y].person, accountEvents \cup Written(y))
      BY <2>1, Zenon DEF CopyInv
    <2>5. accountEvents \cup Written(y) \subseteq accountEvents' \cup Written(y)
      BY <1>2, Zenon
    <2>6. Told(copy[y].person, accountEvents' \cup Written(y))
      BY <2>4, <2>5, ToldByMore, Zenon
    <2>7. Told(copy[y].person, accountEvents \cup Written(y))'
      BY <2>1, <2>3, <2>6, Zenon DEF Told
    <2>8. accountLimit # 1
      BY <1>5, <2>1, Places, Zenon
    <2>9. /\ copy[y] \in Copies /\ Erased(copy[y].person)
          /\ copy[y].person.stamp \in {Initial, y} \cup Finished
      BY <2>1, Zenon DEF CopyInv
    <2>10. copy'[y].person.stamp \in {Initial, y} \cup Finished'
      BY <1>11, <2>1, <2>9, Zenon
    <2>11. Erased(copy[y].person)' /\ Agree(row, copy[y].person)'
      BY <1>2, <2>1, <2>2, <2>9, Zenon DEF Erased, Agree, SameCredentials
    <2>12. copy'[y] \in Copies
      BY <2>1, <2>9, Zenon
    <2>13. QED
      BY <2>7, <2>8, <2>10, <2>11, <2>12, Zenon DEF CopyInv
  <1>18. \A y \in AccountRequests : CopyInv(y)'
    BY <1>17, Zenon DEF CopyInv
  <1>19. Pairs' /\ OneAtATime' /\ NoLogin'
    <2>1. Pairs'
      BY <1>1, <1>7, <1>8, <1>16, Zenon DEF Pairs
    <2>2. OneAtATime'
      BY <1>1, <1>7, <1>16, Zenon DEF OneAtATime
    <2>3. NoLogin'
      BY <1>1, <1>2, <1>7, <1>16, Zenon DEF NoLogin
    <2>4. QED
      BY <2>1, <2>2, <2>3, Zenon
  <1>20. QED
    BY <1>14, <1>15, <1>18, <1>19, Zenon DEF AccountInv

\* Init: the new account has its own stamp, nothing is pending.
LEMMA AccountBegins ==
    ASSUME AccountsAssumption, AccountInit
    PROVE  AccountInv
  <1>1. row \in Persons /\ row.password = Initial /\ row.email = Initial /\ row.stamp = Initial
        /\ ~row.suspended /\ ~row.anonymised
    BY Zenon DEF AccountInit, Persons
  <1>2. "idle" \in {"idle", "ok", "rejected", "error"} \cup Handling /\ "login" \in Ops
    BY SMT DEF Ops
  <1>3. AccountTypeOK
    BY <1>1, <1>2, Zenon DEF AccountInit, AccountTypeOK
  <1>4. RowInv
    BY <1>1, Zenon DEF AccountInit, RowInv, Told, Erased
  <1>5. \A x \in AccountRequests : step[x] = "idle" /\ step[x] \notin Held /\ step[x] \notin Handling /\ step[x] \notin Updating
    BY Places, Zenon DEF AccountInit
  <1>6. QED
    BY <1>3, <1>4, <1>5, Zenon DEF AccountInv, CopyInv, Pairs, OneAtATime, NoLogin

\* Every step keeps the invariant.
LEMMA AccountsKeep ==
    ASSUME AccountsAssumption, AccountInv, [AccountNext]_accountVars
    PROVE  AccountInv'
  <1>1. CASE UNCHANGED accountVars
    <2>1. /\ row' = row /\ accountEvents' = accountEvents /\ rowLock' = rowLock /\ step' = step /\ copy' = copy
          /\ op' = op /\ token' = token /\ wasLate' = wasLate /\ dead' = dead /\ lapsed' = lapsed
          /\ accountLimit' = accountLimit
      BY <1>1, Zenon DEF accountVars
    <2>2. AccountTypeOK' /\ RowInv'
      BY <2>1, Zenon DEF AccountInv, AccountTypeOK, RowInv, Finished
    <2>3. ASSUME NEW x \in AccountRequests PROVE CopyInv(x)'
      BY <2>1, Zenon DEF AccountInv, CopyInv, Written, Follows, Finished
    <2>4. Pairs' /\ OneAtATime' /\ NoLogin'
      BY <2>1, Zenon DEF AccountInv, Pairs, OneAtATime, NoLogin
    <2>5. QED
      BY <2>2, <2>3, <2>4, Zenon DEF AccountInv
  <1>2. CASE AccountNext
    BY <1>2, StartKeeps, CheckKeeps, LoadKeeps, LockKeeps, CommitKeeps, ExpiryKeeps, Zenon DEF AccountNext
  <1>3. QED
    BY <1>1, <1>2, Zenon

\* The invariant of accounts: the row and the copies in the handlers' memory are told by
\* the outbox, erased ones are inactive and nameless, and two of them with one stamp have
\* the same credentials (drainPersonEvents, persistPerson, Anonymise).
THEOREM AccountsInvariant == ASSUME AccountsAssumption PROVE AccountSpec => []AccountInv
  <1>1. AccountInit => AccountInv
    BY AccountBegins, Zenon
  <1>2. AccountInv /\ [AccountNext]_accountVars => AccountInv'
    BY AccountsKeep, Zenon
  <1>3. QED
    BY <1>1, <1>2, PTL DEF AccountSpec
\* Only a commit changes the row.
LEMMA RowWriters ==
    ASSUME AccountInv, [AccountNext]_accountVars
    PROVE  row' = row \/ \E r \in AccountRequests : step[r] \in Held /\ CopyInv(r) /\ row' = copy[r].person
  <1>1. CASE UNCHANGED accountVars
    BY <1>1, Zenon DEF accountVars
  <1>2. ASSUME NEW r \in AccountRequests,
               \/ StartRequest(r) \/ Check(r) \/ LoadAccount(r) \/ Update(r) \/ AbortRequest(r) \/ ExpireToken(r)
        PROVE  row' = row
    BY <1>2, Zenon DEF StartRequest, Check, LoadAccount, Update, AbortRequest, ExpireToken
  <1>3. ASSUME NEW r \in AccountRequests, CommitAccount(r)
        PROVE  step[r] \in Held /\ CopyInv(r) /\ row' = copy[r].person
    BY <1>3, Places, Zenon DEF CommitAccount, AccountInv
  <1>4. QED
    BY <1>1, <1>2, <1>3, Zenon DEF AccountNext

\* Whoever made the current password, address, suspension or erasure has its event in
\* the outbox, and a change of password, address or erasure comes with another security
\* stamp, however requests overlap (ChangePassword, ConfirmPasswordReset,
\* ConfirmEmailChange, Anonymise): CredentialChangeRotatesStamp for any set of requests.
THEOREM CredentialChangesRotate ==
    ASSUME AccountsAssumption PROVE AccountSpec => CredentialChangeRotatesStamp
  <1> DEFINE Rotated == /\ Announced'
                        /\ \/ row'.stamp # row.stamp
                           \/ <<row'.password, row'.email, row'.anonymised>>
                                = <<row.password, row.email, row.anonymised>>
  <1>1. ASSUME AccountInv, AccountInv', [AccountNext]_accountVars
        PROVE  [Rotated]_accountVars
    <2>1. Announced'
      BY <1>1, Zenon DEF AccountInv, RowInv, Told, Announced
    <2>2. row'.stamp # row.stamp \/ SameCredentials(row, row')
      <3>1. CASE row' = row
        BY <3>1, Zenon DEF SameCredentials
      <3>2. ASSUME NEW r \in AccountRequests, step[r] \in Held, CopyInv(r), row' = copy[r].person
            PROVE  row'.stamp # row.stamp \/ SameCredentials(row, row')
        BY <3>2, Zenon DEF CopyInv, Agree
      <3>3. QED
        BY <1>1, <3>1, <3>2, RowWriters, Zenon
    <2>3. SameCredentials(row, row') => <<row'.password, row'.email, row'.anonymised>>
                                          = <<row.password, row.email, row.anonymised>>
      BY Zenon DEF SameCredentials
    <2>4. QED
      BY <2>1, <2>2, <2>3, Zenon
  <1>2. QED
    BY <1>1, AccountsInvariant, PTL DEF AccountSpec, CredentialChangeRotatesStamp

\* An erased account is inactive and nameless whichever request wrote it last, and one
\* request at a time it stays erased (Anonymise, UpdateProfile's refusal):
\* ErasureIsFinal for any set of requests.
THEOREM ErasuresAreFinal ==
    ASSUME AccountsAssumption PROVE AccountSpec => ErasureIsFinal
  <1> DEFINE Lasting == /\ row'.anonymised => ~row'.active /\ row'.name = "anonymised"
                        /\ accountLimit = 1 /\ row.anonymised => row'.anonymised
  <1>1. ASSUME AccountInv, AccountInv', [AccountNext]_accountVars
        PROVE  [Lasting]_accountVars
    <2>1. row'.anonymised => ~row'.active /\ row'.name = "anonymised"
      BY <1>1, Zenon DEF AccountInv, RowInv, Erased
    <2>2. accountLimit = 1 /\ row.anonymised => row'.anonymised
      <3>1. ASSUME NEW r \in AccountRequests, step[r] \in Held, CopyInv(r), row' = copy[r].person
            PROVE  accountLimit = 1 /\ row.anonymised => row'.anonymised
        BY <3>1, Zenon DEF CopyInv, Follows
      <3>2. QED
        BY <1>1, <3>1, RowWriters, Zenon
    <2>3. QED
      BY <2>1, <2>2, Zenon
  <1>2. QED
    BY <1>1, AccountsInvariant, PTL DEF AccountSpec, ErasureIsFinal

\* One request at a time, no reset succeeds with a token that was used, replaced or
\* cancelled (ConfirmPasswordReset, RequestPasswordReset, CancelPasswordReset):
\* OnlyNewestResetWorks for any set of requests.
THEOREM OnlyNewestResetsWork ==
    ASSUME AccountsAssumption PROVE AccountSpec => OnlyNewestResetWorks
  <1> DEFINE Newest == accountLimit = 1 => \A r \in AccountRequests :
                          op[r] = "confirmReset" /\ step[r] = "commit" /\ step'[r] = "ok" => token[r] \notin dead
  <1>1. ASSUME AccountInv PROVE [Newest]_accountVars
    <2>1. ASSUME NEW r \in AccountRequests, accountLimit = 1, op[r] = "confirmReset", step[r] = "commit"
          PROVE  token[r] \notin dead
      <3>1. CopyInv(r) /\ step[r] \in Held /\ row.reset \notin dead
        BY <1>1, <2>1, Places, Zenon DEF AccountInv, RowInv
      <3>2. row.reset = token[r]
        BY <2>1, <3>1, Zenon DEF CopyInv, Follows
      <3>3. QED
        BY <3>1, <3>2, Zenon
    <2>2. QED
      BY <2>1, Zenon
  <1>2. QED
    BY <1>1, AccountsInvariant, PTL DEF AccountSpec, OnlyNewestResetWorks
====
