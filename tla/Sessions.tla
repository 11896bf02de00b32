---- MODULE Sessions ----
(***************************************************************************)
(* The sessions of one person in the identity module: refresh-token        *)
(* families, their rotation and reuse detection, and everything that       *)
(* revokes them (internal/identity/domain/refreshtoken, app/command/login, *)
(* refresh, logout and revoke_session, ports/subscribers/revoke_families,  *)
(* adapters/refresh_token_repository_pg; ADR 0011).                        *)
(*                                                                         *)
(* UpdateByID reads the family's row, then its tokens, neither of them     *)
(* locked, and writes everything it read back.  The UPDATE of the family   *)
(* comes first and holds the family's row until the transaction ends.      *)
(***************************************************************************)
EXTENDS Naturals, FiniteSets

CONSTANTS
    Tenants,
    Logins,         \* login requests; each names the family and the token it makes
    Refreshes,      \* refresh requests; each names the token it mints
    Logouts,        \* requests that revoke the family of a token
    SessionRevokes, \* requests that revoke one family by its id
    SignOuts,       \* requests that revoke every family but possibly one
    Cascades,       \* security events, each with its RevokeFamilies subscriber
    Limits,         \* bounds: how many requests are handled at the same time
    NoRow, Live, Free, None

Tokens == Logins \cup Refreshes
Requests == Tokens \cup Logouts \cup SessionRevokes \cup SignOuts \cup Cascades
Batches == SignOuts \cup Cascades

Reasons == {"reuse_detected", "person-no-longer-active", "no-active-membership",
            "active-membership-changed-tenant", "revoked_by_request", "security_change"}

FamilyRows == [tenant : Tenants, revoked : Reasons \cup {"no"}]
TokenRows == [family : Logins, generation : Nat, next : Tokens \cup {Live}]
Events == [type : {"Created"}, family : Logins]
          \cup [type : {"Rotated"}, family : Logins, token : Refreshes]
          \cup [type : {"Revoked"}, family : Logins, reason : Reasons]
Aggregates == [revoked : Reasons \cup {"no"}, events : SUBSET Events,
               tokens : [Tokens -> TokenRows \cup {NoRow}]]

ASSUME SessionsAssumption ==
    /\ NoRow \notin FamilyRows \cup TokenRows \cup Aggregates
    /\ Live \notin Tokens /\ Free \notin Requests
    /\ None \notin Tokens \cup Tenants \cup Logins
    /\ Logins \cap Refreshes = {} /\ Tokens \cap Logouts = {}
    /\ (Tokens \cup Logouts) \cap SessionRevokes = {}
    /\ (Tokens \cup Logouts \cup SessionRevokes) \cap SignOuts = {}
    /\ (Tokens \cup Logouts \cup SessionRevokes \cup SignOuts) \cap Cascades = {}
    /\ Limits \subseteq Nat

VARIABLES
    limit,     \* how many requests the server handles at the same time
    families,  \* identity.refresh_token_families
    tokens,    \* identity.refresh_tokens; next is replaced_by_id, Live if unconsumed
    outbox,    \* every event ever written to common.outbox
    person,    \* the person: active, the tenant of the active membership, and how
               \* often the security stamp was rotated
    expired,   \* tokens past their expiry
    lock,      \* the transaction that holds a family's row
    pc,        \* where each handler is
    tok, fam,  \* the token presented and the family worked on
    why,       \* what UpdateByID's function does: "rotate", or the reason to revoke
    late,      \* the presented token was expired at the handler's now
    todo,      \* the families a batch has still to revoke
    mem,       \* the aggregate in the handler's memory
    scope,     \* the tenant a login signs in to or a cascade is limited to
    stamp      \* history: the security stamp a login was verified against, or
               \* the one a cascade's event announced

vars == <<limit, families, tokens, outbox, person, expired, lock,
          pc, tok, fam, why, late, todo, mem, scope, stamp>>

handler == <<tok, fam, why, late, todo, mem, scope, stamp>>
store == <<families, tokens, outbox, lock>>

InTx == {"family", "tokens", "update", "commit"}
Running == InTx \cup {"lookup", "add", "issue", "person", "membership", "list", "next"}
Outcomes == {"ok", "rejected", "notFound", "error"}

TypeOK ==
    /\ limit \in Limits
    /\ families \in [Logins -> FamilyRows \cup {NoRow}]
    /\ tokens \in [Tokens -> TokenRows \cup {NoRow}]
    /\ outbox \subseteq Events
    /\ person \in [active : BOOLEAN, tenant : Tenants \cup {None}, stamp : Nat]
    /\ expired \subseteq Tokens
    /\ lock \in [Logins -> Requests \cup {Free}]
    /\ pc \in [Requests -> {"idle"} \cup Running \cup Outcomes]
    /\ tok \in [Requests -> Tokens \cup {None}]
    /\ fam \in [Requests -> Logins \cup {None}]
    /\ why \in [Requests -> Reasons \cup {"rotate"}]
    /\ late \in [Requests -> BOOLEAN]
    /\ todo \in [Requests -> SUBSET Logins]
    /\ mem \in [Requests -> Aggregates \cup {NoRow}]
    /\ scope \in [Requests -> Tenants \cup {None}]
    /\ stamp \in [Requests -> Nat]

-----------------------------------------------------------------------------
(* The aggregate refreshtoken.Family.                                       *)

RotateError(m, t, isLate) ==
    IF m.revoked # "no" THEN "revoked"
    ELSE IF m.tokens[t] = NoRow THEN "unknown"
    ELSE IF m.tokens[t].next # Live THEN "reuse"
    ELSE IF isLate THEN "expired" ELSE "none"

Revoke(m, f, reason) ==
    IF m.revoked # "no" THEN m
    ELSE [m EXCEPT !.revoked = reason,
                   !.events = {[type |-> "Revoked", family |-> f, reason |-> reason]}]

\* Fault: the next token keeps the generation of the one it replaces.
RotateSameGeneration(m, f, t, new) ==
    [m EXCEPT !.tokens = [@ EXCEPT
                  ![t].next = new,
                  ![new] = [family |-> f, generation |-> m.tokens[t].generation,
                            next |-> Live]],
              !.events = {[type |-> "Rotated", family |-> f, token |-> new]}]

Rotate(m, f, t, new) ==
    [m EXCEPT !.tokens = [@ EXCEPT
                  ![t].next = new,
                  ![new] = [family |-> f, generation |-> m.tokens[t].generation + 1,
                            next |-> Live]],
              !.events = {[type |-> "Rotated", family |-> f, token |-> new]}]

-----------------------------------------------------------------------------
(* The functions the handlers pass to UpdateByID: whether the aggregate is  *)
(* persisted, and what it becomes.                                          *)

Persists(r, m) ==
    IF why[r] = "rotate" THEN RotateError(m, tok[r], late[r]) \in {"none", "reuse"}
    ELSE r \in SessionRevokes \cup SignOuts => m.revoked = "no"

Updated(r, m) ==
    IF why[r] # "rotate" THEN Revoke(m, fam[r], why[r])
    ELSE IF RotateError(m, tok[r], late[r]) = "reuse"
         THEN Revoke(m, fam[r], "reuse_detected")
         ELSE Rotate(m, fam[r], tok[r], r)

\* Where a handler goes when UpdateByID has committed, or had nothing to write.
After(r, rotated) ==
    IF r \in Batches THEN "next"
    ELSE IF r \notin Refreshes THEN "ok"
    ELSE IF why[r] = "rotate" /\ rotated THEN "person" ELSE "rejected"

\* Where it goes when UpdateByID failed: the subscriber's message is delivered
\* again, and Refresh ignores the error of its own revocations.
AfterError(r) ==
    IF r \in Cascades THEN "list"
    ELSE IF r \in Refreshes /\ why[r] # "rotate" THEN "rejected" ELSE "error"

-----------------------------------------------------------------------------
(* RefreshTokenFamilyRepository.UpdateByID.                                 *)

Unlock(r) == lock' = [f \in Logins |-> IF lock[f] = r THEN Free ELSE lock[f]]

TokensOf(f) ==
    [t \in Tokens |-> IF tokens[t] # NoRow /\ tokens[t].family = f THEN tokens[t] ELSE NoRow]

\* Fault: the revoked columns are not read back.
ReadFamilyForgets(r) ==
    /\ pc[r] = "family"
    /\ families[fam[r]] # NoRow
    /\ pc' = [pc EXCEPT ![r] = "tokens"]
    /\ mem' = [mem EXCEPT ![r] = [revoked |-> "no", events |-> {},
                                  tokens |-> [t \in Tokens |-> NoRow]]]
    /\ UNCHANGED <<store, person, expired, tok, fam, why, late, todo, scope, stamp>>

ReadFamily(r) ==
    /\ pc[r] = "family"
    /\ \/ /\ families[fam[r]] = NoRow
          /\ pc' = [pc EXCEPT ![r] = "notFound"]
          /\ UNCHANGED mem
       \/ /\ families[fam[r]] # NoRow
          /\ pc' = [pc EXCEPT ![r] = "tokens"]
          /\ mem' = [mem EXCEPT ![r] = [revoked |-> families[fam[r]].revoked, events |-> {},
                                        tokens |-> [t \in Tokens |-> NoRow]]]
    /\ UNCHANGED <<store, person, expired, tok, fam, why, late, todo, scope, stamp>>

ReadTokens(r) ==
    LET m == [mem[r] EXCEPT !.tokens = TokensOf(fam[r])] IN
    /\ pc[r] = "tokens"
    /\ \/ /\ Persists(r, m)
          /\ mem' = [mem EXCEPT ![r] = Updated(r, m)]
          /\ pc' = [pc EXCEPT ![r] = "update"]
       \/ /\ ~Persists(r, m)
          /\ mem' = [mem EXCEPT ![r] = NoRow]
          /\ pc' = [pc EXCEPT ![r] = After(r, FALSE)]
    /\ UNCHANGED <<store, person, expired, tok, fam, why, late, todo, scope, stamp>>

UpdateFamily(r) ==
    /\ pc[r] = "update"
    /\ lock[fam[r]] = Free
    /\ lock' = [lock EXCEPT ![fam[r]] = r]
    /\ pc' = [pc EXCEPT ![r] = "commit"]
    /\ UNCHANGED <<families, tokens, outbox, person, expired, handler>>

Minted(r) == r \in Tokens /\ mem[r].tokens[r] # NoRow

\* The family's mutable columns, an upsert of every token in memory, the events.
Commit(r) ==
    /\ pc[r] = "commit"
    /\ families' = [families EXCEPT ![fam[r]].revoked = mem[r].revoked]
    /\ tokens' = [t \in Tokens |-> IF mem[r].tokens[t] # NoRow THEN mem[r].tokens[t] ELSE tokens[t]]
    /\ outbox' = outbox \cup mem[r].events
    /\ pc' = [pc EXCEPT ![r] = After(r, Minted(r))]
    /\ mem' = [mem EXCEPT ![r] = NoRow]
    /\ Unlock(r)
    /\ UNCHANGED <<person, expired, tok, fam, why, late, todo, scope, stamp>>

\* A statement fails and the transaction rolls back.
Abort(r) ==
    /\ pc[r] \in InTx
    /\ pc' = [pc EXCEPT ![r] = AfterError(r)]
    /\ mem' = [mem EXCEPT ![r] = NoRow]
    /\ Unlock(r)
    /\ UNCHANGED <<families, tokens, outbox, person, expired, tok, fam, why, late, todo, scope, stamp>>

-----------------------------------------------------------------------------
(* The handlers around it.                                                  *)

Goto(r, next) == pc' = [pc EXCEPT ![r] = next]

\* Whether one more request may be handled: one at a time, only when no other is.
MayBegin ==
    IF limit = 1 THEN \A q \in Requests : pc[q] \notin Running
    ELSE Cardinality({q \in Requests : pc[q] \in Running}) < limit

Start(r) == pc[r] = "idle" /\ MayBegin

\* LoginHandler.resolveAndVerify: one query reads the person and the active
\* membership, and the password is verified against what it read.
Login(r) ==
    /\ Start(r)
    /\ \/ /\ person.active /\ person.tenant # None
          /\ stamp' = [stamp EXCEPT ![r] = person.stamp]
          /\ scope' = [scope EXCEPT ![r] = person.tenant]
          /\ Goto(r, "add")
       \/ /\ ~(person.active /\ person.tenant # None)
          /\ Goto(r, "rejected")
          /\ UNCHANGED <<stamp, scope>>
    /\ UNCHANGED <<store, person, expired, tok, fam, why, late, todo, mem>>

\* NewFamily and Add: the family, its first token and its event, in one transaction.
AddFamily(r) ==
    /\ pc[r] = "add"
    /\ families' = [families EXCEPT ![r] = [tenant |-> scope[r], revoked |-> "no"]]
    /\ tokens' = [tokens EXCEPT ![r] = [family |-> r, generation |-> 0, next |-> Live]]
    /\ outbox' = outbox \cup {[type |-> "Created", family |-> r]}
    /\ Goto(r, "issue")
    /\ UNCHANGED <<lock, person, expired, handler>>

\* ResolveAuth and the JWT; when they fail the family stays behind.
Issue(r) ==
    /\ pc[r] = "issue"
    /\ \E outcome \in {"ok", "error"} : Goto(r, outcome)
    /\ UNCHANGED <<store, person, expired, handler>>

\* A client presents a token it was given, old or new, or one nobody issued.
Present(r) ==
    /\ Start(r)
    /\ \E t \in {u \in Tokens : pc[u] = "ok"} \cup {None} : tok' = [tok EXCEPT ![r] = t]
    /\ Goto(r, "lookup")
    /\ UNCHANGED <<store, person, expired, fam, why, late, todo, mem, scope, stamp>>

\* GetByTokenHash, then the handler's now.
Lookup(r) ==
    /\ pc[r] = "lookup"
    /\ \/ /\ tok[r] = None
          /\ Goto(r, IF r \in Refreshes THEN "rejected" ELSE "ok")
          /\ UNCHANGED <<fam, late, why>>
       \/ /\ tok[r] # None
          /\ fam' = [fam EXCEPT ![r] = tokens[tok[r]].family]
          /\ late' = [late EXCEPT ![r] = tok[r] \in expired]
          /\ why' = [why EXCEPT ![r] = IF r \in Refreshes THEN "rotate" ELSE "revoked_by_request"]
          /\ Goto(r, "family")
    /\ UNCHANGED <<store, person, expired, tok, todo, mem, scope, stamp>>

RevokeBecause(r, reason) ==
    /\ why' = [why EXCEPT ![r] = reason]
    /\ Goto(r, "family")

\* Refresh, step 5: the person.
CheckPerson(r) ==
    /\ pc[r] = "person"
    /\ \/ person.active /\ Goto(r, "membership") /\ UNCHANGED why
       \/ ~person.active /\ RevokeBecause(r, "person-no-longer-active")
       \/ Goto(r, "error") /\ UNCHANGED why
    /\ UNCHANGED <<store, person, expired, tok, fam, late, todo, mem, scope, stamp>>

\* Refresh, step 5: the active membership.  Every error of GetActiveForPerson
\* counts as "no active membership".
CheckMembership(r) ==
    /\ pc[r] = "membership"
    /\ \/ person.tenant = families[fam[r]].tenant /\ Goto(r, "issue") /\ UNCHANGED why
       \/ /\ person.tenant \notin {None, families[fam[r]].tenant}
          /\ RevokeBecause(r, "active-membership-changed-tenant")
       \/ RevokeBecause(r, "no-active-membership")
    /\ UNCHANGED <<store, person, expired, tok, fam, late, todo, mem, scope, stamp>>

RevokeSession(r) ==
    /\ Start(r)
    /\ \E f \in Logins : fam' = [fam EXCEPT ![r] = f]
    /\ RevokeBecause(r, "revoked_by_request")
    /\ UNCHANGED <<store, person, expired, tok, late, todo, mem, scope, stamp>>

SignOut(r) ==
    /\ Start(r)
    /\ why' = [why EXCEPT ![r] = "revoked_by_request"]
    /\ Goto(r, "list")
    /\ UNCHANGED <<store, person, expired, tok, fam, late, todo, mem, scope, stamp>>

\* A password or e-mail change, a suspension or an anonymisation: the stamp
\* rotates and the event starts the cascade.  Only an anonymisation clears
\* is_active, and for good.
SecurityChange(r) ==
    /\ Start(r)
    /\ person.active
    /\ \E active \in BOOLEAN :
          person' = [person EXCEPT !.stamp = @ + 1, !.active = active]
    /\ stamp' = [stamp EXCEPT ![r] = person.stamp + 1]
    /\ why' = [why EXCEPT ![r] = "security_change"]
    /\ Goto(r, "list")
    /\ UNCHANGED <<store, expired, tok, fam, late, todo, mem, scope>>

\* MembershipDeactivated: only this tenant's families.
DeactivateMembership(r) ==
    /\ Start(r)
    /\ person.tenant # None
    /\ person' = [person EXCEPT !.tenant = None]
    /\ scope' = [scope EXCEPT ![r] = person.tenant]
    /\ stamp' = [stamp EXCEPT ![r] = person.stamp]
    /\ why' = [why EXCEPT ![r] = "security_change"]
    /\ Goto(r, "list")
    /\ UNCHANGED <<store, expired, tok, fam, late, todo, mem>>

ActivateMembership ==
    /\ person.tenant = None
    /\ \E t \in Tenants : person' = [person EXCEPT !.tenant = t]
    /\ UNCHANGED <<store, expired, pc, handler>>

Active == {f \in Logins : families[f] # NoRow /\ families[f].revoked = "no"}
ActiveOf(r) == IF scope[r] = None THEN Active ELSE {f \in Active : families[f].tenant = scope[r]}

\* ListActiveForPerson; a sign-out may keep one family.
List(r) ==
    /\ pc[r] = "list"
    /\ \/ todo' = [todo EXCEPT ![r] = ActiveOf(r)]
       \/ r \in SignOuts /\ \E f \in Active : todo' = [todo EXCEPT ![r] = Active \ {f}]
    /\ Goto(r, "next")
    /\ UNCHANGED <<store, person, expired, tok, fam, why, late, mem, scope, stamp>>

\* Fault: the loop ends after the first family.
NextFamilyOnce(r) ==
    /\ pc[r] = "next"
    /\ \/ todo[r] = {} /\ Goto(r, "ok") /\ UNCHANGED <<fam, todo>>
       \/ \E f \in todo[r] :
             /\ fam' = [fam EXCEPT ![r] = f]
             /\ todo' = [todo EXCEPT ![r] = {}]
             /\ Goto(r, "family")
    /\ UNCHANGED <<store, person, expired, tok, why, late, mem, scope, stamp>>

\* The loop over the listed families.
NextFamily(r) ==
    /\ pc[r] = "next"
    /\ \/ todo[r] = {} /\ Goto(r, "ok") /\ UNCHANGED <<fam, todo>>
       \/ \E f \in todo[r] :
             /\ fam' = [fam EXCEPT ![r] = f]
             /\ todo' = [todo EXCEPT ![r] = @ \ {f}]
             /\ Goto(r, "family")
    /\ UNCHANGED <<store, person, expired, tok, why, late, mem, scope, stamp>>

Expire(t) ==
    /\ tokens[t] # NoRow
    /\ expired' = expired \cup {t}
    /\ UNCHANGED <<store, person, pc, handler>>

-----------------------------------------------------------------------------
Init ==
    /\ limit \in Limits
    /\ families = [f \in Logins |-> NoRow]
    /\ tokens = [t \in Tokens |-> NoRow]
    /\ outbox = {}
    /\ person \in [active : {TRUE}, tenant : Tenants, stamp : {0}]
    /\ expired = {}
    /\ lock = [f \in Logins |-> Free]
    /\ pc = [r \in Requests |-> "idle"]
    /\ tok = [r \in Requests |-> None]
    /\ fam = [r \in Requests |-> None]
    /\ why = [r \in Requests |-> "rotate"]
    /\ late = [r \in Requests |-> FALSE]
    /\ todo = [r \in Requests |-> {}]
    /\ mem = [r \in Requests |-> NoRow]
    /\ scope = [r \in Requests |-> None]
    /\ stamp = [r \in Requests |-> 0]

UpdateByID(r) ==
    ReadFamily(r) \/ ReadTokens(r) \/ UpdateFamily(r) \/ Commit(r) \/ Abort(r)

Next ==
    /\ UNCHANGED limit
    /\ \/ \E r \in Logins : Login(r) \/ AddFamily(r)
       \/ \E r \in Refreshes \cup Logouts : Present(r) \/ Lookup(r)
       \/ \E r \in Refreshes : CheckPerson(r) \/ CheckMembership(r)
       \/ \E r \in Tokens : Issue(r)
       \/ \E r \in SessionRevokes : RevokeSession(r)
       \/ \E r \in SignOuts : SignOut(r)
       \/ \E r \in Cascades : SecurityChange(r) \/ DeactivateMembership(r)
       \/ \E r \in Batches : List(r) \/ NextFamily(r)
       \/ \E r \in Requests \ Logins : UpdateByID(r)
       \/ \E t \in Tokens : Expire(t)
       \/ ActivateMembership

Spec == Init /\ [][Next]_vars

-----------------------------------------------------------------------------
(* Properties.                                                              *)

LiveTokens(f) == {t \in Tokens : tokens[t] # NoRow /\ tokens[t].family = f /\ tokens[t].next = Live}

\* A family is one chain of generations however requests interleave: its first
\* token is generation 0, and a consumed token points at a stored token of the
\* same family and the next generation (Family.Rotate, upsertFamilyTokens'
\* reverse order, the replaced_by_id foreign key).  If requests come one at a time,
\* the chain of an active family has one end: "There is exactly one such token at any
\* time on a non-revoked family" (refreshtoken.Family).  Two refreshes of one token
\* that overlap both rotate it.
ChainIsLinked ==
    /\ TypeOK
    /\ \A t \in Tokens : tokens[t] # NoRow =>
         /\ families[tokens[t].family] # NoRow
         /\ tokens[t].generation = 0 <=> t = tokens[t].family
         /\ tokens[t].next # Live =>
               /\ tokens[tokens[t].next] # NoRow
               /\ tokens[tokens[t].next].family = tokens[t].family
               /\ tokens[tokens[t].next].generation = tokens[t].generation + 1
    /\ limit = 1 => \A f \in Active : \E t \in Tokens : LiveTokens(f) = {t}

\* If requests come one at a time, what must end a session has ended it.  A refresh
\* refused for a token that another refresh had consumed has revoked the family
\* (Rotate's reuse branch, which Refresh persists).  When the subscriber of a security
\* change is done, no family of a login that was verified against the earlier
\* credentials is active (RevokeFamiliesOnSecurityChange: "MUST revoke every
\* refresh-token family"); a login between its password check and its insert escapes.
CompromiseEndsSessions ==
    limit = 1 =>
      /\ \A r \in Refreshes : pc[r] = "rejected" /\ tok[r] # None =>
           tokens[tok[r]].next \in {Live, r} \/ families[tokens[tok[r]].family].revoked # "no"
      /\ \A c \in Cascades : pc[c] = "ok" /\ scope[c] = None =>
           \A f \in Active : stamp[f] >= stamp[c]

\* If requests come one at a time, nothing that ended a token is undone: a revoked family
\* stays revoked, so that every later Rotate returns ErrRevoked (Family.Revoke), and a
\* consumed token stays consumed by the same successor, which is what reuse detection
\* recognises it by (Family.Rotate, UpsertRefreshToken).  A refresh that overlaps a
\* revocation writes revoked_at back as NULL.
EndedStaysEnded ==
    [][limit = 1 =>
         /\ \A f \in Logins : families[f] # NoRow /\ families[f].revoked # "no"
               => families'[f].revoked # "no"
         /\ \A t \in Tokens : tokens[t] # NoRow /\ tokens[t].next # Live
               => tokens'[t].next = tokens[t].next]_vars
====
