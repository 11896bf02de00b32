---- MODULE Accounts ----
(***************************************************************************)
(* One account of the identity module, the aggregate Person: password      *)
(* changes and resets, e-mail changes, suspension, anonymisation, profile  *)
(* updates and the login gate (internal/identity/domain/person,            *)
(* app/command, adapters/person_repository_pg).                            *)
(*                                                                         *)
(* Most handlers first read the account outside a transaction and check    *)
(* their gates.  PersonRepository.UpdateByID then loads the row again, not *)
(* locked, and writes every column back; the UPDATE takes the row lock.    *)
(***************************************************************************)
EXTENDS Naturals, FiniteSets

CONSTANTS
    AccountRequests, \* each names the password, stamp, address or token it makes
    AccountLimits,   \* bounds: how many requests are handled at the same time
    Initial,         \* the password, stamp and address of the new account
    NoToken, Unlocked, NoPerson

Confirmations == {"confirmReset", "confirmEmail"}
Gated == Confirmations \cup {"changePassword", "requestReset", "requestEmail"}
Ops == Gated \cup {"profile", "suspend", "lift", "anonymise", "login"}

Persons == [name : {"own", "anonymised"}, active : BOOLEAN, anonymised : BOOLEAN,
            suspended : BOOLEAN, mustChange : BOOLEAN,
            password : AccountRequests \cup {Initial}, stamp : AccountRequests \cup {Initial},
            email : AccountRequests \cup {Initial},
            reset : AccountRequests \cup {NoToken}, change : AccountRequests \cup {NoToken}]

AccountsAssumption ==
    /\ {Initial, NoToken, Unlocked} \cap AccountRequests = {}
    /\ NoPerson \notin Persons
    /\ AccountLimits \subseteq Nat

VARIABLES
    accountLimit,  \* how many requests the server handles at the same time
    row,           \* the account's row of identity.persons
    accountEvents, \* every event ever written to common.outbox: [type, by]
    lapsed,        \* mailed tokens past their expiry
    rowLock,       \* the transaction that holds the row
    step, op,      \* where each handler is, and what it was asked to do
    token,         \* the token a confirmation presents
    wasLate,       \* that token was expired at the handler's now
    copy,          \* the aggregate in its memory
    dead           \* history: reset tokens that were used, replaced or cancelled

accountVars == <<accountLimit, row, accountEvents, lapsed, rowLock, step, op, token, wasLate, copy, dead>>

Updating == {"load", "update", "commit"}
Handling == Updating \cup {"check"}
EventTypes == {"ProfileUpdated", "PasswordChanged", "ResetRequested", "ResetConfirmed",
               "ResetCancelled", "EmailChangeRequested", "EmailChanged",
               "Suspended", "SuspensionLifted", "Anonymised"}

AccountTypeOK ==
    /\ accountLimit \in AccountLimits
    /\ row \in Persons
    /\ accountEvents \subseteq [type : EventTypes, by : AccountRequests]
    /\ lapsed \subseteq AccountRequests
    /\ rowLock \in AccountRequests \cup {Unlocked}
    /\ step \in [AccountRequests -> {"idle", "ok", "rejected", "error"} \cup Handling]
    /\ op \in [AccountRequests -> Ops]
    /\ token \in [AccountRequests -> AccountRequests \cup {NoToken}]
    /\ wasLate \in [AccountRequests -> BOOLEAN]
    /\ copy \in [AccountRequests -> [person : Persons, events : SUBSET EventTypes] \cup {NoPerson}]
    /\ dead \subseteq AccountRequests

-----------------------------------------------------------------------------
(* The aggregate Person.  A method yields the set of its possible results:  *)
(* Refused, or the account and the events it records.  The request r that   *)
(* calls it names the password, stamp, address or token it makes.           *)

Refused == [person |-> NoPerson, events |-> {}]
Result(p, events) == [person |-> p, events |-> events]
Unchanged(p) == Result(p, {})
If(allowed, result) == {IF allowed THEN result ELSE Refused}

\* Neither anonymised nor suspended: the gate of every self-service method.
Reachable(p) == ~p.anonymised /\ ~p.suspended

\* A name equal to the current one is no change.
UpdatePersonProfile(p) ==
    IF p.anonymised THEN {Refused} ELSE {Result(p, {"ProfileUpdated"}), Unchanged(p)}

\* Fault: the pending reset survives a direct change.
ChangePasswordKeepsReset(p, r) ==
    {Result([p EXCEPT !.password = r, !.stamp = r, !.mustChange = FALSE], {"PasswordChanged"})}

\* ChangePassword, then CancelPasswordReset.
ChangePassword(p, r) ==
    {Result([p EXCEPT !.password = r, !.stamp = r, !.mustChange = FALSE, !.reset = NoToken],
            {"PasswordChanged"} \cup IF p.reset = NoToken THEN {} ELSE {"ResetCancelled"})}

RequestPasswordReset(p, r) ==
    If(Reachable(p), Result([p EXCEPT !.reset = r], {"ResetRequested"}))

ConfirmPasswordReset(p, r, t, isLate) ==
    If(Reachable(p) /\ p.reset = t /\ t # NoToken /\ ~isLate,
       Result([p EXCEPT !.password = r, !.stamp = r, !.mustChange = FALSE, !.reset = NoToken],
              {"ResetConfirmed", "PasswordChanged"}))

RequestEmailChange(p, r) ==
    If(Reachable(p), Result([p EXCEPT !.change = r], {"EmailChangeRequested"}))

\* Fault: the security stamp survives the change of address.
ConfirmEmailChangeKeepsStamp(p, r, t, isLate) ==
    If(Reachable(p) /\ p.change = t /\ t # NoToken /\ ~isLate,
       Result([p EXCEPT !.email = t, !.change = NoToken], {"EmailChanged"}))

ConfirmEmailChange(p, r, t, isLate) ==
    If(Reachable(p) /\ p.change = t /\ t # NoToken /\ ~isLate,
       Result([p EXCEPT !.email = t, !.stamp = r, !.change = NoToken], {"EmailChanged"}))

\* A suspended account accepts a second suspension for the same reason only.
GloballySuspend(p, r) ==
    IF p.anonymised THEN {Refused}
    ELSE IF p.suspended THEN {Unchanged(p), Refused}
    ELSE {Result([p EXCEPT !.suspended = TRUE, !.stamp = r], {"Suspended"})}

\* Fault: lifting a suspension activates the account whatever its state.
LiftRestores(p) ==
    {Result([p EXCEPT !.suspended = FALSE, !.active = TRUE], {"SuspensionLifted"})}

LiftGlobalSuspension(p) ==
    {IF p.suspended THEN Result([p EXCEPT !.suspended = FALSE], {"SuspensionLifted"})
     ELSE Unchanged(p)}

Anonymise(p, r) ==
    {IF p.anonymised THEN Unchanged(p)
     ELSE Result([p EXCEPT !.name = "anonymised", !.active = FALSE, !.anonymised = TRUE,
                           !.stamp = r],
                 {"Anonymised"})}

Results(r, p) ==
    CASE op[r] = "profile"        -> UpdatePersonProfile(p)
      [] op[r] = "changePassword" -> ChangePassword(p, r)
      [] op[r] = "requestReset"   -> RequestPasswordReset(p, r)
      [] op[r] = "confirmReset"   -> ConfirmPasswordReset(p, r, token[r], wasLate[r])
      [] op[r] = "requestEmail"   -> RequestEmailChange(p, r)
      [] op[r] = "confirmEmail"   -> ConfirmEmailChange(p, r, token[r], wasLate[r])
      [] op[r] = "suspend"        -> GloballySuspend(p, r)
      [] op[r] = "lift"           -> LiftGlobalSuspension(p)
      [] op[r] = "anonymise"      -> Anonymise(p, r)

-----------------------------------------------------------------------------
(* Requests.                                                                *)

Proceed(r, next) == step' = [step EXCEPT ![r] = next]

\* The tokens mailed by completed requests of one kind.
Mailed(kind) == {q \in AccountRequests : op[q] = kind /\ step[q] = "ok"}

Presentable(o) ==
    {NoToken} \cup (IF o = "confirmReset" THEN Mailed("requestReset")
                    ELSE IF o = "confirmEmail" THEN Mailed("requestEmail") ELSE {})

\* Whether one more request may be handled: one at a time, only when no other is.
MayStart ==
    IF accountLimit = 1 THEN \A q \in AccountRequests : step[q] \notin Handling
    ELSE Cardinality({q \in AccountRequests : step[q] \in Handling}) < accountLimit

StartRequest(r) ==
    /\ step[r] = "idle" /\ MayStart
    /\ \E o \in Ops : \E t \in Presentable(o) :
          /\ op' = [op EXCEPT ![r] = o]
          /\ token' = [token EXCEPT ![r] = t]
          /\ Proceed(r, IF o \in Gated \cup {"login"} THEN "check" ELSE "load")
    /\ UNCHANGED <<row, accountEvents, lapsed, rowLock, wasLate, copy, dead>>

\* What a handler reads and checks before its transaction.  LoginHandler looks at
\* is_active and is_anonymised.
Passes(r) ==
    IF op[r] = "login" THEN row.active /\ ~row.anonymised
    ELSE /\ Reachable(row)
         /\ op[r] = "confirmReset" => token[r] # NoToken /\ row.reset = token[r]
         /\ op[r] = "confirmEmail" => token[r] # NoToken /\ row.change = token[r]

Check(r) ==
    /\ step[r] = "check"
    /\ \/ Passes(r) /\ Proceed(r, IF op[r] = "login" THEN "ok" ELSE "load")
       \/ ~Passes(r) /\ Proceed(r, "rejected")
    /\ wasLate' = [wasLate EXCEPT ![r] = token[r] \in lapsed]
    /\ UNCHANGED <<row, accountEvents, lapsed, rowLock, op, token, copy, dead>>

\* UpdateByID: load the row and call the method; a refusal rolls back.
LoadAccount(r) ==
    /\ step[r] = "load"
    /\ \E result \in Results(r, row) :
          \/ result = Refused /\ Proceed(r, "rejected") /\ UNCHANGED copy
          \/ result # Refused /\ Proceed(r, "update") /\ copy' = [copy EXCEPT ![r] = result]
    /\ UNCHANGED <<row, accountEvents, lapsed, rowLock, op, token, wasLate, dead>>

Update(r) ==
    /\ step[r] = "update"
    /\ rowLock = Unlocked
    /\ rowLock' = r
    /\ Proceed(r, "commit")
    /\ UNCHANGED <<row, accountEvents, lapsed, op, token, wasLate, copy, dead>>

\* UPDATE of every column and the events.
CommitAccount(r) ==
    /\ step[r] = "commit"
    /\ row' = copy[r].person
    /\ accountEvents' = accountEvents \cup {[type |-> e, by |-> r] : e \in copy[r].events}
    /\ dead' = IF op[r] \in {"changePassword", "requestReset", "confirmReset"}
               THEN dead \cup Mailed("requestReset") ELSE dead
    /\ copy' = [copy EXCEPT ![r] = NoPerson]
    /\ rowLock' = Unlocked
    /\ Proceed(r, "ok")
    /\ UNCHANGED <<lapsed, op, token, wasLate>>

AbortRequest(r) ==
    /\ step[r] \in Updating
    /\ rowLock' = IF rowLock = r THEN Unlocked ELSE rowLock
    /\ copy' = [copy EXCEPT ![r] = NoPerson]
    /\ Proceed(r, "error")
    /\ UNCHANGED <<row, accountEvents, lapsed, op, token, wasLate, dead>>

ExpireToken(t) ==
    /\ t \in Mailed("requestReset") \cup Mailed("requestEmail")
    /\ lapsed' = lapsed \cup {t}
    /\ UNCHANGED <<row, accountEvents, rowLock, step, op, token, wasLate, copy, dead>>

\* An account created by an operator must change its password.
AccountInit ==
    /\ accountLimit \in AccountLimits
    /\ row \in [name : {"own"}, active : {TRUE}, anonymised : {FALSE}, suspended : {FALSE},
                mustChange : BOOLEAN, password : {Initial}, stamp : {Initial},
                email : {Initial}, reset : {NoToken}, change : {NoToken}]
    /\ accountEvents = {}
    /\ lapsed = {}
    /\ rowLock = Unlocked
    /\ step = [r \in AccountRequests |-> "idle"]
    /\ op = [r \in AccountRequests |-> "login"]
    /\ token = [r \in AccountRequests |-> NoToken]
    /\ wasLate = [r \in AccountRequests |-> FALSE]
    /\ copy = [r \in AccountRequests |-> NoPerson]
    /\ dead = {}

AccountNext ==
    /\ UNCHANGED accountLimit
    /\ \E r \in AccountRequests :
           \/ StartRequest(r) \/ Check(r) \/ LoadAccount(r) \/ Update(r) \/ CommitAccount(r)
           \/ AbortRequest(r) \/ ExpireToken(r)

AccountSpec == AccountInit /\ [][AccountNext]_accountVars

-----------------------------------------------------------------------------
(* Properties.                                                              *)

\* The type invariant, and every change has its event.
Announced ==
    /\ AccountTypeOK
    /\ row.password # Initial =>
          [type |-> "PasswordChanged", by |-> row.password] \in accountEvents /\ ~row.mustChange
    /\ row.email # Initial => \E e \in accountEvents : e.type = "EmailChanged"
    /\ row.suspended => \E e \in accountEvents : e.type = "Suspended"
    /\ row.anonymised => \E e \in accountEvents : e.type = "Anonymised"

\* Whatever overwrites whatever, whoever made the current password, address, suspension
\* or erasure has its event in the outbox, so that the cascade that revokes sessions runs
\* (drainPersonEvents runs in UpdateByID's transaction); and a change of password,
\* address or erasure always comes with another security stamp, so that tokens issued
\* before it stop working (ChangePassword, ConfirmPasswordReset, ConfirmEmailChange,
\* Anonymise).
CredentialChangeRotatesStamp ==
    [][/\ Announced'
       /\ \/ row'.stamp # row.stamp
          \/ <<row'.password, row'.email, row'.anonymised>>
               = <<row.password, row.email, row.anonymised>>]_accountVars

\* An erased account is inactive and nameless, whichever request wrote it last
\* (Anonymise, UpdateProfile's refusal).  Anonymisation is irreversible
\* (GloballySuspend's comment), if requests come one at a time: an update that loaded
\* the account before the erasure committed writes the personal data back.
ErasureIsFinal ==
    [][/\ row'.anonymised => ~row'.active /\ row'.name = "anonymised"
       /\ accountLimit = 1 /\ row.anonymised => row'.anonymised]_accountVars

\* If requests come one at a time, only the newest reset token works, and once ("The
\* pending reset is single-use"): no reset succeeds with a token that was used, replaced
\* by a newer request or cancelled by a direct password change (ConfirmPasswordReset,
\* RequestPasswordReset, ChangePasswordHandler's CancelPasswordReset).
OnlyNewestResetWorks ==
    [][accountLimit = 1 => \A r \in AccountRequests :
          op[r] = "confirmReset" /\ step[r] = "commit" /\ step'[r] = "ok"
             => token[r] \notin dead]_accountVars
====
