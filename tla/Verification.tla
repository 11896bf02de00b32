---- MODULE Verification ----
(***************************************************************************)
(* The platform module's work queue: agents call unverified contacts,      *)
(* verify them into marketplace leads, reject them or log a call           *)
(* (internal/platform/domain/unverifiedcontact, app/command; ADR 0059).    *)
(*                                                                         *)
(* UpdateByID loads a row without locking it and later writes the whole    *)
(* row back; the UPDATE takes the row lock and keeps it until the end of   *)
(* the transaction.  Writes become visible at Commit.                      *)
(***************************************************************************)
EXTENDS Naturals, FiniteSets

CONSTANTS
    Contacts,
    Verifies, Rejects, Calls, \* requests; a verify request names the lead it mints
    VerifyLimits,             \* bounds: how many requests are handled at the same time
    NoContact, NoLead, Free, NoCommand

Requests == Verifies \cup Rejects \cup Calls

\* The window a call command carries: none, one that starts in the future, or
\* one that does not.
Windows == {"none", "future", "past"}
AgentCommands == [contact : Contacts, outcome : {"busy", "other"}, window : Windows]

Aggregates == [state : {"new", "in_call", "busy", "verified", "rejected"},
               lead : Verifies \cup {NoLead}, window : BOOLEAN, reason : BOOLEAN]

VerificationAssumption ==
    /\ NoContact \notin Aggregates /\ NoLead \notin Verifies
    /\ Free \notin Requests /\ NoCommand \notin AgentCommands
    /\ Verifies \cap Rejects = {} /\ Verifies \cap Calls = {} /\ Rejects \cap Calls = {}
    /\ VerifyLimits \subseteq Nat

VARIABLES
    verifyLimit,    \* how many requests the server handles at the same time
    contacts,       \* platform.unverified_contacts
    minted,         \* platform.platform_leads
    callLog,        \* platform.verification_calls
    announced,      \* every event ever written to common.outbox
    lock,           \* the transaction that holds a contact's row
    agentStep, arg, \* where each handler is, and its command
    decided         \* the aggregate in each handler's memory

verifyVars == <<verifyLimit, contacts, minted, callLog, announced, lock, agentStep, arg, decided>>

InTx == {"guard", "load", "update", "commit"}
Outcomes == {"ok", "terminal", "invalid", "notFound", "aborted"}

VerifyTypeOK ==
    /\ verifyLimit \in VerifyLimits
    /\ contacts \in [Contacts -> Aggregates \cup {NoContact}]
    /\ minted \subseteq [id : Verifies, contact : Contacts]
    /\ callLog \subseteq [id : Calls, contact : Contacts, outcome : {"busy", "other"}]
    /\ announced \subseteq [type : {"ContactCreated"}, id : Contacts]
                           \cup [type : {"CallLogged"}, id : Calls]
                           \cup [type : {"LeadVerified"}, id : Verifies]
    /\ lock \in [Contacts -> Requests \cup {Free}]
    /\ agentStep \in [Requests -> {"idle"} \cup InTx \cup Outcomes]
    /\ arg \in [Requests -> AgentCommands \cup {NoCommand}]
    /\ \A r \in Requests : agentStep[r] # "idle" => arg[r] \in AgentCommands
    /\ decided \in [Requests -> Aggregates \cup {NoContact}]

-----------------------------------------------------------------------------
(* The aggregate UnverifiedContact.  Each transition is a predicate that    *)
(* says when it is allowed and the aggregate it makes.                      *)

New == [state |-> "new", lead |-> NoLead, window |-> FALSE, reason |-> FALSE]

\* Fault: an old callback window stays.
StartCallKeepsWindow(c) == [c EXCEPT !.state = "in_call"]

StartCall(c) == [c EXCEPT !.state = "in_call", !.window = (c.state = "in_call") /\ @]

MayMarkVerified(c) == c.state \in {"in_call", "verified"}
MarkVerified(c, lead) ==
    IF c.state = "verified" THEN c ELSE [c EXCEPT !.state = "verified", !.lead = lead]

MayMarkRejected(c) == c.state \in {"in_call", "rejected"}
MarkRejected(c) ==
    IF c.state = "rejected" THEN c ELSE [c EXCEPT !.state = "rejected", !.reason = TRUE]

MayMarkBusy(c, window) == window = "future" /\ c.state = "in_call"
MarkBusy(c) == [c EXCEPT !.state = "busy", !.window = TRUE]

\* verificationcall.New: a window exactly with the busy outcome.
ValidCall(cmd) == (cmd.outcome = "busy") <=> (cmd.window # "none")

-----------------------------------------------------------------------------
(* What the handlers' update functions make of the loaded aggregate.        *)

\* Fault: a call opens the contact again, whatever was decided.
CalledAnew(c) == [New EXCEPT !.state = "in_call"]

Called(c) == IF c.state \in {"new", "busy"} THEN StartCall(c) ELSE c
Promoted(c) == IF c.state = "new" THEN StartCall(c) ELSE c

Accepts(r, c) ==
    \/ r \in Verifies /\ MayMarkVerified(Promoted(c))
    \/ r \in Rejects /\ MayMarkRejected(Promoted(c))
    \/ r \in Calls /\ (arg[r].outcome = "busy" => MayMarkBusy(Called(c), arg[r].window))

Updated(r, c) ==
    IF r \in Verifies THEN MarkVerified(Promoted(c), r)
    ELSE IF r \in Rejects THEN MarkRejected(Promoted(c))
    ELSE IF arg[r].outcome = "busy" THEN MarkBusy(Called(c)) ELSE Called(c)

-----------------------------------------------------------------------------
(* Transactions.                                                            *)

Unlock(r) == lock' = [c \in Contacts |-> IF lock[c] = r THEN Free ELSE lock[c]]

End(r, outcome) ==
    /\ agentStep' = [agentStep EXCEPT ![r] = outcome]
    /\ Unlock(r)
    /\ UNCHANGED <<contacts, minted, callLog, announced, arg, decided>>

AbortDecision(r) == agentStep[r] \in InTx /\ End(r, "aborted")

\* Only a call command has an outcome and a window.
CommandsOf(r) ==
    {cmd \in AgentCommands : r \in Calls \/ (cmd.outcome = "other" /\ cmd.window = "none")}

\* Whether one more request may be handled: one at a time, only when no other is.
MayBegin ==
    IF verifyLimit = 1 THEN \A q \in Requests : agentStep[q] \notin InTx
    ELSE Cardinality({q \in Requests : agentStep[q] \in InTx}) < verifyLimit

StartDecision(r, first) ==
    /\ agentStep[r] = "idle" /\ MayBegin
    /\ agentStep' = [agentStep EXCEPT ![r] = first]
    /\ \E cmd \in CommandsOf(r) : arg' = [arg EXCEPT ![r] = cmd]
    /\ UNCHANGED <<contacts, minted, callLog, announced, lock, decided>>

\* CreateUnverifiedContactHandler: one INSERT and its event.
Create(c) ==
    /\ contacts[c] = NoContact
    /\ contacts' = [contacts EXCEPT ![c] = New]
    /\ announced' = announced \cup {[type |-> "ContactCreated", id |-> c]}
    /\ UNCHANGED <<minted, callLog, lock, agentStep, arg, decided>>

\* VerifyUnverifiedContactHandler reads the row once before it updates it.
Guard(r) ==
    LET row == contacts[arg[r].contact]
    IN  /\ agentStep[r] = "guard"
        /\ \/ row = NoContact /\ End(r, "notFound")
           \/ row # NoContact /\ row.state \in {"verified", "rejected"} /\ End(r, "terminal")
           \/ /\ row # NoContact /\ row.state \notin {"verified", "rejected"}
              /\ agentStep' = [agentStep EXCEPT ![r] = "load"]
              /\ UNCHANGED <<contacts, minted, callLog, announced, lock, arg, decided>>

\* UpdateByID: SELECT, then the handler's update function on the aggregate.
LoadContact(r) ==
    LET row == contacts[arg[r].contact]
    IN  /\ agentStep[r] = "load"
        /\ \/ row = NoContact /\ End(r, "notFound")
           \/ row # NoContact /\ ~Accepts(r, row) /\ End(r, "invalid")
           \/ /\ row # NoContact /\ Accepts(r, row)
              /\ agentStep' = [agentStep EXCEPT ![r] = "update"]
              /\ decided' = [decided EXCEPT ![r] = Updated(r, row)]
              /\ UNCHANGED <<contacts, minted, callLog, announced, lock, arg>>

\* UPDATE ... WHERE id = $1 waits for the row and holds it.
Update(r) ==
    /\ agentStep[r] = "update" /\ lock[arg[r].contact] = Free
    /\ agentStep' = [agentStep EXCEPT ![r] = "commit"]
    /\ lock' = [lock EXCEPT ![arg[r].contact] = r]
    /\ UNCHANGED <<contacts, minted, callLog, announced, arg, decided>>

\* The rest of the handler's transaction and COMMIT.
Commit(r) ==
    /\ agentStep[r] = "commit"
    /\ contacts' = [contacts EXCEPT ![arg[r].contact] = decided[r]]
    /\ agentStep' = [agentStep EXCEPT ![r] = "ok"]
    /\ Unlock(r)
    /\ UNCHANGED <<arg, decided>>

VerifyCommit(r) ==
    /\ Commit(r)
    /\ minted' = minted \cup {[id |-> r, contact |-> arg[r].contact]}
    /\ announced' = announced \cup {[type |-> "LeadVerified", id |-> r]}
    /\ UNCHANGED callLog

RejectCommit(r) == Commit(r) /\ UNCHANGED <<minted, callLog, announced>>

\* The call is built after the row was updated; if it is invalid all is undone.
CallCommit(r) ==
    \/ /\ agentStep[r] = "commit" /\ ValidCall(arg[r])
       /\ Commit(r)
       /\ callLog' = callLog \cup {[id |-> r, contact |-> arg[r].contact,
                                    outcome |-> arg[r].outcome]}
       /\ announced' = announced \cup {[type |-> "CallLogged", id |-> r]}
       /\ UNCHANGED minted
    \/ agentStep[r] = "commit" /\ ~ValidCall(arg[r]) /\ End(r, "invalid")

-----------------------------------------------------------------------------
VerifyInit ==
    /\ verifyLimit \in VerifyLimits
    /\ contacts = [c \in Contacts |-> NoContact]
    /\ minted = {} /\ callLog = {} /\ announced = {}
    /\ lock = [c \in Contacts |-> Free]
    /\ agentStep = [r \in Requests |-> "idle"]
    /\ arg = [r \in Requests |-> NoCommand]
    /\ decided = [r \in Requests |-> NoContact]

VerifyStep(r) == Guard(r) \/ LoadContact(r) \/ Update(r) \/ VerifyCommit(r)
RejectStep(r) == LoadContact(r) \/ Update(r) \/ RejectCommit(r)
CallStep(r) == LoadContact(r) \/ Update(r) \/ CallCommit(r)

VerifyNext ==
    /\ UNCHANGED verifyLimit
    /\ \/ \E c \in Contacts : Create(c)
       \/ \E r \in Verifies : StartDecision(r, "guard") \/ VerifyStep(r)
       \/ \E r \in Rejects : StartDecision(r, "load") \/ RejectStep(r)
       \/ \E r \in Calls : StartDecision(r, "load") \/ CallStep(r)
       \/ \E r \in Requests : AbortDecision(r)

VerifySpec == VerifyInit /\ [][VerifyNext]_verifyVars

-----------------------------------------------------------------------------
(* Properties.                                                              *)

\* Whoever overwrites whom, a row is one agent's decision and not a mix of two: it has
\* a lead exactly when verified, a reason exactly when rejected and a callback window
\* exactly when busy (updateUnverifiedContactRow writes all).  The lead of a verified
\* contact is a marketplace lead made from that contact, and LeadVerifiedV1 is
\* announced exactly for the leads, a call exactly when it is logged (one transaction).
DecisionIsWhole ==
    /\ VerifyTypeOK
    /\ \A c \in Contacts : contacts[c] # NoContact =>
         /\ contacts[c].lead # NoLead <=> contacts[c].state = "verified"
         /\ contacts[c].reason <=> contacts[c].state = "rejected"
         /\ contacts[c].window <=> contacts[c].state = "busy"
         /\ contacts[c].state = "verified" => [id |-> contacts[c].lead, contact |-> c] \in minted
    /\ {l.id : l \in minted} = {e.id : e \in {e \in announced : e.type = "LeadVerified"}}
    /\ {k.id : k \in callLog} = {e.id : e \in {e \in announced : e.type = "CallLogged"}}

\* If requests come one at a time, verified and rejected are final: no later step
\* changes such a row (MarkVerified, MarkRejected, StartCall), and none makes a second
\* lead of the contact, "a phantom marketplace row" (verify_unverified_contact.go).
\* Requests that overlap write back rows that are older than the decision, and
\* overlapping verifications both pass the guard.
DecisionIsFinal ==
    [][verifyLimit = 1 =>
         /\ \A c \in Contacts :
              contacts[c] # NoContact /\ contacts[c].state \in {"verified", "rejected"}
                => contacts'[c] = contacts[c]
         /\ \A l \in minted' \ minted : \A k \in minted : k.contact # l.contact]_verifyVars
====
