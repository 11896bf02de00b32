---- MODULE Inbox ----
(***************************************************************************)
(* Notifications (internal/notifications): an inbox per recipient.  The    *)
(* module has a domain and an in-memory repository; a notification that    *)
(* names its source is refused while another one of the same recipient,    *)
(* category and source is younger than the deduplication window.           *)
(***************************************************************************)
EXTENDS Integers, FiniteSets

CONSTANTS
    Notices,        \* ids
    Recipients, Categories, Sources,
    DedupWindow,
    MaxAge,         \* bound: the clock
    NoSource, NoNotice

VARIABLES
    age,            \* the clock
    inbox,          \* notifications
    told            \* events: id, kind, time

inboxVars == <<age, inbox, told>>

NoticeStates == {"unread", "read", "dismissed"}
Rows == [recipient : Recipients, category : Categories, source : Sources \cup {NoSource}, state : NoticeStates,
         created : 0 .. MaxAge, readAt : -1 .. MaxAge, dismissedAt : -1 .. MaxAge]

ASSUME InboxAssumption == DedupWindow \in Nat /\ MaxAge \in Nat /\ NoNotice \notin Rows

InboxTypeOK == \A n \in Notices : inbox[n] # NoNotice => inbox[n] \in Rows

Tell(n, kind) == told' = told \cup {<<n, kind, age>>}

\* Fault: read notifications do not count.
DuplicateUnread(r) ==
    \E n \in Notices : /\ inbox[n] # NoNotice
                       /\ inbox[n].state = "unread"
                       /\ [inbox[n] EXCEPT !.state = r.state, !.created = r.created] = r
                       /\ inbox[n].created > r.created - DedupWindow

\* Repository.Add
Duplicate(r) ==
    \E n \in Notices : /\ inbox[n] # NoNotice
                       /\ inbox[n].recipient = r.recipient /\ inbox[n].category = r.category
                       /\ inbox[n].source = r.source
                       /\ inbox[n].created > r.created - DedupWindow

NewNotice(recipient, category, source) ==
    [recipient |-> recipient, category |-> category, source |-> source, state |-> "unread", created |-> age,
     readAt |-> -1, dismissedAt |-> -1]

Notify(n) ==
    \E recipient \in Recipients, category \in Categories, source \in Sources \cup {NoSource} :
        LET r == NewNotice(recipient, category, source) IN
        /\ inbox[n] = NoNotice
        /\ source # NoSource => ~ Duplicate(r)
        /\ inbox' = [inbox EXCEPT ![n] = r]
        /\ Tell(n, "created")
        /\ UNCHANGED age

Read(r) == [r EXCEPT !.state = "read", !.readAt = age]

\* A notification that is read already is left alone, a dismissed one is refused.
MarkRead(n) ==
    /\ inbox[n] # NoNotice /\ (inbox[n] # NoNotice => inbox[n].state = "unread")
    /\ inbox' = [inbox EXCEPT ![n] = Read(@)]
    /\ Tell(n, "read")
    /\ UNCHANGED age

Dismiss(n) ==
    /\ inbox[n] # NoNotice /\ (inbox[n] # NoNotice => inbox[n].state # "dismissed")
    /\ inbox' = [inbox EXCEPT ![n] = [@ EXCEPT !.state = "dismissed", !.dismissedAt = age]]
    /\ Tell(n, "dismissed")
    /\ UNCHANGED age

\* UpdateAllUnreadForRecipient
Unread(recipient) ==
    {n \in Notices : inbox[n] # NoNotice /\ (inbox[n] # NoNotice => inbox[n].recipient = recipient /\ inbox[n].state = "unread")}

MarkAllRead(recipient) ==
    /\ Unread(recipient) # {}
    /\ inbox' = [n \in Notices |-> IF n \in Unread(recipient) THEN Read(inbox[n]) ELSE inbox[n]]
    /\ told' = told \cup {<<n, "read", age>> : n \in Unread(recipient)}
    /\ UNCHANGED age

GrowOlder == age < MaxAge /\ age' = age + 1 /\ UNCHANGED <<inbox, told>>

InboxInit == age = 0 /\ inbox = [n \in Notices |-> NoNotice] /\ told = {}

InboxNext ==
    \/ \E n \in Notices : Notify(n) \/ MarkRead(n) \/ Dismiss(n)
    \/ \E recipient \in Recipients : MarkAllRead(recipient)
    \/ GrowOlder

InboxSpec == InboxInit /\ [][InboxNext]_inboxVars

-----------------------------------------------------------------------------
(* Properties.                                                              *)

\* Two notifications of one recipient, category and source are at least a deduplication
\* window apart, whatever was read or dismissed in between, and each of them is read and
\* dismissed at most once, at the time it carries.
OneNoticePerWindow ==
    /\ InboxTypeOK
    /\ \A m, n \in Notices : m # n /\ inbox[m] # NoNotice /\ inbox[n] # NoNotice =>
          LET a == inbox[m]
              b == inbox[n]
          IN a.source # NoSource /\ a.source = b.source /\ a.recipient = b.recipient /\ a.category = b.category
                => a.created - b.created >= DedupWindow \/ b.created - a.created >= DedupWindow
    /\ \A n \in Notices : inbox[n] # NoNotice =>
          /\ \A e \in told : e[1] = n /\ e[2] = "read" => e[3] = inbox[n].readAt
          /\ \A e \in told : e[1] = n /\ e[2] = "dismissed" => e[3] = inbox[n].dismissedAt
          /\ (inbox[n].state = "dismissed") <=> (inbox[n].dismissedAt # -1)
====
