---- MODULE Dispatch ----
(***************************************************************************)
(* Consignment notes (internal/dispatch).  The subscriber of               *)
(* orders.order_packed makes one note per order, in one transaction that   *)
(* first looks for a note of the order; status transitions lock the note   *)
(* (SELECT ... FOR UPDATE), change it in memory, write it and its event.   *)
(* No host registers the subscriber and no module publishes the event yet, *)
(* so nothing is assumed about when, or whether, it is called again.       *)
(***************************************************************************)
EXTENDS Naturals, Sequences, FiniteSets

CONSTANTS
    Orders,
    Deliveries,  \* deliveries of order-packed messages; each names the note it makes
    OrderOf,
    Edits,       \* requests for a status transition
    Texts,       \* docket numbers and failure reasons
    MaxFailures, \* bound: failed statements
    NoRow, None

ASSUME DispatchAssumption ==
    /\ OrderOf \in [Deliveries -> Orders]
    /\ None \notin Texts \cup Deliveries \cup Edits
    /\ Deliveries \cap Edits = {}
    /\ MaxFailures \in Nat

Terminal == {"delivered", "failed"}
Status == {"pending", "dispatched", "in_transit"} \cup Terminal
Notes == [order : Orders, status : Status, docket : Texts \cup {None}, reason : Texts \cup {None}]

ASSUME NoRowAssumption == NoRow \notin Notes

\* What a message carries: no ids ("malformed"); boxes, weight or packer that no note may
\* have, or a delivery date that has passed ("unfit"); a date that is still to come
\* ("dated"); or none ("fit").
Contents == {"malformed", "unfit", "dated", "fit"}

Commands == [to : {"dispatched", "failed"}, text : Texts] \cup [to : {"in_transit", "delivered"}, text : {None}]

VARIABLES
    content, \* what each message carries
    notes,   \* dispatch.consignment_notes
    log,     \* the statuses that the outbox announced of each note, in order
    lock,    \* the row lock of each note
    pc, target, cmd, mem, \* of a request: the note, the command, the ConsignmentNote in memory
    failures

vars == <<content, notes, log, lock, pc, target, cmd, mem, failures>>

TypeOK ==
    /\ content \in [Deliveries -> Contents]
    /\ notes \in [Deliveries -> Notes \cup {NoRow}]
    /\ log \in [Deliveries -> Seq(Status)]
    /\ lock \in [Deliveries -> Edits \cup {None}]
    /\ pc \in [Deliveries \cup Edits ->
                 {"idle", "check", "insert", "existed", "aborted", "load", "save", "ok", "refused", "error"}]
    /\ target \in [Edits -> Deliveries \cup {None}]
    /\ cmd \in [Edits -> Commands \cup {None}]
    /\ mem \in [Edits -> Notes \cup {NoRow}]
    /\ failures \in 0 .. MaxFailures

Goto(r, next) == pc' = [pc EXCEPT ![r] = next]
GetByOrderID(o) == {n \in Deliveries : notes[n] # NoRow /\ notes[n].order = o}

-----------------------------------------------------------------------------
(* CreateConsignmentNote.                                                   *)

\* The ids are looked at first; who got an error may call again.
Deliver(d) ==
    /\ pc[d] \in {"idle", "aborted", "refused"}
    /\ Goto(d, IF content[d] = "malformed" THEN "refused" ELSE "check")
    /\ UNCHANGED <<content, notes, log, lock, target, cmd, mem, failures>>

\* The natural-key precheck.
Precheck(d) ==
    /\ pc[d] = "check"
    /\ Goto(d, IF GetByOrderID(OrderOf[d]) # {} THEN "existed" ELSE "insert")
    /\ UNCHANGED <<content, notes, log, lock, target, cmd, mem, failures>>

New(d) == [order |-> OrderOf[d], status |-> "pending", docket |-> None, reason |-> None]

\* Fault: the order is not unique.
AddAgain(d) ==
    /\ pc[d] = "insert"
    /\ IF content[d] = "unfit"
       THEN Goto(d, "refused") /\ UNCHANGED <<notes, log>>
       ELSE /\ notes' = [notes EXCEPT ![d] = New(d)]
            /\ log' = [log EXCEPT ![d] = <<"pending">>]
            /\ Goto(d, "ok")
    /\ UNCHANGED <<content, lock, target, cmd, mem, failures>>

\* New, which may refuse, Add and COMMIT.  The unique violation aborts the transaction,
\* so the query that looks for the other note fails too and the handler returns an error.
Add(d) ==
    /\ pc[d] = "insert"
    /\ IF content[d] = "unfit" \/ GetByOrderID(OrderOf[d]) # {}
       THEN /\ Goto(d, IF content[d] = "unfit" THEN "refused" ELSE "aborted")
            /\ UNCHANGED <<notes, log>>
       ELSE /\ notes' = [notes EXCEPT ![d] = New(d)]
            /\ log' = [log EXCEPT ![d] = <<"pending">>]
            /\ Goto(d, "ok")
    /\ UNCHANGED <<content, lock, target, cmd, mem, failures>>

\* The expected delivery is no longer in the future.
Lapse(d) ==
    /\ content[d] = "dated"
    /\ content' = [content EXCEPT ![d] = "unfit"]
    /\ UNCHANGED <<notes, log, lock, pc, target, cmd, mem, failures>>

\* A statement fails, or the message was handled and comes again.
Redeliver(d) ==
    /\ pc[d] \in {"check", "insert", "ok", "existed"}
    /\ failures < MaxFailures
    /\ failures' = failures + 1
    /\ Goto(d, "idle")
    /\ UNCHANGED <<content, notes, log, lock, target, cmd, mem>>

-----------------------------------------------------------------------------
(* Status transitions.                                                      *)

canAdvance(cur, to) ==
    <<cur, to>> \in {<<"pending", "dispatched">>, <<"pending", "failed">>,
                     <<"dispatched", "in_transit">>, <<"dispatched", "delivered">>,
                     <<"dispatched", "failed">>,
                     <<"in_transit", "delivered">>, <<"in_transit", "failed">>}

Start(e, n, c) ==
    /\ pc[e] = "idle" /\ notes[n] # NoRow
    /\ target' = [target EXCEPT ![e] = n]
    /\ cmd' = [cmd EXCEPT ![e] = c]
    /\ Goto(e, "load")
    /\ UNCHANGED <<content, notes, log, lock, mem, failures>>

MarkDispatched(e) ==
    \E n \in Deliveries : \E t \in Texts : Start(e, n, [to |-> "dispatched", text |-> t])

MarkInTransit(e) ==
    \E n \in Deliveries : Start(e, n, [to |-> "in_transit", text |-> None])

MarkDelivered(e) ==
    \E n \in Deliveries : Start(e, n, [to |-> "delivered", text |-> None])

MarkFailed(e) ==
    \E n \in Deliveries : \E t \in Texts : Start(e, n, [to |-> "failed", text |-> t])

\* Fault: the order of the statuses is not checked.
RefusesDocketOnly(w, c) == w.status = c.to /\ c.to = "dispatched" /\ w.docket # c.text

Refuses(w, c) ==
    IF w.status = c.to
    THEN c.to = "dispatched" /\ w.docket # c.text
    ELSE ~canAdvance(w.status, c.to)

advance(w, c) ==
    [w EXCEPT !.status = c.to,
              !.docket = IF c.to = "dispatched" THEN c.text ELSE @,
              !.reason = IF c.to = "failed" THEN c.text ELSE @]

\* The handlers persist what changed the status.
shouldPersist(w, c) == w.status # c.to

\* GetConsignmentNoteByIDForUpdate and the mutator.
Load(e) ==
    LET w == notes[target[e]] IN
    /\ pc[e] = "load" /\ lock[target[e]] = None
    /\ IF ~Refuses(w, cmd[e]) /\ shouldPersist(w, cmd[e])
       THEN /\ mem' = [mem EXCEPT ![e] = advance(w, cmd[e])]
            /\ lock' = [lock EXCEPT ![target[e]] = e]
            /\ Goto(e, "save")
       ELSE /\ Goto(e, IF Refuses(w, cmd[e]) THEN "refused" ELSE "ok")
            /\ UNCHANGED <<mem, lock>>
    /\ UNCHANGED <<content, notes, log, target, cmd, failures>>

\* updateConsignmentNoteRow, drainConsignmentNoteEvents, COMMIT.  A status that did
\* not change recorded no event.
Save(e) ==
    LET n == target[e] IN
    /\ pc[e] = "save"
    /\ notes' = [notes EXCEPT ![n] = mem[e]]
    /\ log' = [log EXCEPT ![n] = IF mem[e].status = notes[n].status THEN @ ELSE Append(@, mem[e].status)]
    /\ lock' = [lock EXCEPT ![n] = None]
    /\ mem' = [mem EXCEPT ![e] = NoRow]
    /\ Goto(e, "ok")
    /\ UNCHANGED <<content, target, cmd, failures>>

\* Fault: the row lock survives the rollback.
AbortKeepsLock(e) ==
    /\ pc[e] \in {"load", "save"}
    /\ failures < MaxFailures
    /\ failures' = failures + 1
    /\ mem' = [mem EXCEPT ![e] = NoRow]
    /\ Goto(e, "error")
    /\ UNCHANGED <<content, notes, log, lock, target, cmd>>

\* A statement fails and the transaction rolls back.
Abort(e) ==
    /\ pc[e] \in {"load", "save"}
    /\ failures < MaxFailures
    /\ failures' = failures + 1
    /\ lock' = IF pc[e] = "save" THEN [lock EXCEPT ![target[e]] = None] ELSE lock
    /\ mem' = [mem EXCEPT ![e] = NoRow]
    /\ Goto(e, "error")
    /\ UNCHANGED <<content, notes, log, target, cmd>>

Init ==
    /\ content \in [Deliveries -> Contents]
    /\ notes = [n \in Deliveries |-> NoRow]
    /\ log = [n \in Deliveries |-> <<>>]
    /\ lock = [n \in Deliveries |-> None]
    /\ pc = [r \in Deliveries \cup Edits |-> "idle"]
    /\ target = [e \in Edits |-> None]
    /\ cmd = [e \in Edits |-> None]
    /\ mem = [e \in Edits |-> NoRow]
    /\ failures = 0

Next ==
    \/ \E d \in Deliveries : Deliver(d) \/ Precheck(d) \/ Add(d) \/ Lapse(d) \/ Redeliver(d)
    \/ \E e \in Edits : \/ MarkDispatched(e) \/ MarkInTransit(e) \/ MarkDelivered(e) \/ MarkFailed(e)
                        \/ Load(e) \/ Save(e) \/ Abort(e)

\* A handler that runs goes on; nobody has to call one.
Fairness ==
    /\ \A d \in Deliveries : WF_vars(Precheck(d)) /\ WF_vars(Add(d))
    /\ \A e \in Edits : WF_vars(Load(e)) /\ WF_vars(Save(e))

Spec == Init /\ [][Next]_vars /\ Fairness

-----------------------------------------------------------------------------
(* Properties.                                                              *)

NotesAreDistinct ==
    \A m, n \in Deliveries :
        notes[m] # NoRow /\ notes[n] # NoRow /\ notes[m].order = notes[n].order => m = n

AnsweredHasNote ==
    \A d \in Deliveries : pc[d] \in {"ok", "existed"} => GetByOrderID(OrderOf[d]) # {}

\* However often and however concurrently an order is announced as packed, it has one
\* note ("At most one consignment note per order", 20260605000001_dispatch_init.sql), and
\* a message that was answered without an error, and so acknowledged, left its order with
\* one.
OneNotePerOrder == NotesAreDistinct /\ AnsweredHasNote

\* What the outbox announced of a note is the path that the note took: it begins with
\* its creation, every step is a forward edge of the state machine, announced once and
\* in order, and it ends in the status of the row ("concurrent status transitions
\* serialise", GetConsignmentNoteByIDForUpdate).
AnnouncedPath ==
    \A n \in Deliveries :
        IF notes[n] = NoRow
        THEN log[n] = <<>>
        ELSE /\ Len(log[n]) > 0
             /\ log[n][1] = "pending"
             /\ log[n][Len(log[n])] = notes[n].status
             /\ \A i \in 1 .. Len(log[n]) - 1 : canAdvance(log[n][i], log[n][i + 1])

\* A note that left the warehouse carries a docket ("docketNumber is required",
\* ConsignmentNote.MarkDispatched), and a failed one a reason.
SentWithDocket ==
    \A n \in Deliveries : notes[n] # NoRow =>
        /\ notes[n].status \in {"dispatched", "in_transit", "delivered"} => notes[n].docket # None
        /\ notes[n].status = "failed" => notes[n].reason # None

\* A delivered or failed note never changes ("Terminal states refuse outgoing
\* transitions", Status), not by a repeated MarkFailed with another reason either, and
\* a note keeps its order and the docket it was sent with.
EndIsFinal ==
    [][\A n \in Deliveries : notes[n] # NoRow =>
          /\ notes'[n] # NoRow
          /\ notes'[n].order = notes[n].order
          /\ notes[n].status \in Terminal => notes'[n] = notes[n]
          /\ notes[n].docket # None => notes'[n].docket = notes[n].docket]_vars

\* A call that began is answered, whoever else is at work on the order or waits for the
\* lock of the note: the order has a note then, unless a statement failed or the note
\* that the message asks for is refused; and a transition is made, refused or fails.
EveryCallIsAnswered ==
    /\ \A d \in Deliveries :
          (pc[d] \in {"check", "insert"})
              ~> (GetByOrderID(OrderOf[d]) # {} \/ pc[d] = "idle" \/ (pc[d] = "refused" /\ content[d] = "unfit"))
    /\ \A e \in Edits : (pc[e] = "load") ~> (pc[e] \in {"ok", "refused", "error"})
====
