---- MODULE Messaging ----
(***************************************************************************)
(* Events from a module's transaction to the subscribers of the worker     *)
(* (internal/common/messaging, cmd/worker; ADR 0008, 0064, 0067).          *)
(*                                                                         *)
(* A transaction leaves its events in common.outbox.  The worker's         *)
(* forwarder publishes each row to an in-process channel and deletes it.   *)
(* Every subscriber handler takes one message at a time through            *)
(*     PoisonQueue -> Idempotency -> Audit -> Retry -> Recoverer -> handler *)
(* What is in the channel dies with the process.                           *)
(***************************************************************************)
EXTENDS Naturals, FiniteSets

CONSTANTS
    Messages,      \* the events of one module topic
    Handlers,      \* the subscriber handlers of that topic
    DeadLetter,    \* the consumer messaging.dead_letter.persist
    Wants,         \* which events each handler is typed for
    MaxRetries,    \* RetryConfig.MaxRetries
    MaxStops,      \* bound: crashes and shutdowns of the worker
    MaxFaults,     \* bound: failures of a single database statement
    NoMessage

Pairs == Messages \X Handlers

ASSUME MessagingAssumption ==
    /\ Wants \in [Handlers -> SUBSET Messages]
    /\ DeadLetter \notin Handlers
    /\ NoMessage \notin Messages
    /\ MaxRetries \in Nat /\ MaxStops \in Nat /\ MaxFaults \in Nat

VARIABLES
    committed,  \* events whose transaction committed
    outbox,     \* rows of common.outbox
    process,    \* the worker process: "up", "stopping" or "down"
    subscribed, \* handlers the router has subscribed
    sent,       \* rows published in the forwarder's open transaction
    queue,      \* copies of each event waiting in each handler's channel
    letters,    \* <<event, handler>> waiting in the dead_letter channel
    pc, cur,    \* where each handler is, and with which event
    attempts,   \* retries used by the current delivery
    processed,  \* identity.processed_messages
    dead,       \* common.dead_letter
    audit,      \* common.audit_log: <<event, handler, succeeded>>
    unstored,   \* dead letters whose INSERT failed and was only logged
    effects,    \* how often each handler has carried out each event
    given,      \* <<event, handler>> that reached the handler's chain
    missed,     \* <<event, handler>> published while its consumer was not subscribed
    stops, faults

work   == <<queue, letters, pc, cur, attempts>>
tables == <<processed, dead, audit, unstored>>
ghosts == <<effects, given, missed>>
vars   == <<committed, outbox, process, subscribed, sent, work, tables, ghosts,
            stops, faults>>

TypeOK ==
    /\ committed \subseteq Messages /\ outbox \subseteq committed
    /\ sent \subseteq outbox
    /\ process \in {"up", "stopping", "down"}
    /\ subscribed \subseteq Handlers \cup {DeadLetter}
    /\ queue \in [Handlers -> [Messages -> Nat]]
    /\ letters \subseteq Pairs
    /\ pc \in [Handlers -> {"idle", "check", "run", "record", "poison"}]
    /\ cur \in [Handlers -> Messages \cup {NoMessage}]
    /\ \A h \in Handlers : pc[h] = "idle" <=> cur[h] = NoMessage
    /\ attempts \in [Handlers -> 0..MaxRetries]
    /\ processed \subseteq Pairs /\ dead \subseteq Pairs /\ unstored \subseteq Pairs
    /\ audit \subseteq Messages \X Handlers \X BOOLEAN
    /\ effects \in [Pairs -> Nat]
    /\ given \subseteq Pairs /\ missed \subseteq Pairs
    /\ stops \in 0..MaxStops /\ faults \in 0..MaxFaults

NoCopies == [h \in Handlers |-> [m \in Messages |-> 0]]

Init ==
    /\ committed = {} /\ outbox = {} /\ sent = {}
    /\ process = "up" /\ subscribed = {}
    /\ queue = NoCopies /\ letters = {}
    /\ pc = [h \in Handlers |-> "idle"]
    /\ cur = [h \in Handlers |-> NoMessage]
    /\ attempts = [h \in Handlers |-> 0]
    /\ processed = {} /\ dead = {} /\ audit = {} /\ unstored = {}
    /\ effects = [p \in Pairs |-> 0]
    /\ given = {} /\ missed = {}
    /\ stops = 0 /\ faults = 0

Fault == faults < MaxFaults /\ faults' = faults + 1

-----------------------------------------------------------------------------
(* From the transaction to the channel.                                     *)

\* PublishOutbox ran for each of the events in the transaction that now commits.
PublishOutbox(events) ==
    /\ events \cap committed = {}
    /\ committed' = committed \cup events
    /\ outbox' = outbox \cup events
    /\ UNCHANGED <<process, subscribed, sent, work, tables, ghosts, stops, faults>>

\* Router.Run subscribes the handlers one after another; the forwarder does not
\* wait for it.
Subscribe(h) ==
    /\ process = "up" /\ h \notin subscribed
    /\ subscribed' = subscribed \cup {h}
    /\ UNCHANGED <<committed, outbox, process, sent, work, tables, ghosts, stops, faults>>

\* The channel hands a copy to every subscription there is, and to no other.
Forward(m) ==
    /\ process = "up" /\ m \in outbox \ sent
    /\ sent' = sent \cup {m}
    /\ queue' = [h \in Handlers |->
                   IF h \in subscribed THEN [queue[h] EXCEPT ![m] = @ + 1] ELSE queue[h]]
    /\ missed' = missed \cup {<<m, h>> : h \in Handlers \ subscribed}
    /\ UNCHANGED <<committed, outbox, process, subscribed, letters, pc, cur, attempts,
                   tables, effects, given, stops, faults>>

\* DeleteOnAck: the forwarded rows go, or the transaction fails and they stay.
ForwardAck ==
    /\ process = "up" /\ sent # {}
    /\ sent' = {}
    /\ \/ outbox' = outbox \ sent /\ UNCHANGED faults
       \/ Fault /\ UNCHANGED outbox
    /\ UNCHANGED <<committed, process, subscribed, work, tables, ghosts, stops>>

-----------------------------------------------------------------------------
(* One delivery through the middleware stack.                               *)

Move(h, next) == pc' = [pc EXCEPT ![h] = next] /\ UNCHANGED cur
Finish(h) ==
    /\ pc' = [pc EXCEPT ![h] = "idle"]
    /\ cur' = [cur EXCEPT ![h] = NoMessage]

Receive(h, m) ==
    /\ process = "up" /\ h \in subscribed /\ pc[h] = "idle" /\ queue[h][m] > 0
    /\ queue' = [queue EXCEPT ![h][m] = @ - 1]
    /\ pc' = [pc EXCEPT ![h] = "check"]
    /\ cur' = [cur EXCEPT ![h] = m]
    /\ attempts' = [attempts EXCEPT ![h] = 0]
    /\ given' = given \cup {<<m, h>>}
    /\ UNCHANGED <<committed, outbox, process, subscribed, sent, letters, tables,
                   effects, missed, stops, faults>>

\* Fault: the handler runs whatever the lookup finds.
CheckInboxIgnored(h) ==
    /\ pc[h] = "check"
    /\ Move(h, "run")
    /\ UNCHANGED <<committed, outbox, process, subscribed, sent, queue, letters, attempts,
                   tables, ghosts, stops, faults>>

\* IdempotentReceiver.Wrap looks the pair up; a failed lookup is not retried.
CheckInbox(h) ==
    /\ pc[h] = "check"
    /\ \/ <<cur[h], h>> \in processed /\ Finish(h) /\ UNCHANGED faults
       \/ <<cur[h], h>> \notin processed /\ Move(h, "run") /\ UNCHANGED faults
       \/ Fault /\ Move(h, "poison")
    /\ UNCHANGED <<committed, outbox, process, subscribed, sent, queue, letters, attempts,
                   tables, ghosts, stops>>

\* AuditMiddleware writes one row for the outcome; a failed write is dropped.
Audit(h, succeeded) ==
    \/ audit' = audit \cup {<<cur[h], h, succeeded>>} /\ UNCHANGED faults
    \/ Fault /\ UNCHANGED audit

\* The handler carries the event out, or acknowledges one it is not typed for
\* (AckOnUnknownEvent).
RunSucceeds(h) ==
    /\ pc[h] = "run"
    /\ Move(h, "record")
    /\ effects' = IF cur[h] \in Wants[h]
                  THEN [effects EXCEPT ![<<cur[h], h>>] = @ + 1] ELSE effects
    /\ Audit(h, TRUE)
    /\ UNCHANGED <<committed, outbox, process, subscribed, sent, queue, letters, attempts,
                   processed, dead, unstored, given, missed, stops>>

\* An error or a panic is tried again until the budget is spent or the worker
\* shuts down; a NonRetryable one is not.
TriesAgain(h, retryable) == retryable /\ attempts[h] < MaxRetries /\ process = "up"

RunFails(h, retryable) ==
    /\ pc[h] = "run" /\ cur[h] \in Wants[h]
    /\ \/ /\ TriesAgain(h, retryable)
          /\ attempts' = [attempts EXCEPT ![h] = @ + 1]
          /\ UNCHANGED <<pc, cur, audit, faults>>
       \/ /\ ~TriesAgain(h, retryable)
          /\ Move(h, "poison") /\ Audit(h, FALSE)
          /\ UNCHANGED attempts
    /\ UNCHANGED <<committed, outbox, process, subscribed, sent, queue, letters,
                   processed, dead, unstored, ghosts, stops>>

\* Wrap inserts the pair once the inner chain returned nil.
RecordProcessed(h) ==
    /\ pc[h] = "record"
    /\ \/ processed' = processed \cup {<<cur[h], h>>} /\ Finish(h) /\ UNCHANGED faults
       \/ Fault /\ Move(h, "poison") /\ UNCHANGED processed
    /\ UNCHANGED <<committed, outbox, process, subscribed, sent, queue, letters, attempts,
                   dead, audit, unstored, ghosts, stops>>

\* Fault: the error is swallowed and nothing is published.
PoisonSwallows(h) ==
    /\ pc[h] = "poison"
    /\ Finish(h)
    /\ UNCHANGED <<committed, outbox, process, subscribed, sent, queue, letters, attempts,
                   tables, ghosts, stops, faults>>

\* PoisonQueue publishes to the dead_letter channel and swallows the error.
Poison(h) ==
    /\ pc[h] = "poison"
    /\ letters' = IF DeadLetter \in subscribed THEN letters \cup {<<cur[h], h>>} ELSE letters
    /\ missed' = IF DeadLetter \in subscribed THEN missed ELSE missed \cup {<<cur[h], h>>}
    /\ Finish(h)
    /\ UNCHANGED <<committed, outbox, process, subscribed, sent, queue, attempts,
                   tables, effects, given, stops, faults>>

\* DeadLetterWriter.persist acknowledges whether or not the INSERT worked.
PersistLetter(p) ==
    /\ process = "up" /\ p \in letters
    /\ letters' = letters \ {p}
    /\ \/ dead' = dead \cup {p} /\ UNCHANGED <<unstored, faults>>
       \/ Fault /\ unstored' = unstored \cup {p} /\ UNCHANGED dead
    /\ UNCHANGED <<committed, outbox, process, subscribed, sent, queue, pc, cur, attempts,
                   processed, audit, ghosts, stops>>

-----------------------------------------------------------------------------
(* The process.                                                             *)

LoseMemory ==
    /\ process' = "down" /\ subscribed' = {} /\ sent' = {}
    /\ queue' = NoCopies /\ letters' = {}
    /\ pc' = [h \in Handlers |-> "idle"]
    /\ cur' = [h \in Handlers |-> NoMessage]
    /\ attempts' = [h \in Handlers |-> 0]

Crash ==
    /\ process # "down" /\ stops < MaxStops
    /\ stops' = stops + 1
    /\ LoseMemory
    /\ UNCHANGED <<committed, outbox, tables, ghosts, faults>>

\* runWorkerServices: the context ends, forwarder and router are closed.
BeginShutdown ==
    /\ process = "up" /\ stops < MaxStops
    /\ process' = "stopping" /\ sent' = {}
    /\ stops' = stops + 1
    /\ UNCHANGED <<committed, outbox, subscribed, work, tables, ghosts, faults>>

\* A handler sees context.Canceled, which is not poison: the event is nacked
\* into a channel that is closing.
CancelHandler(h) ==
    /\ process = "stopping" /\ pc[h] \in {"check", "run", "record"}
    /\ Finish(h)
    /\ UNCHANGED <<committed, outbox, process, subscribed, sent, queue, letters, attempts,
                   tables, ghosts, stops, faults>>

\* Every handler is done, or CloseTimeout is over.
EndShutdown ==
    /\ process = "stopping"
    /\ LoseMemory
    /\ UNCHANGED <<committed, outbox, tables, ghosts, stops, faults>>

Restart ==
    /\ process = "down"
    /\ process' = "up"
    /\ UNCHANGED <<committed, outbox, subscribed, sent, work, tables, ghosts, stops, faults>>

-----------------------------------------------------------------------------
HandlerStep(h) ==
    \/ \E m \in Messages : Receive(h, m)
    \/ CheckInbox(h)
    \/ RunSucceeds(h)
    \/ \E retryable \in BOOLEAN : RunFails(h, retryable)
    \/ RecordProcessed(h)
    \/ Poison(h)

Next ==
    \/ \E events \in SUBSET Messages \ {{}} : PublishOutbox(events)
    \/ \E m \in Messages : Forward(m)
    \/ ForwardAck
    \/ \E h \in Handlers \cup {DeadLetter} : Subscribe(h)
    \/ \E h \in Handlers : HandlerStep(h) \/ CancelHandler(h)
    \/ \E p \in Pairs : PersistLetter(p)
    \/ Crash \/ BeginShutdown \/ EndShutdown \/ Restart

\* The worker's goroutines keep running and a stopped worker is started again;
\* no transaction has to commit and nothing has to fail.
Fairness ==
    /\ \A m \in Messages : WF_vars(Forward(m))
    /\ WF_vars(ForwardAck)
    /\ \A h \in Handlers \cup {DeadLetter} : WF_vars(Subscribe(h))
    /\ \A h \in Handlers : WF_vars(HandlerStep(h))
    /\ \A p \in Pairs : WF_vars(PersistLetter(p))
    /\ WF_vars(EndShutdown) /\ WF_vars(Restart)

Spec == Init /\ [][Next]_vars /\ Fairness

-----------------------------------------------------------------------------
(* Properties.                                                              *)

\* What the records of the worker say was done.
RecordsMatch ==
    /\ TypeOK
    /\ \A m \in Messages, h \in Handlers :
          /\ (<<m, h>> \in processed \/ <<m, h, TRUE>> \in audit) /\ m \in Wants[h] => effects[<<m, h>>] > 0
          /\ faults = 0 /\ <<m, h>> \in processed => <<m, h, TRUE>> \in audit

\* The records of the worker are true.  An inbox row means that the handler carried
\* the event out, or is not typed for it: a poisoned delivery never marks its event
\* processed, so it can be replayed (AddSubscriber: Idempotency inside PoisonQueue).
\* The audit log has a success row for nothing but a finished run, and one for every
\* inbox row unless a statement failed (AuditMiddleware).  Once the inbox row is there
\* the handler is never run for the event again, whatever is delivered twice and
\* whenever the worker restarts.
RecordsAreTrue ==
    [][/\ RecordsMatch'
       /\ \A p \in processed : effects'[p] = effects[p]]_vars

\* Every committed event is in the outbox, on its way, or was given to the handler,
\* unless it was published while the handler was not subscribed.
AtLeastOnce ==
    stops = 0 => \A m \in committed, h \in Handlers :
      m \in outbox \/ queue[h][m] > 0 \/ <<m, h>> \in given \cup missed

\* No committed event is lost on the way to a handler, and each comes to an end there:
\* processed, stored as a dead letter, or at least logged as one.  Two things are
\* excepted: a stop of the worker, which loses what is in the channel (the outbox row
\* goes once the event is in it), and an event or letter that is published before its
\* consumer is subscribed.
EveryEventSettles ==
    /\ []AtLeastOnce
    /\ \A m \in Messages, h \in Handlers :
         m \in committed ~> (stops > 0 \/ <<m, h>> \in processed \cup dead \cup unstored \cup missed)
====
