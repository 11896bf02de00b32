---- MODULE MessagingAndWindowsProofs ----
(***************************************************************************)
(* The delivery of messages, and three guards that hold for a while: the   *)
(* record of a command (Idempotency), the deduplication of notifications   *)
(* (Inbox) and the lock of an account (Lockout).  For every set of messages*)
(* and handlers, every window and every number of requests.                *)
(***************************************************************************)
EXTENDS Messaging, Idempotency, Inbox, Lockout, FiniteSetTheorems, TLAPS

-----------------------------------------------------------------------------
(* What the records of the worker say.                                      *)

\* The handler carried the event out, or is not typed for it.
Done(m, h) == m \in Wants[h] => effects[<<m, h>>] > 0

\* The records of an event and a handler, and where the handler is with it.
Record(m, h) ==
    /\ <<m, h>> \in processed => Done(m, h)
    /\ <<m, h, TRUE>> \in audit => Done(m, h)
    /\ faults = 0 /\ <<m, h>> \in processed => <<m, h, TRUE>> \in audit
    /\ cur[h] = m /\ pc[h] = "record" => Done(m, h) /\ (faults = 0 => <<m, h, TRUE>> \in audit)
    /\ cur[h] = m /\ pc[h] = "run" => <<m, h>> \notin processed

AuditRecords == \A m \in Messages : \A h \in Handlers : Record(m, h)

\* The types, by what is written together.
RowTypes ==
    /\ committed \subseteq Messages /\ outbox \subseteq committed /\ sent \subseteq outbox
    /\ process \in {"up", "stopping", "down"} /\ subscribed \subseteq Handlers \cup {DeadLetter}
QueueType == queue \in [Handlers -> [Messages -> Nat]]
HandlerTypes ==
    /\ pc \in [Handlers -> {"idle", "check", "run", "record", "poison"}]
    /\ cur \in [Handlers -> Messages \cup {NoMessage}]
    /\ \A h \in Handlers : pc[h] = "idle" <=> cur[h] = NoMessage
    /\ attempts \in [Handlers -> 0..MaxRetries]
RecordTypes ==
    /\ letters \subseteq Pairs /\ processed \subseteq Pairs /\ dead \subseteq Pairs /\ unstored \subseteq Pairs
    /\ audit \subseteq Messages \X Handlers \X BOOLEAN /\ given \subseteq Pairs /\ missed \subseteq Pairs
EffectTypes == effects \in [Pairs -> Nat]
BoundTypes == stops \in 0..MaxStops /\ faults \in 0..MaxFaults

Types == RowTypes /\ QueueType /\ HandlerTypes /\ RecordTypes /\ EffectTypes /\ BoundTypes

MessagingInv == Types /\ AuditRecords

\* The groups are the type invariant.
LEMMA TypesAre == Types <=> TypeOK
  BY Zenon DEF Types, TypeOK, RowTypes, QueueType, HandlerTypes, RecordTypes, EffectTypes, BoundTypes

\* A row of the audit log about a success is none about a failure.
LEMMA OutcomesDiffer == \A a, b, c, d : <<a, b, TRUE>> # <<c, d, FALSE>>
  <1> SUFFICES ASSUME NEW a, NEW b, NEW c, NEW d, <<a, b, TRUE>> = <<c, d, FALSE>> PROVE FALSE
    OBVIOUS
  <1>1. <<a, b, TRUE>>[3] = <<c, d, FALSE>>[3]
    BY Zenon
  <1>2. QED
    BY <1>1, Zenon

\* The pairs of an event and a handler.
LEMMA PairsAre ==
    /\ \A m \in Messages : \A h \in Handlers : <<m, h>> \in Pairs
    /\ \A p \in Pairs : \E m \in Messages : \E h \in Handlers : p = <<m, h>>
  BY DEF Pairs

\* A failed statement is counted.
LEMMA FaultCounts ==
    ASSUME BoundTypes, Fault
    PROVE  faults' \in 0..MaxFaults /\ faults' # 0
  BY MessagingAssumption DEF BoundTypes, Fault

\* What a step of one handler must leave for the records to be true after it.
LEMMA RecordsStep ==
    ASSUME AuditRecords, NEW g \in Handlers,
           \A h \in Handlers : h # g => pc'[h] = pc[h] /\ cur'[h] = cur[h],
           faults' = 0 => faults = 0,
           \A m \in Messages : \A h \in Handlers : Done(m, h) => Done(m, h)',
           \A m \in Messages : \A h \in Handlers : <<m, h>> \in processed' =>
              <<m, h>> \in processed \/ (h = g /\ cur[g] = m /\ pc[g] = "record"),
           \A m \in Messages : \A h \in Handlers : <<m, h, TRUE>> \in audit => <<m, h, TRUE>> \in audit',
           \A m \in Messages : \A h \in Handlers : <<m, h, TRUE>> \in audit' =>
              <<m, h, TRUE>> \in audit \/ (h = g /\ cur[g] = m /\ Done(m, h)'),
           pc'[g] = "record" => \A m \in Messages : cur'[g] = m =>
              Done(m, g)' /\ (faults' = 0 => <<m, g, TRUE>> \in audit'),
           pc'[g] = "run" => \A m \in Messages : cur'[g] = m => <<m, g>> \notin processed'
    PROVE  AuditRecords'
  <1> SUFFICES ASSUME NEW m \in Messages, NEW h \in Handlers PROVE Record(m, h)'
    BY Zenon DEF AuditRecords
  <1>0. Record(m, h)
    BY Zenon DEF AuditRecords
  <1>1. <<m, h>> \in processed' => Done(m, h)'
    BY <1>0, Zenon DEF Record
  <1>2. <<m, h, TRUE>> \in audit' => Done(m, h)'
    BY <1>0, Zenon DEF Record
  <1>3. faults' = 0 /\ <<m, h>> \in processed' => <<m, h, TRUE>> \in audit'
    BY <1>0, Zenon DEF Record
  <1>4. cur'[h] = m /\ pc'[h] = "record" => Done(m, h)' /\ (faults' = 0 => <<m, h, TRUE>> \in audit')
    BY <1>0, Zenon DEF Record
  <1>5. cur'[h] = m /\ pc'[h] = "run" => <<m, h>> \notin processed'
    BY <1>0, Zenon DEF Record
  <1>6. QED
    BY <1>1, <1>2, <1>3, <1>4, <1>5, Zenon DEF Record

\* A step that leaves the records and the handlers alone.
LEMMA RecordsFrame ==
    ASSUME AuditRecords, UNCHANGED <<processed, effects, audit, pc, cur>>, faults' = 0 => faults = 0
    PROVE  AuditRecords'
  BY Zenon DEF AuditRecords, Record, Done

\* A stopped worker has no handlers.
LEMMA RecordsForget ==
    ASSUME AuditRecords, UNCHANGED <<processed, effects, audit, faults>>, pc' = [h \in Handlers |-> "idle"]
    PROVE  AuditRecords'
  <1>1. \A h \in Handlers : pc'[h] # "record" /\ pc'[h] # "run"
    OBVIOUS
  <1>2. QED
    BY <1>1, Zenon DEF AuditRecords, Record, Done

-----------------------------------------------------------------------------
(* The steps.                                                               *)

\* A transaction commits, a row is forwarded or acknowledged, a handler is subscribed.
LEMMA OutboxSteps ==
    ASSUME MessagingInv,
           \/ \E events \in SUBSET Messages \ {{}} : PublishOutbox(events)
           \/ \E m \in Messages : Forward(m)
           \/ ForwardAck
           \/ \E h \in Handlers \cup {DeadLetter} : Subscribe(h)
    PROVE  MessagingInv'
  <1>0. /\ RowTypes /\ QueueType /\ HandlerTypes /\ RecordTypes /\ EffectTypes /\ BoundTypes
        /\ AuditRecords
    BY Zenon DEF MessagingInv, Types
  <1>1. ASSUME NEW events \in SUBSET Messages \ {{}}, PublishOutbox(events) PROVE MessagingInv'
    <2>1. /\ committed' = committed \cup events /\ outbox' = outbox \cup events
          /\ UNCHANGED <<process, subscribed, sent, work, tables, ghosts, stops, faults>>
      BY <1>1, Zenon DEF PublishOutbox
    <2>2. UNCHANGED <<process, subscribed, sent, queue, letters, pc, cur, attempts, processed, dead, audit, unstored,
                      effects, given, missed, stops, faults>>
      BY <2>1 DEF work, tables, ghosts
    <2>3. RowTypes'
      BY <1>0, <2>1, <2>2, Zenon DEF RowTypes
    <2>4. QueueType' /\ HandlerTypes' /\ RecordTypes' /\ EffectTypes' /\ BoundTypes'
      BY <1>0, <2>2, Zenon DEF QueueType, HandlerTypes, RecordTypes, EffectTypes, BoundTypes
    <2>5. AuditRecords'
      BY <1>0, <2>2, RecordsFrame, Zenon
    <2>6. QED
      BY <2>3, <2>4, <2>5, Zenon DEF MessagingInv, Types
  <1>2. ASSUME NEW m \in Messages, Forward(m) PROVE MessagingInv'
    <2>1. /\ m \in outbox /\ sent' = sent \cup {m}
          /\ queue' = [h \in Handlers |-> IF h \in subscribed THEN [queue[h] EXCEPT ![m] = @ + 1] ELSE queue[h]]
          /\ missed' = missed \cup {<<m, h>> : h \in Handlers \ subscribed}
          /\ UNCHANGED <<committed, outbox, process, subscribed, letters, pc, cur, attempts, effects, given, stops,
                         faults>>
      BY <1>2, Zenon DEF Forward
    <2>2. UNCHANGED <<processed, dead, audit, unstored>>
      BY <1>2 DEF Forward, tables
    <2>3. RowTypes'
      BY <1>0, <2>1, Zenon DEF RowTypes
    <2>4. QueueType'
      <3>1. ASSUME NEW h \in Handlers
            PROVE  queue'[h] \in [Messages -> Nat]
        <4>1. queue[h] \in [Messages -> Nat]
          BY <1>0, Zenon DEF QueueType
        <4>2. [queue[h] EXCEPT ![m] = @ + 1] \in [Messages -> Nat]
          BY <4>1
        <4>3. QED
          BY <2>1, <4>1, <4>2, Zenon
      <3>2. QED
        BY <2>1, <3>1, Zenon DEF QueueType
    <2>5. RecordTypes'
      <3>1. missed' \subseteq Pairs
        BY <1>0, <2>1, PairsAre, Zenon DEF RecordTypes
      <3>2. QED
        BY <1>0, <2>1, <2>2, <3>1, Zenon DEF RecordTypes
    <2>6. HandlerTypes' /\ EffectTypes' /\ BoundTypes'
      BY <1>0, <2>1, Zenon DEF HandlerTypes, EffectTypes, BoundTypes
    <2>7. AuditRecords'
      BY <1>0, <2>1, <2>2, RecordsFrame, Zenon
    <2>8. QED
      BY <2>3, <2>4, <2>5, <2>6, <2>7, Zenon DEF MessagingInv, Types
  <1>3. ASSUME ForwardAck PROVE MessagingInv'
    <2>1. /\ sent' = {} /\ (outbox' = outbox \ sent \/ outbox' = outbox) /\ (faults' = faults \/ Fault)
          /\ UNCHANGED <<committed, process, subscribed, stops>>
      BY <1>3, Zenon DEF ForwardAck
    <2>2. UNCHANGED <<queue, letters, pc, cur, attempts, processed, dead, audit, unstored, effects, given, missed>>
      BY <1>3 DEF ForwardAck, work, tables, ghosts
    <2>3. RowTypes'
      BY <1>0, <2>1, Zenon DEF RowTypes
    <2>4. BoundTypes' /\ (faults' = 0 => faults = 0)
      BY <1>0, <2>1, FaultCounts, Zenon DEF BoundTypes
    <2>5. QueueType' /\ HandlerTypes' /\ RecordTypes' /\ EffectTypes'
      BY <1>0, <2>2, Zenon DEF QueueType, HandlerTypes, RecordTypes, EffectTypes
    <2>6. AuditRecords'
      BY <1>0, <2>2, <2>4, RecordsFrame, Zenon
    <2>7. QED
      BY <2>3, <2>4, <2>5, <2>6, Zenon DEF MessagingInv, Types
  <1>4. ASSUME NEW h \in Handlers \cup {DeadLetter}, Subscribe(h) PROVE MessagingInv'
    <2>1. /\ subscribed' = subscribed \cup {h}
          /\ UNCHANGED <<committed, outbox, process, sent, stops, faults>>
      BY <1>4, Zenon DEF Subscribe
    <2>2. UNCHANGED <<queue, letters, pc, cur, attempts, processed, dead, audit, unstored, effects, given, missed>>
      BY <1>4 DEF Subscribe, work, tables, ghosts
    <2>3. RowTypes'
      BY <1>0, <2>1, Zenon DEF RowTypes
    <2>4. QueueType' /\ HandlerTypes' /\ RecordTypes' /\ EffectTypes' /\ BoundTypes'
      BY <1>0, <2>1, <2>2, Zenon DEF QueueType, HandlerTypes, RecordTypes, EffectTypes, BoundTypes
    <2>5. AuditRecords'
      BY <1>0, <2>1, <2>2, RecordsFrame, Zenon
    <2>6. QED
      BY <2>3, <2>4, <2>5, Zenon DEF MessagingInv, Types
  <1>5. QED
    BY <1>1, <1>2, <1>3, <1>4, Zenon

\* The worker stops, loses its memory and is started again; a letter is stored.
LEMMA ProcessSteps ==
    ASSUME MessagingInv,
           \/ \E p \in Pairs : PersistLetter(p)
           \/ Crash \/ BeginShutdown \/ EndShutdown \/ Restart
    PROVE  MessagingInv'
  <1>0. /\ RowTypes /\ QueueType /\ HandlerTypes /\ RecordTypes /\ EffectTypes /\ BoundTypes
        /\ AuditRecords
    BY Zenon DEF MessagingInv, Types
  <1>1. ASSUME NEW p \in Pairs, PersistLetter(p) PROVE MessagingInv'
    <2>1. /\ letters' = letters \ {p} /\ (dead' = dead \cup {p} \/ dead' = dead)
          /\ (unstored' = unstored \cup {p} \/ unstored' = unstored) /\ (faults' = faults \/ Fault)
          /\ UNCHANGED <<committed, outbox, process, subscribed, sent, queue, pc, cur, attempts, processed, audit, stops>>
      BY <1>1, Zenon DEF PersistLetter
    <2>2. UNCHANGED <<effects, given, missed>>
      BY <1>1 DEF PersistLetter, ghosts
    <2>3. RecordTypes'
      BY <1>0, <2>1, <2>2, Zenon DEF RecordTypes
    <2>4. BoundTypes' /\ (faults' = 0 => faults = 0)
      BY <1>0, <2>1, FaultCounts, Zenon DEF BoundTypes
    <2>5. RowTypes' /\ QueueType' /\ HandlerTypes' /\ EffectTypes'
      BY <1>0, <2>1, <2>2, Zenon DEF RowTypes, QueueType, HandlerTypes, EffectTypes
    <2>6. AuditRecords'
      BY <1>0, <2>1, <2>2, <2>4, RecordsFrame, Zenon
    <2>7. QED
      BY <2>3, <2>4, <2>5, <2>6, Zenon DEF MessagingInv, Types
  <1>2. ASSUME LoseMemory, UNCHANGED <<committed, outbox, tables, ghosts, faults>>, stops' \in 0..MaxStops
        PROVE  MessagingInv'
    <2>1. /\ process' = "down" /\ subscribed' = {} /\ sent' = {} /\ queue' = NoCopies /\ letters' = {}
          /\ pc' = [h \in Handlers |-> "idle"] /\ cur' = [h \in Handlers |-> NoMessage]
          /\ attempts' = [h \in Handlers |-> 0]
          /\ UNCHANGED <<committed, outbox, faults>>
      BY <1>2, Zenon DEF LoseMemory
    <2>2. UNCHANGED <<processed, dead, audit, unstored, effects, given, missed>>
      BY <1>2 DEF tables, ghosts
    <2>3. RowTypes' /\ RecordTypes' /\ EffectTypes'
      BY <1>0, <2>1, <2>2, Zenon DEF RowTypes, RecordTypes, EffectTypes
    <2>4. QueueType'
      <3>1. 0 \in Nat
        OBVIOUS
      <3>2. QED
        BY <2>1, <3>1, Zenon DEF QueueType, NoCopies
    <2>5. HandlerTypes'
      <3>1. 0 \in 0..MaxRetries
        BY MessagingAssumption
      <3>2. QED
        BY <2>1, <3>1, Zenon DEF HandlerTypes
    <2>6. BoundTypes'
      BY <1>0, <1>2, <2>1, Zenon DEF BoundTypes
    <2>7. AuditRecords'
      BY <1>0, <2>1, <2>2, RecordsForget, Zenon
    <2>8. QED
      BY <2>3, <2>4, <2>5, <2>6, <2>7, Zenon DEF MessagingInv, Types
  <1>3. stops < MaxStops => stops + 1 \in 0..MaxStops
    BY <1>0, MessagingAssumption DEF BoundTypes
  <1>4. CASE Crash
    BY <1>2, <1>3, <1>4, Zenon DEF Crash
  <1>5. CASE EndShutdown
    BY <1>0, <1>2, <1>5, Zenon DEF EndShutdown, BoundTypes
  <1>6. CASE BeginShutdown \/ Restart
    <2>1. /\ process' \in {"up", "stopping"} /\ (sent' = {} \/ sent' = sent) /\ stops' \in 0..MaxStops
          /\ UNCHANGED <<committed, outbox, subscribed, faults>>
      BY <1>0, <1>3, <1>6, Zenon DEF BeginShutdown, Restart, BoundTypes
    <2>2. UNCHANGED <<queue, letters, pc, cur, attempts, processed, dead, audit, unstored, effects, given, missed>>
      BY <1>6 DEF BeginShutdown, Restart, work, tables, ghosts
    <2>3. RowTypes'
      BY <1>0, <2>1, Zenon DEF RowTypes
    <2>4. QueueType' /\ HandlerTypes' /\ RecordTypes' /\ EffectTypes' /\ BoundTypes'
      BY <1>0, <2>1, <2>2, Zenon DEF QueueType, HandlerTypes, RecordTypes, EffectTypes, BoundTypes
    <2>5. AuditRecords'
      BY <1>0, <2>1, <2>2, RecordsFrame, Zenon
    <2>6. QED
      BY <2>3, <2>4, <2>5, Zenon DEF MessagingInv, Types
  <1>7. QED
    BY <1>1, <1>4, <1>5, <1>6, Zenon

\* Where a handler is after a step, and that the others stay where they are.
LEMMA Moved ==
    ASSUME HandlerTypes, NEW g \in Handlers, NEW next \in {"check", "run", "record", "poison"}, cur[g] # NoMessage,
           Move(g, next)
    PROVE  /\ pc' \in [Handlers -> {"idle", "check", "run", "record", "poison"}]
           /\ cur' \in [Handlers -> Messages \cup {NoMessage}]
           /\ \A h \in Handlers : pc'[h] = "idle" <=> cur'[h] = NoMessage
           /\ \A h \in Handlers : h # g => pc'[h] = pc[h] /\ cur'[h] = cur[h]
           /\ pc'[g] = next /\ cur'[g] = cur[g]
  <1>1. pc' = [pc EXCEPT ![g] = next] /\ cur' = cur
    BY Zenon DEF Move
  <1>2. next # "idle" /\ next \in {"idle", "check", "run", "record", "poison"}
    OBVIOUS
  <1>3. pc' \in [Handlers -> {"idle", "check", "run", "record", "poison"}]
    BY <1>1, <1>2, Zenon DEF HandlerTypes
  <1>4. pc'[g] = next /\ \A h \in Handlers : h # g => pc'[h] = pc[h]
    BY <1>1, Zenon DEF HandlerTypes
  <1>5. QED
    BY <1>1, <1>2, <1>3, <1>4, Zenon DEF HandlerTypes

\* The same of a handler that is done with its event.
LEMMA Finished ==
    ASSUME HandlerTypes, NEW g \in Handlers, Finish(g)
    PROVE  /\ pc' \in [Handlers -> {"idle", "check", "run", "record", "poison"}]
           /\ cur' \in [Handlers -> Messages \cup {NoMessage}]
           /\ \A h \in Handlers : pc'[h] = "idle" <=> cur'[h] = NoMessage
           /\ \A h \in Handlers : h # g => pc'[h] = pc[h] /\ cur'[h] = cur[h]
           /\ pc'[g] = "idle"
  <1>1. pc' = [pc EXCEPT ![g] = "idle"] /\ cur' = [cur EXCEPT ![g] = NoMessage]
    BY Zenon DEF Finish
  <1>2. /\ pc' \in [Handlers -> {"idle", "check", "run", "record", "poison"}]
        /\ cur' \in [Handlers -> Messages \cup {NoMessage}]
    BY <1>1, Zenon DEF HandlerTypes
  <1>3. /\ pc'[g] = "idle" /\ cur'[g] = NoMessage
        /\ \A h \in Handlers : h # g => pc'[h] = pc[h] /\ cur'[h] = cur[h]
    BY <1>1, Zenon DEF HandlerTypes
  <1>4. QED
    BY <1>2, <1>3, Zenon DEF HandlerTypes

\* A handler that has work has an event.
LEMMA AtWork ==
    ASSUME HandlerTypes, NEW g \in Handlers, pc[g] # "idle"
    PROVE  cur[g] \in Messages /\ cur[g] # NoMessage /\ <<cur[g], g>> \in Pairs
  <1>1. cur[g] \in Messages /\ cur[g] # NoMessage
    BY Zenon DEF HandlerTypes
  <1>2. QED
    BY <1>1, PairsAre, Zenon

\* Receive, CheckInbox, Poison and the cancellation of a handler: the records stay.
LEMMA LookupSteps ==
    ASSUME MessagingInv, NEW g \in Handlers,
           (\E m \in Messages : Receive(g, m)) \/ CheckInbox(g) \/ Poison(g) \/ CancelHandler(g)
    PROVE  MessagingInv' /\ effects' = effects
  <1>0. /\ RowTypes /\ QueueType /\ HandlerTypes /\ RecordTypes /\ EffectTypes /\ BoundTypes
        /\ AuditRecords
    BY Zenon DEF MessagingInv, Types
  <1>1. ASSUME UNCHANGED <<committed, outbox, process, subscribed, sent, processed, dead, audit, unstored, effects,
                           stops>>,
               QueueType', HandlerTypes', BoundTypes', faults' = 0 => faults = 0,
               letters' \subseteq Pairs, given' \subseteq Pairs, missed' \subseteq Pairs,
               \A h \in Handlers : h # g => pc'[h] = pc[h] /\ cur'[h] = cur[h],
               pc'[g] # "record",
               pc'[g] = "run" => \A m \in Messages : cur'[g] = m => <<m, g>> \notin processed
        PROVE  MessagingInv' /\ effects' = effects
    <2>1. RowTypes' /\ RecordTypes' /\ EffectTypes'
      BY <1>0, <1>1, Zenon DEF RowTypes, RecordTypes, EffectTypes
    <2>2. \A m \in Messages : \A h \in Handlers : Done(m, h) => Done(m, h)'
      BY <1>1, Zenon DEF Done
    <2>3. AuditRecords'
      BY <1>0, <1>1, <2>2, RecordsStep, Zenon
    <2>4. QED
      BY <1>1, <2>1, <2>3, Zenon DEF MessagingInv, Types
  <1>2. ASSUME NEW m \in Messages, Receive(g, m) PROVE MessagingInv' /\ effects' = effects
    <2>1. /\ queue' = [queue EXCEPT ![g][m] = @ - 1] /\ queue[g][m] > 0
          /\ pc' = [pc EXCEPT ![g] = "check"] /\ cur' = [cur EXCEPT ![g] = m]
          /\ attempts' = [attempts EXCEPT ![g] = 0] /\ given' = given \cup {<<m, g>>}
          /\ UNCHANGED <<committed, outbox, process, subscribed, sent, letters, effects, missed, stops, faults>>
      BY <1>2 DEF Receive
    <2>2. UNCHANGED <<processed, dead, audit, unstored>>
      BY <1>2 DEF Receive, tables
    <2>3. QueueType'
      <3>1. queue[g] \in [Messages -> Nat]
        BY <1>0, Zenon DEF QueueType
      <3>2. [queue[g] EXCEPT ![m] = @ - 1] \in [Messages -> Nat]
        BY <2>1, <3>1
      <3>3. queue' = [queue EXCEPT ![g] = [queue[g] EXCEPT ![m] = @ - 1]]
        BY <2>1
      <3>4. QED
        BY <1>0, <3>2, <3>3, Zenon DEF QueueType
    <2>4. m # NoMessage
      BY MessagingAssumption
    <2>5. /\ pc'[g] = "check" /\ cur'[g] = m
          /\ \A h \in Handlers : h # g => pc'[h] = pc[h] /\ cur'[h] = cur[h]
      BY <1>0, <2>1, Zenon DEF HandlerTypes
    <2>6. HandlerTypes'
      <3>1. 0 \in 0..MaxRetries
        BY MessagingAssumption
      <3>2. /\ pc' \in [Handlers -> {"idle", "check", "run", "record", "poison"}]
            /\ cur' \in [Handlers -> Messages \cup {NoMessage}] /\ attempts' \in [Handlers -> 0..MaxRetries]
        BY <1>0, <2>1, <3>1, Zenon DEF HandlerTypes
      <3>3. QED
        BY <1>0, <2>4, <2>5, <3>2, Zenon DEF HandlerTypes
    <2>7. BoundTypes' /\ letters' \subseteq Pairs /\ given' \subseteq Pairs /\ missed' \subseteq Pairs
      BY <1>0, <2>1, PairsAre, Zenon DEF BoundTypes, RecordTypes
    <2>8. QED
      BY <1>1, <2>1, <2>2, <2>3, <2>5, <2>6, <2>7, Zenon
  <1>3. CASE CheckInbox(g)
    <2>1. /\ pc[g] = "check"
          /\ \/ Finish(g) /\ faults' = faults
             \/ <<cur[g], g>> \notin processed /\ Move(g, "run") /\ faults' = faults
             \/ Fault /\ Move(g, "poison")
          /\ UNCHANGED <<committed, outbox, process, subscribed, sent, queue, letters, attempts, stops>>
      BY <1>3, Zenon DEF CheckInbox
    <2>2. UNCHANGED <<processed, dead, audit, unstored, effects, given, missed>>
      BY <1>3 DEF CheckInbox, tables, ghosts
    <2>3. cur[g] \in Messages /\ cur[g] # NoMessage
      BY <1>0, <2>1, AtWork, Zenon
    <2>4. /\ pc' \in [Handlers -> {"idle", "check", "run", "record", "poison"}]
          /\ cur' \in [Handlers -> Messages \cup {NoMessage}]
          /\ \A h \in Handlers : pc'[h] = "idle" <=> cur'[h] = NoMessage
          /\ \A h \in Handlers : h # g => pc'[h] = pc[h] /\ cur'[h] = cur[h]
      BY <1>0, <2>1, <2>3, Moved, Finished, Zenon
    <2>5. /\ pc'[g] # "record"
          /\ pc'[g] = "run" => cur'[g] = cur[g] /\ <<cur[g], g>> \notin processed
      BY <1>0, <2>1, <2>3, Moved, Finished, Zenon
    <2>6. HandlerTypes'
      BY <1>0, <2>1, <2>4, Zenon DEF HandlerTypes
    <2>7. BoundTypes' /\ (faults' = 0 => faults = 0)
      BY <1>0, <2>1, FaultCounts, Zenon DEF BoundTypes
    <2>8. QueueType' /\ letters' \subseteq Pairs /\ given' \subseteq Pairs /\ missed' \subseteq Pairs
      BY <1>0, <2>1, <2>2, Zenon DEF QueueType, RecordTypes
    <2>9. QED
      BY <1>1, <2>1, <2>2, <2>4, <2>5, <2>6, <2>7, <2>8, Zenon
  <1>4. CASE Poison(g) \/ CancelHandler(g)
    <2>1. /\ pc[g] # "idle" /\ Finish(g)
          /\ letters' = letters \/ letters' = letters \cup {<<cur[g], g>>}
          /\ missed' = missed \/ missed' = missed \cup {<<cur[g], g>>}
          /\ UNCHANGED <<committed, outbox, process, subscribed, sent, queue, attempts, stops, faults>>
          /\ UNCHANGED <<processed, dead, audit, unstored, effects, given>>
      BY <1>4 DEF Poison, CancelHandler, tables, ghosts
    <2>2. <<cur[g], g>> \in Pairs
      BY <1>0, <2>1, AtWork, Zenon
    <2>3. /\ pc' \in [Handlers -> {"idle", "check", "run", "record", "poison"}]
          /\ cur' \in [Handlers -> Messages \cup {NoMessage}]
          /\ \A h \in Handlers : pc'[h] = "idle" <=> cur'[h] = NoMessage
          /\ \A h \in Handlers : h # g => pc'[h] = pc[h] /\ cur'[h] = cur[h]
          /\ pc'[g] = "idle"
      BY <1>0, <2>1, Finished, Zenon
    <2>4. HandlerTypes' /\ QueueType' /\ BoundTypes'
      BY <1>0, <2>1, <2>3, Zenon DEF HandlerTypes, QueueType, BoundTypes
    <2>5. letters' \subseteq Pairs /\ given' \subseteq Pairs /\ missed' \subseteq Pairs
      BY <1>0, <2>1, <2>2, Zenon DEF RecordTypes
    <2>6. pc'[g] # "record" /\ pc'[g] # "run"
      BY <2>3
    <2>7. QED
      BY <1>1, <2>1, <2>3, <2>4, <2>5, <2>6, Zenon
  <1>5. QED
    BY <1>2, <1>3, <1>4, Zenon

\* The handler runs: what it carried out is counted before it is recorded, and an event
\* that is in the inbox is not run.
LEMMA RunSteps ==
    ASSUME MessagingInv, NEW g \in Handlers, RunSucceeds(g) \/ \E retryable \in BOOLEAN : RunFails(g, retryable)
    PROVE  MessagingInv' /\ \A p \in processed : effects'[p] = effects[p]
  <1>0. /\ RowTypes /\ QueueType /\ HandlerTypes /\ RecordTypes /\ EffectTypes /\ BoundTypes
        /\ AuditRecords
    BY Zenon DEF MessagingInv, Types
  <1>1. pc[g] = "run"
    BY Zenon DEF RunSucceeds, RunFails
  <1>a. pc[g] # "idle"
    BY <1>1
  <1>b. PICK m \in Messages : m = cur[g] /\ m # NoMessage /\ <<m, g>> \in Pairs
    BY <1>0, <1>a, AtWork, Zenon
  <1> DEFINE p == <<m, g>>
  <1>2. m \in Messages /\ m # NoMessage /\ p \in Pairs
    BY <1>b
  <1>3. p \notin processed
    BY <1>0, <1>1, <1>b, Zenon DEF AuditRecords, Record
  <1>4. effects[p] \in Nat
    BY <1>0, <1>2, Zenon DEF EffectTypes
  <1>5. CASE RunSucceeds(g)
    <2>1. /\ Move(g, "record") /\ Audit(g, TRUE)
          /\ effects' = IF m \in Wants[g] THEN [effects EXCEPT ![p] = @ + 1] ELSE effects
          /\ UNCHANGED <<committed, outbox, process, subscribed, sent, queue, letters, attempts, processed, dead,
                         unstored, given, missed, stops>>
      BY <1>b, <1>5, Zenon DEF RunSucceeds
    <2>2. \/ audit' = audit \cup {<<m, g, TRUE>>} /\ faults' = faults
          \/ audit' = audit /\ Fault
      BY <1>b, <2>1, Zenon DEF Audit
    <2>3. BoundTypes' /\ (faults' = 0 => faults = 0) /\ (faults' = 0 => <<m, g, TRUE>> \in audit')
      BY <1>0, <2>1, <2>2, FaultCounts, Zenon DEF BoundTypes
    <2>4. effects[p] + 1 \in Nat /\ effects[p] + 1 > 0
      BY <1>4
    <2>5. /\ EffectTypes' /\ \A q \in Pairs : q # p => effects'[q] = effects[q]
          /\ m \in Wants[g] => effects'[p] > 0
      BY <1>0, <1>2, <2>1, <2>4, Zenon DEF EffectTypes
    <2>6. Done(m, g)'
      BY <2>5, Zenon DEF Done
    <2>7. ASSUME NEW n \in Messages, NEW h \in Handlers, Done(n, h) PROVE Done(n, h)'
      <3>1. <<n, h>> \in Pairs
        BY PairsAre, Zenon
      <3>2. CASE <<n, h>> = p
        <4>1. n = m /\ h = g
          BY <3>2
        <4>2. QED
          BY <2>6, <4>1, Zenon
      <3>3. CASE <<n, h>> # p
        BY <2>5, <2>7, <3>1, <3>3, Zenon DEF Done
      <3>4. QED
        BY <3>2, <3>3
    <2>8. /\ pc' \in [Handlers -> {"idle", "check", "run", "record", "poison"}]
          /\ cur' \in [Handlers -> Messages \cup {NoMessage}]
          /\ \A h \in Handlers : pc'[h] = "idle" <=> cur'[h] = NoMessage
          /\ \A h \in Handlers : h # g => pc'[h] = pc[h] /\ cur'[h] = cur[h]
          /\ pc'[g] = "record" /\ cur'[g] = m
      BY <1>0, <1>b, <2>1, Moved, Zenon
    <2>9. audit' \subseteq Messages \X Handlers \X BOOLEAN
      <3>1. <<m, g, TRUE>> \in Messages \X Handlers \X BOOLEAN
        BY <1>2, Zenon
      <3>2. QED
        BY <1>0, <2>2, <3>1, Zenon DEF RecordTypes
    <2>10. \A n \in Messages : \A h \in Handlers : <<n, h, TRUE>> \in audit' =>
              <<n, h, TRUE>> \in audit \/ (h = g /\ m = n /\ Done(n, h)')
      <3>1. \A n \in Messages : \A h \in Handlers : <<n, h, TRUE>> = <<m, g, TRUE>> => n = m /\ h = g
        OBVIOUS
      <3>2. QED
        BY <2>2, <2>6, <3>1, Zenon
    <2>11. pc'[g] # "run"
      BY <2>8
    <2>12. AuditRecords'
      BY <1>0, <1>b, <2>1, <2>2, <2>3, <2>6, <2>7, <2>8, <2>10, <2>11, RecordsStep, Zenon
    <2>13. RowTypes' /\ QueueType' /\ HandlerTypes' /\ RecordTypes'
      BY <1>0, <2>1, <2>8, <2>9, Zenon DEF RowTypes, QueueType, HandlerTypes, RecordTypes
    <2>14. \A q \in processed : effects'[q] = effects[q]
      BY <1>0, <1>3, <2>5, Zenon DEF RecordTypes
    <2>15. QED
      BY <2>3, <2>5, <2>12, <2>13, <2>14, Zenon DEF MessagingInv, Types
  <1>6. ASSUME NEW retryable \in BOOLEAN, RunFails(g, retryable)
        PROVE  MessagingInv' /\ \A q \in processed : effects'[q] = effects[q]
    <2>1. UNCHANGED <<committed, outbox, process, subscribed, sent, queue, letters, processed, dead, unstored, stops>>
      BY <1>6, Zenon DEF RunFails
    <2>2. UNCHANGED <<effects, given, missed>>
      BY <1>6 DEF RunFails, ghosts
    <2>3. CASE /\ TriesAgain(g, retryable) /\ attempts' = [attempts EXCEPT ![g] = @ + 1]
               /\ UNCHANGED <<pc, cur, audit, faults>>
      <3>1. attempts[g] \in 0..MaxRetries /\ attempts[g] < MaxRetries
        BY <1>0, <2>3, Zenon DEF HandlerTypes, TriesAgain
      <3>2. attempts[g] + 1 \in 0..MaxRetries
        BY <3>1, MessagingAssumption
      <3>3. attempts' \in [Handlers -> 0..MaxRetries]
        BY <1>0, <2>3, <3>2, Zenon DEF HandlerTypes
      <3>4. HandlerTypes'
        BY <1>0, <2>3, <3>3, Zenon DEF HandlerTypes
      <3>5. RowTypes' /\ QueueType' /\ RecordTypes' /\ EffectTypes' /\ BoundTypes'
        BY <1>0, <2>1, <2>2, <2>3, Zenon DEF RowTypes, QueueType, RecordTypes, EffectTypes, BoundTypes
      <3>6. AuditRecords'
        BY <1>0, <2>1, <2>2, <2>3, RecordsFrame, Zenon
      <3>7. QED
        BY <2>2, <3>4, <3>5, <3>6, Zenon DEF MessagingInv, Types
    <2>4. CASE Move(g, "poison") /\ Audit(g, FALSE) /\ UNCHANGED attempts
      <3>1. \/ audit' = audit \cup {<<m, g, FALSE>>} /\ faults' = faults
            \/ audit' = audit /\ Fault
        BY <1>b, <2>4, Zenon DEF Audit
      <3>2. BoundTypes' /\ (faults' = 0 => faults = 0)
        BY <1>0, <2>1, <3>1, FaultCounts, Zenon DEF BoundTypes
      <3>3. /\ pc' \in [Handlers -> {"idle", "check", "run", "record", "poison"}]
            /\ cur' \in [Handlers -> Messages \cup {NoMessage}]
            /\ \A h \in Handlers : pc'[h] = "idle" <=> cur'[h] = NoMessage
            /\ \A h \in Handlers : h # g => pc'[h] = pc[h] /\ cur'[h] = cur[h]
            /\ pc'[g] = "poison"
        BY <1>0, <1>b, <2>4, Moved, Zenon
      <3>4. audit' \subseteq Messages \X Handlers \X BOOLEAN
        <4>1. <<m, g, FALSE>> \in Messages \X Handlers \X BOOLEAN
          BY <1>2, Zenon
        <4>2. QED
          BY <1>0, <3>1, <4>1, Zenon DEF RecordTypes
      <3>5. \A n \in Messages : \A h \in Handlers : <<n, h, TRUE>> \in audit' <=> <<n, h, TRUE>> \in audit
        BY <3>1, OutcomesDiffer, Zenon
      <3>6. \A n \in Messages : \A h \in Handlers : Done(n, h) => Done(n, h)'
        BY <2>2, Zenon DEF Done
      <3>7. pc'[g] # "record" /\ pc'[g] # "run"
        BY <3>3
      <3>8. AuditRecords'
        BY <1>0, <2>1, <3>2, <3>3, <3>5, <3>6, <3>7, RecordsStep, Zenon
      <3>9. RowTypes' /\ QueueType' /\ HandlerTypes' /\ RecordTypes' /\ EffectTypes'
        BY <1>0, <2>1, <2>2, <2>4, <3>3, <3>4, Zenon DEF RowTypes, QueueType, HandlerTypes, RecordTypes, EffectTypes
      <3>10. QED
        BY <2>2, <3>2, <3>8, <3>9, Zenon DEF MessagingInv, Types
    <2>5. QED
      BY <1>6, <2>3, <2>4, Zenon DEF RunFails
  <1>7. QED
    BY <1>5, <1>6, Zenon

\* The inbox row is written after the handler returned.
LEMMA RecordStep ==
    ASSUME MessagingInv, NEW g \in Handlers, RecordProcessed(g)
    PROVE  MessagingInv' /\ effects' = effects
  <1>0. /\ RowTypes /\ QueueType /\ HandlerTypes /\ RecordTypes /\ EffectTypes /\ BoundTypes
        /\ AuditRecords
    BY Zenon DEF MessagingInv, Types
  <1>1. /\ pc[g] = "record"
        /\ \/ processed' = processed \cup {<<cur[g], g>>} /\ Finish(g) /\ faults' = faults
           \/ Fault /\ Move(g, "poison") /\ processed' = processed
        /\ UNCHANGED <<committed, outbox, process, subscribed, sent, queue, letters, attempts, dead, audit, unstored,
                       stops>>
    BY Zenon DEF RecordProcessed
  <1>2. UNCHANGED <<effects, given, missed>>
    BY DEF RecordProcessed, ghosts
  <1>a. pc[g] # "idle"
    BY <1>1
  <1>3. PICK m \in Messages : m = cur[g] /\ m # NoMessage /\ <<m, g>> \in Pairs
    BY <1>0, <1>a, AtWork, Zenon
  <1>4. BoundTypes' /\ (faults' = 0 => faults = 0)
    BY <1>0, <1>1, FaultCounts, Zenon DEF BoundTypes
  <1>5. /\ pc' \in [Handlers -> {"idle", "check", "run", "record", "poison"}]
        /\ cur' \in [Handlers -> Messages \cup {NoMessage}]
        /\ \A h \in Handlers : pc'[h] = "idle" <=> cur'[h] = NoMessage
        /\ \A h \in Handlers : h # g => pc'[h] = pc[h] /\ cur'[h] = cur[h]
    BY <1>0, <1>1, <1>3, Moved, Finished, Zenon
  <1>6. pc'[g] # "record" /\ pc'[g] # "run"
    BY <1>0, <1>1, <1>3, Moved, Finished, Zenon
  <1>7. \A n \in Messages : \A h \in Handlers : <<n, h>> \in processed' =>
           <<n, h>> \in processed \/ (h = g /\ m = n /\ pc[g] = "record")
    BY <1>1, <1>3
  <1>8. \A n \in Messages : \A h \in Handlers : Done(n, h) => Done(n, h)'
    BY <1>2, Zenon DEF Done
  <1>9. AuditRecords'
    BY <1>0, <1>1, <1>3, <1>4, <1>5, <1>6, <1>7, <1>8, RecordsStep, Zenon
  <1>10. processed' \subseteq Pairs
    BY <1>0, <1>1, <1>3, Zenon DEF RecordTypes
  <1>11. RowTypes' /\ QueueType' /\ HandlerTypes' /\ RecordTypes' /\ EffectTypes'
    BY <1>0, <1>1, <1>2, <1>5, <1>10, Zenon DEF RowTypes, QueueType, HandlerTypes, RecordTypes, EffectTypes
  <1>12. QED
    BY <1>2, <1>4, <1>9, <1>11, Zenon DEF MessagingInv, Types

-----------------------------------------------------------------------------
(* The specification.                                                       *)

\* Nothing has been published and nothing recorded.
LEMMA MessagingBegins == Init => MessagingInv
  <1> SUFFICES ASSUME Init PROVE MessagingInv
    OBVIOUS
  <1>1. 0 \in Nat /\ 0 \in 0..MaxRetries /\ 0 \in 0..MaxStops /\ 0 \in 0..MaxFaults
    BY MessagingAssumption
  <1>2. RowTypes /\ QueueType /\ RecordTypes /\ EffectTypes /\ BoundTypes
    BY <1>1, Zenon DEF Init, NoCopies, RowTypes, QueueType, RecordTypes, EffectTypes, BoundTypes
  <1>3. HandlerTypes
    BY <1>1, Zenon DEF Init, HandlerTypes
  <1>4. AuditRecords
    <2>1. \A h \in Handlers : pc[h] = "idle"
      BY Zenon DEF Init
    <2>2. \A h \in Handlers : pc[h] # "record" /\ pc[h] # "run"
      BY <2>1
    <2>3. processed = {} /\ audit = {}
      BY Zenon DEF Init
    <2>4. QED
      BY <2>2, <2>3, Zenon DEF AuditRecords, Record
  <1>5. QED
    BY <1>2, <1>3, <1>4, Zenon DEF MessagingInv, Types

\* Every step keeps the invariant, and none runs a handler for an event of its inbox.
LEMMA MessagingSteps ==
    MessagingInv /\ [Next]_vars => MessagingInv' /\ \A p \in processed : effects'[p] = effects[p]
  <1> SUFFICES ASSUME MessagingInv, [Next]_vars
               PROVE  MessagingInv' /\ \A p \in processed : effects'[p] = effects[p]
    OBVIOUS
  <1>1. CASE \/ \E events \in SUBSET Messages \ {{}} : PublishOutbox(events)
             \/ \E m \in Messages : Forward(m)
             \/ ForwardAck
             \/ \E h \in Handlers \cup {DeadLetter} : Subscribe(h)
    <2>1. effects' = effects
      BY <1>1 DEF PublishOutbox, Forward, ForwardAck, Subscribe, ghosts
    <2>2. MessagingInv'
      BY <1>1, OutboxSteps
    <2>3. QED
      BY <2>1, <2>2
  <1>2. CASE \/ \E p \in Pairs : PersistLetter(p)
             \/ Crash \/ BeginShutdown \/ EndShutdown \/ Restart
    <2>1. effects' = effects
      BY <1>2 DEF PersistLetter, Crash, BeginShutdown, EndShutdown, Restart, ghosts
    <2>2. MessagingInv'
      BY <1>2, ProcessSteps
    <2>3. QED
      BY <2>1, <2>2
  <1>3. ASSUME NEW h \in Handlers, HandlerStep(h) \/ CancelHandler(h)
        PROVE  MessagingInv' /\ \A p \in processed : effects'[p] = effects[p]
    <2>1. CASE (\E m \in Messages : Receive(h, m)) \/ CheckInbox(h) \/ Poison(h) \/ CancelHandler(h)
      BY <2>1, LookupSteps
    <2>2. CASE RunSucceeds(h) \/ \E retryable \in BOOLEAN : RunFails(h, retryable)
      BY <2>2, RunSteps, Zenon
    <2>3. CASE RecordProcessed(h)
      BY <2>3, RecordStep
    <2>4. QED
      BY <1>3, <2>1, <2>2, <2>3, Zenon DEF HandlerStep
  <1>4. CASE UNCHANGED vars
    <2>1. UNCHANGED <<committed, outbox, process, subscribed, sent, stops, faults>>
      BY <1>4 DEF vars
    <2>2. UNCHANGED <<queue, letters, pc, cur, attempts, processed, dead, audit, unstored, effects, given, missed>>
      BY <1>4 DEF vars, work, tables, ghosts
    <2>3. /\ RowTypes' /\ QueueType' /\ HandlerTypes' /\ RecordTypes' /\ EffectTypes' /\ BoundTypes'
      BY <2>1, <2>2, Zenon DEF MessagingInv, Types, RowTypes, QueueType, HandlerTypes, RecordTypes, EffectTypes,
         BoundTypes
    <2>4. AuditRecords'
      BY <2>1, <2>2, RecordsFrame, Zenon DEF MessagingInv
    <2>5. QED
      BY <2>2, <2>3, <2>4, Zenon DEF MessagingInv, Types
  <1>5. QED
    BY <1>1, <1>2, <1>3, <1>4, Zenon DEF Next

\* The worker keeps its types, and its records tell what its handlers did, wherever the
\* handlers are, whatever statement fails and whenever the worker stops.
THEOREM MessagingInvariant == Spec => []MessagingInv
  <1>1. MessagingInv /\ [Next]_vars => MessagingInv'
    BY MessagingSteps
  <1>2. QED
    BY <1>1, MessagingBegins, PTL DEF Spec

\* The inbox, the audit log and the effects of the handlers agree after every step, and
\* no step carries out an event again that is in the handler's inbox, for every number of
\* events, handlers, retries, faults and restarts.
THEOREM RecordsStayTrue == Spec => RecordsAreTrue
  <1>1. ASSUME MessagingInv PROVE RecordsMatch
    BY <1>1, TypesAre, Zenon DEF MessagingInv, AuditRecords, Record, Done, RecordsMatch
  <1>2. MessagingInv /\ [Next]_vars => RecordsMatch' /\ \A p \in processed : effects'[p] = effects[p]
    <2> SUFFICES ASSUME MessagingInv, [Next]_vars
                 PROVE  RecordsMatch' /\ \A p \in processed : effects'[p] = effects[p]
      OBVIOUS
    <2>1. MessagingInv' /\ \A p \in processed : effects'[p] = effects[p]
      BY MessagingSteps
    <2>2. MessagingInv' => RecordsMatch'
      BY <1>1, PTL
    <2>3. QED
      BY <2>1, <2>2
  <1>3. QED
    BY <1>2, MessagingInvariant, PTL DEF Spec, RecordsAreTrue

-----------------------------------------------------------------------------
(* No event is lost on the way to a handler.                                *)

\* The event is in the handler's channel, reached its chain or was published too early.
Passed(m, h) == queue[h][m] > 0 \/ <<m, h>> \in given \cup missed

\* While the worker was never stopped it is up; what it published without having
\* acknowledged it is in the outbox still, and has passed.
DeliveryInv ==
    stops = 0 =>
        /\ process = "up"
        /\ \A m \in committed : \A h \in Handlers : m \in outbox \/ Passed(m, h)
        /\ \A m \in sent : \A h \in Handlers : Passed(m, h)

\* A step that takes nothing from the outbox and nothing that has passed.
LEMMA DeliveryFrame ==
    ASSUME DeliveryInv, UNCHANGED <<committed, outbox, stops>>, stops = 0 => process' = "up",
           sent' = {} \/ sent' = sent, \A m \in Messages : \A h \in Handlers : Passed(m, h) => Passed(m, h)', RowTypes
    PROVE  DeliveryInv'
  BY Zenon DEF DeliveryInv, RowTypes

\* What has passed stays so when the channels do not change.
LEMMA PassedStays ==
    ASSUME queue' = queue, given \subseteq given', missed \subseteq missed'
    PROVE  \A m \in Messages : \A h \in Handlers : Passed(m, h) => Passed(m, h)'
  BY Zenon DEF Passed

\* Every step keeps it: the outbox row goes after the channel has the event.
LEMMA DeliverySteps ==
    ASSUME MessagingInv, DeliveryInv, Next
    PROVE  DeliveryInv'
  <1>0. RowTypes /\ QueueType /\ BoundTypes
    BY Zenon DEF MessagingInv, Types
  <1>1. ASSUME NEW events \in SUBSET Messages \ {{}}, PublishOutbox(events) PROVE DeliveryInv'
    <2>1. /\ committed' = committed \cup events /\ outbox' = outbox \cup events
          /\ UNCHANGED <<process, sent, stops>> /\ UNCHANGED <<queue, given, missed>>
      BY <1>1 DEF PublishOutbox, work, ghosts
    <2>2. \A m \in Messages : \A h \in Handlers : Passed(m, h) => Passed(m, h)'
      BY <2>1, Zenon DEF Passed
    <2>3. QED
      BY <1>0, <2>1, <2>2, Zenon DEF DeliveryInv, RowTypes
  <1>2. ASSUME NEW m \in Messages, Forward(m) PROVE DeliveryInv'
    <2>1. /\ sent' = sent \cup {m}
          /\ queue' = [h \in Handlers |-> IF h \in subscribed THEN [queue[h] EXCEPT ![m] = @ + 1] ELSE queue[h]]
          /\ missed' = missed \cup {<<m, h>> : h \in Handlers \ subscribed}
          /\ UNCHANGED <<committed, outbox, process, given, stops>>
      BY <1>2, Zenon DEF Forward
    <2>2. ASSUME NEW n \in Messages, NEW h \in Handlers, n = m \/ Passed(n, h) PROVE Passed(n, h)'
      <3>1. queue[h] \in [Messages -> Nat] /\ queue[h][n] \in Nat
        BY <1>0, Zenon DEF QueueType
      <3>2. CASE h \in subscribed
        <4>1. queue'[h] = [queue[h] EXCEPT ![m] = @ + 1]
          BY <2>1, <3>2, Zenon
        <4>2. n = m => queue'[h][n] > 0
          BY <3>1, <4>1
        <4>3. n # m => queue'[h][n] = queue[h][n]
          BY <3>1, <4>1
        <4>4. QED
          BY <2>1, <2>2, <4>2, <4>3, Zenon DEF Passed
      <3>3. CASE h \notin subscribed
        <4>1. queue'[h] = queue[h] /\ <<m, h>> \in missed'
          BY <2>1, <3>3, Zenon
        <4>2. QED
          BY <2>1, <2>2, <4>1, Zenon DEF Passed
      <3>4. QED
        BY <3>2, <3>3
    <2>3. QED
      BY <1>0, <2>1, <2>2, Zenon DEF DeliveryInv, RowTypes
  <1>3. ASSUME ForwardAck PROVE DeliveryInv'
    <2>1. /\ sent' = {} /\ (outbox' = outbox \ sent \/ outbox' = outbox)
          /\ UNCHANGED <<committed, process, stops>> /\ UNCHANGED <<queue, given, missed>>
      BY <1>3 DEF ForwardAck, work, ghosts
    <2>2. \A m \in Messages : \A h \in Handlers : Passed(m, h) => Passed(m, h)'
      BY <2>1, Zenon DEF Passed
    <2>3. QED
      BY <1>0, <2>1, <2>2, Zenon DEF DeliveryInv, RowTypes
  <1>4. ASSUME NEW g \in Handlers, NEW m \in Messages, Receive(g, m) PROVE DeliveryInv'
    <2>1. /\ queue' = [queue EXCEPT ![g][m] = @ - 1] /\ given' = given \cup {<<m, g>>}
          /\ UNCHANGED <<committed, outbox, process, sent, missed, stops>>
      BY <1>4 DEF Receive
    <2>2. ASSUME NEW n \in Messages, NEW h \in Handlers, Passed(n, h) PROVE Passed(n, h)'
      <3>1. CASE n = m /\ h = g
        BY <2>1, <3>1, Zenon DEF Passed
      <3>2. CASE n # m \/ h # g
        <4>1. queue'[h][n] = queue[h][n]
          BY <1>0, <2>1, <3>2 DEF QueueType
        <4>2. QED
          BY <2>1, <2>2, <4>1, Zenon DEF Passed
      <3>3. QED
        BY <3>1, <3>2
    <2>3. process' = process /\ (stops = 0 => process = "up")
      BY <2>1, Zenon DEF DeliveryInv
    <2>4. QED
      BY <1>0, <2>1, <2>2, <2>3, DeliveryFrame, Zenon
  <1>5. CASE \/ \E h \in Handlers \cup {DeadLetter} : Subscribe(h)
             \/ \E p \in Pairs : PersistLetter(p)
             \/ \E h \in Handlers : \/ CheckInbox(h) \/ RunSucceeds(h) \/ RecordProcessed(h) \/ Poison(h)
                                    \/ CancelHandler(h) \/ \E retryable \in BOOLEAN : RunFails(h, retryable)
    <2>1. UNCHANGED <<committed, outbox, process, sent, queue, given, stops>> /\ missed \subseteq missed'
      BY <1>5, Zenon DEF Subscribe, PersistLetter, CheckInbox, RunSucceeds, RecordProcessed, Poison, CancelHandler, RunFails,
                  work, ghosts
    <2>2. stops = 0 => process' = "up"
      BY <2>1, Zenon DEF DeliveryInv
    <2>3. QED
      BY <1>0, <2>1, <2>2, PassedStays, DeliveryFrame, Zenon
  <1>6. CASE Crash \/ BeginShutdown \/ EndShutdown \/ Restart
    <2>1. stops \in Nat /\ (stops' = stops + 1 \/ (stops' = stops /\ process # "up"))
      BY <1>0, <1>6, MessagingAssumption DEF Crash, BeginShutdown, EndShutdown, Restart, BoundTypes
    <2>2. stops' # 0
      <3>1. stops' = stops => stops # 0
        BY <2>1 DEF DeliveryInv
      <3>2. QED
        BY <2>1, <3>1
    <2>3. QED
      BY <2>2, Zenon DEF DeliveryInv
  <1>7. QED
    BY <1>1, <1>2, <1>3, <1>4, <1>5, <1>6, Zenon DEF Next, HandlerStep

\* While the worker has not been stopped every committed event is in the outbox, in the
\* handler's channel or was given to the handler, unless it was published before the
\* handler was subscribed: the row is deleted only after every channel has the event.
THEOREM NothingIsLost == Spec => []AtLeastOnce
  <1>1. Init => DeliveryInv
    BY Zenon DEF Init, DeliveryInv
  <1>2. MessagingInv /\ DeliveryInv /\ [Next]_vars => DeliveryInv'
    <2> SUFFICES ASSUME MessagingInv, DeliveryInv, [Next]_vars PROVE DeliveryInv'
      OBVIOUS
    <2>1. CASE UNCHANGED vars
      <3>1. UNCHANGED <<committed, outbox, process, sent, queue, given, missed, stops>>
        BY <2>1 DEF vars, work, ghosts
      <3>2. QED
        BY <3>1, Zenon DEF DeliveryInv, Passed
    <2>2. QED
      BY <2>1, DeliverySteps
  <1>3. DeliveryInv => AtLeastOnce
    BY Zenon DEF DeliveryInv, Passed, AtLeastOnce
  <1>4. QED
    BY <1>1, <1>2, <1>3, MessagingInvariant, PTL DEF Spec

-----------------------------------------------------------------------------
(* Idempotency.                                                             *)

\* The handler has run for this command and gave this response.
Ran(c, n) == \E x \in runs : x.command = c /\ x.response = n

IdemTypes ==
    /\ alimit \in AttemptLimits /\ ticks \in 0 .. MaxTicks /\ losses \in 0 .. MaxLosses
    /\ records \in [Callers \X Keys -> Records \cup {Absent}]
    /\ attempt \in [Attempts -> [pc : {"idle", "run", "store"}, command : Commands \cup {Absent}, response : Nat]]
    /\ runs \subseteq [command : Commands, response : 1 .. MaxRuns, at : 0 .. MaxTicks]
    /\ IsFiniteSet(runs)

AttemptInv(q) ==
    /\ attempt[q].pc # "idle" => attempt[q].command \in Commands
    /\ attempt[q].pc = "store" => attempt[q].response \in 1 .. MaxRuns /\ Ran(attempt[q].command, attempt[q].response)

\* A record is the response to a command of its slot.
RecordsInv ==
    \A k \in Callers \X Keys : records[k] # Absent =>
        \E x \in runs : Slot(x.command) = k /\ x.command.body = records[k].body /\ x.response = records[k].response

HistoryInv == (\A r \in replayed : Ran(r.command, r.response)) /\ \A x \in runs : x.at <= ticks

AloneInv == \A p, q \in Attempts : attempt[p].pc # "idle" /\ attempt[q].pc # "idle" => p = q

\* The record of a run outlives its window, or is about to be written.
Stored(x) == records[Slot(x.command)] # Absent /\ records[Slot(x.command)].expires >= x.at + RecordTTL

Storing(x) == \E q \in Attempts : attempt[q].pc = "store" /\ Slot(attempt[q].command) = Slot(x.command)

Apart(x, y) == x.at >= y.at + RecordTTL \/ y.at >= x.at + RecordTTL

WindowInv ==
    /\ \A q \in Attempts : attempt[q].pc = "run" => ~ Live(attempt[q].command)
    /\ \A x \in runs : Stored(x) \/ Storing(x)
    /\ \A x, y \in runs : Slot(x.command) = Slot(y.command) /\ x # y => Apart(x, y)

\* What one request after the other adds: nobody runs while the record lives.
IdemInv ==
    /\ IdemTypes /\ RecordsInv /\ HistoryInv /\ \A q \in Attempts : AttemptInv(q)
    /\ alimit = 1 => AloneInv /\ (losses = 0 => WindowInv)

\* The bounds are numbers.
LEMMA NumbersAre ==
    ASSUME IdempotencyAssumption
    PROVE  RecordTTL \in Nat /\ MaxRuns \in Nat /\ MaxTicks \in Nat /\ MaxLosses \in Nat
  BY Zenon DEF IdempotencyAssumption

\* A command's slot is a row of the table.
LEMMA SlotType == ASSUME NEW c \in Commands PROVE Slot(c) \in Callers \X Keys
  BY DEF Slot, Commands

\* Only one request at a time: a request that may begin is alone.
LEMMA NobodyServed ==
    ASSUME IdempotencyAssumption, alimit = 1, Cardinality({r \in Attempts : attempt[r].pc # "idle"}) < alimit
    PROVE  \A r \in Attempts : attempt[r].pc = "idle"
  <1> DEFINE S == {r \in Attempts : attempt[r].pc # "idle"}
  <1>1. IsFiniteSet(S) /\ Cardinality(S) \in Nat
    BY FS_Subset, FS_CardinalityType DEF IdempotencyAssumption
  <1>2. Cardinality(S) = 0
    BY <1>1
  <1>3. S = {}
    BY <1>1, <1>2, FS_EmptySet
  <1>4. QED
    BY <1>3

\* At the start nothing has run.
LEMMA IdemInvInit == ASSUME IdempotencyAssumption, IdemInit PROVE IdemInv
  <1>1. \A q \in Attempts : attempt[q] = NoAttempt /\ attempt[q].pc = "idle"
    BY DEF IdemInit, NoAttempt
  <1>2. \A k \in Callers \X Keys : records[k] = Absent
    BY DEF IdemInit
  <1>3. IdemTypes
    BY FS_EmptySet DEF IdemInit, IdemTypes, NoAttempt, IdempotencyAssumption
  <1>4. runs = {} /\ replayed = {}
    BY DEF IdemInit
  <1>5. QED
    BY <1>1, <1>2, <1>3, <1>4, Zenon DEF IdemInv, RecordsInv, HistoryInv, AttemptInv, AloneInv, WindowInv

\* A command is its slot and its body.
LEMMA SlotBody ==
    ASSUME NEW c \in Commands, NEW d \in Commands, Slot(c) = Slot(d), c.body = d.body
    PROVE  c = d
  BY DEF Slot, Commands

\* Time passes: a record that has expired stays expired.
LEMMA AgeStep == ASSUME IdempotencyAssumption, IdemInv, UNCHANGED alimit, Age PROVE IdemInv'
  <1>1. /\ ticks' = ticks + 1 /\ ticks' \in 0 .. MaxTicks /\ ticks \in Nat
        /\ UNCHANGED <<records, attempt, runs, replayed, losses>>
    BY DEF Age, IdemInv, IdemTypes, IdempotencyAssumption
  <1>2. IdemTypes'
    BY <1>1, Zenon DEF IdemInv, IdemTypes
  <1>3. RecordsInv' /\ (AloneInv => AloneInv') /\ \A q \in Attempts : AttemptInv(q)'
    BY <1>1, Zenon DEF IdemInv, RecordsInv, AloneInv, AttemptInv, Ran
  <1>4. HistoryInv'
    <2>1. \A x \in runs : x.at \in Nat /\ x.at <= ticks
      BY DEF IdemInv, IdemTypes, HistoryInv
    <2>2. \A x \in runs : x.at <= ticks'
      BY <1>1, <2>1
    <2>3. QED
      BY <1>1, <2>2, Zenon DEF IdemInv, HistoryInv, Ran
  <1>5. ASSUME WindowInv PROVE WindowInv'
    <2>1. ASSUME NEW q \in Attempts, attempt[q].pc = "run" PROVE ~ Live(attempt[q].command)'
      <3>1. attempt[q].command \in Commands /\ ~ Live(attempt[q].command)
        BY <1>5, <2>1, Zenon DEF IdemInv, AttemptInv, WindowInv
      <3>2. PICK k \in Callers \X Keys : k = Slot(attempt[q].command)
        BY <3>1, SlotType, Zenon
      <3>3. records[k] # Absent => records[k].expires \in Nat
        BY DEF IdemInv, IdemTypes, Records
      <3>4. records[k] # Absent => ~(ticks' < records[k].expires)
        BY <1>1, <3>1, <3>2, <3>3 DEF Live
      <3>5. QED
        BY <1>1, <3>2, <3>4, Zenon DEF Live
    <2>2. \A x : (Stored(x) => Stored(x)') /\ (Storing(x) => Storing(x)')
      BY <1>1, Zenon DEF Stored, Storing
    <2>3. QED
      BY <1>1, <1>5, <2>1, <2>2, Zenon DEF WindowInv, Apart
  <1>6. QED
    BY <1>1, <1>2, <1>3, <1>4, <1>5, Zenon DEF IdemInv

\* Middleware: the lookup replays a record, or lets the handler run.
LEMMA LookupStep ==
    ASSUME IdempotencyAssumption, IdemInv, UNCHANGED alimit, NEW q \in Attempts, Lookup(q)
    PROVE  IdemInv'
  <1>1. /\ attempt[q].pc = "idle" /\ UNCHANGED <<ticks, records, runs, losses>>
        /\ Cardinality({r \in Attempts : attempt[r].pc # "idle"}) < alimit
    BY DEF Lookup
  <1>2. PICK c \in Commands :
          \/ /\ Live(c) /\ SameBody(c)
             /\ replayed' = replayed \cup {[command |-> c, response |-> records[Slot(c)].response]}
             /\ UNCHANGED attempt
          \/ /\ ~ Live(c)
             /\ attempt' = [attempt EXCEPT ![q] = [pc |-> "run", command |-> c, response |-> 0]]
             /\ UNCHANGED replayed
    BY Zenon DEF Lookup
  <1>3. RecordsInv' /\ (\A d, n : Ran(d, n)' <=> Ran(d, n)) /\ (\A x : Stored(x)' <=> Stored(x))
        /\ \A d : Live(d)' <=> Live(d)
    BY <1>1, Zenon DEF IdemInv, RecordsInv, Ran, Stored, Live
  <1>4. CASE /\ Live(c) /\ SameBody(c) /\ UNCHANGED attempt
             /\ replayed' = replayed \cup {[command |-> c, response |-> records[Slot(c)].response]}
    <2>1. Slot(c) \in Callers \X Keys /\ records[Slot(c)] # Absent /\ records[Slot(c)].body = c.body
      BY <1>4, SlotType, Zenon DEF Live, SameBody
    <2>2. PICK x \in runs : /\ Slot(x.command) = Slot(c) /\ x.command.body = c.body
                            /\ x.response = records[Slot(c)].response
      BY <2>1, Zenon DEF IdemInv, RecordsInv
    <2>3. x.command \in Commands
      BY DEF IdemInv, IdemTypes
    <2>4. x.command = c
      BY <2>2, <2>3, SlotBody, Zenon
    <2>5. Ran(c, records[Slot(c)].response)
      BY <2>2, <2>4, Zenon DEF Ran
    <2>6. \A r \in replayed' : Ran(r.command, r.response)
      <3>1. \A r \in replayed' : r \in replayed \/ r = [command |-> c, response |-> records[Slot(c)].response]
        BY <1>4, Zenon
      <3>2. QED
        BY <2>5, <3>1 DEF IdemInv, HistoryInv
    <2>7. HistoryInv'
      BY <1>1, <1>3, <2>6, Zenon DEF IdemInv, HistoryInv
    <2>8. IdemTypes' /\ (\A p \in Attempts : AttemptInv(p)') /\ (AloneInv => AloneInv') /\ (WindowInv => WindowInv')
      BY <1>1, <1>3, <1>4, Zenon DEF IdemInv, IdemTypes, AttemptInv, AloneInv, WindowInv, Storing
    <2>9. QED
      BY <1>1, <1>3, <2>7, <2>8, Zenon DEF IdemInv
  <1>5. CASE /\ ~ Live(c) /\ attempt' = [attempt EXCEPT ![q] = [pc |-> "run", command |-> c, response |-> 0]]
             /\ UNCHANGED replayed
    <2> DEFINE new == [pc |-> "run", command |-> c, response |-> 0]
    <2>1. new.pc = "run" /\ new.command = c
          /\ new \in [pc : {"idle", "run", "store"}, command : Commands \cup {Absent}, response : Nat]
      OBVIOUS
    <2> HIDE DEF new
    <2>2. \A p \in Attempts : attempt'[p] = IF p = q THEN new ELSE attempt[p]
      BY <1>5, Zenon DEF IdemInv, IdemTypes, new
    <2>3. IdemTypes'
      BY <1>1, <1>5, <2>1, Zenon DEF IdemInv, IdemTypes, new
    <2>4. HistoryInv' /\ \A p \in Attempts : AttemptInv(p)'
      BY <1>1, <1>3, <1>5, <2>1, <2>2, Zenon DEF IdemInv, HistoryInv, AttemptInv
    <2>5. ASSUME alimit = 1 PROVE AloneInv'
      <3>1. \A p \in Attempts : attempt[p].pc = "idle"
        BY <1>1, <2>5, NobodyServed, Zenon
      <3>2. QED
        BY <2>2, <3>1, Zenon DEF AloneInv
    <2>6. \A x : Storing(x) => Storing(x)'
      BY <1>1, <2>2, Zenon DEF Storing
    <2>7. WindowInv => WindowInv'
      BY <1>1, <1>3, <1>5, <2>1, <2>2, <2>6, Zenon DEF WindowInv, Apart
    <2>8. QED
      BY <1>1, <1>3, <2>3, <2>4, <2>5, <2>7, Zenon DEF IdemInv
  <1>6. QED
    BY <1>2, <1>4, <1>5, Zenon

\* A request ends: its place is free, and nothing else changes for the others.
LEMMA EndAttempt ==
    ASSUME IdemInv, NEW q \in Attempts, attempt' = [attempt EXCEPT ![q] = NoAttempt]
    PROVE  /\ \A p \in Attempts : attempt'[p] = IF p = q THEN NoAttempt ELSE attempt[p]
           /\ attempt' \in [Attempts -> [pc : {"idle", "run", "store"}, command : Commands \cup {Absent}, response : Nat]]
           /\ NoAttempt.pc = "idle"
           /\ AloneInv => AloneInv'
  <1>1. /\ NoAttempt.pc = "idle"
        /\ NoAttempt \in [pc : {"idle", "run", "store"}, command : Commands \cup {Absent}, response : Nat]
    BY DEF NoAttempt
  <1>2. attempt \in [Attempts -> [pc : {"idle", "run", "store"}, command : Commands \cup {Absent}, response : Nat]]
    BY Zenon DEF IdemInv, IdemTypes
  <1>3. \A p \in Attempts : attempt'[p] = IF p = q THEN NoAttempt ELSE attempt[p]
    BY <1>2, Zenon
  <1>4. AloneInv => AloneInv'
    <2>1. \A p \in Attempts : attempt'[p].pc # "idle" => attempt[p].pc # "idle"
      BY <1>1, <1>3, Zenon
    <2>2. QED
      BY <2>1, Zenon DEF AloneInv
  <1>5. attempt' \in [Attempts -> [pc : {"idle", "run", "store"}, command : Commands \cup {Absent}, response : Nat]]
    BY <1>1, <1>2, Zenon
  <1>6. QED
    BY <1>1, <1>3, <1>4, <1>5, Zenon

\* The handler runs, or answers with an error.
LEMMA ServeStep ==
    ASSUME IdempotencyAssumption, IdemInv, UNCHANGED alimit, NEW q \in Attempts, ServeHTTP(q)
    PROVE  IdemInv'
  <1>1. PICK c : c = attempt[q].command
    OBVIOUS
  <1>2. PICK n : n = Cardinality(runs) + 1
    OBVIOUS
  <1>3. PICK x : x = [command |-> c, response |-> n, at |-> ticks]
    BY Zenon
  <1>4. PICK new : new = [pc |-> "store", command |-> c, response |-> n]
    BY Zenon
  <1>5. /\ attempt[q].pc = "run" /\ UNCHANGED <<ticks, records, replayed, losses>>
        /\ \/ Cardinality(runs) < MaxRuns /\ runs' = runs \cup {x} /\ attempt' = [attempt EXCEPT ![q] = new]
           \/ attempt' = [attempt EXCEPT ![q] = NoAttempt] /\ UNCHANGED runs
    BY <1>1, <1>2, <1>3, <1>4, Zenon DEF ServeHTTP
  <1>6. c \in Commands /\ Slot(c) \in Callers \X Keys
    BY <1>5, <1>1, SlotType, Zenon DEF IdemInv, AttemptInv
  <1>7. CASE attempt' = [attempt EXCEPT ![q] = NoAttempt] /\ UNCHANGED runs
    <2>1. /\ \A p \in Attempts : attempt'[p] = IF p = q THEN NoAttempt ELSE attempt[p]
          /\ attempt' \in [Attempts -> [pc : {"idle", "run", "store"}, command : Commands \cup {Absent}, response : Nat]]
          /\ NoAttempt.pc = "idle" /\ (AloneInv => AloneInv')
      BY <1>7, EndAttempt, Zenon
    <2>2. IdemTypes' /\ RecordsInv' /\ HistoryInv'
      <3>1. IdemTypes'
        BY <1>5, <1>7, <2>1, Zenon DEF IdemInv, IdemTypes
      <3>2. RecordsInv'
        BY <1>5, <1>7, Zenon DEF IdemInv, RecordsInv
      <3>3. HistoryInv'
        BY <1>5, <1>7, Zenon DEF IdemInv, HistoryInv, Ran
      <3>4. QED
        BY <3>1, <3>2, <3>3
    <2>3. \A p \in Attempts : AttemptInv(p)'
      BY <1>7, <2>1, Zenon DEF IdemInv, AttemptInv, Ran
    <2>4. \A y : (Stored(y) => Stored(y)') /\ (Storing(y) => Storing(y)') /\ (Live(y)' => Live(y))
      BY <1>5, <2>1, Zenon DEF Stored, Storing, Live
    <2>5. WindowInv => WindowInv'
      BY <1>7, <2>1, <2>4, Zenon DEF WindowInv, Apart
    <2>6. QED
      BY <1>5, <2>1, <2>2, <2>3, <2>5, Zenon DEF IdemInv
  <1>8. CASE Cardinality(runs) < MaxRuns /\ runs' = runs \cup {x} /\ attempt' = [attempt EXCEPT ![q] = new]
    <2>1. IsFiniteSet(runs) /\ Cardinality(runs) \in Nat /\ MaxRuns \in Nat /\ ticks \in 0 .. MaxTicks
      BY FS_CardinalityType, Zenon DEF IdemInv, IdemTypes, IdempotencyAssumption
    <2>2. n \in 1 .. MaxRuns /\ n \in Nat
      BY <1>8, <1>2, <2>1
    <2>3. /\ x.command = c /\ x.response = n /\ x.at = ticks /\ new.pc = "store" /\ new.command = c /\ new.response = n
          /\ x \in [command : Commands, response : 1 .. MaxRuns, at : 0 .. MaxTicks]
          /\ new \in [pc : {"idle", "run", "store"}, command : Commands \cup {Absent}, response : Nat]
      BY <1>6, <1>3, <1>4, <2>1, <2>2
    <2>4. \A p \in Attempts : attempt'[p] = IF p = q THEN new ELSE attempt[p]
      BY <1>8, Zenon DEF IdemInv, IdemTypes
    <2>5. IdemTypes'
      <3>1. IsFiniteSet(runs')
        BY <1>8, <2>1, FS_AddElement, Zenon
      <3>2. attempt' \in [Attempts -> [pc : {"idle", "run", "store"}, command : Commands \cup {Absent}, response : Nat]]
        BY <1>8, <2>3, Zenon DEF IdemInv, IdemTypes
      <3>3. QED
        BY <1>5, <1>8, <2>3, <3>1, <3>2, Zenon DEF IdemInv, IdemTypes
    <2>6. (\A d, m : Ran(d, m) => Ran(d, m)') /\ Ran(c, n)'
      BY <1>8, <2>3, Zenon DEF Ran
    <2>7. \A p \in Attempts : AttemptInv(p)'
      BY <1>6, <2>2, <2>3, <2>4, <2>6, Zenon DEF IdemInv, AttemptInv
    <2>8. RecordsInv'
      BY <1>5, <1>8, Zenon DEF IdemInv, RecordsInv
    <2>9. HistoryInv'
      <3>1. ticks <= ticks
        BY <2>1
      <3>2. QED
        BY <1>5, <1>8, <2>3, <2>6, <3>1, Zenon DEF IdemInv, HistoryInv
    <2>10. AloneInv => AloneInv'
      BY <1>5, <2>4, Zenon DEF AloneInv
    <2>11. ASSUME AloneInv, WindowInv PROVE WindowInv'
      <3>1. \A y : ~ Storing(y)
        BY <1>5, <2>11, Zenon DEF AloneInv, Storing
      <3>2. \A y \in runs : Stored(y)'
        BY <1>5, <2>11, <3>1, Zenon DEF WindowInv, Stored
      <3>3. Storing(x)'
        BY <2>3, <2>4, Zenon DEF Storing
      <3>4. \A p \in Attempts : attempt'[p].pc # "run"
        BY <1>5, <2>3, <2>4, <2>11, Zenon DEF AloneInv
      <3>5. ASSUME NEW y \in runs, Slot(y.command) = Slot(c) PROVE Apart(x, y) /\ Apart(y, x)
        <4>1. ~ Live(c) /\ Stored(y)
          BY <1>5, <1>1, <2>11, <3>1, Zenon DEF WindowInv
        <4>2. y.at \in Nat /\ RecordTTL \in Nat /\ MaxTicks \in Nat /\ ticks \in Nat
          <5>1. y \in [command : Commands, response : 1 .. MaxRuns, at : 0 .. MaxTicks]
            BY Zenon DEF IdemInv, IdemTypes
          <5>2. y.at \in 0 .. MaxTicks
            BY <5>1, Zenon
          <5>3. QED
            BY <2>1, <5>2, NumbersAre
        <4>3. /\ records[Slot(c)] # Absent /\ ~(ticks < records[Slot(c)].expires)
              /\ records[Slot(c)].expires >= y.at + RecordTTL
          BY <3>5, <4>1, Zenon DEF Live, Stored
        <4>4. records[Slot(c)] \in Records
          BY <1>6, <4>3, Zenon DEF IdemInv, IdemTypes
        <4>5. records[Slot(c)].expires \in Nat
          <5>1. records[Slot(c)].expires \in 0 .. MaxTicks + RecordTTL
            BY <4>4, Zenon DEF Records
          <5>2. QED
            BY <4>2, <5>1
        <4>6. ticks >= y.at + RecordTTL
          BY <4>2, <4>3, <4>5
        <4>7. QED
          BY <2>3, <4>6, Zenon DEF Apart
      <3>6. ASSUME NEW y \in runs', NEW z \in runs', Slot(y.command) = Slot(z.command), y # z
            PROVE  Apart(y, z)
        <4>1. (y \in runs \/ y = x) /\ (z \in runs \/ z = x)
          BY <1>8, Zenon
        <4>2. CASE y \in runs /\ z \in runs
          BY <2>11, <3>6, <4>2, Zenon DEF WindowInv
        <4>3. CASE y = x /\ z \in runs
          BY <2>3, <3>5, <3>6, <4>3, Zenon
        <4>4. CASE y \in runs /\ z = x
          BY <2>3, <3>5, <3>6, <4>4, Zenon
        <4>5. QED
          BY <3>6, <4>1, <4>2, <4>3, <4>4, Zenon
      <3>7. QED
        BY <1>8, <3>2, <3>3, <3>4, <3>6, Zenon DEF WindowInv, Apart
    <2>12. QED
      BY <1>5, <2>5, <2>7, <2>8, <2>9, <2>10, <2>11, Zenon DEF IdemInv
  <1>9. QED
    BY <1>5, <1>7, <1>8, Zenon

\* Store.Put, or its error, which is ignored.
LEMMA PutStep ==
    ASSUME IdempotencyAssumption, IdemInv, UNCHANGED alimit, NEW q \in Attempts, Put(q)
    PROVE  IdemInv'
  <1>1. PICK c : c = attempt[q].command
    OBVIOUS
  <1>2. PICK rec : rec = [body |-> c.body, response |-> attempt[q].response, expires |-> ticks + RecordTTL]
    BY Zenon
  <1>3. /\ attempt[q].pc = "store" /\ attempt' = [attempt EXCEPT ![q] = NoAttempt] /\ UNCHANGED <<ticks, runs, replayed>>
        /\ \/ records' = [records EXCEPT ![Slot(c)] = rec] /\ UNCHANGED losses
           \/ losses < MaxLosses /\ losses' = losses + 1 /\ UNCHANGED records
    BY <1>1, <1>2, Zenon DEF Put
  <1>4. /\ \A p \in Attempts : attempt'[p] = IF p = q THEN NoAttempt ELSE attempt[p]
        /\ attempt' \in [Attempts -> [pc : {"idle", "run", "store"}, command : Commands \cup {Absent}, response : Nat]]
        /\ NoAttempt.pc = "idle" /\ (AloneInv => AloneInv')
    BY <1>3, EndAttempt, Zenon
  <1>5. /\ c \in Commands /\ Slot(c) \in Callers \X Keys
        /\ attempt[q].response \in 1 .. MaxRuns /\ Ran(c, attempt[q].response)
    BY <1>1, <1>3, SlotType, Zenon DEF IdemInv, AttemptInv
  <1>6. ticks \in 0 .. MaxTicks /\ ticks \in Nat /\ RecordTTL \in Nat /\ MaxTicks \in Nat
    <2>1. ticks \in 0 .. MaxTicks
      BY Zenon DEF IdemInv, IdemTypes
    <2>2. QED
      BY <2>1, NumbersAre
  <1>7. rec \in Records /\ rec # Absent /\ rec.body = c.body /\ rec.response = attempt[q].response
        /\ rec.expires = ticks + RecordTTL
    <2>1. c.body \in Bodies
      BY <1>5 DEF Commands
    <2>2. ticks + RecordTTL \in 0 .. MaxTicks + RecordTTL
      BY <1>6
    <2>3. rec \in Records /\ rec.body = c.body /\ rec.response = attempt[q].response
          /\ rec.expires = ticks + RecordTTL
      BY <1>2, <1>5, <2>1, <2>2, Zenon DEF Records
    <2>4. QED
      BY <2>3, Zenon DEF IdempotencyAssumption
  <1>8. HistoryInv' /\ \A p \in Attempts : AttemptInv(p)'
    BY <1>3, <1>4, Zenon DEF IdemInv, HistoryInv, AttemptInv, Ran
  <1>9. CASE losses < MaxLosses /\ losses' = losses + 1 /\ UNCHANGED records
    <2>1. losses' \in 0 .. MaxLosses /\ losses' # 0
      <3>1. losses \in 0 .. MaxLosses
        BY Zenon DEF IdemInv, IdemTypes
      <3>2. QED
        BY <1>9, <3>1, NumbersAre
    <2>2. IdemTypes'
      BY <1>3, <1>4, <1>9, <2>1, Zenon DEF IdemInv, IdemTypes
    <2>3. RecordsInv'
      BY <1>3, <1>9, Zenon DEF IdemInv, RecordsInv
    <2>4. QED
      BY <1>3, <1>4, <1>8, <2>1, <2>2, <2>3, Zenon DEF IdemInv
  <1>10. CASE records' = [records EXCEPT ![Slot(c)] = rec] /\ UNCHANGED losses
    <2>1. \A k \in Callers \X Keys : records'[k] = IF k = Slot(c) THEN rec ELSE records[k]
      BY <1>10, Zenon DEF IdemInv, IdemTypes
    <2>2. records' \in [Callers \X Keys -> Records \cup {Absent}]
      BY <1>7, <1>10, Zenon DEF IdemInv, IdemTypes
    <2>3. IdemTypes'
      BY <1>3, <1>4, <1>10, <2>2, Zenon DEF IdemInv, IdemTypes
    <2>4. RecordsInv'
      <3> SUFFICES ASSUME NEW k \in Callers \X Keys, records'[k] # Absent
                   PROVE  \E x \in runs : Slot(x.command) = k /\ x.command.body = records'[k].body
                                          /\ x.response = records'[k].response
        BY <1>3, Zenon DEF RecordsInv
      <3>1. CASE k = Slot(c)
        BY <1>5, <1>7, <2>1, <3>1, Zenon DEF Ran
      <3>2. CASE k # Slot(c)
        <4>1. records'[k] = records[k]
          BY <2>1, <3>2, Zenon
        <4>2. records[k] # Absent =>
                \E x \in runs : Slot(x.command) = k /\ x.command.body = records[k].body /\ x.response = records[k].response
          BY Zenon DEF IdemInv, RecordsInv
        <4>3. QED
          BY <4>1, <4>2, Zenon
      <3>3. QED
        BY <3>1, <3>2, Zenon
    <2>5. ASSUME AloneInv, WindowInv PROVE WindowInv'
      <3>1. \A p \in Attempts : attempt'[p].pc = "idle"
        BY <1>3, <1>4, <2>5, Zenon DEF AloneInv
      <3>2. ASSUME NEW x \in runs PROVE Stored(x)'
        <4>1. x.command \in Commands /\ x.at \in Nat /\ x.at <= ticks
          BY DEF IdemInv, IdemTypes, HistoryInv
        <4>2. Slot(x.command) \in Callers \X Keys
          BY <4>1, SlotType, Zenon
        <4>3. Stored(x)' <=> records'[Slot(x.command)] # Absent /\ records'[Slot(x.command)].expires >= x.at + RecordTTL
          BY Zenon DEF Stored
        <4>4. CASE Slot(x.command) = Slot(c)
          <5>1. ticks + RecordTTL >= x.at + RecordTTL
            BY <1>6, <4>1
          <5>2. records'[Slot(x.command)] = rec
            BY <2>1, <4>2, <4>4, Zenon
          <5>3. QED
            BY <1>7, <4>3, <5>1, <5>2, Zenon
        <4>5. CASE Slot(x.command) # Slot(c)
          <5>1. ~ Storing(x)
            BY <1>1, <1>3, <2>5, <4>5, Zenon DEF Storing, AloneInv
          <5>2. Stored(x)
            BY <2>5, <5>1, Zenon DEF WindowInv
          <5>3. records'[Slot(x.command)] = records[Slot(x.command)]
            BY <2>1, <4>2, <4>5, Zenon
          <5>4. QED
            BY <5>2, <5>3, Zenon DEF Stored
        <4>6. QED
          BY <4>4, <4>5, Zenon
      <3>3. QED
        BY <1>3, <2>5, <3>1, <3>2, Zenon DEF WindowInv, Apart
    <2>6. QED
      BY <1>3, <1>4, <1>8, <1>10, <2>3, <2>4, <2>5, Zenon DEF IdemInv
  <1>11. QED
    BY <1>3, <1>9, <1>10, Zenon

\* However requests overlap a replay is the response to its command, and one request
\* after the other a command takes effect once while its record lives (Middleware,
\* Store.Get, Store.Put).
THEOREM RetriesAreSafe == ASSUME IdempotencyAssumption PROVE IdemSpec => []RetryIsSafe
  <1>1. IdemInit => IdemInv
    BY IdemInvInit
  <1>2. IdemInv /\ [IdemNext]_<<idemVars, alimit>> => IdemInv'
    <2> SUFFICES ASSUME IdemInv, [IdemNext]_<<idemVars, alimit>> PROVE IdemInv'
      OBVIOUS
    <2>1. CASE IdemNext
      BY <2>1, AgeStep, LookupStep, ServeStep, PutStep, Zenon DEF IdemNext
    <2>2. CASE UNCHANGED <<idemVars, alimit>>
      <3>1. UNCHANGED <<ticks, records, attempt, runs, replayed, losses, alimit>>
        BY <2>2 DEF idemVars
      <3>2. IdemTypes' /\ RecordsInv' /\ (AloneInv => AloneInv')
        BY <3>1, Zenon DEF IdemInv, IdemTypes, RecordsInv, AloneInv
      <3>3. HistoryInv' /\ \A q \in Attempts : AttemptInv(q)'
        BY <3>1, Zenon DEF IdemInv, HistoryInv, AttemptInv, Ran
      <3>4. WindowInv => WindowInv'
        BY <3>1, Zenon DEF WindowInv, Live, Stored, Storing, Apart
      <3>5. QED
        BY <3>1, <3>2, <3>3, <3>4, Zenon DEF IdemInv
    <2>3. QED
      BY <2>1, <2>2
  <1>3. IdemInv => RetryIsSafe
    <2> SUFFICES ASSUME IdemInv PROVE RetryIsSafe
      OBVIOUS
    <2>1. IdemTypeOK
      BY DEF IdemInv, IdemTypes, IdemTypeOK
    <2>2. QED
      BY <2>1, Zenon DEF IdemInv, HistoryInv, Ran, WindowInv, Apart, RetryIsSafe
  <1>4. QED
    BY <1>1, <1>2, <1>3, PTL DEF IdemSpec

-----------------------------------------------------------------------------
(* Lockout.                                                                 *)

\* The columns agree: a count at the limit has its lock, a lock has its count.
Agree(c) ==
    /\ c.count >= MaxFailedLogins => c.lockedUntil = c.lastFailedAt + LockoutDuration
    /\ c.lockedUntil > now => c.count >= MaxFailedLogins

\* Any copy may be written back at any time: they all agree.
LockInv ==
    /\ LockoutTypeOK /\ Agree(columns)
    /\ \A a \in LoginRequests : Agree(loaded[a]) /\ (loginStep[a] = "verify" => ~ IsLocked(loaded[a]))

\* RegisterFailedLogin on an account that is not locked: the count that reaches the limit
\* locks it from now.
LEMMA FailedLogin ==
    ASSUME LockoutAssumption, now \in 1 .. MaxTime, NEW c \in Columns, ~ IsLocked(c)
    PROVE  RegisterFailedLogin(c) \in Columns /\ Agree(RegisterFailedLogin(c))
  <1> DEFINE w == Windowed(c)
  <1>1. w \in Columns /\ w.lockedUntil <= now /\ now \in Nat
    <2>1. now \in Nat /\ 0 \in Times /\ c.lockedUntil \in Nat /\ c.lockedUntil <= now
      BY DEF LockoutAssumption, Columns, Times, IsLocked
    <2>2. w = c \/ w = [count |-> 0, lockedUntil |-> 0, lastFailedAt |-> c.lastFailedAt]
      BY Zenon DEF Windowed
    <2>3. QED
      BY <2>1, <2>2 DEF Columns
  <1> DEFINE k == [count |-> w.count + 1, lockedUntil |-> w.lockedUntil, lastFailedAt |-> now]
  <1> HIDE DEF w
  <1>2. /\ k \in Columns /\ k.lastFailedAt = now /\ k.lockedUntil = w.lockedUntil /\ k.count \in Nat
        /\ k.lockedUntil \in Nat /\ now \in Times
    <2>1. w.count + 1 \in Nat /\ w.lockedUntil \in Times /\ w.lockedUntil \in Nat /\ now \in Times
      BY <1>1 DEF LockoutAssumption, Columns, Times
    <2>2. QED
      BY <2>1 DEF Columns
  <1>3. RegisterFailedLogin(c) = IF k.count >= MaxFailedLogins /\ ~ IsLocked(k)
                                 THEN [k EXCEPT !.lockedUntil = now + LockoutDuration] ELSE k
    BY Zenon DEF RegisterFailedLogin, w
  <1> HIDE DEF k
  <1>4. now + LockoutDuration \in Times /\ ~ IsLocked(k)
    BY <1>1, <1>2 DEF LockoutAssumption, Times, IsLocked
  <1>5. CASE k.count >= MaxFailedLogins
    <2>1. RegisterFailedLogin(c) = [k EXCEPT !.lockedUntil = now + LockoutDuration]
      BY <1>3, <1>4, <1>5, Zenon
    <2>2. QED
      BY <1>2, <1>4, <1>5, <2>1 DEF Columns, Agree
  <1>6. CASE ~ (k.count >= MaxFailedLogins)
    <2>1. RegisterFailedLogin(c) = k
      BY <1>3, <1>6, Zenon
    <2>2. QED
      BY <1>1, <1>2, <1>6, <2>1 DEF Agree
  <1>7. QED
    BY <1>5, <1>6, Zenon

\* The account starts with nothing to count.
LEMMA ClearAgrees == ASSUME LockoutAssumption, now \in 1 .. MaxTime PROVE Clear \in Columns /\ Agree(Clear)
  BY DEF LockoutAssumption, Columns, Times, Clear, Agree

\* Every step keeps the columns and all copies of them in agreement.
LEMMA LockStep == ASSUME LockoutAssumption, LockInv, [LockoutNext]_lockoutVars PROVE LockInv'
  <1>1. /\ LockoutTypeOK /\ now \in 1 .. MaxTime /\ columns \in Columns /\ loaded \in [LoginRequests -> Columns]
        /\ loginStep \in [LoginRequests -> {"idle", "locked", "invalid", "ok", "done"} \cup InLogin]
    BY Zenon DEF LockInv, LockoutTypeOK
  <1>2. CASE Tick /\ UNCHANGED loginLimit
    <2>1. now' = now + 1 /\ now' \in 1 .. MaxTime /\ now \in Nat /\ UNCHANGED <<columns, loginStep, loaded>>
      BY <1>1, <1>2 DEF Tick, LockoutAssumption
    <2>2. ASSUME NEW c \in Columns PROVE (Agree(c) => Agree(c)') /\ (~ IsLocked(c) => ~ IsLocked(c)')
      BY <2>1 DEF Agree, IsLocked, Columns, Times, LockoutAssumption
    <2>3. LockoutTypeOK'
      BY <1>2, <2>1, Zenon DEF LockInv, LockoutTypeOK
    <2>4. \A a \in LoginRequests : loaded[a] \in Columns
      BY <1>1, Zenon
    <2>5. QED
      BY <1>1, <2>1, <2>2, <2>3, <2>4, Zenon DEF LockInv
  <1>3. ASSUME NEW a \in LoginRequests, UNCHANGED <<loginLimit, now>>, NEW c \in Columns, Agree(c), NEW next,
               next \in {"locked", "saveFailure", "saveSuccess", "update"} \/ (next = "verify" /\ ~ IsLocked(c)),
               UNCHANGED columns, loaded' = [loaded EXCEPT ![a] = c], loginStep' = [loginStep EXCEPT ![a] = next]
        PROVE  LockInv'
    <2>1. \A b \in LoginRequests : /\ loaded'[b] = IF b = a THEN c ELSE loaded[b]
                                   /\ loginStep'[b] = IF b = a THEN next ELSE loginStep[b]
      BY <1>1, <1>3, Zenon
    <2>2. next \in {"idle", "locked", "invalid", "ok", "done"} \cup InLogin
      BY <1>3 DEF InLogin
    <2>3. LockoutTypeOK'
      BY <1>1, <1>3, <2>2, Zenon DEF LockoutTypeOK
    <2>4. \A d : (Agree(d)' <=> Agree(d)) /\ (IsLocked(d)' <=> IsLocked(d))
      BY <1>3, Zenon DEF Agree, IsLocked
    <2>5. next = "verify" => ~ IsLocked(c)
      BY <1>3
    <2>6. Agree(columns)'
      BY <1>3, <2>4, Zenon DEF LockInv
    <2>7. ASSUME NEW b \in LoginRequests PROVE Agree(loaded[b])' /\ (loginStep'[b] = "verify" => ~ IsLocked(loaded[b])')
      BY <1>3, <2>1, <2>4, <2>5, Zenon DEF LockInv
    <2>8. QED
      BY <2>3, <2>6, <2>7, Zenon DEF LockInv
  <1>4. ASSUME NEW a \in LoginRequests, Resolve(a) \/ LoadPerson(a), UNCHANGED loginLimit PROVE LockInv'
    <2>1. /\ loaded' = [loaded EXCEPT ![a] = columns] /\ UNCHANGED <<columns, now>>
          /\ \/ loginStep' = [loginStep EXCEPT ![a] = "locked"] \/ loginStep' = [loginStep EXCEPT ![a] = "update"]
             \/ ~ IsLocked(columns) /\ loginStep' = [loginStep EXCEPT ![a] = "verify"]
      BY <1>4, Zenon DEF Resolve, LoadPerson, LoginGoes
    <2>2. QED
      BY <1>1, <1>3, <1>4, <2>1, Zenon DEF LockInv
  <1>5. ASSUME NEW a \in LoginRequests, VerifyPassword(a), UNCHANGED loginLimit PROVE LockInv'
    <2>1. loaded[a] \in Columns /\ ~ IsLocked(loaded[a])
      BY <1>1, <1>5, Zenon DEF LockInv, VerifyPassword
    <2>2. RegisterFailedLogin(loaded[a]) \in Columns /\ Agree(RegisterFailedLogin(loaded[a]))
      BY <1>1, <2>1, FailedLogin, Zenon
    <2>3. Clear \in Columns /\ Agree(Clear)
      BY <1>1, ClearAgrees, Zenon
    <2>4. /\ UNCHANGED <<columns, now>>
          /\ \/ loaded' = [loaded EXCEPT ![a] = RegisterFailedLogin(loaded[a])] /\ loginStep' = [loginStep EXCEPT ![a] = "saveFailure"]
             \/ loaded' = [loaded EXCEPT ![a] = Clear] /\ loginStep' = [loginStep EXCEPT ![a] = "saveSuccess"]
      BY <1>1, <1>5, Zenon DEF VerifyPassword, RegisterSuccessfulLogin, LoginGoes
    <2>5. QED
      BY <1>3, <1>5, <2>2, <2>3, <2>4, Zenon
  <1>6. ASSUME NEW a \in LoginRequests, Save(a) \/ UpdateAccount(a), UNCHANGED loginLimit PROVE LockInv'
    <2>1. /\ columns' \in {columns, loaded[a]} /\ UNCHANGED <<now, loaded>>
          /\ \E next \in {"ok", "locked", "invalid", "done"} : loginStep' = [loginStep EXCEPT ![a] = next]
      BY <1>6, Zenon DEF Save, UpdateAccount, LoginGoes
    <2>2. PICK next \in {"ok", "locked", "invalid", "done"} : loginStep' = [loginStep EXCEPT ![a] = next]
      BY <2>1, Zenon
    <2>3. \A b \in LoginRequests : loginStep'[b] = IF b = a THEN next ELSE loginStep[b]
      BY <1>1, <2>2, Zenon
    <2>4. LockoutTypeOK'
      BY <1>1, <1>6, <2>1, <2>2, Zenon DEF LockoutTypeOK
    <2>5. \A d : (Agree(d)' <=> Agree(d)) /\ (IsLocked(d)' <=> IsLocked(d))
      BY <2>1, Zenon DEF Agree, IsLocked
    <2>6. Agree(columns)'
      BY <2>1, <2>5, Zenon DEF LockInv
    <2>7. ASSUME NEW b \in LoginRequests PROVE Agree(loaded[b])' /\ (loginStep'[b] = "verify" => ~ IsLocked(loaded[b])')
      <3>1. loginStep'[b] = "verify" => loginStep[b] = "verify"
        BY <2>3, Zenon
      <3>2. QED
        BY <2>1, <2>5, <3>1, Zenon DEF LockInv
    <2>8. QED
      BY <2>4, <2>6, <2>7, Zenon DEF LockInv
  <1>7. CASE UNCHANGED lockoutVars
    <2>1. UNCHANGED <<loginLimit, columns, now, loginStep, loaded>>
      BY <1>7 DEF lockoutVars
    <2>2. QED
      BY <2>1, Zenon DEF LockInv, LockoutTypeOK, Agree, IsLocked
  <1>8. QED
    BY <1>2, <1>4, <1>5, <1>6, <1>7, Zenon DEF LockoutNext

\* However attempts and updates of the account overlap, and whichever of their writes are
\* lost, the stored lock and the stored count agree (Person.RegisterFailedLogin,
\* UpdateLockoutState, persistPerson).
THEOREM LockoutAgrees == ASSUME LockoutAssumption PROVE LockoutSpec => []LocksAtLimit
  <1>1. LockoutInit => LockInv
    <2> SUFFICES ASSUME LockoutInit PROVE LockInv
      OBVIOUS
    <2>1. CASE 1 <= MaxTime
      <3>1. now \in 1 .. MaxTime
        BY <2>1 DEF LockoutInit, LockoutAssumption
      <3>2. Clear \in Columns /\ Agree(Clear)
        BY <3>1, ClearAgrees, Zenon
      <3>3. \A a \in LoginRequests : loaded[a] = Clear /\ loginStep[a] = "idle"
        BY Zenon DEF LockoutInit
      <3>4. LockoutTypeOK
        BY <3>1, <3>2, Zenon DEF LockoutInit, LockoutTypeOK
      <3>5. QED
        BY <3>2, <3>3, <3>4, Zenon DEF LockInv, LockoutInit
    <2>2. QED
      BY <2>1 DEF LockoutAssumption
  <1>2. LockInv /\ [LockoutNext]_lockoutVars => LockInv'
    BY LockStep
  <1>3. LockInv => LocksAtLimit
    BY Zenon DEF LockInv, Agree, LocksAtLimit
  <1>4. QED
    BY <1>1, <1>2, <1>3, PTL DEF LockoutSpec

-----------------------------------------------------------------------------
(* Inbox.                                                                   *)

\* One topic: a recipient, a category and a source.
SameTopic(a, b) ==
    a.source # NoSource /\ a.source = b.source /\ a.recipient = b.recipient /\ a.category = b.category

FarApart(a, b) == a.created - b.created >= DedupWindow \/ b.created - a.created >= DedupWindow

TopicsInv ==
    \A m, n \in Notices : m # n /\ inbox[m] # NoNotice /\ inbox[n] # NoNotice /\ SameTopic(inbox[m], inbox[n])
                            => FarApart(inbox[m], inbox[n])

\* What a notification carries is what was announced of it.
NoticeInv(n) ==
    inbox[n] # NoNotice =>
        /\ inbox[n].created <= age
        /\ \A e \in told : e[1] = n /\ e[2] = "read" => e[3] = inbox[n].readAt /\ inbox[n].state # "unread"
        /\ \A e \in told : e[1] = n /\ e[2] = "dismissed" => e[3] = inbox[n].dismissedAt /\ inbox[n].state = "dismissed"
        /\ (inbox[n].state = "dismissed") <=> (inbox[n].dismissedAt # -1)

InboxInv ==
    /\ age \in 0 .. MaxAge /\ inbox \in [Notices -> Rows \cup {NoNotice}]
    /\ \A e \in told : e[1] \in Notices /\ inbox[e[1]] # NoNotice
    /\ TopicsInv /\ \A n \in Notices : NoticeInv(n)

\* The same notification later on.
Later(a, b) ==
    /\ a.recipient = b.recipient /\ a.category = b.category /\ a.source = b.source /\ a.created = b.created

\* A change of state keeps the topics and the times of creation.
LEMMA TopicsKept ==
    ASSUME InboxInv,
           \A n \in Notices : /\ inbox'[n] = NoNotice <=> inbox[n] = NoNotice
                              /\ inbox[n] # NoNotice => Later(inbox'[n], inbox[n])
    PROVE  TopicsInv'
  <1> SUFFICES ASSUME NEW m \in Notices, NEW n \in Notices, m # n, inbox'[m] # NoNotice, inbox'[n] # NoNotice,
                      SameTopic(inbox'[m], inbox'[n])
               PROVE  FarApart(inbox'[m], inbox'[n])
    BY Zenon DEF TopicsInv
  <1>1. inbox[m] # NoNotice /\ inbox[n] # NoNotice /\ Later(inbox'[m], inbox[m]) /\ Later(inbox'[n], inbox[n])
    BY Zenon
  <1>2. SameTopic(inbox[m], inbox[n])
    BY <1>1, Zenon DEF SameTopic, Later
  <1>3. FarApart(inbox[m], inbox[n])
    BY <1>1, <1>2, Zenon DEF InboxInv, TopicsInv
  <1>4. QED
    BY <1>1, <1>3, Zenon DEF FarApart, Later

\* Repository.Add refuses a topic that is younger than the window.
LEMMA NotifyStep == ASSUME InboxInv, NEW n \in Notices, Notify(n) PROVE InboxInv'
  <1>1. PICK recipient \in Recipients, category \in Categories, source \in Sources \cup {NoSource} :
          /\ inbox[n] = NoNotice
          /\ source # NoSource => ~ Duplicate(NewNotice(recipient, category, source))
          /\ inbox' = [inbox EXCEPT ![n] = NewNotice(recipient, category, source)]
          /\ Tell(n, "created") /\ UNCHANGED age
    BY Zenon DEF Notify
  <1>2. PICK r : r = NewNotice(recipient, category, source)
    OBVIOUS
  <1>3. age \in 0 .. MaxAge /\ age \in Nat /\ -1 \in -1 .. MaxAge
    BY InboxAssumption DEF InboxInv
  <1>4. /\ r \in Rows /\ r.state = "unread" /\ r.created = age /\ r.dismissedAt = -1 /\ r.source = source
    BY <1>2, <1>3 DEF NewNotice, Rows, NoticeStates
  <1>5. r # NoNotice
    BY <1>4, InboxAssumption, Zenon
  <1>6. \A m \in Notices : inbox'[m] = IF m = n THEN r ELSE inbox[m]
    BY <1>1, <1>2, Zenon DEF InboxInv
  <1>7. told' = told \cup {<<n, "created", age>>}
    BY <1>1, Zenon DEF Tell
  <1>8. \A e \in told' : e \in told \/ (e[1] = n /\ e[2] = "created")
    BY <1>7
  <1>9. \A e \in told : e[1] # n
    BY <1>1, Zenon DEF InboxInv
  <1>10. inbox' \in [Notices -> Rows \cup {NoNotice}]
    BY <1>1, <1>2, <1>4, Zenon DEF InboxInv
  <1>11. \A e \in told' : e[1] \in Notices /\ inbox'[e[1]] # NoNotice
    BY <1>5, <1>6, <1>8, Zenon DEF InboxInv
  <1>12. ASSUME NEW m \in Notices PROVE NoticeInv(m)'
    <2>1. CASE m = n
      <3>1. age <= age
        BY <1>3
      <3>2. \A e \in told' : e[1] = n => e[2] # "read" /\ e[2] # "dismissed"
        BY <1>8, <1>9
      <3>3. QED
        BY <1>1, <1>4, <1>6, <2>1, <3>1, <3>2, Zenon DEF NoticeInv
    <2>2. CASE m # n
      <3>1. inbox'[m] = inbox[m] /\ NoticeInv(m)
        BY <1>6, <2>2, Zenon DEF InboxInv
      <3>2. \A e \in told' : e[1] = m => e \in told
        BY <1>8, <2>2, Zenon
      <3>3. QED
        BY <1>1, <3>1, <3>2, Zenon DEF NoticeInv
    <2>3. QED
      BY <2>1, <2>2, Zenon
  <1>13. ASSUME NEW m \in Notices, m # n, inbox[m] # NoNotice, SameTopic(inbox[m], r) \/ SameTopic(r, inbox[m])
         PROVE  FarApart(inbox[m], r) /\ FarApart(r, inbox[m])
    <2>1. /\ inbox[m].recipient = r.recipient /\ inbox[m].category = r.category /\ inbox[m].source = r.source
          /\ r.source # NoSource
      BY <1>13, Zenon DEF SameTopic
    <2>2. ~ (inbox[m].created > r.created - DedupWindow)
      BY <1>1, <1>2, <1>4, <1>13, <2>1, Zenon DEF Duplicate
    <2>3. inbox[m].created \in Nat /\ DedupWindow \in Nat
      <3>1. inbox[m] \in Rows
        BY <1>13, Zenon DEF InboxInv
      <3>2. QED
        BY <3>1, InboxAssumption DEF Rows
    <2>4. r.created - inbox[m].created >= DedupWindow
      BY <1>3, <1>4, <2>2, <2>3
    <2>5. QED
      BY <2>4, Zenon DEF FarApart
  <1>14. TopicsInv'
    <2> SUFFICES ASSUME NEW k \in Notices, NEW m \in Notices, k # m, inbox'[k] # NoNotice, inbox'[m] # NoNotice,
                        SameTopic(inbox'[k], inbox'[m])
                 PROVE  FarApart(inbox'[k], inbox'[m])
      BY Zenon DEF TopicsInv
    <2>1. CASE k = n
      <3>1. inbox'[k] = r /\ inbox'[m] = inbox[m]
        BY <1>6, <2>1, Zenon
      <3>2. QED
        BY <1>13, <2>1, <3>1, Zenon
    <2>2. CASE m = n
      <3>1. inbox'[m] = r /\ inbox'[k] = inbox[k]
        BY <1>6, <2>2, Zenon
      <3>2. QED
        BY <1>13, <2>2, <3>1, Zenon
    <2>3. CASE k # n /\ m # n
      <3>1. inbox'[m] = inbox[m] /\ inbox'[k] = inbox[k]
        BY <1>6, <2>3, Zenon
      <3>2. QED
        BY <3>1, Zenon DEF InboxInv, TopicsInv
    <2>4. QED
      BY <2>1, <2>2, <2>3, Zenon
  <1>15. QED
    BY <1>1, <1>3, <1>10, <1>11, <1>12, <1>14, Zenon DEF InboxInv

\* Notification.MarkRead, of one notification or of all that a recipient has not read.
LEMMA ReadSome ==
    ASSUME InboxInv, UNCHANGED age, NEW S \in SUBSET Notices,
           \A n \in S : inbox[n] # NoNotice /\ inbox[n].state = "unread",
           inbox' = [n \in Notices |-> IF n \in S THEN Read(inbox[n]) ELSE inbox[n]],
           told' = told \cup {<<n, "read", age>> : n \in S}
    PROVE  InboxInv'
  <1>1. ASSUME NEW n \in S, NEW r, r = Read(inbox[n])
        PROVE  r \in Rows /\ Later(r, inbox[n]) /\ r.state = "read" /\ r.readAt = age /\ r.dismissedAt = inbox[n].dismissedAt
    <2>1. inbox[n] \in Rows /\ age \in -1 .. MaxAge
      BY InboxAssumption DEF InboxInv
    <2>2. QED
      BY <1>1, <2>1, Zenon DEF Rows, NoticeStates, Read, Later
  <1>2. \A n \in Notices : inbox'[n] = IF n \in S THEN Read(inbox[n]) ELSE inbox[n]
    BY Zenon
  <1>3. ASSUME NEW n \in S
        PROVE  /\ inbox'[n] \in Rows /\ Later(inbox'[n], inbox[n]) /\ inbox'[n].state = "read"
               /\ inbox'[n].readAt = age /\ inbox'[n].dismissedAt = inbox[n].dismissedAt
    BY <1>1, <1>2, Zenon
  <1>4. \A n \in Notices : n \notin S => inbox'[n] = inbox[n]
    BY <1>2, Zenon
  <1>5. inbox' \in [Notices -> Rows \cup {NoNotice}]
    <2>1. \A n \in Notices : inbox'[n] \in Rows \cup {NoNotice}
      BY <1>3, <1>4, Zenon DEF InboxInv
    <2>2. QED
      BY <1>2, <2>1, Zenon
  <1>6. \A n \in Notices : /\ inbox'[n] = NoNotice <=> inbox[n] = NoNotice
                           /\ inbox[n] # NoNotice => Later(inbox'[n], inbox[n])
    <2>1. \A n \in Notices : Later(inbox[n], inbox[n])
      BY Zenon DEF Later
    <2>2. QED
      BY <1>3, <1>4, <2>1, InboxAssumption, Zenon
  <1>7. TopicsInv'
    BY <1>6, TopicsKept, Zenon
  <1>8. \A e \in told' : e \in told \/ (e[1] \in S /\ e[2] = "read" /\ e[3] = age)
    OBVIOUS
  <1>9. \A e \in told' : e[1] \in Notices /\ inbox'[e[1]] # NoNotice
    BY <1>6, <1>8, Zenon DEF InboxInv
  <1>10. ASSUME NEW n \in Notices PROVE NoticeInv(n)'
    <2>1. NoticeInv(n)
      BY Zenon DEF InboxInv
    <2>2. CASE n \notin S
      <3>1. \A e \in told' : e[1] = n => e \in told
        BY <1>8, <2>2, Zenon
      <3>2. QED
        BY <1>4, <2>1, <2>2, <3>1, Zenon DEF NoticeInv
    <2>3. CASE n \in S
      <3>1. /\ inbox[n] # NoNotice /\ inbox[n].state = "unread" /\ inbox[n].dismissedAt = -1
            /\ inbox[n].created <= age
            /\ \A e \in told : e[1] = n => e[2] # "read" /\ e[2] # "dismissed"
        BY <2>1, <2>3, Zenon DEF NoticeInv
      <3>2. inbox'[n].created <= age' /\ inbox'[n].state = "read" /\ inbox'[n].dismissedAt = -1
        BY <1>3, <2>3, <3>1, Zenon DEF Later
      <3>3. ASSUME NEW e \in told', e[1] = n
            PROVE  (e[2] = "read" /\ e[3] = inbox'[n].readAt) \/ (e[2] # "read" /\ e[2] # "dismissed")
        <4>1. CASE e \in told
          BY <3>1, <3>3, <4>1, Zenon
        <4>2. CASE e[2] = "read" /\ e[3] = age
          BY <1>3, <2>3, <4>2, Zenon
        <4>3. QED
          BY <1>8, <4>1, <4>2, Zenon
      <3>4. QED
        BY <3>2, <3>3, Zenon DEF NoticeInv
    <2>4. QED
      BY <2>2, <2>3, Zenon
  <1>11. QED
    BY <1>5, <1>7, <1>9, <1>10, Zenon DEF InboxInv

\* Notification.Dismiss.
LEMMA DismissStep == ASSUME InboxInv, NEW n \in Notices, Dismiss(n) PROVE InboxInv'
  <1>1. PICK r : r = [inbox[n] EXCEPT !.state = "dismissed", !.dismissedAt = age]
    OBVIOUS
  <1>2. /\ inbox[n] # NoNotice /\ inbox[n].state # "dismissed" /\ UNCHANGED age
        /\ told' = told \cup {<<n, "dismissed", age>>}
        /\ inbox' = [inbox EXCEPT ![n] = r]
    BY <1>1, Zenon DEF Dismiss, Tell, InboxInv
  <1>3. inbox[n] \in Rows /\ age \in -1 .. MaxAge /\ age # -1
    BY <1>2, InboxAssumption DEF InboxInv
  <1>4. /\ r \in Rows /\ Later(r, inbox[n]) /\ r.state = "dismissed" /\ r.dismissedAt = age
        /\ r.readAt = inbox[n].readAt
    BY <1>1, <1>3, Zenon DEF Rows, NoticeStates, Later
  <1>5. \A m \in Notices : inbox'[m] = IF m = n THEN r ELSE inbox[m]
    BY <1>2, Zenon DEF InboxInv
  <1>6. inbox' \in [Notices -> Rows \cup {NoNotice}]
    BY <1>2, <1>4, Zenon DEF InboxInv
  <1>7. \A m \in Notices : /\ inbox'[m] = NoNotice <=> inbox[m] = NoNotice
                           /\ inbox[m] # NoNotice => Later(inbox'[m], inbox[m])
    <2>1. \A m \in Notices : Later(inbox[m], inbox[m])
      BY Zenon DEF Later
    <2>2. r # NoNotice
      BY <1>4, InboxAssumption, Zenon
    <2>3. QED
      BY <1>2, <1>4, <1>5, <2>1, <2>2, Zenon
  <1>8. TopicsInv'
    BY <1>7, TopicsKept, Zenon
  <1>9. \A e \in told' : e \in told \/ (e[1] = n /\ e[2] = "dismissed" /\ e[3] = age)
    BY <1>2
  <1>10. \A e \in told' : e[1] \in Notices /\ inbox'[e[1]] # NoNotice
    BY <1>2, <1>7, <1>9, Zenon DEF InboxInv
  <1>11. ASSUME NEW m \in Notices PROVE NoticeInv(m)'
    <2>1. NoticeInv(m)
      BY Zenon DEF InboxInv
    <2>2. CASE m # n
      <3>1. inbox'[m] = inbox[m] /\ \A e \in told' : e[1] = m => e \in told
        BY <1>5, <1>9, <2>2, Zenon
      <3>2. QED
        BY <1>2, <2>1, <3>1, Zenon DEF NoticeInv
    <2>3. CASE m = n
      <3>1. /\ inbox[n].created <= age
            /\ \A e \in told : e[1] = n => e[2] # "dismissed"
            /\ \A e \in told : e[1] = n /\ e[2] = "read" => e[3] = inbox[n].readAt
        BY <1>2, <2>1, <2>3, Zenon DEF NoticeInv
      <3>2. /\ inbox'[n].created <= age' /\ inbox'[n].state = "dismissed" /\ inbox'[n].dismissedAt = age
            /\ inbox'[n].readAt = inbox[n].readAt
        BY <1>2, <1>4, <1>5, <3>1, Zenon DEF Later
      <3>3. ASSUME NEW e \in told', e[1] = n
            PROVE  /\ e[2] = "read" => e[3] = inbox'[n].readAt
                   /\ e[2] = "dismissed" => e[3] = inbox'[n].dismissedAt
        <4>1. CASE e \in told
          BY <3>1, <3>2, <3>3, <4>1, Zenon
        <4>2. CASE e[2] = "dismissed" /\ e[3] = age
          BY <3>2, <4>2, Zenon
        <4>3. QED
          BY <1>9, <4>1, <4>2, Zenon
      <3>4. QED
        BY <1>3, <2>3, <3>2, <3>3, Zenon DEF NoticeInv
    <2>4. QED
      BY <2>2, <2>3, Zenon
  <1>12. QED
    BY <1>2, <1>6, <1>8, <1>10, <1>11, Zenon DEF InboxInv

\* Two notifications of one topic are a deduplication window apart, whatever was read or
\* dismissed in between, and each carries the times that were announced of it
\* (Repository.Add, MarkRead, Dismiss, UpdateAllUnreadForRecipient).
THEOREM NoticesAreApart == InboxSpec => []OneNoticePerWindow
  <1>1. InboxInit => InboxInv
    <2> SUFFICES ASSUME InboxInit PROVE InboxInv
      OBVIOUS
    <2>1. age \in 0 .. MaxAge /\ told = {} /\ \A n \in Notices : inbox[n] = NoNotice
      BY InboxAssumption DEF InboxInit
    <2>2. inbox \in [Notices -> Rows \cup {NoNotice}]
      BY Zenon DEF InboxInit
    <2>3. QED
      BY <2>1, <2>2, Zenon DEF InboxInv, TopicsInv, NoticeInv
  <1>2. InboxInv /\ [InboxNext]_inboxVars => InboxInv'
    <2> SUFFICES ASSUME InboxInv, [InboxNext]_inboxVars PROVE InboxInv'
      OBVIOUS
    <2>1. ASSUME NEW n \in Notices, MarkRead(n) PROVE InboxInv'
      <3>1. PICK S \in SUBSET Notices : S = {n}
        BY Zenon
      <3>2. UNCHANGED age /\ \A m \in S : inbox[m] # NoNotice /\ inbox[m].state = "unread"
        BY <2>1, <3>1, Zenon DEF MarkRead
      <3>3. inbox' = [m \in Notices |-> IF m \in S THEN Read(inbox[m]) ELSE inbox[m]]
        BY <2>1, <3>1, Zenon DEF MarkRead, InboxInv
      <3>4. told' = told \cup {<<m, "read", age>> : m \in S}
        BY <2>1, <3>1 DEF MarkRead, Tell
      <3>5. QED
        BY <3>2, <3>3, <3>4, ReadSome, Zenon
    <2>2. ASSUME NEW recipient \in Recipients, MarkAllRead(recipient) PROVE InboxInv'
      <3>1. /\ Unread(recipient) \in SUBSET Notices
            /\ \A n \in Unread(recipient) : inbox[n] # NoNotice /\ inbox[n].state = "unread"
        BY DEF Unread
      <3>2. QED
        BY <2>2, <3>1, ReadSome, Zenon DEF MarkAllRead
    <2>3. CASE GrowOlder
      <3>1. age' \in 0 .. MaxAge /\ UNCHANGED <<inbox, told>> /\ age' = age + 1 /\ age \in Nat
        BY <2>3, InboxAssumption DEF GrowOlder, InboxInv
      <3>2. ASSUME NEW n \in Notices, inbox[n] # NoNotice PROVE inbox[n].created <= age'
        <4>1. inbox[n] \in Rows /\ inbox[n].created <= age
          BY <3>2, Zenon DEF InboxInv, NoticeInv
        <4>2. inbox[n].created \in Nat
          BY <4>1 DEF Rows
        <4>3. QED
          BY <3>1, <4>1, <4>2
      <3>3. QED
        BY <3>1, <3>2, Zenon DEF InboxInv, TopicsInv, NoticeInv
    <2>4. CASE UNCHANGED inboxVars
      <3>1. UNCHANGED <<age, inbox, told>>
        BY <2>4 DEF inboxVars
      <3>2. QED
        BY <3>1, Zenon DEF InboxInv, TopicsInv, NoticeInv
    <2>5. QED
      BY <2>1, <2>2, <2>3, <2>4, NotifyStep, DismissStep, Zenon DEF InboxNext
  <1>3. InboxInv => OneNoticePerWindow
    <2> SUFFICES ASSUME InboxInv PROVE OneNoticePerWindow
      OBVIOUS
    <2>1. InboxTypeOK
      BY Zenon DEF InboxInv, InboxTypeOK
    <2>2. QED
      BY <2>1, Zenon DEF InboxInv, TopicsInv, SameTopic, FarApart, NoticeInv, OneNoticePerWindow
  <1>4. QED
    BY <1>1, <1>2, <1>3, PTL DEF InboxSpec
====
