---- MODULE SalesAndDispatchProofs ----
(***************************************************************************)
(* Two components that share no name.  First the consignment notes, for    *)
(* every set of orders, deliveries and transitions.  Then the orders,      *)
(* quotations and documents of a sale, for every number of them, every     *)
(* list of items and every span of years.                                  *)
(***************************************************************************)
EXTENDS Dispatch, Sales, TLAPS

\* A note belongs to the order of the delivery that made it, and has no docket before
\* it is dispatched.
NoteInv ==
    \A n \in Deliveries : notes[n] # NoRow =>
        /\ notes[n].order = OrderOf[n]
        /\ notes[n].status = "pending" => notes[n].docket = None

\* A transition works on a note that exists.  Between its two statements it holds the
\* note's lock, so what it has in memory is one step ahead of the row.
LockInv ==
    \A e \in Edits :
        /\ pc[e] \in {"load", "save"} =>
              target[e] \in Deliveries /\ notes[target[e]] # NoRow /\ cmd[e] \in Commands
        /\ pc[e] = "save" =>
              /\ lock[target[e]] = e
              /\ ~Refuses(notes[target[e]], cmd[e])
              /\ shouldPersist(notes[target[e]], cmd[e])
              /\ mem[e] = advance(notes[target[e]], cmd[e])

DispatchInv ==
    TypeOK /\ NoteInv /\ LockInv /\ NotesAreDistinct /\ AnsweredHasNote /\ AnnouncedPath /\ SentWithDocket

-----------------------------------------------------------------------------
(* The operators.                                                           *)

\* A transition that is neither refused nor a repetition follows an edge of the state
\* machine, and what it makes of a note is again a note with its docket and reason.
LEMMA AdvanceFollowsEdge ==
    ASSUME NEW w \in Notes, NEW c \in Commands, ~Refuses(w, c), shouldPersist(w, c),
           w.status \in {"dispatched", "in_transit", "delivered"} => w.docket # None,
           w.status = "pending" => w.docket = None
    PROVE  LET v == advance(w, c) IN
           /\ v \in Notes
           /\ v.order = w.order
           /\ v.status = c.to /\ v.status # "pending"
           /\ canAdvance(w.status, v.status)
           /\ v.status \in {"dispatched", "in_transit", "delivered"} => v.docket # None
           /\ v.status = "failed" => v.reason # None
           /\ w.docket # None => v.docket = w.docket
  <1> DEFINE v == advance(w, c)
  <1>1. canAdvance(w.status, c.to)
    BY DEF Refuses, shouldPersist
  <1>2. c.to \in Status /\ c.text \in Texts \cup {None}
    BY DEF Commands, Status, Terminal
  <1>3. c.to \in {"dispatched", "failed"} => c.text \in Texts
    BY DEF Commands
  <1>4. v \in Notes /\ v.order = w.order /\ v.status = c.to
    BY <1>2, Zenon DEF advance, Notes
  <1>5. v.docket = (IF c.to = "dispatched" THEN c.text ELSE w.docket)
        /\ v.reason = (IF c.to = "failed" THEN c.text ELSE w.reason)
    BY DEF advance, Notes
  <1>6. c.to # "pending" /\ (c.to = "dispatched" => w.status = "pending")
        /\ (c.to \in {"in_transit", "delivered"} => w.status \in {"dispatched", "in_transit"})
    BY <1>1 DEF canAdvance
  <1>7. None \notin Texts
    BY DispatchAssumption
  <1>8. QED
    BY <1>1, <1>3, <1>4, <1>5, <1>6, <1>7

-----------------------------------------------------------------------------
(* The invariant holds initially.                                           *)

\* Before the first message there are no notes, no events and no locks.
LEMMA InvInit == Init => DispatchInv
  BY DispatchAssumption
     DEF Init, DispatchInv, TypeOK, NoteInv, LockInv, NotesAreDistinct, AnsweredHasNote, AnnouncedPath,
         SentWithDocket

-----------------------------------------------------------------------------
(* What a step leaves alone.                                                *)

\* A step that changes neither the notes nor the outbox keeps what is said of them.
LEMMA NotesKept ==
    ASSUME DispatchInv, UNCHANGED <<notes, log>>
    PROVE  NoteInv' /\ NotesAreDistinct' /\ AnnouncedPath' /\ SentWithDocket'
  BY DEF DispatchInv, NoteInv, NotesAreDistinct, AnnouncedPath, SentWithDocket

\* Answers stay true while no note is lost and no further message is answered.
LEMMA AnswersKept ==
    ASSUME DispatchInv,
           \A d \in Deliveries : pc'[d] \in {"ok", "existed"} =>
               pc[d] \in {"ok", "existed"} \/ GetByOrderID(OrderOf[d]) # {},
           \A n \in Deliveries : notes[n] # NoRow =>
               notes'[n] # NoRow /\ notes'[n].order = notes[n].order
    PROVE  AnsweredHasNote'
  <1> SUFFICES ASSUME NEW d \in Deliveries, pc'[d] \in {"ok", "existed"}
               PROVE  GetByOrderID(OrderOf[d])' # {}
    BY DEF AnsweredHasNote
  <1>1. PICK n \in Deliveries : notes[n] # NoRow /\ notes[n].order = OrderOf[d]
    BY DEF DispatchInv, AnsweredHasNote, GetByOrderID
  <1>2. QED
    BY <1>1, Zenon DEF GetByOrderID

\* The moves of a transition answer no message.
LEMMA TransitionAnswersNone ==
    ASSUME DispatchInv, NEW e \in Edits, NEW next, Goto(e, next)
    PROVE  \A d \in Deliveries : pc'[d] = pc[d]
  BY DispatchAssumption DEF DispatchInv, TypeOK, Goto

\* A step that moves no transition keeps what the transitions know.
LEMMA LocksKept ==
    ASSUME DispatchInv, \A e \in Edits : pc'[e] = pc[e],
           UNCHANGED <<notes, lock, target, cmd, mem>>
    PROVE  LockInv'
  BY DEF DispatchInv, LockInv

-----------------------------------------------------------------------------
(* Deliveries.                                                              *)

\* Delivering, looking for the note, lapsing and redelivering only move the handler.
LEMMA DeliverStep ==
    ASSUME DispatchInv, NEW d \in Deliveries, Deliver(d) \/ Precheck(d) \/ Lapse(d) \/ Redeliver(d)
    PROVE  DispatchInv'
  <1> USE DEF Deliver, Precheck, Lapse, Redeliver
  <1>1. TypeOK'
    <2>1. UNCHANGED <<notes, log, lock, target, cmd, mem>>
      OBVIOUS
    <2>2. failures' \in 0 .. MaxFailures
      BY DispatchAssumption DEF DispatchInv, TypeOK
    <2>3. pc' \in [Deliveries \cup Edits ->
                     {"idle", "check", "insert", "existed", "aborted", "load", "save", "ok", "refused", "error"}]
      BY Zenon DEF DispatchInv, TypeOK, Goto
    <2>4. content' \in [Deliveries -> Contents]
      <3>1. content' = content \/ content' = [content EXCEPT ![d] = "unfit"]
        BY Zenon
      <3>2. content \in [Deliveries -> Contents] /\ "unfit" \in Contents
        BY Zenon DEF DispatchInv, TypeOK, Contents
      <3>3. QED
        BY <3>1, <3>2, Zenon
    <2> HIDE DEF Deliver, Precheck, Lapse, Redeliver
    <2>5. QED
      BY <2>1, <2>2, <2>3, <2>4, Zenon DEF DispatchInv, TypeOK
  <1>2. \A e \in Edits : pc'[e] = pc[e]
    BY DispatchAssumption DEF DispatchInv, TypeOK, Goto
  <1>3. LockInv'
    BY <1>2, LocksKept
  <1>4. AnsweredHasNote'
    <2>1. \A m \in Deliveries : pc'[m] \in {"ok", "existed"} =>
              pc[m] \in {"ok", "existed"} \/ GetByOrderID(OrderOf[m]) # {}
      BY DEF DispatchInv, TypeOK, Goto
    <2>2. UNCHANGED notes
      OBVIOUS
    <2>3. QED
      BY <2>1, <2>2, AnswersKept
  <1>5. QED
    BY <1>1, <1>3, <1>4, NotesKept DEF DispatchInv

\* An insert makes a note only where no note of the order is.
LEMMA AddStep ==
    ASSUME DispatchInv, NEW d \in Deliveries, Add(d)
    PROVE  DispatchInv'
  <1>1. CASE content[d] = "unfit" \/ GetByOrderID(OrderOf[d]) # {}
    <2>1. /\ Goto(d, IF content[d] = "unfit" THEN "refused" ELSE "aborted")
          /\ UNCHANGED <<content, notes, log, lock, target, cmd, mem, failures>>
      BY <1>1 DEF Add
    <2>2. TypeOK'
      BY <2>1 DEF DispatchInv, TypeOK, Goto
    <2>3. \A e \in Edits : pc'[e] = pc[e]
      BY <2>1, DispatchAssumption DEF DispatchInv, TypeOK, Goto
    <2>4. \A m \in Deliveries : pc'[m] \in {"ok", "existed"} => pc[m] \in {"ok", "existed"}
      BY <2>1 DEF DispatchInv, TypeOK, Goto
    <2>5. AnsweredHasNote'
      BY <2>1, <2>4, AnswersKept
    <2>6. QED
      BY <2>1, <2>2, <2>3, <2>5, LocksKept, NotesKept DEF DispatchInv
  <1>2. CASE content[d] # "unfit" /\ GetByOrderID(OrderOf[d]) = {}
    <2>1. /\ notes' = [notes EXCEPT ![d] = New(d)]
          /\ log' = [log EXCEPT ![d] = <<"pending">>]
          /\ Goto(d, "ok")
          /\ UNCHANGED <<content, lock, target, cmd, mem, failures>>
      BY <1>2 DEF Add
    <2>2. New(d) \in Notes /\ New(d).order = OrderOf[d]
          /\ New(d).status = "pending" /\ New(d).docket = None
      BY DispatchAssumption DEF New, Notes, Status
    <2>3. TypeOK'
      BY <2>1, <2>2 DEF DispatchInv, TypeOK, Goto, Status
    <2>4. \A n \in Deliveries : notes'[n] = IF n = d THEN New(d) ELSE notes[n]
      BY <2>1 DEF DispatchInv, TypeOK
    <2>5. \A n \in Deliveries : log'[n] = IF n = d THEN <<"pending">> ELSE log[n]
      BY <2>1 DEF DispatchInv, TypeOK
    <2>6. notes[d] = NoRow
      BY <1>2 DEF GetByOrderID, DispatchInv, NoteInv
    <2>7. New(d) # NoRow
      BY <2>2, NoRowAssumption
    <2>8. NoteInv'
      BY <2>2, <2>4 DEF DispatchInv, NoteInv
    <2>9. NotesAreDistinct'
      BY <1>2, <2>2, <2>4 DEF DispatchInv, NotesAreDistinct, GetByOrderID
    <2>10. AnnouncedPath'
      BY <2>2, <2>4, <2>5, <2>7 DEF DispatchInv, AnnouncedPath
    <2>11. SentWithDocket'
      BY <2>2, <2>4 DEF DispatchInv, SentWithDocket
    <2>12. LockInv'
      <3>1. \A e \in Edits : pc'[e] = pc[e]
        BY <2>1, DispatchAssumption DEF DispatchInv, TypeOK, Goto
      <3>2. \A e \in Edits : pc[e] \in {"load", "save"} => target[e] \in Deliveries /\ target[e] # d
        BY <2>6 DEF DispatchInv, LockInv
      <3>3. QED
        BY <2>1, <2>4, <3>1, <3>2 DEF DispatchInv, LockInv
    <2>13. AnsweredHasNote'
      <3>1. \A m \in Deliveries : m # d => pc'[m] = pc[m]
        BY <2>1 DEF DispatchInv, TypeOK, Goto
      <3>2. \A n \in Deliveries : notes[n] # NoRow => notes'[n] = notes[n]
        BY <2>4, <2>6
      <3>3. \A m \in Deliveries : m # d /\ pc'[m] \in {"ok", "existed"} =>
                GetByOrderID(OrderOf[m])' # {}
        BY <3>1, <3>2 DEF DispatchInv, AnsweredHasNote, GetByOrderID
      <3>4. d \in GetByOrderID(OrderOf[d])'
        BY <2>2, <2>4, <2>7 DEF GetByOrderID
      <3>5. QED
        BY <3>3, <3>4 DEF AnsweredHasNote
    <2>14. QED
      BY <2>3, <2>8, <2>9, <2>10, <2>11, <2>12, <2>13 DEF DispatchInv
  <1>3. QED
    BY <1>1, <1>2

-----------------------------------------------------------------------------
(* Transitions.                                                             *)

\* A request that begins names a note that exists.
LEMMA StartStep ==
    ASSUME DispatchInv, NEW e \in Edits, NEW n \in Deliveries, NEW c \in Commands, Start(e, n, c)
    PROVE  DispatchInv'
  <1> USE DEF Start, Goto
  <1>1. TypeOK'
    BY DEF DispatchInv, TypeOK
  <1>2. \A f \in Edits : f # e => pc'[f] = pc[f] /\ target'[f] = target[f] /\ cmd'[f] = cmd[f]
    BY DEF DispatchInv, TypeOK
  <1>3. pc'[e] = "load" /\ target'[e] = n /\ cmd'[e] = c
    BY DEF DispatchInv, TypeOK
  <1>4. LockInv'
    BY <1>2, <1>3 DEF DispatchInv, LockInv
  <1>5. AnsweredHasNote'
    BY TransitionAnswersNone, AnswersKept
  <1>6. QED
    BY <1>1, <1>4, <1>5, NotesKept DEF DispatchInv

\* Loading takes the lock or ends.
LEMMA LoadStep ==
    ASSUME DispatchInv, NEW e \in Edits, Load(e)
    PROVE  DispatchInv'
  <1> DEFINE n == target[e]
             w == notes[n]
  <1>1. n \in Deliveries /\ w \in Notes /\ cmd[e] \in Commands /\ pc[e] = "load" /\ lock[n] = None
    BY DEF DispatchInv, TypeOK, LockInv, Load
  <1>2. UNCHANGED <<content, notes, log, target, cmd, failures>>
    BY DEF Load
  <1>3. \A f \in Edits : f # e => pc'[f] = pc[f] /\ mem'[f] = mem[f]
    BY DEF Load, Goto, DispatchInv, TypeOK
  <1>4. \A f \in Edits : pc[f] = "save" => target[f] # n
    BY <1>1, DispatchAssumption DEF DispatchInv, LockInv
  <1> AnsweredHasNote'
    <2>1. \E next : Goto(e, next)
      BY Zenon DEF Load
    <2>2. QED
      BY <1>2, <2>1, TransitionAnswersNone, AnswersKept
  <1>5. CASE ~Refuses(w, cmd[e]) /\ shouldPersist(w, cmd[e])
    <2>1. /\ mem' = [mem EXCEPT ![e] = advance(w, cmd[e])]
          /\ lock' = [lock EXCEPT ![n] = e]
          /\ pc' = [pc EXCEPT ![e] = "save"]
      BY <1>5 DEF Load, Goto
    <2>2. advance(w, cmd[e]) \in Notes
      <3>1. w.status \in {"dispatched", "in_transit", "delivered"} => w.docket # None
        BY <1>1, NoRowAssumption DEF DispatchInv, SentWithDocket
      <3>2. w.status = "pending" => w.docket = None
        BY <1>1, NoRowAssumption DEF DispatchInv, NoteInv
      <3>3. QED
        BY <1>1, <1>5, <3>1, <3>2, AdvanceFollowsEdge
    <2>3. TypeOK'
      BY <1>1, <1>2, <2>1, <2>2 DEF DispatchInv, TypeOK
    <2>4. \A m \in Deliveries : lock'[m] = IF m = n THEN e ELSE lock[m]
      BY <2>1 DEF DispatchInv, TypeOK
    <2>5. pc'[e] = "save" /\ mem'[e] = advance(w, cmd[e])
      BY <2>1 DEF DispatchInv, TypeOK
    <2>6. LockInv'
      BY <1>1, <1>2, <1>3, <1>4, <1>5, <2>4, <2>5 DEF DispatchInv, LockInv
    <2>7. QED
      BY <1>2, <2>3, <2>6, NotesKept DEF DispatchInv
  <1>6. CASE ~(~Refuses(w, cmd[e]) /\ shouldPersist(w, cmd[e]))
    <2>1. /\ UNCHANGED <<mem, lock>>
          /\ pc' = [pc EXCEPT ![e] = IF Refuses(w, cmd[e]) THEN "refused" ELSE "ok"]
      BY <1>6 DEF Load, Goto
    <2>2. TypeOK'
      BY <1>2, <2>1 DEF DispatchInv, TypeOK
    <2>3. pc'[e] \in {"refused", "ok"}
      BY <2>1 DEF DispatchInv, TypeOK
    <2>4. LockInv'
      BY <1>2, <1>3, <2>1, <2>3 DEF DispatchInv, LockInv
    <2>5. QED
      BY <1>2, <2>2, <2>4, NotesKept DEF DispatchInv
  <1>7. QED
    BY <1>5, <1>6

\* The write brings the note to the status that the transition has in memory: the lock
\* kept the note as it was read, so this is one edge further, announced last.
LEMMA SaveStep ==
    ASSUME DispatchInv, NEW e \in Edits, Save(e)
    PROVE  DispatchInv' /\ notes[target[e]].status \notin Terminal
           /\ mem[e].order = notes[target[e]].order
           /\ (notes[target[e]].docket # None => mem[e].docket = notes[target[e]].docket)
  <1> DEFINE n == target[e]
             w == notes[n]
             v == mem[e]
  <1>1. n \in Deliveries /\ w \in Notes /\ cmd[e] \in Commands /\ lock[n] = e
    BY DEF DispatchInv, TypeOK, LockInv, Save
  <1>2. /\ v \in Notes /\ v.order = w.order /\ v.status # "pending"
        /\ canAdvance(w.status, v.status)
        /\ v.status \in {"dispatched", "in_transit", "delivered"} => v.docket # None
        /\ v.status = "failed" => v.reason # None
        /\ w.docket # None => v.docket = w.docket
    <2>1. w.status \in {"dispatched", "in_transit", "delivered"} => w.docket # None
      BY <1>1, NoRowAssumption DEF DispatchInv, SentWithDocket
    <2>2. w.status = "pending" => w.docket = None
      BY <1>1, NoRowAssumption DEF DispatchInv, NoteInv
    <2>3. ~Refuses(w, cmd[e]) /\ shouldPersist(w, cmd[e]) /\ v = advance(w, cmd[e])
      BY DEF DispatchInv, LockInv, Save
    <2> HIDE DEF w, v
    <2>4. QED
      BY <1>1, <2>1, <2>2, <2>3, AdvanceFollowsEdge
  <1>3. w.status # v.status /\ w.status \notin Terminal /\ v.status \in Status
    BY <1>1, <1>2 DEF canAdvance, Terminal, Notes
  <1>4. /\ notes' = [notes EXCEPT ![n] = v]
        /\ log' = [log EXCEPT ![n] = Append(log[n], v.status)]
        /\ lock' = [lock EXCEPT ![n] = None]
        /\ mem' = [mem EXCEPT ![e] = NoRow]
        /\ pc' = [pc EXCEPT ![e] = "ok"]
        /\ UNCHANGED <<content, target, cmd, failures>>
    BY <1>3, Zenon DEF Save, Goto
  <1>5. TypeOK'
    BY <1>1, <1>2, <1>3, <1>4 DEF DispatchInv, TypeOK
  <1>6. \A m \in Deliveries : notes'[m] = IF m = n THEN v ELSE notes[m]
    BY <1>4 DEF DispatchInv, TypeOK
  <1>7. v # NoRow /\ w # NoRow
    BY <1>1, <1>2, NoRowAssumption
  <1>8. NoteInv'
    BY <1>2, <1>6, <1>7 DEF DispatchInv, NoteInv
  <1>9. NotesAreDistinct' /\ AnsweredHasNote'
    <2>1. \A m \in Deliveries : notes[m] # NoRow => notes'[m] # NoRow /\ notes'[m].order = notes[m].order
      BY <1>2, <1>6, <1>7
    <2>2. \A m \in Deliveries : pc'[m] = pc[m]
      BY <1>4, TransitionAnswersNone, Zenon DEF Goto
    <2>3. AnsweredHasNote'
      BY <2>1, <2>2, AnswersKept
    <2>4. QED
      BY <1>2, <1>6, <1>7, <2>3 DEF DispatchInv, NotesAreDistinct
  <1>10. SentWithDocket'
    BY <1>2, <1>6, <1>7 DEF DispatchInv, SentWithDocket
  <1>11. AnnouncedPath'
    <2>1. \A m \in Deliveries : log'[m] = IF m = n THEN Append(log[n], v.status) ELSE log[m]
      BY <1>4 DEF DispatchInv, TypeOK
    <2> DEFINE s == log[n]
               t == Append(s, v.status)
    <2>2. s \in Seq(Status) /\ v.status \in Status
      BY <1>1, <1>3 DEF DispatchInv, TypeOK
    <2>3. /\ Len(s) > 0 /\ s[1] = "pending" /\ s[Len(s)] = w.status
          /\ \A i \in 1 .. Len(s) - 1 : canAdvance(s[i], s[i + 1])
      BY <1>1, <1>7 DEF DispatchInv, AnnouncedPath
    <2> HIDE DEF s
    <2>4. Len(t) = Len(s) + 1 /\ t[Len(t)] = v.status /\ \A i \in 1 .. Len(s) : t[i] = s[i]
      BY <2>2
    <2>5. Len(s) \in Nat
      BY <2>2
    <2>6. Len(t) > 0 /\ t[1] = "pending"
      BY <2>3, <2>4, <2>5
    <2>7. ASSUME NEW i \in 1 .. Len(t) - 1 PROVE canAdvance(t[i], t[i + 1])
      <3> HIDE DEF t
      <3>1. CASE i = Len(s)
        <4>1. t[i] = w.status /\ t[i + 1] = v.status
          BY <2>3, <2>4, <2>5, <3>1
        <4>2. QED
          BY <1>2, <4>1
      <3>2. CASE i # Len(s)
        <4>1. i \in 1 .. Len(s) - 1 /\ t[i] = s[i] /\ t[i + 1] = s[i + 1]
          BY <2>4, <2>5, <3>2
        <4>2. QED
          BY <2>3, <4>1
      <3>3. QED
        BY <3>1, <3>2
    <2>8. ASSUME NEW m \in Deliveries, m # n
          PROVE  notes'[m] = notes[m] /\ log'[m] = log[m]
      BY <1>6, <2>1, <2>8
    <2>9. notes'[n] = v /\ log'[n] = t
      BY <1>1, <1>6, <2>1, Zenon DEF s
    <2> HIDE DEF t
    <2> DEFINE P(r, l) == IF r = NoRow
                          THEN l = <<>>
                          ELSE /\ Len(l) > 0
                               /\ l[1] = "pending"
                               /\ l[Len(l)] = r.status
                               /\ \A i \in 1 .. Len(l) - 1 : canAdvance(l[i], l[i + 1])
    <2>10. P(v, t)
      BY <1>7, <2>4, <2>6, <2>7
    <2>11. \A m \in Deliveries : P(notes[m], log[m])
      BY DEF DispatchInv, AnnouncedPath
    <2> HIDE DEF P
    <2>12. \A m \in Deliveries : P(notes'[m], log'[m])
      BY <2>8, <2>9, <2>10, <2>11
    <2>13. QED
      BY <2>12 DEF P, AnnouncedPath
  <1>12. LockInv'
    <2>1. \A f \in Edits : f # e => pc'[f] = pc[f] /\ mem'[f] = mem[f]
      BY <1>4 DEF DispatchInv, TypeOK
    <2>2. \A m \in Deliveries : lock'[m] = IF m = n THEN None ELSE lock[m]
      BY <1>4 DEF DispatchInv, TypeOK
    <2>3. pc'[e] = "ok"
      BY <1>4 DEF DispatchInv, TypeOK
    <2>4. \A f \in Edits : f # e /\ pc[f] = "save" => target[f] # n
      BY <1>1 DEF DispatchInv, LockInv
    <2>5. \A f \in Edits : f # e /\ pc[f] \in {"load", "save"} => notes'[target[f]] # NoRow
      BY <1>6, <1>7 DEF DispatchInv, LockInv
    <2>6. \A f \in Edits : f # e /\ pc[f] = "save" =>
             lock'[target[f]] = lock[target[f]] /\ notes'[target[f]] = notes[target[f]]
      BY <1>6, <2>2, <2>4 DEF DispatchInv, LockInv
    <2>7. pc'[e] \notin {"load", "save"} /\ target' = target /\ cmd' = cmd
      BY <1>4, <2>3
    <2>8. ASSUME NEW f \in Edits, pc'[f] \in {"load", "save"}
          PROVE  f # e /\ pc[f] \in {"load", "save"} /\ target[f] \in Deliveries /\ cmd[f] \in Commands
                 /\ notes'[target[f]] # NoRow
      BY <2>1, <2>5, <2>7, <2>8 DEF DispatchInv, LockInv
    <2>9. ASSUME NEW f \in Edits, pc'[f] = "save"
          PROVE  /\ lock'[target[f]] = f
                 /\ ~Refuses(notes'[target[f]], cmd[f]) /\ shouldPersist(notes'[target[f]], cmd[f])
                 /\ mem'[f] = advance(notes'[target[f]], cmd[f])
      <3>1. f # e /\ pc[f] = "save"
        BY <2>1, <2>7, <2>9
      <3>2. QED
        BY <2>1, <2>6, <3>1 DEF DispatchInv, LockInv
    <2>10. QED
      BY <2>7, <2>8, <2>9, Zenon DEF LockInv
  <1>13. QED
    BY <1>2, <1>3, <1>5, <1>8, <1>9, <1>10, <1>11, <1>12 DEF DispatchInv

\* A rollback releases the lock that its transition holds, and no other.
LEMMA AbortStep ==
    ASSUME DispatchInv, NEW e \in Edits, Abort(e)
    PROVE  DispatchInv'
  <1>1. /\ pc[e] \in {"load", "save"} /\ target[e] \in Deliveries
        /\ UNCHANGED <<content, notes, log, target, cmd>>
        /\ pc' = [pc EXCEPT ![e] = "error"]
        /\ mem' = [mem EXCEPT ![e] = NoRow]
        /\ lock' = IF pc[e] = "save" THEN [lock EXCEPT ![target[e]] = None] ELSE lock
    BY DEF Abort, Goto, DispatchInv, LockInv
  <1>2. TypeOK'
    <2>1. failures' \in 0 .. MaxFailures
      BY DispatchAssumption DEF Abort, DispatchInv, TypeOK
    <2>2. lock' \in [Deliveries -> Edits \cup {None}]
      BY <1>1 DEF DispatchInv, TypeOK
    <2>3. QED
      BY <1>1, <2>1, <2>2 DEF DispatchInv, TypeOK
  <1>3. \A f \in Edits : f # e => pc'[f] = pc[f] /\ mem'[f] = mem[f]
    BY <1>1 DEF DispatchInv, TypeOK
  <1>4. pc'[e] = "error"
    BY <1>1 DEF DispatchInv, TypeOK
  <1>5. \A f \in Edits : f # e /\ pc[f] = "save" => lock'[target[f]] = lock[target[f]]
    BY <1>1 DEF DispatchInv, TypeOK, LockInv
  <1>6. LockInv'
    BY <1>1, <1>3, <1>4, <1>5, Zenon DEF DispatchInv, LockInv
  <1>7. AnsweredHasNote'
    BY <1>1, TransitionAnswersNone, AnswersKept, Zenon DEF Goto
  <1>8. QED
    BY <1>1, <1>2, <1>6, <1>7, NotesKept DEF DispatchInv

-----------------------------------------------------------------------------
(* Theorems.                                                                *)

\* Every step keeps the invariant.
LEMMA InvStep == DispatchInv /\ [Next]_vars => DispatchInv'
  <1> SUFFICES ASSUME DispatchInv, [Next]_vars PROVE DispatchInv'
    OBVIOUS
  <1>1. ASSUME NEW d \in Deliveries, Deliver(d) \/ Precheck(d) \/ Add(d) \/ Lapse(d) \/ Redeliver(d)
        PROVE  DispatchInv'
    BY <1>1, DeliverStep, AddStep
  <1>2. ASSUME NEW e \in Edits,
               MarkDispatched(e) \/ MarkInTransit(e) \/ MarkDelivered(e) \/ MarkFailed(e)
        PROVE  DispatchInv'
    <2>1. PICK n \in Deliveries, c \in Commands : Start(e, n, c)
      BY <1>2, Zenon DEF MarkDispatched, MarkInTransit, MarkDelivered, MarkFailed, Commands
    <2>2. QED
      BY <2>1, StartStep
  <1>3. ASSUME NEW e \in Edits, Load(e) \/ Save(e) \/ Abort(e)
        PROVE  DispatchInv'
    BY <1>3, LoadStep, SaveStep, AbortStep
  <1>4. CASE UNCHANGED vars
    <2>1. TypeOK'
      BY <1>4 DEF vars, DispatchInv, TypeOK
    <2>2. LockInv'
      BY <1>4 DEF vars, DispatchInv, LockInv
    <2>3. AnsweredHasNote'
      BY <1>4, AnswersKept DEF vars
    <2>4. QED
      BY <1>4, <2>1, <2>2, <2>3, NotesKept DEF vars, DispatchInv
  <1>5. QED
    BY <1>1, <1>2, <1>3, <1>4 DEF Next

\* The invariant of CreateConsignmentNoteHandler and UpdateByID.
THEOREM DispatchInvariant == Spec => []DispatchInv
  BY InvInit, InvStep, PTL DEF Spec

\* An order has at most one note, whatever deliveries race (UNIQUE(tenant_id, order_id)),
\* and a message that was answered left its order with one.
THEOREM NoteIsUnique == Spec => []OneNotePerOrder
  <1>1. DispatchInv => OneNotePerOrder
    BY DEF DispatchInv, OneNotePerOrder
  <1>2. QED
    BY <1>1, DispatchInvariant, PTL

\* What the outbox announced of a note is the note's path through the state machine.
THEOREM OutboxTellsPath == Spec => []AnnouncedPath
  <1>1. DispatchInv => AnnouncedPath
    BY DEF DispatchInv
  <1>2. QED
    BY <1>1, DispatchInvariant, PTL

\* A note that was sent has its docket, and a failed one its reason.
THEOREM SentHasDocket == Spec => []SentWithDocket
  <1>1. DispatchInv => SentWithDocket
    BY DEF DispatchInv
  <1>2. QED
    BY <1>1, DispatchInvariant, PTL

\* A finished note never changes, and no note loses its order or its docket: only an
\* insert of a note that is not there and a write under the lock change the notes.
THEOREM FinishedStays == Spec => EndIsFinal
  <1> DEFINE A == \A n \in Deliveries : notes[n] # NoRow =>
                      /\ notes'[n] # NoRow
                      /\ notes'[n].order = notes[n].order
                      /\ notes[n].status \in Terminal => notes'[n] = notes[n]
                      /\ notes[n].docket # None => notes'[n].docket = notes[n].docket
  <1>1. DispatchInv /\ [Next]_vars => [A]_vars
    <2> SUFFICES ASSUME DispatchInv, Next, NEW n \in Deliveries, notes[n] # NoRow
                 PROVE  /\ notes'[n] # NoRow
                        /\ notes'[n].order = notes[n].order
                        /\ notes[n].status \in Terminal => notes'[n] = notes[n]
                        /\ notes[n].docket # None => notes'[n].docket = notes[n].docket
      OBVIOUS
    <2>1. CASE notes' = notes
      BY <2>1
    <2>2. ASSUME NEW d \in Deliveries, Add(d), notes' # notes
          PROVE  notes'[n] = notes[n]
      <3>1. notes[d] = NoRow
        BY <2>2 DEF Add, GetByOrderID, DispatchInv, NoteInv
      <3>2. notes' = [notes EXCEPT ![d] = New(d)]
        BY <2>2 DEF Add
      <3>3. QED
        BY <3>1, <3>2 DEF DispatchInv, TypeOK
    <2>3. ASSUME NEW e \in Edits, Save(e), n = target[e]
          PROVE  /\ notes'[n] = mem[e] /\ mem[e] # NoRow
                 /\ notes[n].status \notin Terminal
                 /\ mem[e].order = notes[n].order
                 /\ notes[n].docket # None => mem[e].docket = notes[n].docket
      <3>1. notes'[n] = mem[e]
        BY <2>3 DEF Save, DispatchInv, TypeOK
      <3>2. mem[e] # NoRow
        <4>1. notes[n] \in Notes /\ cmd[e] \in Commands /\ pc[e] = "save"
          BY <2>3 DEF Save, DispatchInv, TypeOK, LockInv
        <4>2. mem[e] = advance(notes[n], cmd[e]) /\ cmd[e].to \in Status /\ cmd[e].text \in Texts \cup {None}
          BY <2>3, <4>1, Zenon DEF DispatchInv, LockInv, Commands, Status, Terminal
        <4>3. mem[e] \in Notes
          BY <4>1, <4>2, Zenon DEF advance, Notes
        <4>4. QED
          BY <4>3, NoRowAssumption
      <3>3. QED
        BY <2>3, <3>1, <3>2, SaveStep
    <2>4. ASSUME NEW e \in Edits, Save(e), n # target[e]
          PROVE  notes'[n] = notes[n]
      BY <2>4 DEF Save, DispatchInv, TypeOK
    <2>5. \/ notes' = notes
          \/ \E d \in Deliveries : Add(d)
          \/ \E e \in Edits : Save(e)
      BY Zenon DEF Next, Deliver, Precheck, Lapse, Redeliver, MarkDispatched, MarkInTransit, MarkDelivered,
             MarkFailed, Start, Load, Abort
    <2>6. QED
      BY <2>1, <2>2, <2>3, <2>4, <2>5
  <1>2. QED
    BY <1>1, DispatchInvariant, PTL DEF Spec, EndIsFinal

-----------------------------------------------------------------------------
(* Orders: the way an order has come.                                       *)

\* The states that were announced of an order.
Visited(t) == {t[i] : i \in DOMAIN t}

\* The trail of an order follows the machine from the approval of its quotation; the
\* order is where the trail ends, and carries what the states on it left.
PathInv(t, o) ==
    /\ Len(t) \in 1 .. 8 /\ t[Len(t)] = o.state
    /\ \A i \in 1 .. Len(t) - 1 : t[i] = Steps[i + 1]
    /\ o.state \in {Steps[Len(t) + 1], "cancelled"}
    /\ o.stamped = Visited(t) \cap Milestones
    /\ (o.invoice # Missing) <=> "invoiced" \in Visited(t)
    /\ (o.consignment # Missing) <=> "dispatched" \in Visited(t)

OrderInv ==
    /\ sales \in [SaleIds -> SaleRows \cup {Missing}]
    /\ trail \in [SaleIds -> Seq(OrderStates)]
    /\ \A s \in SaleIds : IF sales[s] = Missing THEN trail[s] = <<>> ELSE PathInv(trail[s], sales[s])

\* The trail after a state was announced.
Told(t, to) == IF t # <<>> /\ t[Len(t)] = to THEN t ELSE Append(t, to)

\* What a method of Order may make of an order.
Follows(o, p) ==
    /\ p.state = o.state \/ (~ IsTerminal(o.state) /\ (MayAdvance(o.state, p.state) \/ p.state = "cancelled"))
    /\ p.stamped = o.stamped \cup ({p.state} \cap Milestones)
    /\ (p.invoice # Missing) <=> (o.invoice # Missing \/ p.state = "invoiced")
    /\ (p.consignment # Missing) <=> (o.consignment # Missing \/ p.state = "dispatched")

\* The states of the machine, in order and all different (order.State).
LEMMA StepsAre ==
    /\ Len(Steps) = 9
    /\ Steps[1] = "quotation_draft" /\ Steps[2] = "quotation_approved" /\ Steps[3] = "token_paid"
    /\ Steps[4] = "confirmed" /\ Steps[5] = "packed" /\ Steps[6] = "invoiced"
    /\ Steps[7] = "dispatched" /\ Steps[8] = "delivered" /\ Steps[9] = "complete"
  BY DEF Steps

\* No state occurs twice, and cancelled is not among them.
LEMMA StepsDiffer ==
    /\ \A i, j \in 1 .. 9 : Steps[i] = Steps[j] => i = j
    /\ \A i \in 1 .. 9 : Steps[i] # "cancelled"
  <1>1. \A i \in 1 .. 9 : i = 1 \/ i = 2 \/ i = 3 \/ i = 4 \/ i = 5 \/ i = 6 \/ i = 7 \/ i = 8 \/ i = 9
    OBVIOUS
  <1>2. QED
    BY <1>1, StepsAre

\* The order states are the steps and cancelled.
LEMMA OrderStatesAre ==
    OrderStates = {"quotation_draft", "quotation_approved", "token_paid", "confirmed", "packed", "invoiced",
                   "dispatched", "delivered", "complete", "cancelled"}
  <1>1. \A i \in 1 .. 9 : i = 1 \/ i = 2 \/ i = 3 \/ i = 4 \/ i = 5 \/ i = 6 \/ i = 7 \/ i = 8 \/ i = 9
    OBVIOUS
  <1>2. QED
    BY <1>1, StepsAre DEF OrderStates

\* An announcement adds its state to those announced before.
LEMMA ToldVisits ==
    ASSUME NEW S, NEW t \in Seq(S), NEW to \in S
    PROVE  /\ Append(t, to) \in Seq(S) /\ Len(Append(t, to)) = Len(t) + 1
           /\ \A i \in 1 .. Len(t) : Append(t, to)[i] = t[i]
           /\ Append(t, to)[Len(t) + 1] = to
           /\ Visited(Append(t, to)) = Visited(t) \cup {to}
  <1>1. Append(t, to) \in Seq(S) /\ Len(Append(t, to)) = Len(t) + 1
    OBVIOUS
  <1>2. /\ \A i \in 1 .. Len(t) : Append(t, to)[i] = t[i]
        /\ Append(t, to)[Len(t) + 1] = to
    OBVIOUS
  <1>3. Len(t) \in Nat /\ DOMAIN t = 1 .. Len(t) /\ DOMAIN Append(t, to) = 1 .. Len(t) + 1
    OBVIOUS
  <1>4. \A i : i \in 1 .. Len(t) + 1 <=> i \in 1 .. Len(t) \/ i = Len(t) + 1
    BY <1>3
  <1>5. QED
    BY <1>1, <1>2, <1>3, <1>4, Zenon DEF Visited

\* Every method of Order extends the trail by a step of the machine, by a cancellation or
\* not at all.
LEMMA PathExtends ==
    ASSUME NEW t \in Seq(OrderStates), NEW o, NEW p, p.state \in OrderStates, PathInv(t, o), Follows(o, p)
    PROVE  Told(t, p.state) \in Seq(OrderStates) /\ PathInv(Told(t, p.state), p)
  <1> DEFINE u == Append(t, p.state)
  <1>0. PICK n \in 1 .. 8 : n = Len(t)
    BY Zenon DEF PathInv
  <1>1. n \in Nat /\ n \in 1 .. 8 /\ t # <<>> /\ t[n] = o.state /\ DOMAIN t = 1 .. n
    <2>1. t[n] = o.state
      BY <1>0, Zenon DEF PathInv
    <2>2. DOMAIN t = 1 .. Len(t) /\ (Len(t) # 0 => t # <<>>)
      OBVIOUS
    <2>3. n \in Nat /\ n # 0
      OBVIOUS
    <2>4. QED
      BY <1>0, <2>1, <2>2, <2>3, Zenon
  <1>2. CASE p.state = o.state
    <2>1. Told(t, p.state) = t
      BY <1>0, <1>1, <1>2, Zenon DEF Told
    <2>2. p.state \in Visited(t)
      BY <1>1, <1>2 DEF Visited
    <2>3. QED
      BY <1>2, <2>1, <2>2, Zenon DEF PathInv, Follows
  <1>3. CASE p.state # o.state
    <2>1. Told(t, p.state) = u
      BY <1>0, <1>1, <1>3, Zenon DEF Told
    <2>2. /\ u \in Seq(OrderStates) /\ Len(u) = n + 1 /\ u[n + 1] = p.state
          /\ \A i \in 1 .. n : u[i] = t[i]
          /\ Visited(u) = Visited(t) \cup {p.state}
      <3>1. /\ u \in Seq(OrderStates) /\ Len(u) = Len(t) + 1 /\ u[Len(t) + 1] = p.state
            /\ \A i \in 1 .. Len(t) : u[i] = t[i]
        BY ToldVisits
      <3>2. Visited(u) = Visited(t) \cup {p.state}
        BY ToldVisits
      <3>3. QED
        BY <1>0, <3>1, <3>2, Zenon
    <2>3. o.state = Steps[n + 1] /\ n < 8 /\ p.state \in {Steps[n + 2], "cancelled"}
      <3>1. ~ IsTerminal(o.state) /\ (MayAdvance(o.state, p.state) \/ p.state = "cancelled")
        BY <1>3, Zenon DEF Follows
      <3>2. o.state = Steps[n + 1]
        BY <1>0, <3>1, Zenon DEF PathInv, IsTerminal
      <3>3. n # 8
        <4>1. Steps[9] = "complete" /\ o.state # "complete"
          BY <3>1, StepsAre, Zenon DEF IsTerminal
        <4>2. n = 8 => n + 1 = 9
          OBVIOUS
        <4>3. QED
          BY <3>2, <4>1, <4>2, Zenon
      <3>4. ASSUME MayAdvance(o.state, p.state) PROVE p.state = Steps[n + 2]
        <4>1. PICK i \in 1 .. 8 : o.state = Steps[i] /\ p.state = Steps[i + 1]
          BY <3>4, StepsAre DEF MayAdvance
        <4>2. i \in 1 .. 9 /\ n + 1 \in 1 .. 9
          BY <4>1
        <4>3. i = n + 1
          BY <3>2, <4>1, <4>2, StepsDiffer, Zenon
        <4>4. i + 1 = n + 2
          BY <4>3
        <4>5. QED
          BY <4>1, <4>4, Zenon
      <3>5. QED
        BY <1>1, <3>1, <3>2, <3>3, <3>4
    <2>4. \A i \in 1 .. n : u[i] = Steps[i + 1]
      <3>1. \A i \in 1 .. n - 1 : t[i] = Steps[i + 1]
        BY <1>0, Zenon DEF PathInv
      <3>2. \A i \in 1 .. n : i \in 1 .. n - 1 \/ i = n
        OBVIOUS
      <3>3. QED
        BY <1>1, <2>2, <2>3, <3>1, <3>2, Zenon
    <2>5. Len(u) \in 1 .. 8 /\ Len(u) - 1 = n /\ Len(u) + 1 = n + 2
      BY <1>1, <2>2, <2>3
    <2>6. p.stamped = Visited(u) \cap Milestones
      BY <2>2, Zenon DEF Follows, PathInv
    <2>7. /\ (p.invoice # Missing) <=> "invoiced" \in Visited(u)
          /\ (p.consignment # Missing) <=> "dispatched" \in Visited(u)
      BY <2>2, Zenon DEF Follows, PathInv
    <2>8. u[Len(u)] = p.state /\ p.state \in {Steps[Len(u) + 1], "cancelled"}
      BY <2>2, <2>3, <2>5
    <2>9. \A i \in 1 .. Len(u) - 1 : u[i] = Steps[i + 1]
      BY <2>4, <2>5, Zenon
    <2>10. PathInv(u, p)
      BY <2>5, <2>6, <2>7, <2>8, <2>9, Zenon DEF PathInv
    <2>11. QED
      BY <2>1, <2>2, <2>10, Zenon
  <1>4. QED
    BY <1>2, <1>3

\* A new order has been where its quotation was approved.
LEMMA PathBegins ==
    ASSUME NEW p, p.state = "quotation_approved", p.stamped = {}, p.invoice = Missing, p.consignment = Missing
    PROVE  Told(<<>>, p.state) \in Seq(OrderStates) /\ PathInv(Told(<<>>, p.state), p)
  <1>1. Told(<<>>, p.state) = <<p.state>>
    BY DEF Told
  <1>2. p.state \in OrderStates /\ p.state \notin Milestones
    BY OrderStatesAre DEF Milestones
  <1>3. Visited(<<p.state>>) = {p.state}
    BY DEF Visited
  <1>4. <<p.state>> \in Seq(OrderStates) /\ Len(<<p.state>>) = 1 /\ <<p.state>>[1] = p.state
    BY <1>2
  <1>5. /\ Len(<<p.state>>) \in 1 .. 8 /\ Steps[Len(<<p.state>>) + 1] = p.state
        /\ 1 .. Len(<<p.state>>) - 1 = {}
    BY <1>4, StepsAre
  <1>6. p.state \notin {"invoiced", "dispatched"}
    OBVIOUS
  <1>7. QED
    BY <1>1, <1>2, <1>3, <1>4, <1>5, <1>6, Zenon DEF PathInv

\* A row is put and its state announced.
LEMMA PutSaleKeeps ==
    ASSUME OrderInv, NEW s \in SaleIds, NEW p \in SaleRows, PutSale(s, p),
           \/ sales[s] = Missing /\ p.state = "quotation_approved" /\ p.stamped = {} /\ p.invoice = Missing
                                 /\ p.consignment = Missing
           \/ sales[s] # Missing /\ Follows(sales[s], p)
    PROVE  OrderInv'
  <1>1. /\ sales' = [sales EXCEPT ![s] = p]
        /\ trail' = [trail EXCEPT ![s] = Told(trail[s], p.state)]
    BY Zenon DEF PutSale, Announce, Told
  <1>2. p.state \in OrderStates /\ trail[s] \in Seq(OrderStates)
    <2>1. p.state \in OrderStates
      BY DEF SaleRows
    <2>2. QED
      BY <2>1, Zenon DEF OrderInv
  <1>3. Told(trail[s], p.state) \in Seq(OrderStates) /\ PathInv(Told(trail[s], p.state), p)
    <2>1. CASE sales[s] = Missing
      BY <2>1, PathBegins, Zenon DEF OrderInv
    <2>2. CASE sales[s] # Missing
      BY <1>2, <2>2, PathExtends, Zenon DEF OrderInv
    <2>3. QED
      BY <2>1, <2>2
  <1>4. /\ sales' \in [SaleIds -> SaleRows \cup {Missing}]
        /\ trail' \in [SaleIds -> Seq(OrderStates)]
    BY <1>1, <1>3, Zenon DEF OrderInv
  <1>5. ASSUME NEW q \in SaleIds
        PROVE  IF sales'[q] = Missing THEN trail'[q] = <<>> ELSE PathInv(trail'[q], sales'[q])
    <2>1. CASE q = s
      <3>1. sales'[q] = p /\ trail'[q] = Told(trail[s], p.state)
        BY <1>1, <2>1, Zenon DEF OrderInv
      <3>2. p # Missing
        BY SalesAssumption
      <3>3. QED
        BY <1>3, <3>1, <3>2, Zenon
    <2>2. CASE q # s
      <3>1. sales'[q] = sales[q] /\ trail'[q] = trail[q]
        BY <1>1, <2>2, Zenon DEF OrderInv
      <3>2. QED
        BY <3>1, Zenon DEF OrderInv
    <2>3. QED
      BY <2>1, <2>2
  <1>6. QED
    BY <1>4, <1>5, Zenon DEF OrderInv

-----------------------------------------------------------------------------
(* The methods of Order.                                                    *)

\* What apply writes of an order that changes its state.
LEMMA StampedIs ==
    ASSUME NEW o \in SaleRows, NEW to \in OrderStates
    PROVE  /\ Stamped(o, to) \in SaleRows
           /\ Stamped(o, to).state = to /\ Stamped(o, to).stamped = o.stamped \cup ({to} \cap Milestones)
           /\ Stamped(o, to).invoice = o.invoice /\ Stamped(o, to).consignment = o.consignment
  <1>1. o.stamped \in SUBSET Milestones
    BY DEF SaleRows
  <1>2. o.stamped \cup ({to} \cap Milestones) \in SUBSET Milestones
    BY <1>1, Zenon
  <1>3. QED
    BY <1>2, Zenon DEF Stamped, SaleRows

\* AttachInvoice and AttachConsignment also write a link.
LEMMA LinkedIs ==
    ASSUME NEW o \in SaleRows, NEW link \in Links
    PROVE  /\ [o EXCEPT !.invoice = link] \in SaleRows /\ [o EXCEPT !.consignment = link] \in SaleRows
           /\ [o EXCEPT !.invoice = link].state = o.state /\ [o EXCEPT !.consignment = link].state = o.state
           /\ [o EXCEPT !.invoice = link].stamped = o.stamped /\ [o EXCEPT !.consignment = link].stamped = o.stamped
           /\ [o EXCEPT !.invoice = link].invoice = link /\ [o EXCEPT !.consignment = link].invoice = o.invoice
           /\ [o EXCEPT !.invoice = link].consignment = o.consignment /\ [o EXCEPT !.consignment = link].consignment = link
  BY DEF SaleRows

\* New puts an order of the items it is given.
LEMMA NewSaleKeeps ==
    ASSUME OrderInv, NEW s \in SaleIds, NEW q \in Quotes, NEW list \in Lists, NewSale(s, q, list)
    PROVE  OrderInv'
  <1> DEFINE p == [quotation |-> q, state |-> "quotation_approved", items |-> list, totals |-> computeTotals(list),
                   invoice |-> Missing, consignment |-> Missing, stamped |-> {}]
  <1>1. sales[s] = Missing /\ Acceptable(list) /\ PutSale(s, p)
    BY Zenon DEF NewSale
  <1>2. computeTotals(list) \in Totals
    BY <1>1, Zenon DEF Totals
  <1>3. p \in SaleRows
    <2>1. "quotation_approved" \in OrderStates
      BY OrderStatesAre
    <2>2. QED
      BY <1>2, <2>1 DEF SaleRows
  <1>4. p.state = "quotation_approved" /\ p.stamped = {} /\ p.invoice = Missing /\ p.consignment = Missing
    OBVIOUS
  <1> HIDE DEF p
  <1>5. QED
    BY <1>1, <1>3, <1>4, PutSaleKeeps, Zenon

\* RecordTokenPayment, Confirm, MarkPacked, MarkDelivered and MarkComplete.
LEMMA AdvanceSaleKeeps ==
    ASSUME OrderInv, NEW s \in SaleIds, NEW to \in {"token_paid", "confirmed", "packed", "delivered", "complete"},
           AdvanceSale(s, to)
    PROVE  OrderInv'
  <1> DEFINE p == Stamped(sales[s], to)
  <1>1. sales[s] # Missing /\ sales[s] \in SaleRows /\ Accepts(sales[s], to) /\ PutSale(s, p)
    BY Zenon DEF AdvanceSale, OrderInv
  <1>2. to \in OrderStates /\ to # "invoiced" /\ to # "dispatched"
    BY OrderStatesAre
  <1>3. /\ p \in SaleRows /\ p.state = to /\ p.stamped = sales[s].stamped \cup ({to} \cap Milestones)
        /\ p.invoice = sales[s].invoice /\ p.consignment = sales[s].consignment
    BY <1>1, <1>2, StampedIs, Zenon
  <1> HIDE DEF p
  <1>4. Follows(sales[s], p)
    BY <1>1, <1>2, <1>3, Zenon DEF Follows, Accepts
  <1>5. QED
    BY <1>1, <1>3, <1>4, PutSaleKeeps, Zenon

\* Cancel leaves the links and the times as they are and adds its own.
LEMMA CancelKeeps ==
    ASSUME OrderInv, NEW s \in SaleIds, Cancel(s)
    PROVE  OrderInv'
  <1> DEFINE p == Stamped(sales[s], "cancelled")
  <1>1. sales[s] # Missing /\ sales[s] \in SaleRows /\ ~ IsTerminal(sales[s].state) /\ PutSale(s, p)
    BY Zenon DEF Cancel, OrderInv
  <1>2. "cancelled" \in OrderStates /\ "cancelled" # "invoiced" /\ "cancelled" # "dispatched"
    BY OrderStatesAre
  <1>3. /\ p \in SaleRows /\ p.state = "cancelled" /\ p.stamped = sales[s].stamped \cup ({"cancelled"} \cap Milestones)
        /\ p.invoice = sales[s].invoice /\ p.consignment = sales[s].consignment
    BY <1>1, <1>2, StampedIs, Zenon
  <1> HIDE DEF p
  <1>4. Follows(sales[s], p)
    BY <1>1, <1>2, <1>3, Zenon DEF Follows
  <1>5. QED
    BY <1>1, <1>3, <1>4, PutSaleKeeps, Zenon

\* AttachInvoice and AttachConsignment: the link is there from the step to the state on.
LEMMA AttachKeeps ==
    ASSUME OrderInv, NEW s \in SaleIds, NEW link \in Links, AttachInvoice(s, link) \/ AttachConsignment(s, link)
    PROVE  OrderInv'
  <1>0. link # Missing
    BY SalesAssumption
  <1>1. CASE AttachInvoice(s, link)
    <2> DEFINE m == Stamped(sales[s], "invoiced")
               p == [m EXCEPT !.invoice = link]
    <2>1. sales[s] # Missing /\ sales[s] \in SaleRows /\ Accepts(sales[s], "invoiced") /\ PutSale(s, p)
      BY <1>1, Zenon DEF AttachInvoice, OrderInv
    <2>2. "invoiced" \in OrderStates /\ "invoiced" # "dispatched"
      BY OrderStatesAre
    <2>3. /\ m \in SaleRows /\ m.state = "invoiced" /\ m.stamped = sales[s].stamped \cup ({"invoiced"} \cap Milestones)
          /\ m.consignment = sales[s].consignment
      BY <2>1, <2>2, StampedIs, Zenon
    <2> HIDE DEF m
    <2>4. /\ p \in SaleRows /\ p.state = m.state /\ p.stamped = m.stamped
          /\ p.invoice = link /\ p.consignment = m.consignment
      BY <2>3, LinkedIs, Zenon
    <2> HIDE DEF p
    <2>5. Follows(sales[s], p)
      BY <1>0, <2>1, <2>2, <2>3, <2>4, Zenon DEF Follows, Accepts
    <2>6. QED
      BY <2>1, <2>4, <2>5, PutSaleKeeps, Zenon
  <1>2. CASE AttachConsignment(s, link)
    <2> DEFINE m == Stamped(sales[s], "dispatched")
               p == [m EXCEPT !.consignment = link]
    <2>1. sales[s] # Missing /\ sales[s] \in SaleRows /\ Accepts(sales[s], "dispatched") /\ PutSale(s, p)
      BY <1>2, Zenon DEF AttachConsignment, OrderInv
    <2>2. "dispatched" \in OrderStates /\ "invoiced" # "dispatched"
      BY OrderStatesAre
    <2>3. /\ m \in SaleRows /\ m.state = "dispatched"
          /\ m.stamped = sales[s].stamped \cup ({"dispatched"} \cap Milestones) /\ m.invoice = sales[s].invoice
      BY <2>1, <2>2, StampedIs, Zenon
    <2> HIDE DEF m
    <2>4. /\ p \in SaleRows /\ p.state = m.state /\ p.stamped = m.stamped
          /\ p.consignment = link /\ p.invoice = m.invoice
      BY <2>3, LinkedIs, Zenon
    <2> HIDE DEF p
    <2>5. Follows(sales[s], p)
      BY <1>0, <2>1, <2>2, <2>3, <2>4, Zenon DEF Follows, Accepts
    <2>6. QED
      BY <2>1, <2>4, <2>5, PutSaleKeeps, Zenon
  <1>3. QED
    BY <1>1, <1>2

\* Every other operation leaves the orders alone.
LEMMA OrdersUntouched ==
    ASSUME OrderInv, UNCHANGED <<sales, trail>>
    PROVE  OrderInv'
  BY Zenon DEF OrderInv

-----------------------------------------------------------------------------
(* Documents.                                                               *)

\* Documents have numbers of their own, none above the number allocated last.
Numbered(D, allocated) ==
    /\ \A d \in D : d.number \in DocumentNumbers /\ d.number.seq <= allocated[<<d.number.year, d.number.kind>>]
    /\ \A d, e \in D : d.number = e.number => d = e

DocumentInv ==
    /\ sequence \in [Years \X Kinds -> Nat]
    /\ invoices \subseteq InvoiceRows /\ creditNotes \subseteq CreditNoteRows
    /\ Numbered(invoices \cup creditNotes, sequence)
    /\ \A i, j \in invoices : i.order = j.order => i = j
    /\ \A c, d \in creditNotes : c.invoice = d.invoice /\ c.number.kind = "cancellation_note" /\ c.number.kind = d.number.kind
          => c = d

\* The allocator of a year and a kind counts up and the others stay.
LEMMA AllocateCounts ==
    ASSUME sequence \in [Years \X Kinds -> Nat], NEW fy \in Years, NEW kind \in Kinds, Allocate(fy, kind)
    PROVE  /\ sequence' \in [Years \X Kinds -> Nat]
           /\ sequence'[<<fy, kind>>] = sequence[<<fy, kind>>] + 1
           /\ \A k \in Years \X Kinds : sequence[k] <= sequence'[k]
           /\ sequence[<<fy, kind>>] \in Nat
           /\ NumberOf(fy, kind) \in DocumentNumbers
           /\ NumberOf(fy, kind).kind = kind /\ NumberOf(fy, kind).year = fy
           /\ NumberOf(fy, kind).seq = sequence[<<fy, kind>>] + 1
  <1>1. sequence' = [sequence EXCEPT ![<<fy, kind>>] = sequence[<<fy, kind>>] + 1]
    BY Zenon DEF Allocate
  <1>2. <<fy, kind>> \in Years \X Kinds
    OBVIOUS
  <1>3. sequence[<<fy, kind>>] \in Nat /\ sequence[<<fy, kind>>] + 1 \in Nat
    BY <1>2
  <1>4. /\ sequence' \in [Years \X Kinds -> Nat] /\ sequence'[<<fy, kind>>] = sequence[<<fy, kind>>] + 1
        /\ \A k \in Years \X Kinds : k # <<fy, kind>> => sequence'[k] = sequence[k]
    BY <1>1, <1>2, <1>3, Zenon
  <1>5. ASSUME NEW k \in Years \X Kinds PROVE sequence[k] <= sequence'[k]
    <2>1. sequence[k] \in Nat
      BY Zenon
    <2>2. sequence'[k] = sequence[k] \/ sequence'[k] = sequence[k] + 1
      BY <1>4, Zenon
    <2>3. QED
      BY <2>1, <2>2
  <1>6. /\ NumberOf(fy, kind) \in DocumentNumbers
        /\ NumberOf(fy, kind).kind = kind /\ NumberOf(fy, kind).year = fy
        /\ NumberOf(fy, kind).seq = sequence[<<fy, kind>>] + 1
    BY <1>3 DEF NumberOf, DocumentNumbers
  <1>7. QED
    BY <1>3, <1>4, <1>5, <1>6, Zenon

\* The parts of a number.
LEMMA NumberParts ==
    ASSUME NEW n \in DocumentNumbers
    PROVE  n.seq \in Nat /\ <<n.year, n.kind>> \in Years \X Kinds
  BY DEF DocumentNumbers

\* What is above another is not below it.
LEMMA AboveIsNew ==
    ASSUME NEW a \in Nat, NEW b \in Nat, a <= b
    PROVE  a # b + 1 /\ b + 1 <= b + 1
  OBVIOUS

\* What was allocated before stays below.
LEMMA BelowStays ==
    ASSUME NEW a \in Nat, NEW b \in Nat, NEW c \in Nat, a <= b, b <= c
    PROVE  a <= c
  OBVIOUS

\* A number is new when it is allocated, whether or not a document takes it.
LEMMA AllocateKeepsNumbered ==
    ASSUME sequence \in [Years \X Kinds -> Nat], NEW D, Numbered(D, sequence), NEW fy \in Years, NEW kind \in Kinds,
           Allocate(fy, kind)
    PROVE  /\ Numbered(D, sequence')
           /\ \A x : x.number = NumberOf(fy, kind) => Numbered(D \cup {x}, sequence')
  <1>1. /\ sequence' \in [Years \X Kinds -> Nat]
        /\ sequence'[<<fy, kind>>] = sequence[<<fy, kind>>] + 1
        /\ \A k \in Years \X Kinds : sequence[k] <= sequence'[k]
        /\ sequence[<<fy, kind>>] \in Nat
    BY AllocateCounts, Zenon
  <1>2. /\ NumberOf(fy, kind) \in DocumentNumbers
        /\ NumberOf(fy, kind).kind = kind /\ NumberOf(fy, kind).year = fy
        /\ NumberOf(fy, kind).seq = sequence[<<fy, kind>>] + 1
    BY AllocateCounts, Zenon
  <1>3. ASSUME NEW d \in D
        PROVE  /\ d.number \in DocumentNumbers /\ d.number.seq <= sequence'[<<d.number.year, d.number.kind>>]
               /\ d.number # NumberOf(fy, kind)
    <2>1. d.number \in DocumentNumbers /\ d.number.seq <= sequence[<<d.number.year, d.number.kind>>]
      BY Zenon DEF Numbered
    <2>2. d.number.seq \in Nat /\ <<d.number.year, d.number.kind>> \in Years \X Kinds
      BY <2>1, NumberParts, Zenon
    <2>3. d.number.seq <= sequence'[<<d.number.year, d.number.kind>>]
      <3>1. /\ sequence[<<d.number.year, d.number.kind>>] \in Nat /\ sequence'[<<d.number.year, d.number.kind>>] \in Nat
            /\ sequence[<<d.number.year, d.number.kind>>] <= sequence'[<<d.number.year, d.number.kind>>]
        BY <1>1, <2>2, Zenon
      <3>2. QED
        BY <2>1, <2>2, <3>1, BelowStays, Zenon
    <2>4. d.number # NumberOf(fy, kind)
      <3>1. ASSUME d.number = NumberOf(fy, kind) PROVE FALSE
        <4>1. d.number.seq <= sequence[<<fy, kind>>] /\ d.number.seq = sequence[<<fy, kind>>] + 1
          BY <1>2, <2>1, <3>1, Zenon
        <4>2. QED
          BY <1>1, <2>2, <4>1, AboveIsNew, Zenon
      <3>2. QED
        BY <3>1
    <2>5. QED
      BY <2>1, <2>3, <2>4
  <1>4. Numbered(D, sequence')
    BY <1>3, Zenon DEF Numbered
  <1>5. ASSUME NEW x, x.number = NumberOf(fy, kind) PROVE Numbered(D \cup {x}, sequence')
    <2>1. x.number.seq <= sequence'[<<x.number.year, x.number.kind>>] /\ x.number \in DocumentNumbers
      <3>1. sequence[<<fy, kind>>] + 1 <= sequence[<<fy, kind>>] + 1
        BY <1>1
      <3>2. QED
        BY <1>1, <1>2, <1>5, <3>1, Zenon
    <2>2. \A d \in D : d.number # x.number
      BY <1>3, <1>5, Zenon
    <2>3. \A d \in D : d.number \in DocumentNumbers /\ d.number.seq <= sequence'[<<d.number.year, d.number.kind>>]
      BY <1>3, Zenon
    <2>4. \A d, e \in D : d.number = e.number => d = e
      BY Zenon DEF Numbered
    <2>5. QED
      BY <2>1, <2>2, <2>3, <2>4, Zenon DEF Numbered
  <1>6. QED
    BY <1>4, <1>5, Zenon

\* Allocate, invoice.New and Repository.Add.
LEMMA AddInvoiceKeeps ==
    ASSUME DocumentInv, NEW s \in SaleIds, NEW month \in Months, NEW kind \in Kinds, NEW total \in Amounts,
           AddInvoice(s, month, kind, total)
    PROVE  DocumentInv'
  <1> DEFINE fy == FromDate(month)
             x == [order |-> s, number |-> NumberOf(fy, kind), total |-> total]
  <1>1. fy \in Years
    BY Zenon DEF Years
  <1>2. /\ Allocate(fy, kind) /\ creditNotes' = creditNotes
        /\ invoices' = invoices \/ (invoices' = invoices \cup {x} /\ ~ Invoiced(s))
    BY Zenon DEF AddInvoice
  <1> HIDE DEF fy
  <1>3. /\ sequence \in [Years \X Kinds -> Nat] /\ Numbered(invoices \cup creditNotes, sequence)
        /\ invoices \subseteq InvoiceRows /\ creditNotes \subseteq CreditNoteRows
    BY Zenon DEF DocumentInv
  <1>4. sequence' \in [Years \X Kinds -> Nat] /\ NumberOf(fy, kind) \in DocumentNumbers
    BY <1>1, <1>2, <1>3, AllocateCounts, Zenon
  <1>5. x \in InvoiceRows /\ x.order = s /\ x.number = NumberOf(fy, kind)
    BY <1>4 DEF InvoiceRows
  <1> HIDE DEF x
  <1>6. /\ Numbered(invoices \cup creditNotes, sequence')
        /\ Numbered((invoices \cup creditNotes) \cup {x}, sequence')
    BY <1>1, <1>2, <1>3, <1>5, AllocateKeepsNumbered, Zenon
  <1>7. CASE invoices' = invoices
    BY <1>2, <1>3, <1>4, <1>6, <1>7, Zenon DEF DocumentInv
  <1>8. CASE invoices' = invoices \cup {x} /\ ~ Invoiced(s)
    <2>1. invoices' \cup creditNotes' = (invoices \cup creditNotes) \cup {x}
      BY <1>2, <1>8, Zenon
    <2>2. \A i \in invoices : i.order # s
      BY <1>8, Zenon DEF Invoiced
    <2>3. \A i, j \in invoices' : i.order = j.order => i = j
      BY <1>5, <1>8, <2>2, Zenon DEF DocumentInv
    <2>4. invoices' \subseteq InvoiceRows
      BY <1>3, <1>5, <1>8, Zenon
    <2>5. Numbered(invoices' \cup creditNotes', sequence')
      BY <1>6, <2>1, Zenon
    <2>6. QED
      BY <1>2, <1>3, <1>4, <2>3, <2>4, <2>5, Zenon DEF DocumentInv
  <1>9. QED
    BY <1>2, <1>7, <1>8

\* Allocate, creditnote.New and Repository.Add.
LEMMA AddCreditNoteKeeps ==
    ASSUME DocumentInv, NEW i \in invoices, NEW month \in Months, NEW kind \in Kinds, AddCreditNote(i, month, kind)
    PROVE  DocumentInv'
  <1> DEFINE fy == FromDate(month)
             x == [invoice |-> i.number, number |-> NumberOf(fy, kind)]
  <1>1. fy \in Years
    BY Zenon DEF Years
  <1>2. /\ Allocate(fy, kind) /\ invoices' = invoices
        /\ \/ creditNotes' = creditNotes
           \/ creditNotes' = creditNotes \cup {x} /\ (kind = "cancellation_note" => ~ Cancelled(i))
    BY Zenon DEF AddCreditNote
  <1> HIDE DEF fy
  <1>3. /\ sequence \in [Years \X Kinds -> Nat] /\ Numbered(invoices \cup creditNotes, sequence)
        /\ invoices \subseteq InvoiceRows /\ creditNotes \subseteq CreditNoteRows
    BY Zenon DEF DocumentInv
  <1>4. /\ sequence' \in [Years \X Kinds -> Nat] /\ NumberOf(fy, kind) \in DocumentNumbers
        /\ NumberOf(fy, kind).kind = kind
    BY <1>1, <1>2, <1>3, AllocateCounts, Zenon
  <1>5. x \in CreditNoteRows /\ x.invoice = i.number /\ x.number = NumberOf(fy, kind)
    <2>1. i.number \in DocumentNumbers
      BY <1>3, Zenon DEF Numbered
    <2>2. QED
      BY <1>4, <2>1 DEF CreditNoteRows
  <1> HIDE DEF x
  <1>6. /\ Numbered(invoices \cup creditNotes, sequence')
        /\ Numbered((invoices \cup creditNotes) \cup {x}, sequence')
    BY <1>1, <1>2, <1>3, <1>5, AllocateKeepsNumbered, Zenon
  <1>7. CASE creditNotes' = creditNotes
    BY <1>2, <1>3, <1>4, <1>6, <1>7, Zenon DEF DocumentInv
  <1>8. CASE creditNotes' = creditNotes \cup {x} /\ (kind = "cancellation_note" => ~ Cancelled(i))
    <2>1. invoices' \cup creditNotes' = (invoices \cup creditNotes) \cup {x}
      BY <1>2, <1>8, Zenon
    <2>2. x.number.kind = "cancellation_note" =>
             \A c \in creditNotes : ~ (c.invoice = x.invoice /\ c.number.kind = "cancellation_note")
      BY <1>4, <1>5, <1>8, Zenon DEF Cancelled
    <2>3. \A c, d \in creditNotes' :
             c.invoice = d.invoice /\ c.number.kind = "cancellation_note" /\ c.number.kind = d.number.kind => c = d
      BY <1>8, <2>2, Zenon DEF DocumentInv
    <2>4. creditNotes' \subseteq CreditNoteRows
      BY <1>3, <1>5, <1>8, Zenon
    <2>5. Numbered(invoices' \cup creditNotes', sequence')
      BY <1>6, <2>1, Zenon
    <2>6. QED
      BY <1>2, <1>3, <1>4, <2>3, <2>4, <2>5, Zenon DEF DocumentInv
  <1>9. QED
    BY <1>2, <1>7, <1>8

\* Every other operation leaves the documents and the allocator alone.
LEMMA DocumentsUntouched ==
    ASSUME DocumentInv, UNCHANGED <<invoices, creditNotes, sequence>>
    PROVE  DocumentInv'
  BY Zenon DEF DocumentInv

-----------------------------------------------------------------------------
(* Payments and quotations.                                                 *)

PaymentInv ==
    /\ payments \in Seq(PaymentRows)
    /\ \A i, j \in DOMAIN payments : payments[i].reference # Missing /\ payments[i].reference = payments[j].reference
          => i = j

QuoteInv ==
    /\ quotes \in [Quotes -> Quotations \cup {Missing}]
    /\ \A q \in Quotes : quotes[q] # Missing =>
          /\ Len(quotes[q].revisions) \in 1 .. MaxRevisions
          /\ quotes[q].state = "approved" => quotes[q].approved = Len(quotes[q].revisions)
          /\ quotes[q].state # "approved" => quotes[q].approved = 0

\* A reference that was received is not received again.
LEMMA AddPaymentKeeps ==
    ASSUME PaymentInv, NEW s \in SaleIds, NEW reference \in References \cup {Missing}, NEW received, NEW recorded,
           AddPayment(s, reference, received, recorded)
    PROVE  PaymentInv'
  <1> DEFINE row == [order |-> s, reference |-> reference]
             n == Len(payments)
  <1>1. payments' = Append(payments, row) /\ ~ Received(reference) /\ payments \in Seq(PaymentRows)
    BY Zenon DEF AddPayment, PaymentInv
  <1>2. row \in PaymentRows /\ row.reference = reference
    BY DEF PaymentRows
  <1> HIDE DEF row
  <1>3. /\ payments' \in Seq(PaymentRows) /\ n \in Nat /\ DOMAIN payments = 1 .. n /\ DOMAIN payments' = 1 .. n + 1
        /\ payments'[n + 1] = row /\ \A i \in 1 .. n : payments'[i] = payments[i]
    <2>1. n \in Nat /\ DOMAIN payments = 1 .. n
      BY <1>1
    <2>2. payments' \in Seq(PaymentRows) /\ Len(payments') = n + 1
      BY <1>1, <1>2
    <2>3. payments'[n + 1] = row /\ \A i \in 1 .. n : payments'[i] = payments[i]
      BY <1>1, <1>2
    <2>4. QED
      BY <2>1, <2>2, <2>3
  <1>4. \A i \in DOMAIN payments' : i \in DOMAIN payments \/ i = n + 1
    BY <1>3
  <1>5. reference # Missing => \A i \in DOMAIN payments : payments[i].reference # reference
    BY <1>1, Zenon DEF Received
  <1> HIDE DEF n
  <1>6. ASSUME NEW i \in DOMAIN payments', NEW j \in DOMAIN payments', payments'[i].reference # Missing,
               payments'[i].reference = payments'[j].reference
        PROVE  i = j
    <2>1. CASE i \in DOMAIN payments /\ j \in DOMAIN payments
      BY <1>3, <1>6, <2>1, Zenon DEF PaymentInv
    <2>2. CASE i = n + 1 \/ j = n + 1
      BY <1>2, <1>3, <1>4, <1>5, <1>6, <2>2, Zenon
    <2>3. QED
      BY <1>4, <1>6, <2>1, <2>2, Zenon
  <1>7. QED
    BY <1>3, <1>6, Zenon DEF PaymentInv

\* Every other operation leaves the payments alone.
LEMMA PaymentsUntouched ==
    ASSUME PaymentInv, UNCHANGED payments
    PROVE  PaymentInv'
  BY Zenon DEF PaymentInv

\* A quotation is put.
LEMMA PutQuoteKeeps ==
    ASSUME QuoteInv, NEW q \in Quotes, NEW row \in Quotations, PutQuote(q, row),
           Len(row.revisions) \in 1 .. MaxRevisions,
           row.state = "approved" => row.approved = Len(row.revisions),
           row.state # "approved" => row.approved = 0
    PROVE  QuoteInv'
  <1>1. quotes' = [quotes EXCEPT ![q] = row] /\ quotes \in [Quotes -> Quotations \cup {Missing}]
    BY Zenon DEF PutQuote, QuoteInv
  <1>2. quotes' \in [Quotes -> Quotations \cup {Missing}]
    BY <1>1, Zenon
  <1>3. quotes'[q] = row /\ \A r \in Quotes : r # q => quotes'[r] = quotes[r]
    BY <1>1, Zenon
  <1>4. ASSUME NEW r \in Quotes, quotes'[r] # Missing
        PROVE  /\ Len(quotes'[r].revisions) \in 1 .. MaxRevisions
               /\ quotes'[r].state = "approved" => quotes'[r].approved = Len(quotes'[r].revisions)
               /\ quotes'[r].state # "approved" => quotes'[r].approved = 0
    <2>1. CASE r = q
      BY <1>3, <2>1, Zenon
    <2>2. CASE r # q
      BY <1>3, <1>4, <2>2, Zenon DEF QuoteInv
    <2>3. QED
      BY <2>1, <2>2
  <1>5. QED
    BY <1>2, <1>4, Zenon DEF QuoteInv

\* New, Revise, Approve and Reject of a quotation.
LEMMA QuotationsKeep ==
    ASSUME QuoteInv, NEW q \in Quotes,
           \/ Approve(q)
           \/ Reject(q)
           \/ \E list \in Lists : NewQuotation(q, list) \/ Revise(q, list)
    PROVE  QuoteInv'
  <1> DEFINE o == quotes[q]
  <1>1. ASSUME o # Missing
        PROVE  /\ o \in Quotations /\ Len(o.revisions) \in 1 .. MaxRevisions /\ MaxRevisions \in Nat
               /\ o.state # "approved" => o.approved = 0
    <2>1. MaxRevisions \in Nat
      BY SalesAssumption
    <2>2. QED
      BY <1>1, <2>1, Zenon DEF QuoteInv
  <1>2. CASE Approve(q)
    <2> DEFINE n == Len(o.revisions)
               row == [o EXCEPT !.state = "approved", !.approved = n]
    <2>1. o # Missing /\ PutQuote(q, row)
      BY <1>2, Zenon DEF Approve
    <2>2. o \in Quotations /\ n \in 0 .. MaxRevisions
      BY <1>1, <2>1
    <2> HIDE DEF n
    <2>3. row \in Quotations /\ row.revisions = o.revisions /\ row.state = "approved" /\ row.approved = n
      <3> HIDE DEF o
      <3>1. QED
        BY <2>2, Zenon DEF Quotations, QuoteStates
    <2> USE DEF n
    <2> HIDE DEF row
    <2>4. QED
      BY <1>1, <2>1, <2>3, PutQuoteKeeps, Zenon
  <1>3. CASE Reject(q)
    <2> DEFINE row == [o EXCEPT !.state = "rejected"]
    <2>1. o # Missing /\ o.state = "draft" /\ PutQuote(q, row)
      BY <1>3, Zenon DEF Reject
    <2>2. /\ row \in Quotations /\ row.revisions = o.revisions
          /\ row.state # "approved" /\ row.approved = o.approved
      <3> HIDE DEF o
      <3>1. QED
        BY <1>1, <2>1 DEF Quotations, QuoteStates
    <2>3. o.approved = 0
      <3>1. o.state # "approved"
        BY <2>1
      <3>2. QED
        BY <1>1, <2>1, <3>1, Zenon
    <2> HIDE DEF row
    <2>4. QED
      BY <1>1, <2>1, <2>2, <2>3, PutQuoteKeeps, Zenon
  <1>4. ASSUME NEW list \in Lists, NewQuotation(q, list) PROVE QuoteInv'
    <2> DEFINE row == [state |-> "draft", revisions |-> <<list>>, approved |-> 0]
    <2>1. PutQuote(q, row)
      BY <1>4, Zenon DEF NewQuotation
    <2>2. MaxRevisions \in Nat \ {0}
      BY SalesAssumption
    <2>3. row \in Quotations /\ Len(row.revisions) = 1 /\ row.state # "approved" /\ row.approved = 0
      BY <2>2 DEF Quotations, QuoteStates
    <2> HIDE DEF row
    <2>4. Len(row.revisions) \in 1 .. MaxRevisions
      BY <2>2, <2>3
    <2>5. QED
      BY <2>1, <2>3, <2>4, PutQuoteKeeps, Zenon
  <1>5. ASSUME NEW list \in Lists, Revise(q, list) PROVE QuoteInv'
    <2> DEFINE more == Append(o.revisions, list)
               row == [o EXCEPT !.revisions = more]
    <2>1. o # Missing /\ o.state = "draft" /\ Len(o.revisions) < MaxRevisions /\ PutQuote(q, row)
      BY <1>5, Zenon DEF Revise
    <2>2. o.revisions \in Seq(Lists)
      BY <1>1, <2>1 DEF Quotations
    <2>3. more \in Seq(Lists) /\ Len(more) \in 1 .. MaxRevisions
      BY <1>1, <2>1, <2>2
    <2> HIDE DEF more
    <2>4. row \in Quotations /\ row.revisions = more /\ row.state = o.state /\ row.approved = o.approved
      <3> HIDE DEF o
      <3>1. QED
        BY <1>1, <2>1, <2>3 DEF Quotations
    <2>5. o.approved = 0 /\ row.state # "approved"
      <3>1. o.state # "approved"
        BY <2>1
      <3>2. QED
        BY <1>1, <2>1, <2>4, <3>1, Zenon
    <2> HIDE DEF row
    <2>6. QED
      BY <2>1, <2>3, <2>4, <2>5, PutQuoteKeeps, Zenon
  <1>6. QED
    BY <1>2, <1>3, <1>4, <1>5, Zenon

\* Every other operation leaves the quotations alone.
LEMMA QuotationsUntouched ==
    ASSUME QuoteInv, UNCHANGED quotes
    PROVE  QuoteInv'
  BY Zenon DEF QuoteInv

-----------------------------------------------------------------------------
(* The specification.                                                       *)

SaleInv == OrderInv /\ DocumentInv /\ PaymentInv /\ QuoteInv

\* Nothing is there at first.
LEMMA SaleBegins == SaleInit => SaleInv
  <1> SUFFICES ASSUME SaleInit PROVE SaleInv
    OBVIOUS
  <1>1. OrderInv
    <2>1. <<>> \in Seq(OrderStates)
      OBVIOUS
    <2>2. QED
      BY <2>1, Zenon DEF SaleInit, OrderInv
  <1>2. DocumentInv
    <2>1. 0 \in Nat
      OBVIOUS
    <2>2. QED
      BY <2>1, Zenon DEF SaleInit, DocumentInv, Numbered
  <1>3. PaymentInv
    <2>1. payments = <<>>
      BY Zenon DEF SaleInit
    <2>2. QED
      BY <2>1 DEF PaymentInv
  <1>4. QuoteInv
    BY Zenon DEF SaleInit, QuoteInv
  <1>5. QED
    BY <1>1, <1>2, <1>3, <1>4 DEF SaleInv

\* Every operation of the aggregates keeps the invariant.
LEMMA SaleSteps == SaleInv /\ [SaleNext]_saleVars => SaleInv'
  <1> SUFFICES ASSUME SaleInv, [SaleNext]_saleVars PROVE SaleInv'
    OBVIOUS
  <1>0. OrderInv /\ DocumentInv /\ PaymentInv /\ QuoteInv
    BY DEF SaleInv
  <1>1. ASSUME NEW q \in Quotes,
               \/ Approve(q)
               \/ Reject(q)
               \/ \E list \in Lists : NewQuotation(q, list) \/ Revise(q, list)
        PROVE  SaleInv'
    <2>1. UNCHANGED <<sales, trail, invoices, creditNotes, payments, sequence>>
      BY <1>1, Zenon DEF Approve, Reject, NewQuotation, Revise, PutQuote
    <2>2. QuoteInv'
      BY <1>0, <1>1, QuotationsKeep
    <2>3. QED
      BY <1>0, <2>1, <2>2, OrdersUntouched, DocumentsUntouched, PaymentsUntouched DEF SaleInv
  <1>2. ASSUME NEW s \in SaleIds,
               \/ Cancel(s)
               \/ \E q \in Quotes : \E list \in Lists : NewSale(s, q, list)
               \/ \E to \in {"token_paid", "confirmed", "packed", "delivered", "complete"} : AdvanceSale(s, to)
               \/ \E link \in Links : AttachInvoice(s, link) \/ AttachConsignment(s, link)
        PROVE  SaleInv'
    <2>1. UNCHANGED <<quotes, invoices, creditNotes, payments, sequence>>
      BY <1>2, Zenon DEF Cancel, NewSale, AdvanceSale, AttachInvoice, AttachConsignment, PutSale
    <2>2. OrderInv'
      BY <1>0, <1>2, CancelKeeps, NewSaleKeeps, AdvanceSaleKeeps, AttachKeeps, Zenon
    <2>3. QED
      BY <1>0, <2>1, <2>2, QuotationsUntouched, DocumentsUntouched, PaymentsUntouched DEF SaleInv
  <1>3. ASSUME NEW s \in SaleIds, NEW month \in Months, NEW kind \in Kinds, NEW total \in Amounts,
               AddInvoice(s, month, kind, total)
        PROVE  SaleInv'
    <2>1. UNCHANGED <<quotes, sales, trail, payments>>
      BY <1>3, Zenon DEF AddInvoice
    <2>2. DocumentInv'
      BY <1>0, <1>3, AddInvoiceKeeps, Zenon
    <2>3. QED
      BY <1>0, <2>1, <2>2, OrdersUntouched, QuotationsUntouched, PaymentsUntouched DEF SaleInv
  <1>4. ASSUME NEW i \in invoices, NEW month \in Months, NEW kind \in Kinds, AddCreditNote(i, month, kind)
        PROVE  SaleInv'
    <2>1. UNCHANGED <<quotes, sales, trail, payments>>
      BY <1>4, Zenon DEF AddCreditNote
    <2>2. DocumentInv'
      BY <1>0, <1>4, AddCreditNoteKeeps, Zenon
    <2>3. QED
      BY <1>0, <2>1, <2>2, OrdersUntouched, QuotationsUntouched, PaymentsUntouched DEF SaleInv
  <1>5. ASSUME NEW s \in SaleIds, NEW reference \in References \cup {Missing}, NEW received \in Months,
               NEW recorded \in Months, AddPayment(s, reference, received, recorded)
        PROVE  SaleInv'
    <2>1. UNCHANGED <<quotes, sales, trail, invoices, creditNotes, sequence>>
      BY <1>5, Zenon DEF AddPayment
    <2>2. PaymentInv'
      BY <1>0, <1>5, AddPaymentKeeps, Zenon
    <2>3. QED
      BY <1>0, <2>1, <2>2, OrdersUntouched, QuotationsUntouched, DocumentsUntouched DEF SaleInv
  <1>6. CASE UNCHANGED saleVars
    <2>1. UNCHANGED <<quotes, sales, trail, invoices, creditNotes, payments, sequence>>
      BY <1>6 DEF saleVars
    <2>2. QED
      BY <1>0, <2>1, OrdersUntouched, QuotationsUntouched, DocumentsUntouched, PaymentsUntouched DEF SaleInv
  <1>7. QED
    BY <1>1, <1>2, <1>3, <1>4, <1>5, <1>6, Zenon DEF SaleNext

\* The aggregates of the Orders module keep the invariant: trails that follow the machine,
\* numbers below the allocator, references and approvals told once.
THEOREM SalesInvariant == SaleSpec => []SaleInv
  BY SaleBegins, SaleSteps, PTL DEF SaleSpec

\* The states t are those of the order o: no state is skipped, and its times and its links
\* are those of the states.
TellsPath(t, o) ==
    /\ t[Len(t)] = o.state
    /\ \A i \in 1 .. Len(t) - 1 : t[i] = Steps[i + 1] /\ (t[i + 1] = Steps[i + 2] \/ t[i + 1] = "cancelled")
    /\ o.stamped = {t[i] : i \in DOMAIN t} \cap Milestones
    /\ (o.invoice # Missing) <=> "invoiced" \in {t[i] : i \in DOMAIN t}
    /\ (o.consignment # Missing) <=> "dispatched" \in {t[i] : i \in DOMAIN t}

\* What the invariant says of one order.
LEMMA PathIsTold ==
    ASSUME NEW t, NEW o, PathInv(t, o)
    PROVE  TellsPath(t, o)
  <1>0. PICK n \in 1 .. 8 : n = Len(t)
    BY Zenon DEF PathInv
  <1>1. /\ t[n] = o.state /\ o.state \in {Steps[n + 1], "cancelled"}
        /\ \A i \in 1 .. n - 1 : t[i] = Steps[i + 1]
    BY <1>0, Zenon DEF PathInv
  <1>2. ASSUME NEW i \in 1 .. n - 1
        PROVE  t[i] = Steps[i + 1] /\ (t[i + 1] = Steps[i + 2] \/ t[i + 1] = "cancelled")
    <2>1. (i + 1 \in 1 .. n - 1 \/ i + 1 = n) /\ (i + 1) + 1 = i + 2
      BY <1>0
    <2>2. t[i] = Steps[i + 1]
      BY <1>1, <1>2, Zenon
    <2>3. CASE i + 1 \in 1 .. n - 1
      BY <1>1, <2>1, <2>2, <2>3, Zenon
    <2>4. CASE i + 1 = n
      BY <1>1, <2>1, <2>2, <2>4
    <2>5. QED
      BY <2>1, <2>3, <2>4
  <1>3. QED
    BY <1>0, <1>2, Zenon DEF PathInv, Visited, TellsPath

\* A financial year that FromDate makes is one that ParseFinancialYear accepts.
LEMMA YearsParse == \A fy \in Years : ParseFinancialYear(fy)
  <1> SUFFICES ASSUME NEW t \in Months PROVE ParseFinancialYear(FromDate(t))
    BY Zenon DEF Years
  <1>1. FromDate(t)[1] \in 0 .. LastYear
    BY SalesAssumption, Zenon
  <1>2. FromDate(t)[2] = (FromDate(t)[1] + 1) % 100
    BY DEF FromDate
  <1>3. QED
    BY <1>1, <1>2, Zenon DEF ParseFinancialYear

\* The methods of Order never skip a state and never return to one, announce every state
\* once, and leave on the order the times and the links of the states it passed, for any
\* number of orders and quotations and any lists of items.
THEOREM OrdersTellTheirPath == SaleSpec => []OrderTellsItsPath
  <1>1. ASSUME SaleInv PROVE OrderTellsItsPath
    <2>0. OrderInv /\ DocumentInv /\ PaymentInv /\ QuoteInv
      BY <1>1 DEF SaleInv
    <2>1. SaleTypeOK
      BY <2>0, Zenon DEF OrderInv, DocumentInv, PaymentInv, QuoteInv, SaleTypeOK
    <2>2. \A s \in SaleIds : sales[s] # Missing => PathInv(trail[s], sales[s])
      BY <2>0, Zenon DEF OrderInv
    <2>3. ASSUME NEW s \in SaleIds, sales[s] # Missing
          PROVE  LET visited == {trail[s][i] : i \in DOMAIN trail[s]} IN
                 /\ trail[s][Len(trail[s])] = sales[s].state
                 /\ \A i \in 1 .. Len(trail[s]) - 1 :
                       trail[s][i] = Steps[i + 1] /\ (trail[s][i + 1] = Steps[i + 2] \/ trail[s][i + 1] = "cancelled")
                 /\ sales[s].stamped = visited \cap Milestones
                 /\ (sales[s].invoice # Missing) <=> "invoiced" \in visited
                 /\ (sales[s].consignment # Missing) <=> "dispatched" \in visited
      <3>1. PathInv(trail[s], sales[s])
        BY <2>2, <2>3, Zenon
      <3>2. TellsPath(trail[s], sales[s])
        BY <3>1, PathIsTold, Zenon
      <3>3. QED
        BY <3>2, Zenon DEF TellsPath
    <2>4. QED
      BY <2>1, <2>3, Zenon DEF OrderTellsItsPath
  <1>2. QED
    BY <1>1, SalesInvariant, PTL

\* Documents never share a number, for any number of years and documents; an order has one
\* invoice, an invoice one cancellation, a reference one payment, and an approval names the
\* revision that stays.
THEOREM DocumentsAreNumberedOnce == SaleSpec => []DocumentsAreUnique
  <1>1. ASSUME SaleInv PROVE DocumentsAreUnique
    <2>0. DocumentInv /\ PaymentInv /\ QuoteInv
      BY <1>1 DEF SaleInv
    <2>1. Numbered(invoices \cup creditNotes, sequence)
      BY <2>0, Zenon DEF DocumentInv
    <2>2. \A d \in invoices \cup creditNotes : ParseFinancialYear(d.number.year)
      <3>1. \A n \in DocumentNumbers : n.year \in Years
        BY DEF DocumentNumbers
      <3>2. QED
        BY <2>1, <3>1, YearsParse, Zenon DEF Numbered
    <2>3. \A q \in Quotes : quotes[q] # Missing =>
             (quotes[q].state = "approved") <=> (quotes[q].approved = Len(quotes[q].revisions))
      <3>1. \A n : n \in 1 .. MaxRevisions => n # 0
        BY SalesAssumption
      <3>2. QED
        BY <2>0, <3>1, Zenon DEF QuoteInv
    <2>4. /\ \A i, j \in invoices : i.order = j.order => i = j
          /\ \A c, d \in creditNotes :
                c.invoice = d.invoice /\ c.number.kind = "cancellation_note" /\ c.number.kind = d.number.kind => c = d
      BY <2>0, Zenon DEF DocumentInv
    <2>5. \A i, j \in DOMAIN payments :
             payments[i].reference # Missing /\ payments[i].reference = payments[j].reference => i = j
      BY <2>0, Zenon DEF PaymentInv
    <2>6. QED
      BY <2>1, <2>2, <2>3, <2>4, <2>5, Zenon DEF DocumentsAreUnique, Numbered
  <1>2. QED
    BY <1>1, SalesInvariant, PTL
====
