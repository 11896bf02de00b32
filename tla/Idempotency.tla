---- MODULE Idempotency ----
(***************************************************************************)
(* X-Command-Id (internal/common/idempotency): the middleware looks the    *)
(* command up in its table, runs the handler when it is not there, and     *)
(* stores a successful response afterwards.  Nothing reserves the key      *)
(* while the handler runs.                                                 *)
(***************************************************************************)
EXTENDS Naturals, FiniteSets

CONSTANTS
    Callers,        \* scopes of a command id
    Keys,           \* command ids
    Bodies,         \* hashes of request bodies
    Attempts,       \* requests in flight
    AttemptLimits,  \* bounds: how many requests are handled at the same time
    RecordTTL,
    MaxRuns,        \* bound: executions of handlers
    MaxTicks,       \* bound: the clock
    MaxLosses,      \* bound: responses that are not stored
    Absent

Commands == [caller : Callers, key : Keys, body : Bodies]
Records == [body : Bodies, response : 1 .. MaxRuns, expires : 0 .. MaxTicks + RecordTTL]

IdempotencyAssumption ==
    /\ AttemptLimits \subseteq Nat
    /\ {RecordTTL, MaxRuns, MaxTicks, MaxLosses} \subseteq Nat
    /\ IsFiniteSet(Attempts) /\ Absent \notin Records

VARIABLES
    alimit,
    ticks,
    records,    \* common.command_idempotency, by caller and key
    attempt,    \* of a request: where it is, its command, the response of its handler
    runs,       \* successful executions: command, response, time
    replayed,   \* replays: command, response
    losses

idemVars == <<ticks, records, attempt, runs, replayed, losses>>

NoAttempt == [pc |-> "idle", command |-> Absent, response |-> 0]

IdemTypeOK ==
    /\ alimit \in AttemptLimits /\ ticks \in 0 .. MaxTicks /\ losses \in 0 .. MaxLosses
    /\ \A k \in Callers \X Keys : records[k] # Absent => records[k] \in Records
    /\ \A q \in Attempts : attempt[q].pc \in {"idle", "run", "store"}

Slot(c) == <<c.caller, c.key>>

SameBody(c) == records[Slot(c)].body = c.body

\* Fault: a record has expired at once.
LiveNever(c) == FALSE

\* Store.Get ignores a record that has expired.
Live(c) == records[Slot(c)] # Absent /\ (records[Slot(c)] # Absent => ticks < records[Slot(c)].expires)

\* A command that is known is replayed, or refused when its body is another one.
Lookup(q) ==
    /\ attempt[q].pc = "idle" /\ Cardinality({r \in Attempts : attempt[r].pc # "idle"}) < alimit
    /\ \E c \in Commands :
          \/ /\ Live(c) /\ SameBody(c)
             /\ replayed' = replayed \cup {[command |-> c, response |-> records[Slot(c)].response]}
             /\ UNCHANGED attempt
          \/ /\ ~ Live(c)
             /\ attempt' = [attempt EXCEPT ![q] = [pc |-> "run", command |-> c, response |-> 0]]
             /\ UNCHANGED replayed
    /\ UNCHANGED <<ticks, records, runs, losses>>

\* The handler; a response that is not a success is not stored.
ServeHTTP(q) ==
    /\ attempt[q].pc = "run"
    /\ \/ /\ Cardinality(runs) < MaxRuns
          /\ runs' = runs \cup {[command |-> attempt[q].command, response |-> Cardinality(runs) + 1, at |-> ticks]}
          /\ attempt' = [attempt EXCEPT ![q] = [pc |-> "store", command |-> attempt[q].command,
                                                 response |-> Cardinality(runs) + 1]]
       \/ attempt' = [attempt EXCEPT ![q] = NoAttempt] /\ UNCHANGED runs
    /\ UNCHANGED <<ticks, records, replayed, losses>>

\* INSERT .. ON CONFLICT DO UPDATE: the later response wins.  An error is ignored.
Put(q) ==
    LET c == attempt[q].command IN
    /\ attempt[q].pc = "store"
    /\ \/ /\ records' = [records EXCEPT ![Slot(c)] = [body |-> c.body, response |-> attempt[q].response,
                                                      expires |-> ticks + RecordTTL]]
          /\ UNCHANGED losses
       \/ losses < MaxLosses /\ losses' = losses + 1 /\ UNCHANGED records
    /\ attempt' = [attempt EXCEPT ![q] = NoAttempt]
    /\ UNCHANGED <<ticks, runs, replayed>>

Age ==
    /\ ticks < MaxTicks
    /\ \A q \in Attempts : attempt[q].pc # "store"
    /\ ticks' = ticks + 1
    /\ UNCHANGED <<records, attempt, runs, replayed, losses>>

IdemInit ==
    /\ alimit \in AttemptLimits /\ ticks = 0 /\ records = [k \in Callers \X Keys |-> Absent]
    /\ attempt = [q \in Attempts |-> NoAttempt] /\ runs = {} /\ replayed = {} /\ losses = 0

IdemNext ==
    /\ UNCHANGED alimit
    /\ \/ Age
       \/ \E q \in Attempts : Lookup(q) \/ ServeHTTP(q) \/ Put(q)

IdemSpec == IdemInit /\ [][IdemNext]_<<idemVars, alimit>>

-----------------------------------------------------------------------------
(* Properties.                                                              *)

\* However requests overlap, a replayed response is the response to the same command: the
\* same caller, key and body ("Cached mismatch -> 422").  One request after the other,
\* and as long as every response is stored, a command id takes effect once while its
\* record lives; a retry that overlaps the first attempt, or follows a response that was
\* not stored, runs the handler again.
RetryIsSafe ==
    /\ IdemTypeOK
    /\ \A r \in replayed : \E x \in runs : x.command = r.command /\ x.response = r.response
    /\ alimit = 1 /\ losses = 0 =>
          \A x, y \in runs : Slot(x.command) = Slot(y.command) /\ x # y =>
              x.at >= y.at + RecordTTL \/ y.at >= x.at + RecordTTL
====
