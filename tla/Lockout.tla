---- MODULE Lockout ----
(***************************************************************************)
(* The login flow's lockout: failed attempts are counted over a sliding    *)
(* window, too many lock the account for a while (person.RegisterFailed-   *)
(* Login, RegisterSuccessfulLogin and IsLocked, LoginHandler.resolveAnd-   *)
(* Verify, PersonRepository.UpdateLockoutState; ADR 0053).                 *)
(*                                                                         *)
(* An attempt reads the account once, works on that copy and writes the    *)
(* three lockout columns from it, ignoring the error if the write fails.   *)
(* Every other update of the account (PersonRepository.UpdateByID) writes  *)
(* the three columns back as it loaded them.                               *)
(***************************************************************************)
EXTENDS Naturals, FiniteSets

CONSTANTS
    LoginRequests, \* login attempts and other updates of the account
    MaxFailedLogins, LockoutWindow, LockoutDuration,
    MaxTime,       \* bound: the clock's last value
    LoginLimits    \* bounds: how many requests are handled at the same time

\* What the constants must satisfy.
LockoutAssumption ==
    /\ MaxFailedLogins \in Nat \ {0} /\ LockoutWindow \in Nat /\ LockoutDuration \in Nat \ {0}
    /\ MaxTime \in Nat \ {0} /\ LoginLimits \subseteq Nat

VARIABLES
    loginLimit, \* how many requests the server handles at the same time
    columns,    \* the lockout columns of identity.persons; time 0 is NULL
    now,        \* the clock, from 1
    loginStep,  \* where each request is
    loaded      \* the columns in its memory

lockoutVars == <<loginLimit, columns, now, loginStep, loaded>>

Times == 0 .. (MaxTime + LockoutDuration)
Columns == [count : Nat, lockedUntil : Times, lastFailedAt : Times]
Clear == [count |-> 0, lockedUntil |-> 0, lastFailedAt |-> 0]

InLogin == {"verify", "saveFailure", "saveSuccess", "update"}

LockoutTypeOK ==
    /\ loginLimit \in LoginLimits
    /\ columns \in Columns
    /\ now \in 1 .. MaxTime
    /\ loginStep \in [LoginRequests -> {"idle", "locked", "invalid", "ok", "done"} \cup InLogin]
    /\ loaded \in [LoginRequests -> Columns]

-----------------------------------------------------------------------------
(* Person.                                                                  *)

IsLocked(c) == now < c.lockedUntil

\* Outside the window a fresh run begins, and an expired lock is cleared with it.
Windowed(c) ==
    IF c.lastFailedAt # 0 /\ now - c.lastFailedAt > LockoutWindow
    THEN [count |-> 0, lockedUntil |-> IF IsLocked(c) THEN c.lockedUntil ELSE 0, lastFailedAt |-> c.lastFailedAt]
    ELSE c

RegisterFailedLoginOnce(c) ==
    LET counted == [count |-> Windowed(c).count + 1, lockedUntil |-> Windowed(c).lockedUntil, lastFailedAt |-> now]
    IN  IF counted.count >= MaxFailedLogins /\ counted.lockedUntil = 0
        THEN [counted EXCEPT !.lockedUntil = now + LockoutDuration] ELSE counted

RegisterFailedLogin(c) ==
    LET counted == [count |-> Windowed(c).count + 1, lockedUntil |-> Windowed(c).lockedUntil, lastFailedAt |-> now]
    IN  IF counted.count >= MaxFailedLogins /\ ~IsLocked(counted)
        THEN [counted EXCEPT !.lockedUntil = now + LockoutDuration] ELSE counted

RegisterSuccessfulLogin(c) == Clear

-----------------------------------------------------------------------------
(* Requests.                                                                *)

LoginGoes(a, next) == loginStep' = [loginStep EXCEPT ![a] = next]

\* ResolveByEmail, then the lockout gate.
Resolve(a) ==
    /\ loginStep[a] = "idle"
    /\ Cardinality({b \in LoginRequests : loginStep[b] \in InLogin}) < loginLimit
    /\ loaded' = [loaded EXCEPT ![a] = columns]
    /\ LoginGoes(a, IF IsLocked(columns) THEN "locked" ELSE "verify")
    /\ UNCHANGED <<columns, now>>

\* The password is right or wrong; the copy in memory is updated at once.
VerifyPassword(a) ==
    /\ loginStep[a] = "verify"
    /\ \/ loaded' = [loaded EXCEPT ![a] = RegisterFailedLogin(@)] /\ LoginGoes(a, "saveFailure")
       \/ loaded' = [loaded EXCEPT ![a] = RegisterSuccessfulLogin(@)] /\ LoginGoes(a, "saveSuccess")
    /\ UNCHANGED <<columns, now>>

\* UpdateLockoutState; its error is ignored.
Save(a) ==
    /\ loginStep[a] \in {"saveFailure", "saveSuccess"}
    /\ columns' \in {columns, loaded[a]}
    /\ LoginGoes(a, IF loginStep[a] = "saveSuccess" THEN "ok"
                    ELSE IF IsLocked(loaded[a]) THEN "locked" ELSE "invalid")
    /\ UNCHANGED <<now, loaded>>

\* Any other handler that updates the account: UpdateByID loads the row, and
\* persistPerson writes it back with the lockout columns it was loaded with, unless
\* the transaction fails.
LoadPerson(a) ==
    /\ loginStep[a] = "idle"
    /\ Cardinality({b \in LoginRequests : loginStep[b] \in InLogin}) < loginLimit
    /\ loaded' = [loaded EXCEPT ![a] = columns]
    /\ LoginGoes(a, "update")
    /\ UNCHANGED <<columns, now>>

UpdateAccount(a) ==
    /\ loginStep[a] = "update"
    /\ columns' \in {columns, loaded[a]}
    /\ LoginGoes(a, "done")
    /\ UNCHANGED <<now, loaded>>

Tick ==
    /\ now < MaxTime
    /\ now' = now + 1
    /\ UNCHANGED <<columns, loginStep, loaded>>

LockoutInit ==
    /\ loginLimit \in LoginLimits
    /\ columns = Clear
    /\ now = 1
    /\ loginStep = [a \in LoginRequests |-> "idle"]
    /\ loaded = [a \in LoginRequests |-> Clear]

LockoutNext ==
    /\ UNCHANGED loginLimit
    /\ \/ Tick
       \/ \E a \in LoginRequests :
             Resolve(a) \/ VerifyPassword(a) \/ Save(a) \/ LoadPerson(a) \/ UpdateAccount(a)

LockoutSpec == LockoutInit /\ [][LockoutNext]_lockoutVars

-----------------------------------------------------------------------------
(* Properties.                                                              *)

\* A stored lock is a lock that some failure at the limit put there, and a stored
\* count at the limit has its lock, for LockoutDuration from the last failure
\* (RegisterFailedLogin, however saves are lost or overwritten).
LocksAtLimit ==
    /\ LockoutTypeOK
    /\ columns.count >= MaxFailedLogins => columns.lockedUntil = columns.lastFailedAt + LockoutDuration
    /\ columns.lockedUntil > now => columns.count >= MaxFailedLogins
====
