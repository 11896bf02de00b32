---- MODULE MCIdentity ----
(***************************************************************************)
(* Small instances of Sessions, Accounts and Lockout, side by side: a      *)
(* behaviour exercises one of them.  Accounts and Lockout write different  *)
(* columns of one row.  The requests of a session are interchangeable by   *)
(* kind; those of an account all are, and start in a fixed order.          *)
(***************************************************************************)
EXTENDS Sessions, Accounts, Lockout, TLC

CONSTANTS a1, a2, a3

ASSUME AccountsAssumption /\ LockoutAssumption

SessionsIdle == limit = 1 /\ expired = {} /\ \A r \in Requests : pc[r] = "idle"
AccountIdle == row.mustChange /\ lapsed = {} /\ \A r \in AccountRequests : step[r] = "idle"
LoginsIdle == now = 1 /\ \A r \in LoginRequests : loginStep[r] = "idle"

IdentityInit == Init /\ AccountInit /\ LockoutInit /\ loginLimit = accountLimit

IdentityNext ==
    \/ accountLimit = 1 /\ AccountIdle /\ LoginsIdle /\ Next /\ UNCHANGED <<accountVars, lockoutVars>>
    \/ SessionsIdle /\ LoginsIdle /\ AccountNext /\ UNCHANGED <<vars, lockoutVars>>
    \/ SessionsIdle /\ AccountIdle /\ LockoutNext /\ UNCHANGED <<vars, accountVars>>

IdentitySpec == IdentityInit /\ [][IdentityNext]_<<vars, accountVars, lockoutVars>>

Started(S) == {r \in S : pc[r] # "idle"}

InOrder(where) == (where[a3] # "idle" => where[a2] # "idle") /\ (where[a2] # "idle" => where[a1] # "idle")

\* Sessions: one at a time, both sessions and a sign-out or a security change;
\* overlapping, one session, the requests that rotate it and one that revokes it.  One
\* token expires.
Scope ==
    /\ IF limit = 1
       THEN /\ Started(Logouts \cup SessionRevokes) = {}
            /\ Started(SignOuts) = {} \/ Started(Cascades) = {}
       ELSE /\ Cardinality(Started(Logins)) <= 1
            /\ Started(SignOuts \cup Cascades) = {}
            /\ Started(Logouts) = {} \/ Started(SessionRevokes) = {}
    /\ Cardinality(expired) <= 1
    /\ InOrder(step) /\ InOrder(loginStep)

Symmetry == Permutations(Logins) \cup Permutations(Refreshes) \cup Permutations(Tenants)
====
