---- MODULE Gateway ----
(***************************************************************************)
(* The gate in front of every authenticated request.  An access token      *)
(* carries the security stamp of its person (internal/identity/app/jwt);   *)
(* RequireFreshStamp compares it with the stored stamp through a           *)
(* read-through cache in Redis (internal/common/cache, instantiated        *)
(* without its in-process layer), which a subscriber in the worker clears  *)
(* when a stamp rotates.  Operators obtain tokens that act in a tenant     *)
(* (impersonation); the sessions behind them live in the memory of the     *)
(* API process.                                                            *)
(***************************************************************************)
EXTENDS Naturals, Sequences, FiniteSets

CONSTANTS
    People,
    Operators,    \* members of the platform tenant
    HttpRequests, \* requests that carry a token
    MaxStamps,    \* bound: how often a stamp rotates
    StampTTL,     \* SecurityStampTTL
    MaxFlight,    \* bound: how long a read of the source may take
    AccessTokenTTL,
    SessionTTL,   \* duration of an impersonation
    ClockSkew,
    MaxTokens,    \* bound: logins and impersonations
    GateTime,     \* bound: the clock
    MaxFaults,    \* bound: failures of Redis, the source or the issuer, and restarts of the API
    Nothing

GatewayAssumption ==
    /\ Operators \subseteq People
    /\ {MaxStamps, StampTTL, MaxFlight, AccessTokenTTL, SessionTTL, ClockSkew, MaxTokens, GateTime,
        MaxFaults} \subseteq Nat

VARIABLES
    instant,
    retired,   \* of a person: when each of the earlier stamps was replaced
    tokens,    \* access tokens that were issued
    l2,        \* Redis: the cached stamp of a person and when the entry expires
    gen,       \* the generation of the cache facade of a process
    flight,    \* the read of the source that is under way for a person, in the API
    rotations, \* stamp rotations whose event the worker has not handled yet
    clearing,  \* the person whose entry the worker is about to delete
    cleared,   \* of a person: the stamps that an invalidation has removed for good
    req,       \* requests
    sessions,  \* impersonation sessions in the memory of the API
    begun,     \* every impersonation session that was ever begun
    faults

gateVars == <<instant, retired, tokens, l2, gen, flight, rotations, clearing, cleared, req, sessions, begun, faults>>

Stamp(p) == Len(retired[p])
Stamps == 0 .. MaxStamps

Sessions == [id : 1 .. MaxTokens, operator : Operators, expires : 0 .. GateTime + SessionTTL]

Claims == [sub : People, stamp : Stamps, expires : 0 .. GateTime + AccessTokenTTL + SessionTTL,
           platform : BOOLEAN, act : 0 .. MaxTokens]

NoFlight == [phase |-> "none", gen |-> 0, value |-> 0, since |-> 0]
Idle == [pc |-> "idle", token |-> Nothing]

GateTypeOK ==
    /\ instant \in 0 .. GateTime /\ faults \in 0 .. MaxFaults
    /\ tokens \subseteq Claims /\ sessions \subseteq Sessions /\ begun \subseteq Sessions
    /\ \A p \in People : /\ Len(retired[p]) <= MaxStamps
                         /\ flight[p].phase \in {"none", "read", "fence", "write", "done"}
                         /\ l2[p] # Nothing => l2[p].value \in Stamps
    /\ \A q \in HttpRequests : req[q].pc \in {"idle", "wait", "admitted", "mint"}

-----------------------------------------------------------------------------
(* Tokens.                                                                  *)

\* Logins and impersonations.
Begun == Cardinality({t \in tokens : t.act = 0}) + Cardinality(begun)

\* Login and refresh issue a token with the current stamp (see Sessions).
Issue(p) ==
    /\ Begun < MaxTokens
    /\ tokens' = tokens \cup {[sub |-> p, stamp |-> Stamp(p), expires |-> instant + AccessTokenTTL,
                               platform |-> p \in Operators, act |-> 0]}
    /\ UNCHANGED <<instant, retired, l2, gen, flight, rotations, clearing, cleared, req, sessions, begun, faults>>

Verify(t) == instant < t.expires + ClockSkew

\* RequireAuth: a bearer token that verifies.
RequireAuth(t) == t \in tokens /\ Verify(t)

\* A change of credentials rotates the stamp and announces it (see Accounts).
Rotate(p) ==
    /\ Stamp(p) < MaxStamps
    /\ retired' = [retired EXCEPT ![p] = Append(@, instant)]
    /\ rotations' = rotations \cup {<<p, Stamp(p)>>}
    /\ UNCHANGED <<instant, tokens, l2, gen, flight, clearing, cleared, req, sessions, begun, faults>>

-----------------------------------------------------------------------------
(* The cache.                                                               *)

\* Fault: an entry does not expire.
CachedForever(p) == l2[p] # Nothing

Cached(p) == l2[p] # Nothing /\ (l2[p] # Nothing => instant < l2[p].expires)

\* SecurityStampValidator.IsFresh: the claim is the stored stamp.
IsFresh(t, v) == IF t.stamp = v THEN [pc |-> "admitted", token |-> t] ELSE Idle

\* Facade.Get: a hit in Redis answers, a miss or a failure joins the flight of the key.
Get(q, t) ==
    \/ /\ Cached(t.sub)
       /\ req' = [req EXCEPT ![q] = IsFresh(t, l2[t.sub].value)]
       /\ UNCHANGED <<flight, faults>>
    \/ /\ IF Cached(t.sub) THEN faults < MaxFaults /\ faults' = faults + 1 ELSE UNCHANGED faults
       /\ req' = [req EXCEPT ![q] = [pc |-> "wait", token |-> t]]
       /\ flight' = IF flight[t.sub].phase # "none" THEN flight
                    ELSE [flight EXCEPT ![t.sub] = [phase |-> "read", gen |-> gen["api"], value |-> 0, since |-> instant]]

RequireFreshStamp(q) ==
    /\ req[q].pc = "idle"
    /\ \E t \in tokens : RequireAuth(t) /\ Get(q, t)
    /\ UNCHANGED <<instant, retired, tokens, l2, gen, rotations, clearing, cleared, sessions, begun>>

\* The factory: PersonRepository.GetByID.  When it fails everyone who waits is refused.
ReadSource(p) ==
    /\ flight[p].phase = "read"
    /\ \/ /\ flight' = [flight EXCEPT ![p] = [@ EXCEPT !.phase = "fence", !.value = Stamp(p)]]
          /\ UNCHANGED <<req, faults>>
       \/ /\ faults < MaxFaults /\ faults' = faults + 1
          /\ flight' = [flight EXCEPT ![p] = NoFlight]
          /\ req' = [q \in HttpRequests |-> IF req[q].pc = "wait" /\ req[q].token.sub = p THEN Idle ELSE req[q]]
    /\ UNCHANGED <<instant, retired, tokens, l2, gen, rotations, clearing, cleared, sessions, begun>>

\* The stale-write fence.
CheckGeneration(p) ==
    /\ flight[p].phase = "fence"
    /\ flight' = [flight EXCEPT ![p] = [@ EXCEPT !.phase = IF gen["api"] = flight[p].gen THEN "write" ELSE "done"]]
    /\ UNCHANGED <<instant, retired, tokens, l2, gen, rotations, clearing, cleared, req, sessions, begun, faults>>

\* A SET that fails is logged.
WriteEntry(p) ==
    /\ flight[p].phase = "write"
    /\ \/ l2' = [l2 EXCEPT ![p] = [value |-> flight[p].value, expires |-> instant + StampTTL]] /\ UNCHANGED faults
       \/ faults < MaxFaults /\ faults' = faults + 1 /\ UNCHANGED l2
    /\ flight' = [flight EXCEPT ![p] = [@ EXCEPT !.phase = "done"]]
    /\ UNCHANGED <<instant, retired, tokens, gen, rotations, clearing, cleared, req, sessions, begun>>

\* singleflight hands the value to everyone who joined.
Land(p) ==
    /\ flight[p].phase = "done"
    /\ req' = [q \in HttpRequests |-> IF req[q].pc = "wait" /\ req[q].token.sub = p THEN IsFresh(req[q].token, flight[p].value)
                                  ELSE req[q]]
    /\ flight' = [flight EXCEPT ![p] = NoFlight]
    /\ UNCHANGED <<instant, retired, tokens, l2, gen, rotations, clearing, cleared, sessions, begun, faults>>

\* Facade.Invalidate in the worker: the generation of its own facade, then the entry.
Invalidate ==
    /\ clearing = Nothing
    /\ \E e \in rotations : clearing' = e /\ rotations' = rotations \ {e}
    /\ gen' = [gen EXCEPT !["worker"] = @ + 1]
    /\ UNCHANGED <<instant, retired, tokens, l2, flight, cleared, req, sessions, begun, faults>>

\* A failure is logged and the event is acknowledged ("TTL fallback covers it").
Evict ==
    /\ clearing # Nothing
    /\ \/ /\ l2' = [l2 EXCEPT ![clearing[1]] = Nothing]
          /\ cleared' = [cleared EXCEPT ![clearing[1]] = @ \cup 0 .. clearing[2]]
          /\ UNCHANGED faults
       \/ faults < MaxFaults /\ faults' = faults + 1 /\ UNCHANGED <<l2, cleared>>
    /\ clearing' = Nothing
    /\ UNCHANGED <<instant, retired, tokens, gen, flight, rotations, req, sessions, begun>>

-----------------------------------------------------------------------------
(* What an admitted request does.                                           *)

\* RequirePermission refuses it or its handler runs; neither touches this state.
Use(q) ==
    /\ req[q].pc = "admitted"
    /\ req' = [req EXCEPT ![q] = Idle]
    /\ UNCHANGED <<instant, retired, tokens, l2, gen, flight, rotations, clearing, cleared, sessions, begun, faults>>

\* A new id; the ids are numbered as they are made.
NewId(id) == \A n \in 1 .. id : (\E s \in begun : s.id = n) <=> n < id

NewSession(id, operator) == [id |-> id, operator |-> operator, expires |-> instant + SessionTTL]

\* Fault: the token outlives its session.
ScopedClaimsLong(t, s) ==
    [t EXCEPT !.expires = s.expires + AccessTokenTTL, !.platform = FALSE, !.act = s.id]

\* The operator's subject and stamp, without the rights of the platform.
ScopedClaims(t, s) == [t EXCEPT !.expires = s.expires, !.platform = FALSE, !.act = s.id]

RequirePlatform(t) == t.platform

\* The session is stored, then the issuer signs its token in the same unit of time.
CreateImpersonationSession(q) ==
    /\ req[q].pc = "admitted" /\ RequirePlatform(req[q].token) /\ Begun < MaxTokens
    /\ \E id \in 1 .. MaxTokens :
          LET s == NewSession(id, req[q].token.sub) IN
          /\ NewId(id)
          /\ sessions' = sessions \cup {s}
          /\ begun' = begun \cup {s}
          /\ req' = [req EXCEPT ![q] = [pc |-> "mint", token |-> ScopedClaims(req[q].token, s)]]
    /\ UNCHANGED <<instant, retired, tokens, l2, gen, flight, rotations, clearing, cleared, faults>>

\* When the issuer fails, the session stays without a token ("without rolling back").
Mint(q) ==
    /\ req[q].pc = "mint"
    /\ \/ tokens' = tokens \cup {req[q].token} /\ UNCHANGED faults
       \/ faults < MaxFaults /\ faults' = faults + 1 /\ UNCHANGED tokens
    /\ req' = [req EXCEPT ![q] = Idle]
    /\ UNCHANGED <<instant, retired, l2, gen, flight, rotations, clearing, cleared, sessions, begun>>

\* The session goes, if it is one's own; a token stays good until it expires.
EndImpersonationSession(q) ==
    /\ req[q].pc = "admitted" /\ RequirePlatform(req[q].token)
    /\ sessions' \in {sessions \ {s} : s \in {x \in sessions : x.operator = req[q].token.sub /\ instant < x.expires}}
                         \cup {sessions}
    /\ req' = [req EXCEPT ![q] = Idle]
    /\ UNCHANGED <<instant, retired, tokens, l2, gen, flight, rotations, clearing, cleared, begun, faults>>

\* Get and ListByOperator drop what has expired.
ForgetExpired ==
    /\ \E s \in sessions : instant >= s.expires
    /\ sessions' = {s \in sessions : instant < s.expires}
    /\ UNCHANGED <<instant, retired, tokens, l2, gen, flight, rotations, clearing, cleared, req, begun, faults>>

\* The API process ends: its memory is lost, Redis and the tokens are not.
Restart ==
    /\ faults < MaxFaults /\ faults' = faults + 1
    /\ sessions' = {} /\ gen' = [gen EXCEPT !["api"] = 0]
    /\ flight' = [p \in People |-> NoFlight]
    /\ req' = [q \in HttpRequests |-> Idle]
    /\ UNCHANGED <<instant, retired, tokens, l2, rotations, clearing, cleared, begun>>

GateTick ==
    /\ instant < GateTime
    /\ \A p \in People : flight[p].phase = "none" \/ instant < flight[p].since + MaxFlight
    /\ \A q \in HttpRequests : req[q].pc \notin {"admitted", "mint"}
    /\ instant' = instant + 1
    /\ UNCHANGED <<retired, tokens, l2, gen, flight, rotations, clearing, cleared, req, sessions, begun, faults>>

-----------------------------------------------------------------------------
(* Specification.                                                           *)

GateInit ==
    /\ instant = 0 /\ retired = [p \in People |-> <<>>] /\ tokens = {} /\ l2 = [p \in People |-> Nothing]
    /\ gen = [process \in {"api", "worker"} |-> 0] /\ flight = [p \in People |-> NoFlight]
    /\ rotations = {} /\ clearing = Nothing /\ cleared = [p \in People |-> {}]
    /\ req = [q \in HttpRequests |-> Idle] /\ sessions = {} /\ begun = {} /\ faults = 0

GateNext ==
    \/ \E p \in People : Issue(p) \/ Rotate(p) \/ ReadSource(p) \/ CheckGeneration(p) \/ WriteEntry(p) \/ Land(p)
    \/ \E q \in HttpRequests : \/ RequireFreshStamp(q) \/ Use(q)
                           \/ CreateImpersonationSession(q) \/ Mint(q) \/ EndImpersonationSession(q)
    \/ Invalidate \/ Evict \/ ForgetExpired \/ Restart \/ GateTick

GateSpec == GateInit /\ [][GateNext]_gateVars

-----------------------------------------------------------------------------
(* Properties.                                                              *)

\* A request that acts for an operator is admitted without rights on the platform, and
\* only while the session that the operator began would still be running (the leeway and
\* one read of the source aside), whether the session was ended, lost or left without a
\* token.  Impersonations are not chained: each ends at most its own duration after the
\* end of a token that the operator had from a login.
ImpersonationIsBounded ==
    /\ GateTypeOK
    /\ \A q \in HttpRequests : req[q].pc = "admitted" /\ req[q].token.act # 0 =>
          /\ ~ req[q].token.platform
          /\ \E s \in begun : /\ s.id = req[q].token.act /\ s.operator = req[q].token.sub
                              /\ instant < s.expires + ClockSkew + MaxFlight
    /\ \A s \in begun : \E t \in tokens :
          t.act = 0 /\ t.sub = s.operator /\ s.expires < t.expires + ClockSkew + MaxFlight + SessionTTL

\* A request that is let in now, with a token whose stamp was replaced, comes within the
\* lifetime of a cache entry and the time of one read of the source after it was.
AdmitStep ==
    \A q \in HttpRequests :
        req'[q].pc = "admitted" /\ req[q].pc # "admitted" =>
            LET t == req'[q].token IN
            t.stamp < Len(retired[t.sub]) => instant <= retired[t.sub][t.stamp + 1] + StampTTL + MaxFlight

\* A token whose stamp was replaced is refused once the lifetime of a cache entry and the
\* time of one read of the source have passed, whatever the invalidations, the failures
\* of Redis and the restarts did ("revoked in <=30s").
StaleTokensAreRefused == [][AdmitStep]_gateVars

\* "After Invalidate returns, no subsequent Get will observe the value that was cached at
\* the time of the mutation, even if a factory call that started before the mutation is
\* still in flight" (Facade).
InvalidationHolds == \A p \in People : Cached(p) => l2[p].value \notin cleared[p]
====
