---- MODULE GatewayVerificationAndScansProofs ----
(***************************************************************************)
(* Three components that share no state: the gateway that refuses stale    *)
(* tokens, the verification of a contact, which mints its lead once, and   *)
(* the stock scans, which alert each subject once a day.                   *)
(***************************************************************************)
EXTENDS Gateway, Verification, StockAlerts, TLAPS

\* The entries of the cache, and the reads that fill it.
Entries == [value : Stamps, expires : Nat]
Flights == [phase : {"none", "read", "fence", "write", "done"}, gen : Nat, value : Stamps, since : Nat]

\* Tokens and sessions: a session in memory is one that was begun, a token that acts for
\* an operator ends with its session, and a session was begun with a token from a login.
TokensInv ==
    /\ tokens \subseteq Claims /\ begun \subseteq Sessions /\ sessions \subseteq begun
    /\ \A t \in tokens : /\ t.platform = TRUE => t.sub \in Operators
                         /\ t.act # 0 => /\ t.platform = FALSE
                                         /\ \E s \in begun : s.id = t.act /\ s.operator = t.sub /\ s.expires = t.expires
    /\ \A s \in begun : \E t \in tokens :
          t.act = 0 /\ t.sub = s.operator /\ s.expires < t.expires + ClockSkew + MaxFlight + SessionTTL

\* The stamps that were replaced, and when.
StampsInv == retired \in [People -> Seq(Nat)] /\ \A p \in People : Len(retired[p]) <= MaxStamps

\* A value that was read at some moment from "since" on was replaced after it, if at all.
FlightInv(p) ==
    /\ flight[p].phase # "none" => flight[p].since <= instant /\ instant <= flight[p].since + MaxFlight
    /\ flight[p].phase \in {"fence", "write", "done"} =>
          /\ flight[p].value <= Len(retired[p])
          /\ flight[p].value < Len(retired[p]) => flight[p].since <= retired[p][flight[p].value + 1]

\* An entry of the cache ends at most a lifetime from now, and at most a lifetime and a
\* read after its stamp was replaced.
EntryInv(p) ==
    l2[p] # Nothing =>
        /\ l2[p].value <= Len(retired[p]) /\ l2[p].expires <= instant + StampTTL
        /\ l2[p].value < Len(retired[p]) => l2[p].expires <= retired[p][l2[p].value + 1] + StampTTL + MaxFlight

\* The token of a session that was begun, without rights on the platform.
Scoped(t) ==
    /\ t \in Claims /\ t.platform = FALSE
    /\ \E s \in begun : s.id = t.act /\ s.operator = t.sub /\ s.expires = t.expires

\* A request that waits has a read under way that began while its token was good, and the
\* session of a token that is about to be signed has been stored.
VisitInv(q) ==
    /\ req[q].pc = "wait" \/ req[q].pc = "admitted" => req[q].token \in tokens
    /\ req[q].pc = "wait" => /\ flight[req[q].token.sub].phase # "none"
                             /\ flight[req[q].token.sub].since < req[q].token.expires + ClockSkew
    /\ req[q].pc = "admitted" => instant < req[q].token.expires + ClockSkew + MaxFlight
    /\ req[q].pc = "mint" => Scoped(req[q].token)

GateTypes ==
    /\ instant \in 0 .. GateTime /\ faults \in 0 .. MaxFaults
    /\ l2 \in [People -> Entries \cup {Nothing}] /\ flight \in [People -> Flights]
    /\ gen \in [{"api", "worker"} -> Nat]
    /\ req \in [HttpRequests -> [pc : {"idle", "wait", "admitted", "mint"}, token : Claims \cup {Nothing}]]

GateInv ==
    /\ GateTypes /\ TokensInv /\ StampsInv
    /\ \A p \in People : FlightInv(p) /\ EntryInv(p)
    /\ \A q \in HttpRequests : VisitInv(q)

\* NoFlight is a flight that reads nothing.
LEMMA NoFlightTyped ==
    ASSUME GatewayAssumption
    PROVE  NoFlight \in Flights /\ NoFlight.phase = "none" /\ NoFlight.phase \notin {"fence", "write", "done"}
  <1>1. 0 \in Nat /\ 0 \in Stamps
    <2>1. MaxStamps \in Nat
      BY Zenon DEF GatewayAssumption
    <2>2. QED
      BY <2>1 DEF Stamps
  <1>2. NoFlight \in Flights
    BY <1>1, Zenon DEF NoFlight, Flights
  <1>3. QED
    BY <1>2, Zenon DEF NoFlight

\* The parts that a step leaves alone.
LEMMA FlightStays ==
    ASSUME NEW p, FlightInv(p), flight'[p] = flight[p], retired'[p] = retired[p], instant' = instant
    PROVE  FlightInv(p)'
  BY Zenon DEF FlightInv

\* The same, of an entry of the cache.
LEMMA EntryStays ==
    ASSUME NEW p, EntryInv(p), l2'[p] = l2[p], retired'[p] = retired[p], instant' = instant
    PROVE  EntryInv(p)'
  BY Zenon DEF EntryInv

\* The same, of a request: tokens are never taken back, and a read keeps its beginning.
LEMMA VisitStays ==
    ASSUME NEW q \in HttpRequests, TokensInv, VisitInv(q), req'[q] = req[q], tokens \subseteq tokens',
           begun \subseteq begun', instant' = instant,
           \A p \in People : flight[p].phase # "none" => flight'[p].phase # "none" /\ flight'[p].since = flight[p].since
    PROVE  VisitInv(q)'
  <1>1. req[q].pc = "wait" \/ req[q].pc = "admitted" => req[q].token \in tokens
    BY Zenon DEF VisitInv
  <1>2. ASSUME req[q].pc = "wait"
        PROVE  /\ flight'[req[q].token.sub].phase # "none"
               /\ flight'[req[q].token.sub].since < req[q].token.expires + ClockSkew
    <2>1. req[q].token \in Claims
      BY <1>1, <1>2 DEF TokensInv
    <2>2. req[q].token.sub \in People
      BY <2>1 DEF Claims
    <2>3. QED
      BY <1>2, <2>2, Zenon DEF VisitInv
  <1>3. req'[q].pc = "wait" \/ req'[q].pc = "admitted" => req'[q].token \in tokens'
    BY <1>1, Zenon
  <1>4. req[q].pc = "mint" => Scoped(req[q].token)'
    BY Zenon DEF VisitInv, Scoped, Claims, Stamps
  <1>5. QED
    BY <1>2, <1>3, <1>4, Zenon DEF VisitInv

\* A step that leaves tokens, sessions and stamps alone.
LEMMA RecordsStay ==
    ASSUME GateInv, tokens' = tokens, begun' = begun, sessions' \subseteq sessions, retired' = retired
    PROVE  TokensInv' /\ StampsInv'
  <1>1. sessions' \subseteq begun'
    BY DEF GateInv, TokensInv
  <1>2. TokensInv'
    BY <1>1, Zenon DEF GateInv, TokensInv
  <1>3. QED
    BY <1>2, Zenon DEF GateInv, StampsInv

\* A request that holds nothing.
LEMMA IdleTyped ==
    /\ Idle \in [pc : {"idle", "wait", "admitted", "mint"}, token : Claims \cup {Nothing}]
    /\ Idle.pc # "wait" /\ Idle.pc # "admitted" /\ Idle.pc # "mint"
  BY DEF Idle

\* A token that login and refresh issue.
LEMMA IssueKept ==
    ASSUME GatewayAssumption, GateInv, NEW p \in People, Issue(p)
    PROVE  GateInv'
  <1>1. PICK t : t = [sub |-> p, stamp |-> Stamp(p), expires |-> instant + AccessTokenTTL,
                      platform |-> p \in Operators, act |-> 0]
    BY Zenon
  <1>2. /\ tokens' = tokens \cup {t} /\ instant' = instant /\ retired' = retired /\ l2' = l2 /\ gen' = gen
        /\ flight' = flight /\ req' = req /\ sessions' = sessions /\ begun' = begun /\ faults' = faults
    BY <1>1, Zenon DEF Issue
  <1>3. Stamp(p) \in Stamps
    BY DEF GateInv, StampsInv, Stamp, Stamps, GatewayAssumption
  <1>4. /\ t \in Claims /\ t.act = 0 /\ (t.platform = TRUE => t.sub \in Operators)
    <2>1. instant + AccessTokenTTL \in 0 .. GateTime + AccessTokenTTL + SessionTTL /\ 0 \in 0 .. MaxTokens
      BY DEF GateInv, GateTypes, GatewayAssumption
    <2>2. t \in Claims
      BY <1>1, <1>3, <2>1 DEF Claims
    <2>3. t.act = 0 /\ t.sub = p /\ (t.platform = TRUE => p \in Operators)
      BY <1>1, Zenon
    <2>4. QED
      BY <2>2, <2>3, Zenon
  <1>6. TokensInv'
    <2>1. TokensInv
      BY Zenon DEF GateInv
    <2>2. tokens' \subseteq Claims
      BY <1>2, <1>4, <2>1, Zenon DEF TokensInv
    <2>3. ASSUME NEW u \in tokens'
          PROVE  /\ u.platform = TRUE => u.sub \in Operators
                 /\ u.act # 0 => /\ u.platform = FALSE
                                 /\ \E s \in begun : s.id = u.act /\ s.operator = u.sub /\ s.expires = u.expires
      BY <1>2, <1>4, <2>1, Zenon DEF TokensInv
    <2>4. \A s \in begun : \E u \in tokens' :
             u.act = 0 /\ u.sub = s.operator /\ s.expires < u.expires + ClockSkew + MaxFlight + SessionTTL
      BY <1>2, <2>1, Zenon DEF TokensInv
    <2>5. QED
      BY <1>2, <2>1, <2>2, <2>3, <2>4, Zenon DEF TokensInv
  <1>7. GateTypes' /\ StampsInv'
    BY <1>2, Zenon DEF GateInv, GateTypes, StampsInv
  <1>8. \A r \in People : FlightInv(r)' /\ EntryInv(r)'
    BY <1>2, FlightStays, EntryStays, Zenon DEF GateInv
  <1>9. ASSUME NEW q \in HttpRequests PROVE VisitInv(q)'
    <2>1. tokens \subseteq tokens'
      BY <1>2, Zenon
    <2>2. QED
      BY <1>2, <2>1, VisitStays, Zenon DEF GateInv
  <1>10. QED
    BY <1>6, <1>7, <1>8, <1>9, Zenon DEF GateInv

\* A rotation: whatever is cached or in flight was read before it.
LEMMA RotateKept ==
    ASSUME GatewayAssumption, GateInv, NEW p \in People, Rotate(p)
    PROVE  GateInv'
  <1>1. PICK old : old = retired[p]
    OBVIOUS
  <1>2. /\ retired' = [retired EXCEPT ![p] = Append(old, instant)] /\ instant' = instant /\ tokens' = tokens /\ l2' = l2
        /\ gen' = gen /\ flight' = flight /\ req' = req /\ sessions' = sessions /\ begun' = begun /\ faults' = faults
        /\ Len(old) < MaxStamps
    BY <1>1, Zenon DEF Rotate, Stamp
  <1>3. old \in Seq(Nat) /\ instant \in Nat /\ MaxStamps \in Nat
    BY <1>1 DEF GateInv, GateTypes, StampsInv, GatewayAssumption
  <1>4. PICK new : new = Append(old, instant)
    BY Zenon
  <1>5. /\ new \in Seq(Nat) /\ Len(new) = Len(old) + 1 /\ new[Len(old) + 1] = instant
        /\ \A i \in 1 .. Len(old) : new[i] = old[i]
    BY <1>3, <1>4
  <1>6. \A r \in People : retired'[r] = IF r = p THEN new ELSE retired[r]
    BY <1>2, <1>4, Zenon DEF GateInv, StampsInv
  <1>7. StampsInv'
    <2>1. retired' \in [People -> Seq(Nat)]
      BY <1>2, <1>4, <1>5 DEF GateInv, StampsInv
    <2>2. Len(new) <= MaxStamps
      BY <1>2, <1>3, <1>5
    <2>3. \A r \in People : Len(retired'[r]) <= MaxStamps
      BY <1>6, <2>2, Zenon DEF GateInv, StampsInv
    <2>4. QED
      BY <2>1, <2>3, Zenon DEF StampsInv
  <1>8. GateTypes' /\ TokensInv'
    BY <1>2, Zenon DEF GateInv, GateTypes, TokensInv
  <1>9. ASSUME NEW r \in People PROVE FlightInv(r)' /\ EntryInv(r)'
    <2>1. CASE r # p
      BY <1>2, <1>6, <2>1, FlightStays, EntryStays, Zenon DEF GateInv
    <2>2. CASE r = p
      <3>1. FlightInv(p) /\ EntryInv(p) /\ retired'[p] = new
        BY <1>6, Zenon DEF GateInv
      <3>2. FlightInv(p)'
        <4>1. PICK f : f = flight[p] /\ f \in Flights
          BY DEF GateInv, GateTypes
        <4>2. ASSUME f.phase \in {"fence", "write", "done"}
              PROVE  /\ f.value <= Len(new)
                     /\ f.value < Len(new) => f.since <= new[f.value + 1]
          <5>1. f.value \in Nat /\ f.since \in Nat /\ f.since <= instant /\ f.value <= Len(old)
            BY <1>1, <3>1, <4>1, <4>2 DEF Flights, Stamps, FlightInv
          <5>2. CASE f.value = Len(old)
            BY <1>3, <1>5, <5>1, <5>2
          <5>3. CASE f.value < Len(old)
            <6>1. f.since <= old[f.value + 1]
              BY <1>1, <3>1, <4>1, <4>2, <5>3 DEF FlightInv
            <6>2. f.value + 1 \in 1 .. Len(old)
              BY <1>3, <5>1, <5>3
            <6>3. new[f.value + 1] = old[f.value + 1]
              BY <1>5, <6>2, Zenon
            <6>4. f.value <= Len(new)
              BY <1>3, <1>5, <5>1, <5>3
            <6>5. QED
              BY <6>1, <6>3, <6>4, Zenon
          <5>4. QED
            BY <1>3, <5>1, <5>2, <5>3
        <4>3. f.phase # "none" => f.since <= instant /\ instant <= f.since + MaxFlight
          BY <3>1, <4>1, Zenon DEF FlightInv
        <4>4. QED
          BY <1>2, <3>1, <4>1, <4>2, <4>3, Zenon DEF FlightInv
      <3>3. EntryInv(p)'
        <4>1. CASE l2[p] = Nothing
          BY <1>2, <4>1, Zenon DEF EntryInv
        <4>2. CASE l2[p] # Nothing
          <5>1. PICK e : e = l2[p] /\ e \in Entries
            BY <4>2 DEF GateInv, GateTypes
          <5>2. /\ e.value \in Nat /\ e.expires \in Nat /\ e.value <= Len(old) /\ e.expires <= instant + StampTTL
                /\ StampTTL \in Nat /\ MaxFlight \in Nat
            BY <1>1, <3>1, <4>2, <5>1 DEF Entries, Stamps, EntryInv, GatewayAssumption
          <5>3. e.value <= Len(new) /\ (e.value < Len(new) => e.expires <= new[e.value + 1] + StampTTL + MaxFlight)
            <6>1. CASE e.value = Len(old)
              BY <1>3, <1>5, <5>2, <6>1
            <6>2. CASE e.value < Len(old)
              <7>1. e.expires <= old[e.value + 1] + StampTTL + MaxFlight
                BY <1>1, <3>1, <4>2, <5>1, <6>2, Zenon DEF EntryInv
              <7>2. e.value + 1 \in 1 .. Len(old)
                BY <1>3, <5>2, <6>2
              <7>3. new[e.value + 1] = old[e.value + 1]
                BY <1>5, <7>2, Zenon
              <7>4. e.value <= Len(new)
                BY <1>3, <1>5, <5>2, <6>2
              <7>5. QED
                BY <7>1, <7>3, <7>4, Zenon
            <6>3. QED
              BY <1>3, <5>2, <6>1, <6>2
          <5>4. QED
            BY <1>2, <3>1, <5>1, <5>2, <5>3, Zenon DEF EntryInv
        <4>3. QED
          BY <4>1, <4>2, Zenon
      <3>4. QED
        BY <2>2, <3>2, <3>3, Zenon
    <2>3. QED
      BY <2>1, <2>2, Zenon
  <1>10. \A q \in HttpRequests : VisitInv(q)'
    BY <1>2, VisitStays, Zenon DEF GateInv
  <1>11. QED
    BY <1>7, <1>8, <1>9, <1>10, Zenon DEF GateInv

\* What a claim is made of.
LEMMA ClaimParts ==
    ASSUME GatewayAssumption, GateInv, NEW t \in tokens
    PROVE  /\ t \in Claims /\ t.sub \in People /\ t.expires \in Nat /\ t.stamp \in Nat
           /\ ClockSkew \in Nat /\ MaxFlight \in Nat /\ StampTTL \in Nat /\ instant \in Nat
  BY DEF GateInv, TokensInv, Claims, Stamps, GateTypes, GatewayAssumption

\* A request that was answered from the cache, or that holds nothing.
LEMMA AnswerIsFine ==
    ASSUME GatewayAssumption, GateInv, NEW t \in tokens, Verify(t), NEW v, NEW r, r = IsFresh(t, v)
    PROVE  /\ r \in [pc : {"idle", "wait", "admitted", "mint"}, token : Claims \cup {Nothing}]
           /\ r.pc = "admitted" => r.token \in tokens
           /\ r.pc # "wait" /\ r.pc # "mint"
           /\ r.pc = "admitted" => r.token = t /\ instant < r.token.expires + ClockSkew + MaxFlight
  <1>1. t \in Claims /\ instant < t.expires + ClockSkew + MaxFlight
    BY ClaimParts DEF Verify
  <1>2. CASE r = [pc |-> "admitted", token |-> t]
    BY <1>1, <1>2
  <1>3. CASE r = Idle
    BY <1>3 DEF Idle
  <1>4. QED
    BY <1>2, <1>3, Zenon DEF IsFresh

\* The gate: a hit answers at once, a miss joins the read of the person.
LEMMA GetKept ==
    ASSUME GatewayAssumption, GateInv, NEW q \in HttpRequests, RequireFreshStamp(q)
    PROVE  GateInv'
  <1>1. PICK t \in tokens : Verify(t) /\ Get(q, t)
    BY Zenon DEF RequireFreshStamp, RequireAuth
  <1>2. /\ instant' = instant /\ retired' = retired /\ tokens' = tokens /\ l2' = l2 /\ gen' = gen
        /\ sessions' = sessions /\ begun' = begun
    BY Zenon DEF RequireFreshStamp
  <1>3. TokensInv' /\ StampsInv'
    BY <1>2, RecordsStay, Zenon
  <1>4. /\ t.sub \in People /\ t \in Claims /\ instant \in Nat /\ t.expires \in Nat /\ ClockSkew \in Nat /\ MaxFlight \in Nat
    BY ClaimParts, Zenon
  <1>5. CASE /\ req' = [req EXCEPT ![q] = IsFresh(t, l2[t.sub].value)]
             /\ flight' = flight /\ faults' = faults
    <2>1. PICK v, r : v = l2[t.sub].value /\ r = IsFresh(t, v)
      OBVIOUS
    <2>2. \A w \in HttpRequests : req'[w] = IF w = q THEN r ELSE req[w]
      BY <1>5, <2>1, Zenon DEF GateInv, GateTypes
    <2>3. /\ r \in [pc : {"idle", "wait", "admitted", "mint"}, token : Claims \cup {Nothing}]
          /\ r.pc = "admitted" => r.token \in tokens
          /\ r.pc # "wait" /\ r.pc # "mint"
          /\ r.pc = "admitted" => r.token = t /\ instant < r.token.expires + ClockSkew + MaxFlight
      BY <1>1, <2>1, AnswerIsFine
    <2>4. GateTypes'
      <3>1. req' \in [HttpRequests -> [pc : {"idle", "wait", "admitted", "mint"}, token : Claims \cup {Nothing}]]
        BY <1>5, <2>1, <2>3, Zenon DEF GateInv, GateTypes
      <3>2. QED
        BY <1>2, <1>5, <3>1, Zenon DEF GateInv, GateTypes
    <2>5. \A p \in People : FlightInv(p)' /\ EntryInv(p)'
      BY <1>2, <1>5, FlightStays, EntryStays, Zenon DEF GateInv
    <2>6. ASSUME NEW w \in HttpRequests PROVE VisitInv(w)'
      <3>1. CASE w # q
        BY <1>2, <1>5, <2>2, <3>1, VisitStays, Zenon DEF GateInv
      <3>2. CASE w = q
        BY <1>2, <2>2, <2>3, <3>2, Zenon DEF VisitInv
      <3>3. QED
        BY <3>1, <3>2, Zenon
    <2>7. QED
      BY <1>3, <2>4, <2>5, <2>6, Zenon DEF GateInv
  <1>6. CASE /\ faults' \in 0 .. MaxFaults
             /\ req' = [req EXCEPT ![q] = [pc |-> "wait", token |-> t]]
             /\ flight' = IF flight[t.sub].phase # "none" THEN flight
                          ELSE [flight EXCEPT ![t.sub] = [phase |-> "read", gen |-> gen["api"], value |-> 0, since |-> instant]]
    <2>1. PICK r, f : /\ r = [pc |-> "wait", token |-> t]
                      /\ f = [phase |-> "read", gen |-> gen["api"], value |-> 0, since |-> instant]
      BY Zenon
    <2>2. \A w \in HttpRequests : req'[w] = IF w = q THEN r ELSE req[w]
      BY <1>6, <2>1, Zenon DEF GateInv, GateTypes
    <2>3. r.pc = "wait" /\ r.token = t /\ r \in [pc : {"idle", "wait", "admitted", "mint"}, token : Claims \cup {Nothing}]
      BY <1>4, <2>1
    <2>4. f \in Flights /\ f.phase = "read" /\ f.since = instant
      <3>1. 0 \in Stamps /\ gen["api"] \in Nat
        BY DEF Stamps, GatewayAssumption, GateInv, GateTypes
      <3>2. QED
        BY <1>4, <2>1, <3>1 DEF Flights
    <2>5. \A p \in People : flight'[p] = IF p = t.sub /\ flight[p].phase = "none" THEN f ELSE flight[p]
      <3>1. CASE flight[t.sub].phase = "none"
        BY <1>6, <2>1, <3>1, Zenon DEF GateInv, GateTypes
      <3>2. CASE flight[t.sub].phase # "none"
        BY <1>6, <3>2, Zenon
      <3>3. QED
        BY <3>1, <3>2, Zenon
    <2>6. GateTypes'
      <3>1. req' \in [HttpRequests -> [pc : {"idle", "wait", "admitted", "mint"}, token : Claims \cup {Nothing}]]
        BY <1>6, <2>1, <2>3, Zenon DEF GateInv, GateTypes
      <3>2. flight' \in [People -> Flights]
        BY <1>6, <2>1, <2>4, Zenon DEF GateInv, GateTypes
      <3>3. QED
        BY <1>2, <1>6, <3>1, <3>2, Zenon DEF GateInv, GateTypes
    <2>7. ASSUME NEW p \in People PROVE FlightInv(p)' /\ EntryInv(p)'
      <3>1. EntryInv(p)'
        BY <1>2, EntryStays, Zenon DEF GateInv
      <3>2. CASE flight'[p] = flight[p]
        BY <1>2, <3>1, <3>2, FlightStays, Zenon DEF GateInv
      <3>3. CASE flight'[p] = f
        <4>1. instant <= instant /\ instant <= instant + MaxFlight
          BY <1>4
        <4>2. f.phase \notin {"fence", "write", "done"}
          BY <2>4
        <4>3. QED
          BY <1>2, <2>4, <3>1, <3>3, <4>1, <4>2, Zenon DEF FlightInv
      <3>4. QED
        BY <2>5, <3>2, <3>3, Zenon
    <2>8. ASSUME NEW w \in HttpRequests PROVE VisitInv(w)'
      <3>1. CASE w # q
        BY <1>2, <2>2, <2>5, <3>1, VisitStays, Zenon DEF GateInv
      <3>2. CASE w = q
        <4>1. flight'[t.sub].phase # "none"
          BY <1>4, <2>4, <2>5
        <4>2. flight'[t.sub].since <= instant /\ flight'[t.sub].since \in Nat
          <5>1. CASE flight[t.sub].phase = "none"
            BY <1>4, <2>4, <2>5, <5>1
          <5>2. CASE flight[t.sub].phase # "none"
            <6>1. flight'[t.sub] = flight[t.sub] /\ flight[t.sub] \in Flights
              BY <1>4, <2>5, <5>2, Zenon DEF GateInv, GateTypes
            <6>2. flight[t.sub].since <= instant
              BY <1>4, <5>2, Zenon DEF GateInv, FlightInv
            <6>3. QED
              BY <6>1, <6>2 DEF Flights
          <5>3. QED
            BY <5>1, <5>2, Zenon
        <4>3. flight'[t.sub].since < t.expires + ClockSkew
          BY <1>1, <1>4, <4>2 DEF Verify
        <4>4. req'[q] = r /\ "wait" # "admitted" /\ "wait" # "mint"
          BY <2>2
        <4>5. QED
          BY <1>2, <2>3, <3>2, <4>1, <4>3, <4>4, Zenon DEF VisitInv
      <3>3. QED
        BY <3>1, <3>2, Zenon
    <2>9. QED
      BY <1>3, <2>6, <2>7, <2>8, Zenon DEF GateInv
  <1>7. (faults < MaxFaults /\ faults' = faults + 1) \/ faults' = faults => faults' \in 0 .. MaxFaults
    BY DEF GateInv, GateTypes, GatewayAssumption
  <1>8. QED
    BY <1>1, <1>5, <1>6, <1>7, Zenon DEF Get

\* The read of the source: the stamp it finds is the current one; when it fails nobody waits for it.
LEMMA ReadKept ==
    ASSUME GatewayAssumption, GateInv, NEW p \in People, ReadSource(p)
    PROVE  GateInv'
  <1>1. /\ instant' = instant /\ retired' = retired /\ tokens' = tokens /\ l2' = l2 /\ gen' = gen
        /\ sessions' = sessions /\ begun' = begun /\ flight[p].phase = "read"
    BY Zenon DEF ReadSource
  <1>2. TokensInv' /\ StampsInv'
    BY <1>1, RecordsStay, Zenon
  <1>3. \A r \in People : EntryInv(r)'
    BY <1>1, EntryStays, Zenon DEF GateInv
  <1>4. CASE /\ flight' = [flight EXCEPT ![p] = [@ EXCEPT !.phase = "fence", !.value = Stamp(p)]]
             /\ req' = req /\ faults' = faults
    <2>1. PICK f : f = [flight[p] EXCEPT !.phase = "fence", !.value = Stamp(p)]
      OBVIOUS
    <2>2. flight' = [flight EXCEPT ![p] = f]
      BY <1>4, <2>1, Zenon
    <2>3. \A r \in People : flight'[r] = IF r = p THEN f ELSE flight[r]
      BY <2>2, Zenon DEF GateInv, GateTypes
    <2>4. Stamp(p) \in Stamps /\ Stamp(p) = Len(retired[p]) /\ Len(retired[p]) \in Nat
      BY DEF GateInv, StampsInv, Stamp, Stamps, GatewayAssumption
    <2>5. f \in Flights /\ f.phase = "fence" /\ f.value = Stamp(p) /\ f.since = flight[p].since
      <3>1. flight[p] \in Flights
        BY Zenon DEF GateInv, GateTypes
      <3>2. QED
        BY <2>1, <2>4, <3>1, Zenon DEF Flights
    <2>6. GateTypes'
      <3>1. flight' \in [People -> Flights]
        BY <2>2, <2>5, Zenon DEF GateInv, GateTypes
      <3>2. QED
        BY <1>1, <1>4, <3>1, Zenon DEF GateInv, GateTypes
    <2>7. ASSUME NEW r \in People PROVE FlightInv(r)'
      <3>1. CASE r # p
        BY <1>1, <2>3, <3>1, FlightStays, Zenon DEF GateInv
      <3>2. CASE r = p
        <4>1. flight[p].since <= instant /\ instant <= flight[p].since + MaxFlight
          <5>1. FlightInv(p) /\ flight[p].phase # "none"
            BY <1>1 DEF GateInv
          <5>2. QED
            BY <5>1, Zenon DEF FlightInv
        <4>2. f.value <= Len(retired[p]) /\ ~ (f.value < Len(retired[p]))
          BY <2>4, <2>5
        <4>3. flight'[p] = f
          BY <2>3, Zenon
        <4>4. QED
          BY <1>1, <2>5, <3>2, <4>1, <4>2, <4>3, Zenon DEF FlightInv
      <3>3. QED
        BY <3>1, <3>2, Zenon
    <2>8. ASSUME NEW r \in People, flight[r].phase # "none" PROVE flight'[r].phase # "none" /\ flight'[r].since = flight[r].since
      BY <2>3, <2>5, <2>8
    <2>9. \A q \in HttpRequests : VisitInv(q)'
      BY <1>1, <1>4, <2>8, VisitStays, Zenon DEF GateInv
    <2>10. QED
      BY <1>2, <1>3, <2>6, <2>7, <2>9, Zenon DEF GateInv
  <1>5. CASE /\ faults' \in 0 .. MaxFaults
             /\ flight' = [flight EXCEPT ![p] = NoFlight]
             /\ req' = [q \in HttpRequests |-> IF req[q].pc = "wait" /\ req[q].token.sub = p THEN Idle ELSE req[q]]
    <2>1. \A r \in People : flight'[r] = IF r = p THEN NoFlight ELSE flight[r]
      BY <1>5, Zenon DEF GateInv, GateTypes
    <2>2. NoFlight \in Flights /\ NoFlight.phase = "none" /\ NoFlight.phase \notin {"fence", "write", "done"}
      BY NoFlightTyped, Zenon
    <2>3. /\ Idle \in [pc : {"idle", "wait", "admitted", "mint"}, token : Claims \cup {Nothing}]
          /\ Idle.pc # "wait" /\ Idle.pc # "admitted" /\ Idle.pc # "mint"
      BY IdleTyped
    <2>4. \A q \in HttpRequests : req'[q] = IF req[q].pc = "wait" /\ req[q].token.sub = p THEN Idle ELSE req[q]
      BY <1>5, Zenon
    <2>5. GateTypes'
      <3>1. flight' \in [People -> Flights]
        BY <1>5, <2>2, Zenon DEF GateInv, GateTypes
      <3>2. req' \in [HttpRequests -> [pc : {"idle", "wait", "admitted", "mint"}, token : Claims \cup {Nothing}]]
        BY <1>5, <2>3, Zenon DEF GateInv, GateTypes
      <3>3. QED
        BY <1>1, <1>5, <3>1, <3>2, Zenon DEF GateInv, GateTypes
    <2>6. ASSUME NEW r \in People PROVE FlightInv(r)'
      <3>1. CASE r # p
        BY <1>1, <2>1, <3>1, FlightStays, Zenon DEF GateInv
      <3>2. CASE r = p
        BY <2>1, <2>2, <3>2, Zenon DEF FlightInv
      <3>3. QED
        BY <3>1, <3>2, Zenon
    <2>7. ASSUME NEW q \in HttpRequests PROVE VisitInv(q)'
      <3>1. CASE req'[q] = Idle
        <4>1. req'[q].pc # "wait" /\ req'[q].pc # "admitted" /\ req'[q].pc # "mint"
          BY <2>3, <3>1, Zenon
        <4>2. QED
          BY <4>1, Zenon DEF VisitInv
      <3>2. CASE req'[q] = req[q] /\ ~ (req[q].pc = "wait" /\ req[q].token.sub = p)
        <4>1. VisitInv(q)
          BY Zenon DEF GateInv
        <4>2. ASSUME req[q].pc = "wait"
              PROVE  /\ flight'[req[q].token.sub].phase # "none"
                     /\ flight'[req[q].token.sub].since < req[q].token.expires + ClockSkew
          <5>1. req[q].token \in tokens
            BY <4>1, <4>2 DEF VisitInv
          <5>2. req[q].token.sub \in People
            BY <5>1, ClaimParts, Zenon
          <5>3. flight'[req[q].token.sub] = flight[req[q].token.sub]
            BY <2>1, <3>2, <4>2, <5>2, Zenon
          <5>4. QED
            BY <4>1, <4>2, <5>3, Zenon DEF VisitInv
        <4>3. QED
          BY <1>1, <3>2, <4>1, <4>2, Zenon DEF VisitInv, Scoped, Claims, Stamps
      <3>3. QED
        BY <2>4, <3>1, <3>2, Zenon
    <2>8. QED
      BY <1>2, <1>3, <2>5, <2>6, <2>7, Zenon DEF GateInv
  <1>6. faults < MaxFaults /\ faults' = faults + 1 => faults' \in 0 .. MaxFaults
    BY DEF GateInv, GateTypes, GatewayAssumption
  <1>7. QED
    BY <1>4, <1>5, <1>6, Zenon DEF ReadSource

\* The fence and the write: the read goes on, and an entry it leaves ends in time.
LEMMA FenceKept ==
    ASSUME GatewayAssumption, GateInv, NEW p \in People, NEW phase \in {"write", "done"},
           flight[p].phase \in {"fence", "write"},
           flight' = [flight EXCEPT ![p] = [@ EXCEPT !.phase = phase]],
           instant' = instant, retired' = retired, tokens' = tokens, gen' = gen, req' = req,
           sessions' = sessions, begun' = begun, faults' \in 0 .. MaxFaults,
           l2' = l2 \/ l2' = [l2 EXCEPT ![p] = [value |-> flight[p].value, expires |-> instant + StampTTL]]
    PROVE  GateInv'
  <1>1. TokensInv' /\ StampsInv'
    BY RecordsStay, Zenon
  <1>2. PICK f : f = [flight[p] EXCEPT !.phase = phase]
    BY Zenon
  <1>3. flight' = [flight EXCEPT ![p] = f]
    BY <1>2, Zenon
  <1>4. \A r \in People : flight'[r] = IF r = p THEN f ELSE flight[r]
    BY <1>3, Zenon DEF GateInv, GateTypes
  <1>5. flight[p] \in Flights /\ FlightInv(p)
    BY Zenon DEF GateInv, GateTypes
  <1>6. f \in Flights /\ f.phase = phase /\ f.value = flight[p].value /\ f.since = flight[p].since
    BY <1>2, <1>5 DEF Flights
  <1>7. /\ flight[p].since <= instant /\ instant <= flight[p].since + MaxFlight
        /\ flight[p].value <= Len(retired[p])
        /\ flight[p].value < Len(retired[p]) => flight[p].since <= retired[p][flight[p].value + 1]
    <2>1. flight[p].phase # "none" /\ flight[p].phase \in {"fence", "write", "done"}
      OBVIOUS
    <2>2. QED
      BY <1>5, <2>1, Zenon DEF FlightInv
  <1>8. PICK e : e = [value |-> flight[p].value, expires |-> instant + StampTTL]
    BY Zenon
  <1>9. e \in Entries /\ e.value = flight[p].value /\ e.expires = instant + StampTTL
    BY <1>5, <1>8 DEF Entries, Flights, GateInv, GateTypes, GatewayAssumption
  <1>10. GateTypes'
    <2>1. flight' \in [People -> Flights]
      BY <1>3, <1>6, Zenon DEF GateInv, GateTypes
    <2>2. l2' \in [People -> Entries \cup {Nothing}]
      BY <1>8, <1>9, Zenon DEF GateInv, GateTypes
    <2>3. QED
      BY <2>1, <2>2, Zenon DEF GateInv, GateTypes
  <1>11. ASSUME NEW r \in People PROVE FlightInv(r)'
    <2>1. CASE r # p
      BY <1>4, <2>1, FlightStays, Zenon DEF GateInv
    <2>2. CASE r = p
      BY <1>4, <1>6, <1>7, <2>2, Zenon DEF FlightInv
    <2>3. QED
      BY <2>1, <2>2, Zenon
  <1>12. ASSUME NEW r \in People PROVE EntryInv(r)'
    <2>1. CASE l2'[r] = l2[r]
      BY <2>1, EntryStays, Zenon DEF GateInv
    <2>2. CASE r = p /\ l2'[p] = e
      <3>1. /\ instant \in Nat /\ StampTTL \in Nat /\ MaxFlight \in Nat /\ flight[p].value \in Nat /\ flight[p].since \in Nat
            /\ retired[p] \in Seq(Nat)
        BY <1>5 DEF GateInv, GateTypes, StampsInv, Flights, Stamps, GatewayAssumption
      <3>2. e.expires <= instant + StampTTL
        BY <1>9, <3>1
      <3>3. ASSUME e.value < Len(retired[p]) PROVE e.expires <= retired[p][e.value + 1] + StampTTL + MaxFlight
        <4>1. PICK v, old, at : v = flight[p].value /\ old = retired[p] /\ at = flight[p].since
          OBVIOUS
        <4>2. v \in Nat /\ old \in Seq(Nat) /\ v < Len(old) /\ at \in Nat
          BY <1>9, <3>1, <3>3, <4>1, Zenon
        <4>3. PICK n : n = old[v + 1]
          OBVIOUS
        <4>4. n \in Nat
          BY <4>2, <4>3
        <4>5. at <= n /\ instant <= at + MaxFlight
          BY <1>7, <4>1, <4>2, <4>3, Zenon
        <4>6. instant + StampTTL <= n + StampTTL + MaxFlight
          BY <3>1, <4>2, <4>4, <4>5
        <4>7. QED
          BY <1>9, <4>1, <4>3, <4>6, Zenon
      <3>4. QED
        BY <1>7, <1>9, <2>2, <3>2, <3>3, Zenon DEF EntryInv
    <2>3. l2'[r] = l2[r] \/ (r = p /\ l2'[p] = e)
      BY <1>8, Zenon DEF GateInv, GateTypes
    <2>4. QED
      BY <2>1, <2>2, <2>3, Zenon
  <1>13. ASSUME NEW r \in People, flight[r].phase # "none" PROVE flight'[r].phase # "none" /\ flight'[r].since = flight[r].since
    BY <1>4, <1>6, <1>13
  <1>14. \A q \in HttpRequests : VisitInv(q)'
    BY <1>13, VisitStays, Zenon DEF GateInv
  <1>15. QED
    BY <1>1, <1>10, <1>11, <1>12, <1>14, Zenon DEF GateInv

\* The fence.
LEMMA CheckKept ==
    ASSUME GatewayAssumption, GateInv, NEW p \in People, CheckGeneration(p)
    PROVE  GateInv'
  <1>1. PICK phase \in {"write", "done"} : phase = IF gen["api"] = flight[p].gen THEN "write" ELSE "done"
    BY Zenon
  <1>2. /\ flight' = [flight EXCEPT ![p] = [@ EXCEPT !.phase = phase]] /\ flight[p].phase \in {"fence", "write"}
        /\ instant' = instant /\ retired' = retired /\ tokens' = tokens /\ gen' = gen /\ req' = req
        /\ sessions' = sessions /\ begun' = begun /\ l2' = l2
    BY <1>1, Zenon DEF CheckGeneration
  <1>3. faults' \in 0 .. MaxFaults
    BY Zenon DEF CheckGeneration, GateInv, GateTypes
  <1>4. QED
    BY <1>1, <1>2, <1>3, FenceKept, Zenon

\* The write of the entry.
LEMMA WriteKept ==
    ASSUME GatewayAssumption, GateInv, NEW p \in People, WriteEntry(p)
    PROVE  GateInv'
  <1>1. PICK phase \in {"write", "done"} : phase = "done"
    BY Zenon
  <1>2. /\ flight' = [flight EXCEPT ![p] = [@ EXCEPT !.phase = phase]] /\ flight[p].phase \in {"fence", "write"}
        /\ instant' = instant /\ retired' = retired /\ tokens' = tokens /\ gen' = gen /\ req' = req
        /\ sessions' = sessions /\ begun' = begun
        /\ l2' = l2 \/ l2' = [l2 EXCEPT ![p] = [value |-> flight[p].value, expires |-> instant + StampTTL]]
    BY <1>1, Zenon DEF WriteEntry
  <1>3. faults' \in 0 .. MaxFaults
    BY DEF WriteEntry, GateInv, GateTypes, GatewayAssumption
  <1>4. CASE l2' = l2
    BY <1>1, <1>2, <1>3, <1>4, FenceKept, Zenon
  <1>5. CASE l2' = [l2 EXCEPT ![p] = [value |-> flight[p].value, expires |-> instant + StampTTL]]
    BY <1>1, <1>2, <1>3, <1>5, FenceKept, Zenon
  <1>6. QED
    BY <1>2, <1>4, <1>5, Zenon

\* singleflight: everyone who waited for the read is answered, with a token that was good when the read began.
LEMMA LandKept ==
    ASSUME GatewayAssumption, GateInv, NEW p \in People, Land(p)
    PROVE  GateInv'
  <1>1. /\ instant' = instant /\ retired' = retired /\ tokens' = tokens /\ l2' = l2 /\ gen' = gen
        /\ sessions' = sessions /\ begun' = begun /\ flight[p].phase = "done" /\ faults' = faults
        /\ flight' = [flight EXCEPT ![p] = NoFlight]
    BY Zenon DEF Land
  <1>2. TokensInv' /\ StampsInv'
    BY <1>1, RecordsStay, Zenon
  <1>3. PICK v : v = flight[p].value
    OBVIOUS
  <1>4. \A q \in HttpRequests : req'[q] = IF req[q].pc = "wait" /\ req[q].token.sub = p THEN IsFresh(req[q].token, v) ELSE req[q]
    BY <1>3, Zenon DEF Land
  <1>5. \A r \in People : flight'[r] = IF r = p THEN NoFlight ELSE flight[r]
    BY <1>1, Zenon DEF GateInv, GateTypes
  <1>6. NoFlight \in Flights /\ NoFlight.phase = "none" /\ NoFlight.phase \notin {"fence", "write", "done"}
    BY NoFlightTyped, Zenon
  <1>7. ASSUME NEW q \in HttpRequests
        PROVE  VisitInv(q)' /\ req'[q] \in [pc : {"idle", "wait", "admitted", "mint"}, token : Claims \cup {Nothing}]
    <2>1. VisitInv(q) /\ req[q] \in [pc : {"idle", "wait", "admitted", "mint"}, token : Claims \cup {Nothing}]
      BY Zenon DEF GateInv, GateTypes
    <2>2. CASE ~ (req[q].pc = "wait" /\ req[q].token.sub = p)
      <3>1. req'[q] = req[q]
        BY <1>4, <2>2, Zenon
      <3>2. ASSUME req[q].pc = "wait"
            PROVE  /\ flight'[req[q].token.sub].phase # "none"
                   /\ flight'[req[q].token.sub].since < req[q].token.expires + ClockSkew
        <4>1. req[q].token \in tokens
          BY <2>1, <3>2 DEF VisitInv
        <4>2. req[q].token.sub \in People
          BY <4>1, ClaimParts, Zenon
        <4>3. flight'[req[q].token.sub] = flight[req[q].token.sub]
          BY <1>5, <2>2, <3>2, <4>2, Zenon
        <4>4. QED
          BY <2>1, <3>2, <4>3, Zenon DEF VisitInv
      <3>3. QED
        BY <1>1, <2>1, <3>1, <3>2, Zenon DEF VisitInv, Scoped, Claims, Stamps
    <2>3. CASE req[q].pc = "wait" /\ req[q].token.sub = p
      <3>1. PICK t, r : t = req[q].token /\ r = IsFresh(t, v)
        OBVIOUS
      <3>2. t \in tokens /\ t.sub = p /\ flight[p].since < t.expires + ClockSkew
        BY <2>1, <2>3, <3>1 DEF VisitInv
      <3>3. req'[q] = r
        BY <1>4, <2>3, <3>1, Zenon
      <3>4. flight[p].since \in Nat /\ instant <= flight[p].since + MaxFlight
        <4>1. flight[p] \in Flights /\ FlightInv(p) /\ flight[p].phase # "none"
          BY <1>1 DEF GateInv, GateTypes
        <4>2. QED
          BY <4>1 DEF Flights, FlightInv
      <3>5. instant < t.expires + ClockSkew + MaxFlight /\ t \in Claims
        <4>1. t \in Claims /\ t.expires \in Nat /\ ClockSkew \in Nat /\ MaxFlight \in Nat /\ instant \in Nat
          BY <3>2, ClaimParts, Zenon
        <4>2. QED
          BY <3>2, <3>4, <4>1
      <3>6. CASE r = [pc |-> "admitted", token |-> t]
        <4>1. r.pc = "admitted" /\ r.token = t /\ r \in [pc : {"idle", "wait", "admitted", "mint"}, token : Claims \cup {Nothing}]
          BY <3>5, <3>6
        <4>2. r.pc # "wait" /\ r.pc # "mint"
          BY <4>1
        <4>3. QED
          BY <1>1, <3>2, <3>3, <3>5, <4>1, <4>2, Zenon DEF VisitInv
      <3>7. CASE r = Idle
        <4>1. /\ r.pc # "wait" /\ r.pc # "admitted" /\ r.pc # "mint"
              /\ r \in [pc : {"idle", "wait", "admitted", "mint"}, token : Claims \cup {Nothing}]
          BY <3>7, IdleTyped, Zenon
        <4>2. QED
          BY <3>3, <4>1, Zenon DEF VisitInv
      <3>8. QED
        BY <3>1, <3>6, <3>7, Zenon DEF IsFresh
    <2>4. QED
      BY <2>2, <2>3, Zenon
  <1>8. GateTypes'
    <2>1. flight' \in [People -> Flights]
      BY <1>1, <1>6, Zenon DEF GateInv, GateTypes
    <2>2. req' \in [HttpRequests -> [pc : {"idle", "wait", "admitted", "mint"}, token : Claims \cup {Nothing}]]
      <3>1. \E g : req' = [q \in HttpRequests |-> g[q]]
        <4>1. req' = [q \in HttpRequests |-> req'[q]]
          BY DEF Land
        <4>2. QED
          BY <4>1
      <3>2. QED
        BY <1>7, <3>1
    <2>3. QED
      BY <1>1, <2>1, <2>2, Zenon DEF GateInv, GateTypes
  <1>9. ASSUME NEW r \in People PROVE FlightInv(r)' /\ EntryInv(r)'
    <2>1. EntryInv(r)'
      BY <1>1, EntryStays, Zenon DEF GateInv
    <2>2. CASE r # p
      BY <1>1, <1>5, <2>1, <2>2, FlightStays, Zenon DEF GateInv
    <2>3. CASE r = p
      BY <1>5, <1>6, <2>1, <2>3, Zenon DEF FlightInv
    <2>4. QED
      BY <2>2, <2>3, Zenon
  <1>10. QED
    BY <1>2, <1>7, <1>8, <1>9, Zenon DEF GateInv

\* The worker clears an entry, or fails to.
LEMMA EvictKept ==
    ASSUME GatewayAssumption, GateInv, Evict
    PROVE  GateInv'
  <1>1. PICK c : c = clearing[1]
    OBVIOUS
  <1>2. /\ instant' = instant /\ retired' = retired /\ tokens' = tokens /\ gen' = gen /\ flight' = flight
        /\ req' = req /\ sessions' = sessions /\ begun' = begun
        /\ l2' = l2 \/ l2' = [l2 EXCEPT ![c] = Nothing]
    BY <1>1, Zenon DEF Evict
  <1>3. faults' \in 0 .. MaxFaults
    BY DEF Evict, GateInv, GateTypes, GatewayAssumption
  <1>4. TokensInv' /\ StampsInv'
    BY <1>2, RecordsStay, Zenon
  <1>5. l2' \in [People -> Entries \cup {Nothing}]
    BY <1>2, Zenon DEF GateInv, GateTypes
  <1>6. GateTypes'
    BY <1>2, <1>3, <1>5, Zenon DEF GateInv, GateTypes
  <1>7. ASSUME NEW r \in People PROVE FlightInv(r)' /\ EntryInv(r)'
    <2>1. FlightInv(r)'
      BY <1>2, FlightStays, Zenon DEF GateInv
    <2>2. l2'[r] = l2[r] \/ l2'[r] = Nothing
      BY <1>2, Zenon DEF GateInv, GateTypes
    <2>3. CASE l2'[r] = l2[r]
      BY <1>2, <2>1, <2>3, EntryStays, Zenon DEF GateInv
    <2>4. CASE l2'[r] = Nothing
      BY <2>1, <2>4, Zenon DEF EntryInv
    <2>5. QED
      BY <2>2, <2>3, <2>4, Zenon
  <1>8. \A q \in HttpRequests : VisitInv(q)'
    BY <1>2, VisitStays, Zenon DEF GateInv
  <1>9. QED
    BY <1>4, <1>6, <1>7, <1>8, Zenon DEF GateInv

\* The worker announces an invalidation to its own facade.
LEMMA InvalidateKept ==
    ASSUME GatewayAssumption, GateInv, Invalidate
    PROVE  GateInv'
  <1>1. /\ instant' = instant /\ retired' = retired /\ tokens' = tokens /\ l2' = l2 /\ flight' = flight
        /\ req' = req /\ sessions' = sessions /\ begun' = begun /\ faults' = faults
    BY Zenon DEF Invalidate
  <1>2. gen' \in [{"api", "worker"} -> Nat]
    BY DEF Invalidate, GateInv, GateTypes
  <1>3. GateTypes'
    BY <1>1, <1>2, Zenon DEF GateInv, GateTypes
  <1>4. TokensInv' /\ StampsInv'
    BY <1>1, RecordsStay, Zenon
  <1>5. \A r \in People : FlightInv(r)' /\ EntryInv(r)'
    BY <1>1, FlightStays, EntryStays, Zenon DEF GateInv
  <1>6. \A q \in HttpRequests : VisitInv(q)'
    BY <1>1, VisitStays, Zenon DEF GateInv
  <1>7. QED
    BY <1>3, <1>4, <1>5, <1>6, Zenon DEF GateInv

\* A request that is over or about to be given its token, and what its handler did.
LEMMA OverKept ==
    ASSUME GatewayAssumption, GateInv, NEW q \in HttpRequests, NEW r, req' = [req EXCEPT ![q] = r],
           r \in [pc : {"idle", "wait", "admitted", "mint"}, token : Claims \cup {Nothing}],
           r.pc # "wait", r.pc # "admitted", r.pc = "mint" => Scoped(r.token)',
           TokensInv', tokens \subseteq tokens', begun \subseteq begun', instant' = instant, retired' = retired,
           l2' = l2, gen' = gen, flight' = flight, faults' \in 0 .. MaxFaults
    PROVE  GateInv'
  <1>1. \A w \in HttpRequests : req'[w] = IF w = q THEN r ELSE req[w]
    BY Zenon DEF GateInv, GateTypes
  <1>2. GateTypes' /\ StampsInv'
    <2>1. req' \in [HttpRequests -> [pc : {"idle", "wait", "admitted", "mint"}, token : Claims \cup {Nothing}]]
      BY Zenon DEF GateInv, GateTypes
    <2>2. QED
      BY <2>1, Zenon DEF GateInv, GateTypes, StampsInv
  <1>3. \A p \in People : FlightInv(p)' /\ EntryInv(p)'
    BY FlightStays, EntryStays, Zenon DEF GateInv
  <1>4. ASSUME NEW w \in HttpRequests PROVE VisitInv(w)'
    <2>1. CASE w # q
      BY <1>1, <2>1, VisitStays, Zenon DEF GateInv
    <2>2. CASE w = q
      BY <1>1, <2>2, Zenon DEF VisitInv
    <2>3. QED
      BY <2>1, <2>2, Zenon
  <1>5. QED
    BY <1>2, <1>3, <1>4, Zenon DEF GateInv

\* A new impersonation: the token that begins it comes from a login, because the token of
\* an impersonation has no rights on the platform, and it has not been over for long.
LEMMA CreateKept ==
    ASSUME GatewayAssumption, GateInv, NEW q \in HttpRequests, CreateImpersonationSession(q)
    PROVE  GateInv'
  <1>0. PICK n \in 1 .. MaxTokens :
           /\ sessions' = sessions \cup {NewSession(n, req[q].token.sub)}
           /\ begun' = begun \cup {NewSession(n, req[q].token.sub)}
           /\ req' = [req EXCEPT ![q] = [pc |-> "mint", token |-> ScopedClaims(req[q].token, NewSession(n, req[q].token.sub))]]
    BY Zenon DEF CreateImpersonationSession
  <1>1. PICK t, s, u, r : /\ t = req[q].token
                          /\ s = [id |-> n, operator |-> t.sub, expires |-> instant + SessionTTL]
                          /\ u = [t EXCEPT !.expires = s.expires, !.platform = FALSE, !.act = s.id]
                          /\ r = [pc |-> "mint", token |-> u]
    BY Zenon
  <1>2. /\ sessions' = sessions \cup {s} /\ begun' = begun \cup {s} /\ tokens' = tokens
        /\ req' = [req EXCEPT ![q] = r] /\ instant' = instant /\ retired' = retired /\ l2' = l2 /\ gen' = gen
        /\ flight' = flight /\ faults' = faults
        /\ req[q].pc = "admitted" /\ t.platform
    BY <1>0, <1>1, Zenon DEF CreateImpersonationSession, NewSession, ScopedClaims, RequirePlatform
  <1>3. TokensInv
    BY Zenon DEF GateInv
  <1>4. t \in tokens /\ instant < t.expires + ClockSkew + MaxFlight
    <2>1. VisitInv(q)
      BY Zenon DEF GateInv
    <2>2. QED
      BY <1>1, <1>2, <2>1, Zenon DEF VisitInv
  <1>5. t \in Claims /\ t.sub \in Operators /\ t.act = 0
    <2>1. t \in Claims
      BY <1>3, <1>4, Zenon DEF TokensInv
    <2>2. t.platform = TRUE
      BY <1>2, <2>1 DEF Claims
    <2>3. QED
      BY <1>3, <1>4, <2>1, <2>2 DEF TokensInv
  <1>6. /\ s \in Sessions /\ s.id = n /\ s.operator = t.sub /\ s.expires = instant + SessionTTL
        /\ u \in Claims /\ u.act = n /\ u.sub = t.sub /\ u.platform = FALSE /\ u.expires = s.expires
    <2>1. instant + SessionTTL \in 0 .. GateTime + SessionTTL
      BY DEF GateInv, GateTypes, GatewayAssumption
    <2>2. s \in Sessions /\ s.id = n /\ s.operator = t.sub /\ s.expires = instant + SessionTTL
      BY <1>1, <1>5, <2>1 DEF Sessions
    <2>3. /\ instant + SessionTTL \in 0 .. GateTime + AccessTokenTTL + SessionTTL /\ n \in 0 .. MaxTokens
      BY <2>1 DEF GatewayAssumption, GateInv, GateTypes
    <2>4. u = [t EXCEPT !.expires = instant + SessionTTL, !.platform = FALSE, !.act = n]
      BY <1>1, <2>2, Zenon
    <2>5. QED
      BY <1>5, <2>2, <2>3, <2>4, Zenon DEF Claims
  <1>7. TokensInv'
    <2>1. /\ tokens' \subseteq Claims /\ begun' \subseteq Sessions /\ sessions' \subseteq begun' /\ begun \subseteq begun'
      BY <1>2, <1>3, <1>6, Zenon DEF TokensInv
    <2>2. ASSUME NEW x \in tokens
          PROVE  /\ x.platform = TRUE => x.sub \in Operators
                 /\ x.act # 0 => /\ x.platform = FALSE
                                 /\ \E y \in begun' : y.id = x.act /\ y.operator = x.sub /\ y.expires = x.expires
      BY <1>3, <2>1, Zenon DEF TokensInv
    <2>3. s.expires < t.expires + ClockSkew + MaxFlight + SessionTTL
      <3>1. /\ t.expires \in Nat /\ ClockSkew \in Nat /\ MaxFlight \in Nat /\ instant \in Nat /\ SessionTTL \in Nat
        BY <1>5 DEF Claims, GatewayAssumption, GateInv, GateTypes
      <3>2. QED
        BY <1>4, <1>6, <3>1
    <2>4. ASSUME NEW y \in begun'
          PROVE  \E x \in tokens : x.act = 0 /\ x.sub = y.operator /\ y.expires < x.expires + ClockSkew + MaxFlight + SessionTTL
      <3>1. CASE y \in begun
        BY <1>3, <3>1, Zenon DEF TokensInv
      <3>2. CASE y = s
        BY <1>4, <1>5, <1>6, <2>3, <3>2, Zenon
      <3>3. QED
        BY <1>2, <3>1, <3>2, Zenon
    <2>5. QED
      BY <1>2, <2>1, <2>2, <2>4, Zenon DEF TokensInv
  <1>8. /\ r \in [pc : {"idle", "wait", "admitted", "mint"}, token : Claims \cup {Nothing}]
        /\ r.pc # "wait" /\ r.pc # "admitted" /\ r.token = u
    BY <1>1, <1>6
  <1>9. Scoped(u)'
    <2>1. s \in begun' /\ u \in Claims'
      BY <1>2, <1>6, Zenon DEF Claims, Stamps
    <2>2. QED
      BY <1>6, <2>1, Zenon DEF Scoped
  <1>10. tokens \subseteq tokens' /\ begun \subseteq begun' /\ faults' \in 0 .. MaxFaults
    BY <1>2, Zenon DEF GateInv, GateTypes
  <1>11. QED
    BY <1>2, <1>7, <1>8, <1>9, <1>10, OverKept, Zenon

\* The issuer signs the token of a stored session, or fails.
LEMMA MintKept ==
    ASSUME GatewayAssumption, GateInv, NEW q \in HttpRequests, Mint(q)
    PROVE  GateInv'
  <1>1. PICK u : u = req[q].token
    OBVIOUS
  <1>2. /\ req' = [req EXCEPT ![q] = Idle] /\ instant' = instant /\ retired' = retired /\ l2' = l2 /\ gen' = gen
        /\ flight' = flight /\ begun' = begun /\ sessions' = sessions
        /\ tokens' = tokens \cup {u} \/ tokens' = tokens
        /\ req[q].pc = "mint"
    BY <1>1, Zenon DEF Mint
  <1>3. Scoped(u) /\ TokensInv
    BY <1>1, <1>2, Zenon DEF GateInv, VisitInv
  <1>4. tokens \subseteq tokens' /\ begun \subseteq begun'
    BY <1>2, Zenon
  <1>5. faults' \in 0 .. MaxFaults
    BY DEF Mint, GateInv, GateTypes, GatewayAssumption
  <1>6. TokensInv'
    <2>1. tokens' \subseteq Claims
      BY <1>2, <1>3, Zenon DEF TokensInv, Scoped
    <2>2. u.platform # TRUE
      BY <1>3 DEF Scoped
    <2>3. ASSUME NEW x \in tokens'
          PROVE  /\ x.platform = TRUE => x.sub \in Operators
                 /\ x.act # 0 => /\ x.platform = FALSE
                                 /\ \E y \in begun : y.id = x.act /\ y.operator = x.sub /\ y.expires = x.expires
      BY <1>2, <1>3, <2>2, Zenon DEF TokensInv, Scoped
    <2>4. \A y \in begun : \E x \in tokens' :
             x.act = 0 /\ x.sub = y.operator /\ y.expires < x.expires + ClockSkew + MaxFlight + SessionTTL
      BY <1>3, <1>4, Zenon DEF TokensInv
    <2>5. QED
      BY <1>2, <1>3, <2>1, <2>3, <2>4, Zenon DEF TokensInv
  <1>7. QED
    BY <1>2, <1>4, <1>5, <1>6, IdleTyped, OverKept, Zenon

\* The handlers that only end requests or sessions, and the purge of expired sessions.
LEMMA SmallStepsKept ==
    ASSUME GatewayAssumption, GateInv,
           (\E q \in HttpRequests : Use(q) \/ EndImpersonationSession(q)) \/ ForgetExpired
    PROVE  GateInv'
  <1>1. CASE \E q \in HttpRequests : Use(q) \/ EndImpersonationSession(q)
    <2>1. PICK q \in HttpRequests : Use(q) \/ EndImpersonationSession(q)
      BY <1>1
    <2>2. /\ req' = [req EXCEPT ![q] = Idle] /\ tokens' = tokens /\ instant' = instant /\ retired' = retired /\ l2' = l2
          /\ gen' = gen /\ flight' = flight /\ faults' = faults /\ begun' = begun
      BY <2>1, Zenon DEF Use, EndImpersonationSession
    <2>3. sessions' \subseteq sessions
      BY <2>1, Zenon DEF Use, EndImpersonationSession
    <2>4. TokensInv'
      BY <2>2, <2>3, RecordsStay, Zenon
    <2>5. tokens \subseteq tokens' /\ begun \subseteq begun' /\ faults' \in 0 .. MaxFaults
      BY <2>2, Zenon DEF GateInv, GateTypes
    <2>6. QED
      BY <2>2, <2>4, <2>5, IdleTyped, OverKept, Zenon
  <1>2. CASE ForgetExpired
    <2>1. /\ instant' = instant /\ retired' = retired /\ tokens' = tokens /\ l2' = l2 /\ gen' = gen /\ flight' = flight
          /\ req' = req /\ begun' = begun /\ faults' = faults /\ sessions' \subseteq sessions
      BY <1>2, Zenon DEF ForgetExpired
    <2>2. GateTypes'
      BY <2>1, Zenon DEF GateInv, GateTypes
    <2>3. TokensInv' /\ StampsInv'
      BY <2>1, RecordsStay, Zenon
    <2>4. \A r \in People : FlightInv(r)' /\ EntryInv(r)'
      BY <2>1, FlightStays, EntryStays, Zenon DEF GateInv
    <2>5. \A q \in HttpRequests : VisitInv(q)'
      BY <2>1, VisitStays, Zenon DEF GateInv
    <2>6. QED
      BY <2>2, <2>3, <2>4, <2>5, Zenon DEF GateInv
  <1>3. QED
    BY <1>1, <1>2, Zenon

\* A restart of the API: what was in its memory is gone, nobody waits and nothing is read.
LEMMA RestartKept ==
    ASSUME GatewayAssumption, GateInv, Restart
    PROVE  GateInv'
  <1>1. /\ instant' = instant /\ retired' = retired /\ tokens' = tokens /\ l2' = l2 /\ begun' = begun
        /\ sessions' \subseteq sessions /\ flight' = [p \in People |-> NoFlight] /\ req' = [q \in HttpRequests |-> Idle]
    BY Zenon DEF Restart
  <1>2. faults' \in 0 .. MaxFaults /\ gen' \in [{"api", "worker"} -> Nat]
    <2>1. /\ MaxFaults \in Nat /\ faults \in 0 .. MaxFaults /\ faults < MaxFaults /\ faults' = faults + 1
          /\ gen \in [{"api", "worker"} -> Nat] /\ gen' = [gen EXCEPT !["api"] = 0]
      BY Zenon DEF Restart, GateInv, GateTypes, GatewayAssumption
    <2>2. faults' \in 0 .. MaxFaults
      BY <2>1
    <2>3. gen' \in [{"api", "worker"} -> Nat]
      BY <2>1
    <2>4. QED
      BY <2>2, <2>3, Zenon
  <1>3. NoFlight \in Flights /\ NoFlight.phase = "none" /\ NoFlight.phase \notin {"fence", "write", "done"}
    BY NoFlightTyped, Zenon
  <1>4. /\ Idle \in [pc : {"idle", "wait", "admitted", "mint"}, token : Claims \cup {Nothing}]
        /\ Idle.pc # "wait" /\ Idle.pc # "admitted" /\ Idle.pc # "mint"
    BY IdleTyped
  <1>5. GateTypes'
    <2>1. flight' \in [People -> Flights]
      BY <1>1, <1>3, Zenon
    <2>2. req' \in [HttpRequests -> [pc : {"idle", "wait", "admitted", "mint"}, token : Claims \cup {Nothing}]]
      BY <1>1, <1>4, Zenon
    <2>3. QED
      BY <1>1, <1>2, <2>1, <2>2, Zenon DEF GateInv, GateTypes
  <1>6. TokensInv' /\ StampsInv'
    BY <1>1, RecordsStay, Zenon
  <1>7. ASSUME NEW r \in People PROVE FlightInv(r)' /\ EntryInv(r)'
    <2>1. EntryInv(r)'
      BY <1>1, EntryStays, Zenon DEF GateInv
    <2>2. flight'[r] = NoFlight
      BY <1>1, Zenon
    <2>3. QED
      BY <1>3, <2>1, <2>2, Zenon DEF FlightInv
  <1>8. ASSUME NEW q \in HttpRequests PROVE VisitInv(q)'
    <2>1. req'[q] = Idle
      BY <1>1, Zenon
    <2>2. QED
      BY <1>4, <2>1, Zenon DEF VisitInv
  <1>9. QED
    BY <1>5, <1>6, <1>7, <1>8, Zenon DEF GateInv

\* Time passes only while no request stands admitted and no read exceeds its bound.
LEMMA TickKept ==
    ASSUME GatewayAssumption, GateInv, GateTick
    PROVE  GateInv'
  <1>1. /\ retired' = retired /\ tokens' = tokens /\ l2' = l2 /\ gen' = gen /\ flight' = flight /\ req' = req
        /\ sessions' = sessions /\ begun' = begun /\ faults' = faults
    BY Zenon DEF GateTick
  <1>2. instant' = instant + 1 /\ instant' \in 0 .. GateTime /\ instant \in Nat
    BY DEF GateTick, GateInv, GateTypes, GatewayAssumption
  <1>3. GateTypes'
    BY <1>1, <1>2, Zenon DEF GateInv, GateTypes
  <1>4. TokensInv' /\ StampsInv'
    BY <1>1, RecordsStay, Zenon
  <1>5. ASSUME NEW r \in People PROVE FlightInv(r)'
    <2>1. FlightInv(r) /\ flight[r] \in Flights
      BY Zenon DEF GateInv, GateTypes
    <2>2. ASSUME flight[r].phase # "none" PROVE flight[r].since <= instant' /\ instant' <= flight[r].since + MaxFlight
      <3>1. flight[r].since <= instant /\ instant < flight[r].since + MaxFlight
        BY <2>1, <2>2, Zenon DEF FlightInv, GateTick
      <3>2. flight[r].since \in Nat /\ MaxFlight \in Nat
        BY <2>1 DEF Flights, GatewayAssumption
      <3>3. QED
        BY <1>2, <3>1, <3>2
    <2>3. QED
      BY <1>1, <2>1, <2>2, Zenon DEF FlightInv
  <1>6. ASSUME NEW r \in People PROVE EntryInv(r)'
    <2>1. EntryInv(r) /\ l2[r] \in Entries \cup {Nothing}
      BY Zenon DEF GateInv, GateTypes
    <2>2. ASSUME l2[r] # Nothing PROVE l2[r].expires <= instant' + StampTTL
      <3>1. l2[r].expires <= instant + StampTTL
        BY <2>1, <2>2, Zenon DEF EntryInv
      <3>2. l2[r].expires \in Nat /\ StampTTL \in Nat
        BY <2>1, <2>2 DEF Entries, GatewayAssumption
      <3>3. QED
        BY <1>2, <3>1, <3>2
    <2>3. QED
      BY <1>1, <2>1, <2>2, Zenon DEF EntryInv
  <1>7. ASSUME NEW q \in HttpRequests PROVE VisitInv(q)'
    <2>1. VisitInv(q) /\ req[q].pc # "admitted"
      BY Zenon DEF GateInv, GateTick
    <2>2. QED
      BY <1>1, <2>1, Zenon DEF VisitInv, Scoped, Claims, Stamps
  <1>8. QED
    BY <1>3, <1>4, <1>5, <1>6, <1>7, Zenon DEF GateInv

\* Every step keeps the invariant.
LEMMA GateStepKept ==
    ASSUME GatewayAssumption, GateInv, [GateNext]_gateVars
    PROVE  GateInv'
  <1>1. CASE UNCHANGED gateVars
    <2>1. /\ instant' = instant /\ retired' = retired /\ tokens' = tokens /\ l2' = l2 /\ gen' = gen /\ flight' = flight
          /\ req' = req /\ begun' = begun /\ faults' = faults /\ sessions' = sessions
      BY <1>1, Zenon DEF gateVars
    <2>2. GateTypes'
      BY <2>1, Zenon DEF GateInv, GateTypes
    <2>3. TokensInv' /\ StampsInv'
      BY <2>1, RecordsStay, Zenon
    <2>4. \A r \in People : FlightInv(r)' /\ EntryInv(r)'
      BY <2>1, FlightStays, EntryStays, Zenon DEF GateInv
    <2>5. \A q \in HttpRequests : VisitInv(q)'
      BY <2>1, VisitStays, Zenon DEF GateInv
    <2>6. QED
      BY <2>2, <2>3, <2>4, <2>5, Zenon DEF GateInv
  <1>2. CASE \E p \in People : Issue(p) \/ Rotate(p) \/ ReadSource(p) \/ CheckGeneration(p) \/ WriteEntry(p) \/ Land(p)
    BY <1>2, IssueKept, RotateKept, ReadKept, CheckKept, WriteKept, LandKept, Zenon
  <1>3. CASE \E q \in HttpRequests : RequireFreshStamp(q) \/ Use(q) \/ CreateImpersonationSession(q)
                                   \/ Mint(q) \/ EndImpersonationSession(q)
    BY <1>3, GetKept, CreateKept, MintKept, SmallStepsKept, Zenon
  <1>4. CASE Invalidate \/ Evict \/ ForgetExpired \/ Restart \/ GateTick
    BY <1>4, InvalidateKept, EvictKept, SmallStepsKept, RestartKept, TickKept, Zenon
  <1>5. QED
    BY <1>1, <1>2, <1>3, <1>4, Zenon DEF GateNext

\* The gate begins with nothing issued, cached or read.
LEMMA GateInitHolds ==
    ASSUME GatewayAssumption, GateInit
    PROVE  GateInv
  <1>1. NoFlight \in Flights /\ NoFlight.phase = "none" /\ NoFlight.phase \notin {"fence", "write", "done"}
    BY NoFlightTyped, Zenon
  <1>2. /\ Idle \in [pc : {"idle", "wait", "admitted", "mint"}, token : Claims \cup {Nothing}]
        /\ Idle.pc # "wait" /\ Idle.pc # "admitted" /\ Idle.pc # "mint"
    BY IdleTyped
  <1>3. GateTypes
    <2>1. instant \in 0 .. GateTime /\ faults \in 0 .. MaxFaults /\ gen \in [{"api", "worker"} -> Nat]
      BY DEF GateInit, GatewayAssumption
    <2>2. l2 \in [People -> Entries \cup {Nothing}] /\ flight \in [People -> Flights]
      BY <1>1, Zenon DEF GateInit
    <2>3. req \in [HttpRequests -> [pc : {"idle", "wait", "admitted", "mint"}, token : Claims \cup {Nothing}]]
      BY <1>2, Zenon DEF GateInit
    <2>4. QED
      BY <2>1, <2>2, <2>3, Zenon DEF GateTypes
  <1>4. TokensInv
    BY Zenon DEF GateInit, TokensInv
  <1>5. StampsInv
    BY DEF GateInit, StampsInv, GatewayAssumption
  <1>6. \A p \in People : FlightInv(p) /\ EntryInv(p)
    BY <1>1, Zenon DEF GateInit, FlightInv, EntryInv
  <1>7. \A q \in HttpRequests : VisitInv(q)
    BY <1>2, Zenon DEF GateInit, VisitInv
  <1>8. QED
    BY <1>3, <1>4, <1>5, <1>6, <1>7, Zenon DEF GateInv

\* The invariant of the gateway: stamps, cache entries and reads in flight, tokens and
\* sessions, whatever restarts and failures of Redis (SecurityStampCache, RequireAuth).
THEOREM GateInvariant == ASSUME GatewayAssumption PROVE GateSpec => []GateInv
  <1>1. GateInit => GateInv
    BY GateInitHolds
  <1>2. GateInv /\ [GateNext]_gateVars => GateInv'
    BY GateStepKept
  <1>3. QED
    BY <1>1, <1>2, PTL DEF GateSpec

\* What the invariant says of impersonation.
LEMMA InvariantBounds ==
    ASSUME GatewayAssumption, GateInv
    PROVE  ImpersonationIsBounded
  <1>1. GateTypeOK
    <2>1. tokens \subseteq Claims /\ sessions \subseteq Sessions /\ begun \subseteq Sessions
      BY Zenon DEF GateInv, TokensInv
    <2>2. ASSUME NEW p \in People
          PROVE  /\ Len(retired[p]) <= MaxStamps
                 /\ flight[p].phase \in {"none", "read", "fence", "write", "done"}
                 /\ l2[p] # Nothing => l2[p].value \in Stamps
      BY DEF GateInv, StampsInv, GateTypes, Flights, Entries
    <2>3. \A q \in HttpRequests : req[q].pc \in {"idle", "wait", "admitted", "mint"}
      BY DEF GateInv, GateTypes
    <2>4. QED
      BY <2>1, <2>2, <2>3, Zenon DEF GateTypeOK, GateInv, GateTypes
  <1>2. ASSUME NEW q \in HttpRequests, req[q].pc = "admitted", req[q].token.act # 0
        PROVE  /\ ~ req[q].token.platform
               /\ \E s \in begun : /\ s.id = req[q].token.act /\ s.operator = req[q].token.sub
                                   /\ instant < s.expires + ClockSkew + MaxFlight
    <2>1. VisitInv(q) /\ TokensInv
      BY Zenon DEF GateInv
    <2>2. PICK t : t = req[q].token
      OBVIOUS
    <2>3. t \in tokens /\ instant < t.expires + ClockSkew + MaxFlight
      BY <1>2, <2>1, <2>2, Zenon DEF VisitInv
    <2>4. t.platform = FALSE /\ \E s \in begun : s.id = t.act /\ s.operator = t.sub /\ s.expires = t.expires
      BY <1>2, <2>1, <2>2, <2>3, Zenon DEF TokensInv
    <2>5. ~ t.platform
      BY <2>4
    <2>6. QED
      BY <2>2, <2>3, <2>4, <2>5, Zenon
  <1>3. \A s \in begun : \E t \in tokens :
           t.act = 0 /\ t.sub = s.operator /\ s.expires < t.expires + ClockSkew + MaxFlight + SessionTTL
    BY Zenon DEF GateInv, TokensInv
  <1>4. QED
    BY <1>1, <1>2, <1>3, Zenon DEF ImpersonationIsBounded

\* A request that acts for an operator is bounded by its session and by a login, for every number of people,
\* requests, tokens and restarts, and every lifetime of tokens, sessions and entries.
THEOREM ImpersonationsAreBounded == ASSUME GatewayAssumption PROVE GateSpec => []ImpersonationIsBounded
  BY GateInvariant, InvariantBounds, PTL

\* An answer lets a token in only with the stamp that was read.
LEMMA FreshMeansEqual ==
    ASSUME NEW t, NEW v, NEW r, r = IsFresh(t, v), r.pc = "admitted"
    PROVE  r.token = t /\ t.stamp = v
  <1>1. CASE t.stamp = v
    BY <1>1 DEF IsFresh
  <1>2. CASE t.stamp # v
    BY <1>2 DEF IsFresh, Idle
  <1>3. QED
    BY <1>1, <1>2, Zenon

\* A stamp that an unexpired entry or a finished read holds was replaced recently, if at all.
LEMMA AnswersAreRecent ==
    ASSUME GatewayAssumption, GateInv, NEW p \in People, NEW v,
           \/ Cached(p) /\ v = l2[p].value
           \/ flight[p].phase = "done" /\ v = flight[p].value
    PROVE  v < Len(retired[p]) => instant <= retired[p][v + 1] + StampTTL + MaxFlight
  <1>1. retired[p] \in Seq(Nat) /\ instant \in Nat /\ StampTTL \in Nat /\ MaxFlight \in Nat
    BY DEF GateInv, GateTypes, StampsInv, GatewayAssumption
  <1>2. SUFFICES ASSUME v < Len(retired[p]) PROVE instant <= retired[p][v + 1] + StampTTL + MaxFlight
    OBVIOUS
  <1>3. PICK old, n : old = retired[p] /\ n = old[v + 1]
    OBVIOUS
  <1>4. CASE Cached(p) /\ v = l2[p].value
    <2>1. l2[p] # Nothing /\ l2[p] \in Entries /\ instant < l2[p].expires
      BY <1>4 DEF Cached, GateInv, GateTypes
    <2>2. EntryInv(p)
      BY Zenon DEF GateInv
    <2>3. l2[p].expires <= n + StampTTL + MaxFlight
      BY <1>2, <1>3, <1>4, <2>1, <2>2, Zenon DEF EntryInv
    <2>4. v \in Nat /\ l2[p].expires \in Nat
      BY <1>4, <2>1 DEF Entries, Stamps
    <2>5. n \in Nat
      BY <1>1, <1>2, <1>3, <2>4
    <2>6. instant <= n + StampTTL + MaxFlight
      BY <1>1, <2>1, <2>3, <2>4, <2>5
    <2>7. QED
      BY <1>3, <2>6, Zenon
  <1>5. CASE flight[p].phase = "done" /\ v = flight[p].value
    <2>1. flight[p] \in Flights /\ FlightInv(p) /\ flight[p].phase # "none" /\ flight[p].phase \in {"fence", "write", "done"}
      BY <1>5 DEF GateInv, GateTypes
    <2>2. instant <= flight[p].since + MaxFlight /\ flight[p].since <= n
      BY <1>2, <1>3, <1>5, <2>1, Zenon DEF FlightInv
    <2>3. v \in Nat /\ flight[p].since \in Nat
      BY <1>5, <2>1 DEF Flights, Stamps
    <2>4. n \in Nat
      BY <1>1, <1>2, <1>3, <2>3
    <2>5. instant <= n + StampTTL + MaxFlight
      BY <1>1, <2>2, <2>3, <2>4
    <2>6. QED
      BY <1>3, <2>5, Zenon
  <1>6. QED
    BY <1>4, <1>5, Zenon

\* Only an answer of the cache or of a read that lands lets a request in.
LEMMA AdmissionsAreFresh ==
    ASSUME GatewayAssumption, GateInv, GateNext, NEW q \in HttpRequests,
           req'[q].pc = "admitted", req[q].pc # "admitted"
    PROVE  \E p \in People : \E v, t : /\ (Cached(p) /\ v = l2[p].value) \/ (flight[p].phase = "done" /\ v = flight[p].value)
                                       /\ req'[q].token = t /\ t.sub = p /\ t.stamp = v
  <1>1. Idle.pc # "admitted" /\ req'[q] # req[q]
    BY DEF Idle
  <1>2. CASE \E w \in HttpRequests : RequireFreshStamp(w)
    <2>1. PICK w \in HttpRequests, t \in tokens : Get(w, t)
      BY <1>2, Zenon DEF RequireFreshStamp
    <2>2. t.sub \in People
      BY ClaimParts, Zenon
    <2>3. CASE /\ Cached(t.sub) /\ req' = [req EXCEPT ![w] = IsFresh(t, l2[t.sub].value)]
      <3>1. PICK v, r : v = l2[t.sub].value /\ r = IsFresh(t, v)
        OBVIOUS
      <3>2. req'[q] = r
        BY <1>1, <2>3, <3>1, Zenon DEF GateInv, GateTypes
      <3>3. r.token = t /\ t.stamp = v
        BY <3>1, <3>2, FreshMeansEqual
      <3>4. QED
        BY <2>2, <2>3, <3>1, <3>2, <3>3, Zenon
    <2>4. CASE req' = [req EXCEPT ![w] = [pc |-> "wait", token |-> t]]
      <3>1. PICK r : r = [pc |-> "wait", token |-> t]
        BY Zenon
      <3>2. req'[q] = r
        BY <1>1, <2>4, <3>1, Zenon DEF GateInv, GateTypes
      <3>3. r.pc # "admitted"
        BY <3>1
      <3>4. QED
        BY <3>2, <3>3, Zenon
    <2>5. QED
      BY <2>1, <2>3, <2>4, Zenon DEF Get
  <1>3. CASE \E p \in People : Land(p)
    <2>1. PICK p \in People : Land(p)
      BY <1>3
    <2>2. PICK v, t, r : v = flight[p].value /\ t = req[q].token /\ r = IsFresh(t, v)
      OBVIOUS
    <2>3. req'[q] = r /\ t.sub = p /\ flight[p].phase = "done"
      BY <1>1, <2>1, <2>2, Zenon DEF Land
    <2>4. r.token = t /\ t.stamp = v
      BY <2>2, <2>3, FreshMeansEqual
    <2>5. QED
      BY <2>2, <2>3, <2>4, Zenon
  <1>4. CASE \E p \in People : Issue(p) \/ Rotate(p) \/ ReadSource(p) \/ CheckGeneration(p) \/ WriteEntry(p)
    BY <1>1, <1>4, Zenon DEF Issue, Rotate, ReadSource, CheckGeneration, WriteEntry
  <1>5. CASE \E w \in HttpRequests : Use(w) \/ CreateImpersonationSession(w) \/ Mint(w) \/ EndImpersonationSession(w)
    <2>1. PICK w \in HttpRequests : \/ req' = [req EXCEPT ![w] = Idle]
                                   \/ \E u : req' = [req EXCEPT ![w] = [pc |-> "mint", token |-> u]]
      BY <1>5, Zenon DEF Use, CreateImpersonationSession, Mint, EndImpersonationSession
    <2>2. req'[q] = req[q] \/ req'[q] = Idle \/ \E u : req'[q] = [pc |-> "mint", token |-> u]
      BY <2>1, Zenon DEF GateInv, GateTypes
    <2>3. ASSUME NEW u, NEW r, r = [pc |-> "mint", token |-> u] PROVE r.pc # "admitted"
      BY <2>3
    <2>4. QED
      BY <1>1, <2>2, <2>3, Zenon
  <1>6. CASE Invalidate \/ Evict \/ ForgetExpired \/ Restart \/ GateTick
    BY <1>1, <1>6, Zenon DEF Invalidate, Evict, ForgetExpired, Restart, GateTick
  <1>7. QED
    BY <1>2, <1>3, <1>4, <1>5, <1>6, Zenon DEF GateNext

\* RequireAuth refuses a replaced stamp in time, for every lifetime of a cache entry and
\* every duration of a read of the source (SecurityStampCache).
THEOREM StaleStampsAreRefused == ASSUME GatewayAssumption PROVE GateSpec => StaleTokensAreRefused
  <1>1. GateInv /\ [GateNext]_gateVars => [AdmitStep]_gateVars
    <2>1. SUFFICES ASSUME GateInv, GateNext PROVE AdmitStep
      BY Zenon
    <2>2. ASSUME NEW q \in HttpRequests, req'[q].pc = "admitted", req[q].pc # "admitted",
                 NEW t, t = req'[q].token, t.stamp < Len(retired[t.sub])
          PROVE  instant <= retired[t.sub][t.stamp + 1] + StampTTL + MaxFlight
      <3>1. PICK p, v : /\ p \in People /\ t.sub = p /\ t.stamp = v
                        /\ (Cached(p) /\ v = l2[p].value) \/ (flight[p].phase = "done" /\ v = flight[p].value)
        BY <2>1, <2>2, AdmissionsAreFresh, Zenon
      <3>2. v < Len(retired[p]) => instant <= retired[p][v + 1] + StampTTL + MaxFlight
        BY <2>1, <3>1, AnswersAreRecent, Zenon
      <3>3. QED
        BY <2>2, <3>1, <3>2, Zenon
    <2>3. QED
      BY <2>2, Zenon DEF AdmitStep
  <1>2. QED
    BY <1>1, GateInvariant, PTL DEF GateSpec, StaleTokensAreRefused

-----------------------------------------------------------------------------
(* Verification.                                                            *)

Decided == {"verified", "rejected"}

\* A row carries what belongs to its state and nothing else.
Whole(a) ==
    /\ a.lead # NoLead <=> a.state = "verified"
    /\ a.reason <=> a.state = "rejected"
    /\ a.window <=> a.state = "busy"

Holding == {"update", "commit"}

\* The row is whole, and a verified one names a lead that is there.
RowInv ==
    \A c \in Contacts : contacts[c] # NoContact =>
        /\ Whole(contacts[c])
        /\ contacts[c].state = "verified" => [id |-> contacts[c].lead, contact |-> c] \in minted

\* What a handler is about to write is whole too; the lead it names is there already, or
\* is the one that its own commit adds.
MemInv ==
    \A r \in Requests : agentStep[r] \in Holding =>
        /\ contacts[arg[r].contact] # NoContact
        /\ decided[r] \in Aggregates /\ Whole(decided[r])
        /\ decided[r].state = "verified" =>
              \/ r \in Verifies /\ decided[r].lead = r
              \/ [id |-> decided[r].lead, contact |-> arg[r].contact] \in minted

\* A lead and its event, a call and its event, are one transaction.
ToldInv ==
    /\ \A v \in Verifies : (\E l \in minted : l.id = v) <=> [type |-> "LeadVerified", id |-> v] \in announced
    /\ \A v \in Calls : (\E k \in callLog : k.id = v) <=> [type |-> "CallLogged", id |-> v] \in announced

\* A handler's copy is what the row as it is now becomes.
Fresh(r) ==
    LET row == contacts[arg[r].contact]
    IN  Accepts(r, row) /\ decided[r] = Updated(r, row)

Undecided(r) == contacts[arg[r].contact] # NoContact /\ contacts[arg[r].contact].state \notin Decided

Alone == \A q, r \in Requests : agentStep[q] \in InTx /\ agentStep[r] \in InTx => q = r

\* If requests come one at a time, the row a handler has loaded is the row that it
\* overwrites, a verification that passed its guard finds the contact undecided, and
\* a contact with a lead is verified.
SerialInv ==
    verifyLimit = 1 =>
        /\ Alone
        /\ \A r \in Requests : agentStep[r] \in Holding => Fresh(r)
        /\ \A r \in Verifies : agentStep[r] \in {"load"} \cup Holding => Undecided(r)
        /\ \A k \in minted : contacts[k.contact] # NoContact /\ contacts[k.contact].state = "verified"

VerificationInv == VerifyTypeOK /\ RowInv /\ MemInv /\ ToldInv /\ SerialInv

\* The outbox holds events of contacts, calls and leads.
ToldEvents == [type : {"ContactCreated"}, id : Contacts] \cup [type : {"CallLogged"}, id : Calls]
                  \cup [type : {"LeadVerified"}, id : Verifies]
CallRows == [id : Calls, contact : Contacts, outcome : {"busy", "other"}]

\* What the tables hold.
LEMMA TablesTyped ==
    ASSUME VerificationInv
    PROVE  announced \subseteq ToldEvents /\ callLog \subseteq CallRows /\ minted \subseteq [id : Verifies, contact : Contacts]
  BY Zenon DEF VerificationInv, VerifyTypeOK, ToldEvents, CallRows

\* An event is its type and its id, which is of the set that goes with the type.
LEMMA EventsTyped ==
    \A e \in ToldEvents :
       /\ e.type = "LeadVerified" => e.id \in Verifies /\ e = [type |-> "LeadVerified", id |-> e.id]
       /\ e.type = "CallLogged" => e.id \in Calls /\ e = [type |-> "CallLogged", id |-> e.id]
  BY DEF ToldEvents

-----------------------------------------------------------------------------
(* The aggregate.                                                           *)

\* What an accepted request makes of a whole row is whole.
LEMMA UpdatedIsWhole ==
    ASSUME VerificationAssumption, NEW a \in Aggregates, Whole(a),
           NEW r \in Requests, Accepts(r, a)
    PROVE  /\ Updated(r, a) \in Aggregates
           /\ Whole(Updated(r, a))
           /\ Updated(r, a).state = "verified" =>
                 (r \in Verifies /\ Updated(r, a).lead = r) \/ Updated(r, a) = a
           /\ r \in Verifies => Updated(r, a).state = "verified"
  <1> USE DEF Aggregates, Whole, New, StartCall, MarkVerified, MarkRejected, MarkBusy, MayMarkVerified,
              MayMarkRejected, MayMarkBusy, Called, Promoted
  <1>1. CASE r \in Verifies
    BY <1>1, Zenon DEF VerificationAssumption, Accepts, Updated
  <1>2. CASE r \in Rejects
    BY <1>2, Zenon DEF VerificationAssumption, Accepts, Updated
  <1>3. CASE r \in Calls
    BY <1>3, Zenon DEF VerificationAssumption, Accepts, Updated
  <1>4. QED
    BY <1>1, <1>2, <1>3, Zenon DEF Requests

\* A decided row is accepted only as it is.
LEMMA DecidedIsKept ==
    ASSUME VerificationAssumption, NEW a \in Aggregates, a.state \in Decided,
           NEW r \in Requests, Accepts(r, a)
    PROVE  Updated(r, a) = a
  <1> USE DEF Aggregates, Decided, StartCall, MarkVerified, MarkRejected, MarkBusy, MayMarkVerified,
              MayMarkRejected, MayMarkBusy, Called, Promoted
  <1>1. CASE r \in Verifies
    BY <1>1 DEF VerificationAssumption, Accepts, Updated
  <1>2. CASE r \in Rejects
    BY <1>2 DEF VerificationAssumption, Accepts, Updated
  <1>3. CASE r \in Calls
    BY <1>3 DEF VerificationAssumption, Accepts, Updated
  <1>4. QED
    BY <1>1, <1>2, <1>3 DEF Requests
-----------------------------------------------------------------------------
(* Steps.                                                                   *)

\* Before the first contact there is nothing.
LEMMA InvInit ==
    ASSUME VerificationAssumption, VerifyInit
    PROVE  VerificationInv
  <1>1. VerifyTypeOK
    BY Zenon DEF VerifyInit, VerifyTypeOK
  <1>2. RowInv /\ MemInv
    BY DEF VerifyInit, RowInv, MemInv, Holding
  <1>3. SerialInv
    BY DEF VerifyInit, SerialInv, Alone, Holding, InTx, Requests
  <1>4. ToldInv
    BY Zenon DEF VerifyInit, ToldInv
  <1>5. QED
    BY <1>1, <1>2, <1>3, <1>4 DEF VerificationInv

\* A request that may start while requests come one at a time finds no other running.
LEMMA NobodyRuns ==
    ASSUME verifyLimit = 1, MayBegin
    PROVE  \A q \in Requests : agentStep[q] \notin InTx
  BY Zenon DEF MayBegin

\* A request starts with its command and has loaded nothing yet.
LEMMA StartStep ==
    ASSUME VerificationAssumption, VerificationInv, NEW r \in Requests, NEW first \in {"guard", "load"},
           r \in Verifies => first = "guard", StartDecision(r, first), UNCHANGED verifyLimit
    PROVE  VerificationInv'
  <1>1. PICK cmd \in AgentCommands : arg' = [arg EXCEPT ![r] = cmd]
    BY Zenon DEF StartDecision, CommandsOf
  <1>2. /\ agentStep[r] = "idle" /\ agentStep' = [agentStep EXCEPT ![r] = first]
        /\ UNCHANGED <<contacts, minted, callLog, announced, lock, decided>>
    BY DEF StartDecision
  <1>3. \A q \in Requests : /\ agentStep'[q] = IF q = r THEN first ELSE agentStep[q]
                            /\ arg'[q] = IF q = r THEN cmd ELSE arg[q]
    BY <1>1, <1>2, Zenon DEF VerificationInv, VerifyTypeOK
  <1>4. VerifyTypeOK'
    BY <1>1, <1>2, <1>3, Zenon DEF VerificationInv, VerifyTypeOK, InTx
  <1>5. RowInv' /\ ToldInv'
    BY <1>2, Zenon DEF VerificationInv, RowInv, ToldInv
  <1>6. MemInv'
    BY <1>2, <1>3, Zenon DEF VerificationInv, MemInv, Holding
  <1>7. SerialInv'
    <2> SUFFICES ASSUME verifyLimit = 1 PROVE SerialInv'
      BY Zenon DEF SerialInv
    <2>1. \A q \in Requests : agentStep[q] \notin InTx
      BY NobodyRuns DEF StartDecision
    <2>2. \A q \in Requests : agentStep'[q] \in InTx => q = r
      BY <1>3, <2>1, Zenon
    <2>3. \A q \in Requests : agentStep'[q] \notin Holding /\ (q \in Verifies => agentStep'[q] # "load")
      BY <1>3, <2>1, Zenon DEF Holding, InTx
    <2>4. Verifies \subseteq Requests
      BY DEF Requests
    <2>5. QED
      BY <1>2, <2>2, <2>3, <2>4, Zenon DEF VerificationInv, SerialInv, Alone, Holding
  <1>8. QED
    BY <1>4, <1>5, <1>6, <1>7 DEF VerificationInv

\* A copy stays fresh as long as neither it nor its row changes.
LEMMA FreshKept ==
    ASSUME NEW r, Fresh(r), arg'[r] = arg[r], decided'[r] = decided[r],
           contacts'[arg[r].contact] = contacts[arg[r].contact]
    PROVE  Fresh(r)'
  BY Zenon DEF Fresh, Accepts, Updated

\* A new contact is whole, and no handler works on a contact that was not there.
LEMMA CreateStep ==
    ASSUME VerificationAssumption, VerificationInv, NEW c \in Contacts, Create(c), UNCHANGED verifyLimit
    PROVE  VerificationInv'
  <1>1. /\ contacts[c] = NoContact
        /\ contacts' = [contacts EXCEPT ![c] = New]
        /\ announced' = announced \cup {[type |-> "ContactCreated", id |-> c]}
        /\ UNCHANGED <<minted, callLog, lock, agentStep, arg, decided>>
    BY DEF Create
  <1>2. New \in Aggregates /\ Whole(New) /\ New.state = "new"
    BY DEF New, Aggregates, Whole
  <1>3. \A k \in Contacts : contacts'[k] = IF k = c THEN New ELSE contacts[k]
    BY <1>1, Zenon DEF VerificationInv, VerifyTypeOK
  <1>4. VerifyTypeOK'
    <2>1. contacts' \in [Contacts -> Aggregates \cup {NoContact}]
      BY <1>1, <1>2, Zenon DEF VerificationInv, VerifyTypeOK
    <2>2. announced' \subseteq ToldEvents
      <3>1. [type |-> "ContactCreated", id |-> c] \in ToldEvents
        BY DEF ToldEvents
      <3>2. QED
        BY <1>1, <3>1, TablesTyped, Zenon
    <2>3. QED
      BY <1>1, <2>1, <2>2, Zenon DEF VerificationInv, VerifyTypeOK, ToldEvents
  <1>5. RowInv'
    <2>1. RowInv
      BY Zenon DEF VerificationInv
    <2>2. ASSUME NEW k \in Contacts, contacts'[k] # NoContact
          PROVE  /\ Whole(contacts'[k])
                 /\ contacts'[k].state = "verified" => [id |-> contacts'[k].lead, contact |-> k] \in minted'
      <3>1. CASE k = c
        <4>1. contacts'[k] = New
          BY <1>3, <3>1, Zenon
        <4>2. QED
          BY <1>2, <4>1
      <3>2. CASE k # c
        <4>1. contacts'[k] = contacts[k]
          BY <1>3, <3>2, Zenon
        <4>2. contacts[k] # NoContact
          BY <2>2, <4>1, Zenon
        <4>3. Whole(contacts[k]) /\ (contacts[k].state = "verified" => [id |-> contacts[k].lead, contact |-> k] \in minted)
          BY <2>1, <4>2, Zenon DEF RowInv
        <4>4. QED
          BY <1>1, <4>1, <4>3
      <3>3. QED
        BY <3>1, <3>2, Zenon
    <2>3. QED
      BY <2>2, Zenon DEF RowInv, Whole
  <1>6. \A r \in Requests : agentStep[r] # "idle" => arg[r].contact \in Contacts
    BY Zenon DEF VerificationInv, VerifyTypeOK, AgentCommands
  <1>7. New # NoContact
    BY <1>2 DEF VerificationAssumption
  <1>8. MemInv'
    BY <1>1, <1>3, <1>6, <1>7, Zenon DEF VerificationInv, MemInv, Holding
  <1>9. ToldInv'
    BY <1>1, Zenon DEF VerificationInv, ToldInv
  <1>10. \A k \in minted : k.contact \in Contacts
    BY Zenon DEF VerificationInv, VerifyTypeOK
  <1>11. \A r \in Requests : agentStep[r] # "idle" /\ contacts[arg[r].contact] # NoContact =>
            contacts'[arg[r].contact] = contacts[arg[r].contact]
    BY <1>1, <1>3, <1>6, Zenon
  <1>12. SerialInv'
    <2> SUFFICES ASSUME verifyLimit = 1 PROVE SerialInv'
      BY Zenon DEF SerialInv
    <2>1. ASSUME NEW r \in Requests, agentStep'[r] \in Holding PROVE Fresh(r)'
      BY <1>1, <1>11, <2>1, FreshKept, Zenon DEF VerificationInv, MemInv, SerialInv, Holding
    <2>2. ASSUME NEW r \in Verifies, agentStep'[r] \in {"load"} \cup Holding PROVE Undecided(r)'
      BY <1>1, <1>11, <2>2, Zenon DEF VerificationInv, SerialInv, Holding, Requests, Undecided
    <2>3. \A k \in minted : contacts'[k.contact] # NoContact /\ contacts'[k.contact].state = "verified"
      BY <1>1, <1>3, <1>10 DEF VerificationInv, SerialInv
    <2>4. QED
      BY <1>1, <2>1, <2>2, <2>3 DEF VerificationInv, SerialInv, Alone
  <1>13. QED
    BY <1>4, <1>5, <1>8, <1>9, <1>12 DEF VerificationInv

\* A handler goes on or ends without touching a row: what it holds it has held before,
\* and a verification passes its guard on an undecided contact only.
LEMMA MoveStep ==
    ASSUME VerificationAssumption, VerificationInv, NEW r \in Requests, NEW next \in InTx \cup Outcomes,
           agentStep[r] \in InTx, agentStep' = [agentStep EXCEPT ![r] = next],
           next \in Holding => agentStep[r] \in Holding, next = "load" => Undecided(r),
           lock' \in [Contacts -> Requests \cup {Free}],
           UNCHANGED <<verifyLimit, contacts, minted, callLog, announced, arg, decided>>
    PROVE  VerificationInv'
  <1>1. \A q \in Requests : agentStep'[q] = IF q = r THEN next ELSE agentStep[q]
    BY Zenon DEF VerificationInv, VerifyTypeOK
  <1>2. VerifyTypeOK'
    BY <1>1, Zenon DEF VerificationInv, VerifyTypeOK, InTx
  <1>3. RowInv' /\ ToldInv'
    BY Zenon DEF VerificationInv, RowInv, ToldInv
  <1>4. MemInv'
    BY <1>1, Zenon DEF VerificationInv, MemInv
  <1>5. SerialInv'
    <2> SUFFICES ASSUME verifyLimit = 1 PROVE SerialInv'
      BY Zenon DEF SerialInv
    <2>1. Alone'
      BY <1>1, Zenon DEF VerificationInv, SerialInv, Alone
    <2>2. ASSUME NEW q \in Requests, agentStep'[q] \in Holding PROVE Fresh(q)'
      BY <1>1, <2>2, FreshKept, Zenon DEF VerificationInv, SerialInv
    <2>3. ASSUME NEW q \in Verifies, agentStep'[q] \in {"load"} \cup Holding PROVE Undecided(q)'
      <3>1. q \in Requests
        BY <2>3 DEF Requests
      <3>2. CASE q = r
        <4>1. next = "load" \/ agentStep[q] \in Holding
          BY <1>1, <2>3, <3>1, <3>2, Zenon
        <4>2. Undecided(q)
          BY <3>2, <4>1, Zenon DEF VerificationInv, SerialInv
        <4>3. QED
          BY <4>2, Zenon DEF Undecided
      <3>3. CASE q # r
        <4>1. agentStep[q] \in {"load"} \cup Holding
          BY <1>1, <2>3, <3>1, <3>3, Zenon
        <4>2. Undecided(q)
          BY <4>1, Zenon DEF VerificationInv, SerialInv
        <4>3. QED
          BY <4>2, Zenon DEF Undecided
      <3>4. QED
        BY <3>2, <3>3
    <2>4. QED
      BY <2>1, <2>2, <2>3, Zenon DEF VerificationInv, SerialInv
  <1>6. QED
    BY <1>2, <1>3, <1>4, <1>5 DEF VerificationInv

\* A transaction that ends without a write.
LEMMA EndStep ==
    ASSUME VerificationAssumption, VerificationInv, NEW r \in Requests, NEW outcome \in Outcomes,
           agentStep[r] \in InTx, End(r, outcome), UNCHANGED verifyLimit
    PROVE  VerificationInv'
  <1>1. lock' \in [Contacts -> Requests \cup {Free}]
    BY Zenon DEF End, Unlock, VerificationInv, VerifyTypeOK
  <1>2. outcome \notin Holding /\ outcome # "load"
    BY DEF Outcomes, Holding
  <1>3. QED
    BY <1>1, <1>2, MoveStep, Zenon DEF End

\* The guard of a verification.
LEMMA GuardStep ==
    ASSUME VerificationAssumption, VerificationInv, NEW r \in Verifies, Guard(r), UNCHANGED verifyLimit
    PROVE  VerificationInv'
  <1> DEFINE row == contacts[arg[r].contact]
  <1>1. r \in Requests /\ agentStep[r] \in InTx
    BY Zenon DEF Guard, InTx, Requests
  <1>2. CASE End(r, "notFound") \/ End(r, "terminal")
    BY <1>1, <1>2, EndStep DEF Outcomes
  <1>3. CASE /\ row # NoContact /\ row.state \notin {"verified", "rejected"}
             /\ agentStep' = [agentStep EXCEPT ![r] = "load"]
             /\ UNCHANGED <<contacts, minted, callLog, announced, lock, arg, decided>>
    <2>1. Undecided(r)
      BY <1>3 DEF Undecided, Decided
    <2>2. "load" \in InTx /\ "load" \notin Holding
      BY DEF InTx, Holding
    <2>3. lock' \in [Contacts -> Requests \cup {Free}]
      BY <1>3, Zenon DEF VerificationInv, VerifyTypeOK
    <2>4. QED
      BY <1>1, <1>3, <2>1, <2>2, <2>3, MoveStep, Zenon
  <1>4. QED
    BY <1>2, <1>3, Zenon DEF Guard

\* UPDATE takes the row's lock.
LEMMA UpdateStep ==
    ASSUME VerificationAssumption, VerificationInv, NEW r \in Requests, Update(r), UNCHANGED verifyLimit
    PROVE  VerificationInv'
  <1>1. agentStep[r] \in InTx /\ agentStep[r] \in Holding /\ "commit" \in InTx /\ "commit" # "load"
    BY Zenon DEF Update, InTx, Holding
  <1>2. lock' \in [Contacts -> Requests \cup {Free}]
    BY Zenon DEF Update, VerificationInv, VerifyTypeOK
  <1>3. QED
    BY <1>1, <1>2, MoveStep, Zenon DEF Update

\* SELECT and the update function: the copy is whole because the row is.
LEMMA LoadStep ==
    ASSUME VerificationAssumption, VerificationInv, NEW r \in Requests, LoadContact(r), UNCHANGED verifyLimit
    PROVE  VerificationInv'
  <1> DEFINE row == contacts[arg[r].contact]
             new == Updated(r, row)
  <1>1. agentStep[r] = "load" /\ agentStep[r] \in InTx /\ arg[r] \in AgentCommands /\ arg[r].contact \in Contacts
    BY Zenon DEF LoadContact, InTx, VerificationInv, VerifyTypeOK, AgentCommands
  <1>2. CASE End(r, "notFound") \/ End(r, "invalid")
    BY <1>1, <1>2, EndStep, Zenon DEF Outcomes
  <1>3. CASE /\ row # NoContact /\ Accepts(r, row)
             /\ agentStep' = [agentStep EXCEPT ![r] = "update"]
             /\ decided' = [decided EXCEPT ![r] = new]
             /\ UNCHANGED <<contacts, minted, callLog, announced, lock, arg>>
    <2>1. row \in Aggregates /\ Whole(row)
      BY <1>1, <1>3, Zenon DEF VerificationInv, VerifyTypeOK, RowInv
    <2>2. /\ new \in Aggregates /\ Whole(new)
          /\ new.state = "verified" => (r \in Verifies /\ new.lead = r) \/ new = row
      BY <1>3, <2>1, UpdatedIsWhole, Zenon
    <2>3. \A q \in Requests : /\ agentStep'[q] = IF q = r THEN "update" ELSE agentStep[q]
                              /\ decided'[q] = IF q = r THEN new ELSE decided[q]
      BY <1>3, Zenon DEF VerificationInv, VerifyTypeOK
    <2>4. VerifyTypeOK'
      BY <1>1, <1>3, <2>2, <2>3, Zenon DEF VerificationInv, VerifyTypeOK, InTx
    <2>5. RowInv' /\ ToldInv'
      BY <1>3, Zenon DEF VerificationInv, RowInv, ToldInv
    <2>6. row.state = "verified" => [id |-> row.lead, contact |-> arg[r].contact] \in minted
      BY <1>1, <1>3, Zenon DEF VerificationInv, RowInv
    <2>7. MemInv'
      <3>1. \A q \in Requests : q # r /\ agentStep'[q] \in Holding =>
              agentStep[q] \in Holding /\ decided'[q] = decided[q] /\ arg'[q] = arg[q]
        BY <1>3, <2>3, Zenon
      <3>2. new.state = "verified" => \/ r \in Verifies /\ new.lead = r
                                      \/ [id |-> new.lead, contact |-> arg[r].contact] \in minted
        BY <2>2, <2>6, Zenon
      <3>3. decided'[r] = new /\ contacts'[arg'[r].contact] # NoContact /\ arg'[r] = arg[r] /\ minted' = minted
        BY <1>3, <2>3, Zenon
      <3>4. QED
        BY <1>3, <2>2, <3>1, <3>2, <3>3, Zenon DEF VerificationInv, MemInv
    <2>8. SerialInv'
      <3> SUFFICES ASSUME verifyLimit = 1 PROVE SerialInv'
        BY Zenon DEF SerialInv
      <3>1. Alone'
        BY <1>1, <2>3, Zenon DEF VerificationInv, SerialInv, Alone
      <3>2. Fresh(r)'
        BY <1>3, <2>3, Zenon DEF Fresh, Accepts, Updated
      <3>3. ASSUME NEW q \in Requests, agentStep'[q] \in Holding PROVE Fresh(q)'
        BY <1>3, <2>3, <3>2, <3>3, FreshKept, Zenon DEF VerificationInv, SerialInv
      <3>4. ASSUME NEW q \in Verifies, agentStep'[q] \in {"load"} \cup Holding PROVE Undecided(q)'
        BY <1>1, <1>3, <2>3, <3>4, Zenon DEF VerificationInv, SerialInv, Undecided, Requests
      <3>5. QED
        BY <1>3, <3>1, <3>3, <3>4, Zenon DEF VerificationInv, SerialInv
    <2>9. QED
      BY <2>4, <2>5, <2>7, <2>8 DEF VerificationInv
  <1>4. QED
    BY <1>2, <1>3, Zenon DEF LoadContact

\* A commit writes the handler's copy, and the lead of a verification with it.
LEMMA CommitStep ==
    ASSUME VerificationAssumption, VerificationInv, NEW r \in Requests, Commit(r), UNCHANGED verifyLimit,
           minted' = IF r \in Verifies THEN minted \cup {[id |-> r, contact |-> arg[r].contact]} ELSE minted,
           callLog' \subseteq [id : Calls, contact : Contacts, outcome : {"busy", "other"}],
           announced' \subseteq [type : {"ContactCreated"}, id : Contacts]
                             \cup [type : {"CallLogged"}, id : Calls]
                             \cup [type : {"LeadVerified"}, id : Verifies],
           ToldInv'
    PROVE  /\ VerificationInv'
           /\ verifyLimit = 1 => /\ \A c \in Contacts : contacts[c] # NoContact /\ contacts[c].state \in Decided
                                  => contacts'[c] = contacts[c]
                           /\ \A l \in minted' \ minted : \A k \in minted : k.contact # l.contact
  <1> DEFINE c == arg[r].contact
  <1>1. /\ agentStep[r] = "commit" /\ agentStep' = [agentStep EXCEPT ![r] = "ok"]
        /\ contacts' = [contacts EXCEPT ![c] = decided[r]]
        /\ UNCHANGED <<arg, decided>>
    BY Zenon DEF Commit
  <1>2. arg[r] \in AgentCommands /\ c \in Contacts
    BY <1>1, Zenon DEF VerificationInv, VerifyTypeOK, AgentCommands
  <1>3. /\ contacts[c] # NoContact /\ decided[r] \in Aggregates /\ Whole(decided[r]) /\ decided[r] # NoContact
        /\ decided[r].state = "verified" =>
              (r \in Verifies /\ decided[r].lead = r) \/ [id |-> decided[r].lead, contact |-> c] \in minted
    BY <1>1, Zenon DEF VerificationInv, MemInv, Holding, VerificationAssumption
  <1>4. /\ \A q \in Requests : agentStep'[q] = IF q = r THEN "ok" ELSE agentStep[q]
        /\ \A k \in Contacts : contacts'[k] = IF k = c THEN decided[r] ELSE contacts[k]
    BY <1>1, <1>2, Zenon DEF VerificationInv, VerifyTypeOK
  <1>5. minted \subseteq minted' /\ minted' \subseteq [id : Verifies, contact : Contacts]
    <2>1. minted \subseteq [id : Verifies, contact : Contacts]
      BY Zenon DEF VerificationInv, VerifyTypeOK
    <2>2. r \in Verifies => [id |-> r, contact |-> c] \in [id : Verifies, contact : Contacts]
      BY <1>2, Zenon
    <2>3. QED
      BY <2>1, <2>2, Zenon
  <1>6. VerifyTypeOK'
    <2>1. lock' \in [Contacts -> Requests \cup {Free}]
      BY Zenon DEF Commit, Unlock, VerificationInv, VerifyTypeOK
    <2>2. agentStep' \in [Requests -> {"idle"} \cup InTx \cup Outcomes]
      BY <1>1, Zenon DEF VerificationInv, VerifyTypeOK, Outcomes
    <2>3. contacts' \in [Contacts -> Aggregates \cup {NoContact}]
      BY <1>1, <1>3, Zenon DEF VerificationInv, VerifyTypeOK
    <2>4. \A q \in Requests : agentStep'[q] # "idle" => arg'[q] \in AgentCommands
      BY <1>1, <1>2, <1>4, Zenon DEF VerificationInv, VerifyTypeOK
    <2>5. QED
      BY <1>1, <1>5, <2>1, <2>2, <2>3, <2>4, Zenon DEF VerificationInv, VerifyTypeOK
  <1>7. RowInv'
    BY <1>3, <1>4, <1>5, Zenon DEF VerificationInv, RowInv
  <1>8. MemInv'
    <2> SUFFICES ASSUME NEW q \in Requests, agentStep'[q] \in Holding
                 PROVE  /\ contacts'[arg'[q].contact] # NoContact
                        /\ decided'[q] \in Aggregates /\ Whole(decided'[q])
                        /\ decided'[q].state = "verified" =>
                              \/ q \in Verifies /\ decided'[q].lead = q
                              \/ [id |-> decided'[q].lead, contact |-> arg'[q].contact] \in minted'
      BY Zenon DEF MemInv
    <2>1. q # r /\ agentStep[q] \in Holding
      BY <1>4, Zenon DEF Holding
    <2>2. arg[q].contact \in Contacts
      BY <2>1, Zenon DEF VerificationInv, VerifyTypeOK, AgentCommands, Holding
    <2>3. QED
      BY <1>1, <1>3, <1>4, <1>5, <2>1, <2>2, Zenon DEF VerificationInv, MemInv
  <1>9. ASSUME verifyLimit = 1
        PROVE  /\ SerialInv'
               /\ \A k \in Contacts : contacts[k] # NoContact /\ contacts[k].state \in Decided
                     => contacts'[k] = contacts[k]
               /\ \A l \in minted' \ minted : \A k \in minted : k.contact # l.contact
    <2>1. \A q \in Requests : agentStep'[q] \notin InTx
      <3>1. Alone /\ r \in Requests
        BY <1>9, Zenon DEF VerificationInv, SerialInv
      <3>2. "ok" \notin InTx /\ agentStep[r] \in InTx
        BY <1>1, Zenon DEF InTx
      <3>3. QED
        BY <1>4, <3>1, <3>2, Zenon DEF Alone
    <2>2. Accepts(r, contacts[c]) /\ decided[r] = Updated(r, contacts[c])
      BY <1>1, <1>9, Zenon DEF VerificationInv, SerialInv, Fresh, Holding
    <2>3. contacts[c] \in Aggregates /\ Whole(contacts[c])
      BY <1>2, <1>3, Zenon DEF VerificationInv, VerifyTypeOK, RowInv
    <2>4. contacts[c].state \in Decided => decided[r] = contacts[c]
      BY <2>2, <2>3, DecidedIsKept, Zenon
    <2>5. \A k \in Contacts : contacts[k] # NoContact /\ contacts[k].state \in Decided
             => contacts'[k] = contacts[k]
      BY <1>4, <2>4, Zenon
    <2>6. r \in Verifies => decided[r].state = "verified" /\ contacts[c].state \notin Decided
      BY <1>1, <1>9, <2>2, <2>3, UpdatedIsWhole, Zenon DEF VerificationInv, SerialInv, Undecided, Holding
    <2>7. \A k \in minted : k.contact \in Contacts /\ contacts[k.contact] # NoContact
                           /\ contacts[k.contact].state = "verified"
      BY <1>9, Zenon DEF VerificationInv, VerifyTypeOK, SerialInv
    <2>8. \A l \in minted' : l \in minted \/ (r \in Verifies /\ l.contact = c)
      <3>1. SUFFICES ASSUME NEW l \in minted', l \notin minted PROVE r \in Verifies /\ l.contact = c
        BY Zenon
      <3>2. r \in Verifies /\ l \in minted \cup {[id |-> r, contact |-> c]}
        BY <3>1, Zenon
      <3>3. l = [id |-> r, contact |-> c]
        BY <3>1, <3>2, Zenon
      <3>4. QED
        BY <3>2, <3>3, Zenon
    <2>9. \A l \in minted' : contacts'[l.contact] # NoContact /\ contacts'[l.contact].state = "verified"
      <3>1. ASSUME NEW l \in minted
            PROVE  contacts'[l.contact] # NoContact /\ contacts'[l.contact].state = "verified"
        <4>1. contacts'[l.contact] = contacts[l.contact]
          BY <2>5, <2>7, Zenon DEF Decided
        <4>2. QED
          BY <2>7, <4>1, Zenon
      <3>2. r \in Verifies => contacts'[c] # NoContact /\ contacts'[c].state = "verified"
        BY <1>2, <1>3, <1>4, <2>6, Zenon DEF Aggregates
      <3>3. QED
        BY <2>8, <3>1, <3>2, Zenon
    <2>10. \A l \in minted' \ minted : \A k \in minted : k.contact # l.contact
      <3>1. \A k \in minted : contacts[k.contact].state \in Decided
        BY <2>7, Zenon DEF Decided
      <3>2. QED
        BY <2>6, <2>8, <3>1, Zenon
    <2>11. SerialInv'
      BY <2>1, <2>9, Zenon DEF SerialInv, Alone, Holding, InTx, Requests
    <2>12. QED
      BY <2>5, <2>10, <2>11, Zenon
  <1>10. SerialInv'
    BY <1>9, Zenon DEF SerialInv
  <1>11. QED
    BY <1>6, <1>7, <1>8, <1>9, <1>10, Zenon DEF VerificationInv

\* What changes a decided row or adds a lead, if requests come one at a time: nothing
\* changes the one, and only the first verification of a contact adds the other.
Final ==
    verifyLimit = 1 =>
        /\ \A c \in Contacts : contacts[c] # NoContact /\ contacts[c].state \in Decided
              => contacts'[c] = contacts[c]
        /\ \A l \in minted' \ minted : \A k \in minted : k.contact # l.contact

\* VerifyUnverifiedContactHandler: row, lead and LeadVerifiedV1.
LEMMA VerifyCommitStep ==
    ASSUME VerificationAssumption, VerificationInv, NEW r \in Verifies, VerifyCommit(r), UNCHANGED verifyLimit
    PROVE  VerificationInv' /\ Final
  <1>1. /\ Commit(r) /\ minted' = minted \cup {[id |-> r, contact |-> arg[r].contact]}
        /\ announced' = announced \cup {[type |-> "LeadVerified", id |-> r]} /\ UNCHANGED callLog
    BY DEF VerifyCommit
  <1>2. r \in Requests
    BY DEF Requests
  <1>3. ToldInv'
    <2>1. \A v \in Verifies : (\E l \in minted' : l.id = v) <=> v = r \/ \E l \in minted : l.id = v
      <3> DEFINE n == [id |-> r, contact |-> arg[r].contact]
      <3>1. n.id = r /\ minted' = minted \cup {n}
        BY <1>1
      <3> HIDE DEF n
      <3>2. QED
        BY <3>1
    <2>2. \A v \in Verifies : [type |-> "LeadVerified", id |-> v] \in announced'
                                 <=> v = r \/ [type |-> "LeadVerified", id |-> v] \in announced
      BY <1>1
    <2>3. \A v \in Calls : [type |-> "CallLogged", id |-> v] \in announced'
                              <=> [type |-> "CallLogged", id |-> v] \in announced
      BY <1>1
    <2>4. QED
      BY <1>1, <2>1, <2>2, <2>3, Zenon DEF VerificationInv, ToldInv
  <1>4. announced' \subseteq [type : {"ContactCreated"}, id : Contacts]
                          \cup [type : {"CallLogged"}, id : Calls]
                          \cup [type : {"LeadVerified"}, id : Verifies]
    <2>1. [type |-> "LeadVerified", id |-> r] \in ToldEvents
      BY DEF ToldEvents
    <2>2. announced' \subseteq ToldEvents
      BY <1>1, <2>1, TablesTyped, Zenon
    <2>3. QED
      BY <2>2, Zenon DEF ToldEvents
  <1>5. callLog' \subseteq [id : Calls, contact : Contacts, outcome : {"busy", "other"}]
    BY <1>1, Zenon DEF VerificationInv, VerifyTypeOK
  <1>6. QED
    BY <1>1, <1>2, <1>3, <1>4, <1>5, CommitStep, Zenon DEF Final

\* RejectUnverifiedContactHandler: only the row.
LEMMA RejectCommitStep ==
    ASSUME VerificationAssumption, VerificationInv, NEW r \in Rejects, RejectCommit(r), UNCHANGED verifyLimit
    PROVE  VerificationInv' /\ Final
  <1>1. Commit(r) /\ UNCHANGED <<minted, callLog, announced>>
    BY DEF RejectCommit
  <1>2. r \in Requests /\ r \notin Verifies
    BY Zenon DEF Requests, VerificationAssumption
  <1>3. ToldInv'
    BY <1>1, Zenon DEF VerificationInv, ToldInv
  <1>4. announced' \subseteq [type : {"ContactCreated"}, id : Contacts]
                          \cup [type : {"CallLogged"}, id : Calls]
                          \cup [type : {"LeadVerified"}, id : Verifies]
    BY <1>1, Zenon DEF VerificationInv, VerifyTypeOK
  <1>5. callLog' \subseteq [id : Calls, contact : Contacts, outcome : {"busy", "other"}]
    BY <1>1, Zenon DEF VerificationInv, VerifyTypeOK
  <1>6. QED
    BY <1>1, <1>2, <1>3, <1>4, <1>5, CommitStep, Zenon DEF Final

\* LogVerificationCallHandler: row, call and its event, or nothing of it.
LEMMA CallCommitStep ==
    ASSUME VerificationAssumption, VerificationInv, NEW r \in Calls, CallCommit(r), UNCHANGED verifyLimit
    PROVE  VerificationInv' /\ Final
  <1>1. r \in Requests /\ r \notin Verifies /\ agentStep[r] \in InTx /\ arg[r] \in AgentCommands
    BY Zenon DEF Requests, VerificationAssumption, CallCommit, InTx, VerificationInv, VerifyTypeOK
  <1>2. CASE /\ Commit(r)
             /\ callLog' = callLog \cup {[id |-> r, contact |-> arg[r].contact, outcome |-> arg[r].outcome]}
             /\ announced' = announced \cup {[type |-> "CallLogged", id |-> r]}
             /\ UNCHANGED minted
    <2>1. ToldInv'
      <3>1. \A v \in Calls : (\E k \in callLog' : k.id = v) <=> v = r \/ \E k \in callLog : k.id = v
        <4> DEFINE n == [id |-> r, contact |-> arg[r].contact, outcome |-> arg[r].outcome]
        <4>1. n.id = r /\ callLog' = callLog \cup {n}
          BY <1>2
        <4> HIDE DEF n
        <4>2. QED
          BY <4>1
      <3>2. \A v \in Calls : [type |-> "CallLogged", id |-> v] \in announced'
                                <=> v = r \/ [type |-> "CallLogged", id |-> v] \in announced
        BY <1>2
      <3>3. \A v \in Verifies : [type |-> "LeadVerified", id |-> v] \in announced'
                                   <=> [type |-> "LeadVerified", id |-> v] \in announced
        BY <1>2, Zenon
      <3>4. QED
        BY <1>2, <3>1, <3>2, <3>3, Zenon DEF VerificationInv, ToldInv
    <2>2. announced' \subseteq [type : {"ContactCreated"}, id : Contacts]
                            \cup [type : {"CallLogged"}, id : Calls]
                            \cup [type : {"LeadVerified"}, id : Verifies]
      <3>1. [type |-> "CallLogged", id |-> r] \in ToldEvents
        BY Zenon DEF ToldEvents
      <3>2. announced' \subseteq ToldEvents
        BY <1>2, <3>1, TablesTyped, Zenon
      <3>3. QED
        BY <3>2, Zenon DEF ToldEvents
    <2>3. callLog' \subseteq [id : Calls, contact : Contacts, outcome : {"busy", "other"}]
      <3>1. [id |-> r, contact |-> arg[r].contact, outcome |-> arg[r].outcome] \in CallRows
        BY <1>1, Zenon DEF CallRows, AgentCommands
      <3>2. callLog' \subseteq CallRows
        BY <1>2, <3>1, TablesTyped, Zenon
      <3>3. QED
        BY <3>2, Zenon DEF CallRows
    <2>4. QED
      BY <1>1, <1>2, <2>1, <2>2, <2>3, CommitStep, Zenon DEF Final
  <1>3. CASE End(r, "invalid")
    <2>1. UNCHANGED <<contacts, minted>>
      BY <1>3 DEF End
    <2>2. QED
      BY <1>1, <1>3, <2>1, EndStep, Zenon DEF Outcomes, Final
  <1>4. QED
    BY <1>2, <1>3, Zenon DEF CallCommit

-----------------------------------------------------------------------------
(* Theorems.                                                                *)

\* Every step keeps the invariant, and respects what was decided.
LEMMA InvStep ==
    ASSUME VerificationAssumption
    PROVE  VerificationInv /\ [VerifyNext]_verifyVars => VerificationInv' /\ (Final \/ UNCHANGED verifyVars)
  <1> SUFFICES ASSUME VerificationInv, [VerifyNext]_verifyVars PROVE VerificationInv' /\ (Final \/ UNCHANGED verifyVars)
    OBVIOUS
  <1>1. ASSUME NEW c \in Contacts, Create(c), UNCHANGED verifyLimit PROVE VerificationInv' /\ Final
    <2>1. \A k \in Contacts : contacts[k] # NoContact => contacts'[k] = contacts[k]
      BY <1>1, Zenon DEF Create, VerificationInv, VerifyTypeOK
    <2>2. minted' = minted
      BY <1>1 DEF Create
    <2>3. QED
      BY <1>1, <2>1, <2>2, CreateStep, Zenon DEF Final
  <1>2. ASSUME NEW r \in Requests, UNCHANGED verifyLimit,
               Update(r) \/ LoadContact(r) \/ AbortDecision(r) \/ (r \in Verifies /\ (StartDecision(r, "guard") \/ Guard(r)))
                   \/ (r \notin Verifies /\ StartDecision(r, "load"))
        PROVE  VerificationInv' /\ Final
    <2>1. UNCHANGED <<contacts, minted>>
      BY <1>2, Zenon DEF Update, LoadContact, AbortDecision, StartDecision, Guard, End
    <2>2. AbortDecision(r) => VerificationInv'
      BY <1>2, EndStep DEF AbortDecision, Outcomes
    <2>3. QED
      BY <1>2, <2>1, <2>2, UpdateStep, LoadStep, StartStep, GuardStep DEF Final
  <1>3. CASE UNCHANGED verifyVars
    <2>1. VerifyTypeOK'
      BY <1>3, Zenon DEF verifyVars, VerificationInv, VerifyTypeOK
    <2>2. RowInv' /\ MemInv' /\ ToldInv'
      BY <1>3, Zenon DEF verifyVars, VerificationInv, RowInv, MemInv, ToldInv
    <2>3. \A r \in Requests : Fresh(r) => Fresh(r)'
      BY <1>3, FreshKept, Zenon DEF verifyVars
    <2>4. SerialInv'
      BY <1>3, <2>3, Zenon DEF verifyVars, VerificationInv, SerialInv, Alone, Undecided
    <2>5. QED
      BY <1>3, <2>1, <2>2, <2>4 DEF VerificationInv
  <1>4. Verifies \cup Rejects \cup Calls = Requests /\ Rejects \cap Verifies = {} /\ Calls \cap Verifies = {}
    BY Zenon DEF Requests, VerificationAssumption
  <1>5. QED
    BY <1>1, <1>2, <1>3, <1>4, VerifyCommitStep, RejectCommitStep, CallCommitStep
       DEF VerifyNext, VerifyStep, RejectStep, CallStep

\* The invariant of the verification handlers: rows, their copies in memory, leads, calls
\* and announcements (VerifyUnverifiedContactHandler, UpdateByID).
THEOREM VerificationInvariant == ASSUME VerificationAssumption PROVE VerifySpec => []VerificationInv
  <1>1. VerifyInit => VerificationInv
    BY InvInit
  <1>2. VerificationInv /\ [VerifyNext]_verifyVars => VerificationInv'
    BY InvStep
  <1>3. QED
    BY <1>1, <1>2, PTL DEF VerifySpec

\* Whatever overlaps, a contact's row is one agent's decision, with its lead and its
\* announcements (updateUnverifiedContactRow and the transactions of the handlers).
THEOREM DecisionsAreWhole == ASSUME VerificationAssumption PROVE VerifySpec => []DecisionIsWhole
  <1>1. VerificationInv => DecisionIsWhole
    <2> SUFFICES ASSUME VerificationInv PROVE DecisionIsWhole
      OBVIOUS
    <2>1. {l.id : l \in minted} = {e.id : e \in {e \in announced : e.type = "LeadVerified"}}
      <3>1. \A e \in announced : e.type = "LeadVerified" =>
               e.id \in Verifies /\ e = [type |-> "LeadVerified", id |-> e.id]
        BY TablesTyped, EventsTyped, Zenon
      <3>2. \A l \in minted : l.id \in Verifies
        BY Zenon DEF VerificationInv, VerifyTypeOK
      <3>3. ASSUME NEW l \in minted PROVE l.id \in {e.id : e \in {e \in announced : e.type = "LeadVerified"}}
        <4> DEFINE e == [type |-> "LeadVerified", id |-> l.id]
        <4>1. e \in announced /\ e.type = "LeadVerified" /\ e.id = l.id
          BY <3>2 DEF VerificationInv, ToldInv
        <4>2. QED
          BY <4>1
      <3>4. ASSUME NEW e \in announced, e.type = "LeadVerified" PROVE e.id \in {l.id : l \in minted}
        BY <3>1, <3>4 DEF VerificationInv, ToldInv
      <3>5. QED
        BY <3>3, <3>4
    <2>2. {k.id : k \in callLog} = {e.id : e \in {e \in announced : e.type = "CallLogged"}}
      <3>1. \A e \in announced : e.type = "CallLogged" =>
               e.id \in Calls /\ e = [type |-> "CallLogged", id |-> e.id]
        BY TablesTyped, EventsTyped, Zenon
      <3>2. \A k \in callLog : k.id \in Calls
        BY Zenon DEF VerificationInv, VerifyTypeOK
      <3>3. ASSUME NEW k \in callLog PROVE k.id \in {e.id : e \in {e \in announced : e.type = "CallLogged"}}
        <4> DEFINE e == [type |-> "CallLogged", id |-> k.id]
        <4>1. e \in announced /\ e.type = "CallLogged" /\ e.id = k.id
          BY <3>2 DEF VerificationInv, ToldInv
        <4>2. QED
          BY <4>1
      <3>4. ASSUME NEW e \in announced, e.type = "CallLogged" PROVE e.id \in {k.id : k \in callLog}
        BY <3>1, <3>4 DEF VerificationInv, ToldInv
      <3>5. QED
        BY <3>3, <3>4
    <2>3. QED
      BY <2>1, <2>2, Zenon DEF VerificationInv, RowInv, Whole, DecisionIsWhole
  <1>2. QED
    BY <1>1, VerificationInvariant, PTL

\* One request at a time, verified and rejected are final and a contact has one lead
\* (VerifyUnverifiedContactHandler's guard, MarkVerified, MarkRejected, StartCall).
THEOREM DecisionsAreFinal == ASSUME VerificationAssumption PROVE VerifySpec => DecisionIsFinal
  <1> DEFINE A == verifyLimit = 1 =>
                /\ \A c \in Contacts :
                     contacts[c] # NoContact /\ contacts[c].state \in {"verified", "rejected"}
                       => contacts'[c] = contacts[c]
                /\ \A l \in minted' \ minted : \A k \in minted : k.contact # l.contact
  <1>1. VerificationInv /\ [VerifyNext]_verifyVars => [A]_verifyVars
    BY InvStep, Zenon DEF Final, Decided
  <1>2. QED
    BY <1>1, VerificationInvariant, PTL DEF VerifySpec, DecisionIsFinal

-----------------------------------------------------------------------------
(* The stock scans.                                                         *)

\* A subject is alerted, about to be, or its tenant is.
Covered(j, s) == TenantOf[s] \in tenantsLeft[j] \/ s \in rows[j] \/ <<s, today[j]>> \in emissions

\* Where a job is: it has rows in hand only while it emits.  If its role is exempt from
\* row-level security, what was due since it began is covered once it has listed the
\* tenants; if not, it never has a tenant or a row in hand.
JobInv(j) ==
    /\ stage[j] = "available" => attempt[j] < MaxAttempts
    /\ stage[j] # "emit" => rows[j] = {}
    /\ stage[j] = "completed" => tenantsLeft[j] = {}
    /\ steady[j] \subseteq due
    /\ BypassesRLS /\ stage[j] \in {"list", "emit", "completed"} => \A s \in steady[j] : Covered(j, s)
    /\ ~ BypassesRLS => tenantsLeft[j] = {} /\ rows[j] = {}

LedgerInv ==
    /\ \A k \in Keys : alerts[k] = IF k \in emissions THEN 1 ELSE 0
    /\ ~ BypassesRLS => emissions = {}

ScanInv == ScanTypeOK /\ LedgerInv /\ \A j \in Jobs : JobInv(j)

\* A step of one job.
LEMMA JobStep ==
    ASSUME \A j \in Jobs : JobInv(j), NEW g \in Jobs, JobInv(g)', UNCHANGED due, emissions \subseteq emissions',
           \A j \in Jobs : j # g => /\ stage'[j] = stage[j] /\ attempt'[j] = attempt[j] /\ today'[j] = today[j]
                                    /\ tenantsLeft'[j] = tenantsLeft[j] /\ rows'[j] = rows[j] /\ steady'[j] = steady[j]
    PROVE  \A j \in Jobs : JobInv(j)'
  <1> SUFFICES ASSUME NEW j \in Jobs, j # g PROVE JobInv(j)'
    BY Zenon
  <1>1. JobInv(j)
    BY Zenon
  <1>2. QED
    BY <1>1, Zenon DEF JobInv, Covered

\* Nothing is listed and nothing emitted.
LEMMA ScanBegins ==
    ASSUME StockAlertsAssumption, ScanInit
    PROVE  ScanInv
  <1>1. 0 \in Nat /\ 1 \in 1 .. MaxDay /\ 0 \in 0 .. MaxAttempts /\ 0 < MaxAttempts /\ 0 \in 0 .. MaxChanges
    BY DEF StockAlertsAssumption
  <1>2. ScanTypeOK
    BY <1>1, Zenon DEF ScanInit, ScanTypeOK
  <1>3. LedgerInv
    BY Zenon DEF ScanInit, LedgerInv
  <1>4. ASSUME NEW j \in Jobs PROVE JobInv(j)
    <2>1. stage[j] = "available" /\ attempt[j] = 0 /\ rows[j] = {} /\ steady[j] = {} /\ tenantsLeft[j] = {}
      BY Zenon DEF ScanInit
    <2>2. stage[j] # "completed"
      BY <2>1
    <2>3. QED
      BY <1>1, <2>1, <2>2, Zenon DEF JobInv
  <1>5. QED
    BY <1>2, <1>3, <1>4, Zenon DEF ScanInv

\* Stock moves and days pass: what is no longer due is no longer steady.
LEMMA WorldSteps ==
    ASSUME StockAlertsAssumption, ScanInv, (\E s \in Subjects : Change(s)) \/ NextDay
    PROVE  ScanInv'
  <1>0. ScanTypeOK /\ LedgerInv /\ \A j \in Jobs : JobInv(j)
    BY Zenon DEF ScanInv
  <1>1. ASSUME NEW s \in Subjects, Change(s) PROVE ScanInv'
    <2>1. /\ changes < MaxChanges /\ changes' = changes + 1
          /\ due' = due \ {s} \/ due' = due \cup {s}
          /\ steady' = [j \in Jobs |-> steady[j] \cap due']
          /\ UNCHANGED <<day, emissions, alerts, stage, attempt, today, tenantsLeft, rows>>
      BY <1>1, Zenon DEF Change
    <2>2. changes' \in 0 .. MaxChanges
      BY <1>0, <2>1 DEF ScanTypeOK, StockAlertsAssumption
    <2>3. due' \subseteq Subjects
      BY <1>0, <2>1, Zenon DEF ScanTypeOK
    <2>4. steady' \in [Jobs -> SUBSET Subjects]
      BY <2>1, <2>3, Zenon
    <2>5. ScanTypeOK'
      BY <1>0, <2>1, <2>2, <2>3, <2>4, Zenon DEF ScanTypeOK
    <2>6. LedgerInv'
      BY <1>0, <2>1, Zenon DEF LedgerInv
    <2>7. ASSUME NEW j \in Jobs PROVE JobInv(j)'
      <3>1. JobInv(j) /\ steady'[j] = steady[j] \cap due'
        BY <1>0, <2>1, Zenon
      <3>2. QED
        BY <2>1, <3>1, Zenon DEF JobInv, Covered
    <2>8. QED
      BY <2>5, <2>6, <2>7, Zenon DEF ScanInv
  <1>2. CASE NextDay
    <2>1. /\ day < MaxDay /\ day' = day + 1
          /\ UNCHANGED <<due, emissions, alerts, stage, attempt, today, tenantsLeft, rows, steady, changes>>
      BY <1>2, Zenon DEF NextDay
    <2>2. day' \in 1 .. MaxDay
      BY <1>0, <2>1 DEF ScanTypeOK, StockAlertsAssumption
    <2>3. ScanTypeOK' /\ LedgerInv'
      BY <1>0, <2>1, <2>2, Zenon DEF ScanTypeOK, LedgerInv
    <2>4. \A j \in Jobs : JobInv(j)'
      BY <1>0, <2>1, Zenon DEF JobInv, Covered
    <2>5. QED
      BY <2>3, <2>4, Zenon DEF ScanInv
  <1>3. QED
    BY <1>1, <1>2

\* A job begins, or ends in an error.
LEMMA AttemptSteps ==
    ASSUME StockAlertsAssumption, ScanInv, NEW g \in Jobs, StartScan(g) \/ FailScan(g)
    PROVE  ScanInv'
  <1>0. ScanTypeOK /\ LedgerInv /\ (\A j \in Jobs : JobInv(j)) /\ JobInv(g)
    BY Zenon DEF ScanInv
  <1>1. CASE StartScan(g)
    <2>1. /\ stage[g] = "available" /\ attempt' = [attempt EXCEPT ![g] = attempt[g] + 1]
          /\ today' = [today EXCEPT ![g] = day] /\ steady' = [steady EXCEPT ![g] = due]
          /\ stage' = [stage EXCEPT ![g] = "tenants"]
          /\ UNCHANGED <<due, day, emissions, alerts, tenantsLeft, rows, changes>>
      BY <1>1, Zenon DEF StartScan
    <2>2. attempt[g] + 1 \in 0 .. MaxAttempts
      <3>1. attempt[g] \in 0 .. MaxAttempts /\ attempt[g] < MaxAttempts
        BY <1>0, <2>1, Zenon DEF ScanTypeOK, JobInv
      <3>2. QED
        BY <3>1 DEF StockAlertsAssumption
    <2>3. ScanTypeOK'
      <3>1. /\ attempt' \in [Jobs -> 0 .. MaxAttempts] /\ today' \in [Jobs -> 1 .. MaxDay]
            /\ steady' \in [Jobs -> SUBSET Subjects]
        BY <1>0, <2>1, <2>2, Zenon DEF ScanTypeOK
      <3>2. stage' \in [Jobs -> {"available", "tenants", "list", "emit", "completed", "discarded"}]
        BY <1>0, <2>1, Zenon DEF ScanTypeOK
      <3>3. QED
        BY <1>0, <2>1, <3>1, <3>2, Zenon DEF ScanTypeOK
    <2>4. LedgerInv'
      BY <1>0, <2>1, Zenon DEF LedgerInv
    <2>5. \A j \in Jobs : j # g => /\ stage'[j] = stage[j] /\ attempt'[j] = attempt[j] /\ today'[j] = today[j]
                                   /\ tenantsLeft'[j] = tenantsLeft[j] /\ rows'[j] = rows[j] /\ steady'[j] = steady[j]
      BY <1>0, <2>1, Zenon DEF ScanTypeOK
    <2>6. JobInv(g)'
      <3>1. stage'[g] = "tenants" /\ rows'[g] = rows[g] /\ steady'[g] = due
        BY <1>0, <2>1, Zenon DEF ScanTypeOK
      <3>2. stage[g] # "emit" /\ stage'[g] # "available" /\ stage'[g] # "completed"
            /\ stage'[g] \notin {"list", "emit", "completed"}
        BY <2>1, <3>1
      <3>3. QED
        BY <1>0, <2>1, <3>1, <3>2, Zenon DEF JobInv
    <2>7. QED
      BY <1>0, <2>1, <2>3, <2>4, <2>5, <2>6, JobStep, Zenon DEF ScanInv
  <1>2. CASE FailScan(g)
    <2> DEFINE next == IF attempt[g] < MaxAttempts THEN "available" ELSE "discarded"
    <2>1. /\ stage' = [stage EXCEPT ![g] = next]
          /\ tenantsLeft' = [tenantsLeft EXCEPT ![g] = {}] /\ rows' = [rows EXCEPT ![g] = {}]
          /\ steady' = [steady EXCEPT ![g] = {}]
          /\ UNCHANGED <<due, day, emissions, alerts, attempt, today, changes>>
      BY <1>2, Zenon DEF FailScan
    <2>2. /\ next \in {"available", "discarded"} /\ next # "emit" /\ next \notin {"list", "emit", "completed"}
          /\ next = "available" => attempt[g] < MaxAttempts
      OBVIOUS
    <2> HIDE DEF next
    <2>3. ScanTypeOK'
      <3>1. stage' \in [Jobs -> {"available", "tenants", "list", "emit", "completed", "discarded"}]
        BY <1>0, <2>1, <2>2, Zenon DEF ScanTypeOK
      <3>2. /\ tenantsLeft' \in [Jobs -> SUBSET Tenants] /\ rows' \in [Jobs -> SUBSET Subjects]
            /\ steady' \in [Jobs -> SUBSET Subjects]
        BY <1>0, <2>1, Zenon DEF ScanTypeOK
      <3>3. QED
        BY <1>0, <2>1, <3>1, <3>2, Zenon DEF ScanTypeOK
    <2>4. LedgerInv'
      BY <1>0, <2>1, Zenon DEF LedgerInv
    <2>5. \A j \in Jobs : j # g => /\ stage'[j] = stage[j] /\ attempt'[j] = attempt[j] /\ today'[j] = today[j]
                                   /\ tenantsLeft'[j] = tenantsLeft[j] /\ rows'[j] = rows[j] /\ steady'[j] = steady[j]
      BY <1>0, <2>1, Zenon DEF ScanTypeOK
    <2>6. JobInv(g)'
      <3>1. stage'[g] = next /\ rows'[g] = {} /\ steady'[g] = {} /\ tenantsLeft'[g] = {} /\ attempt'[g] = attempt[g]
        BY <1>0, <2>1, Zenon DEF ScanTypeOK
      <3>2. QED
        BY <2>2, <3>1, Zenon DEF JobInv
    <2>7. QED
      BY <1>0, <2>1, <2>3, <2>4, <2>5, <2>6, JobStep, Zenon DEF ScanInv
  <1>3. QED
    BY <1>1, <1>2

\* The lists a job works through: whole if its role is exempt from row-level security,
\* empty if not.
LEMMA ListSteps ==
    ASSUME StockAlertsAssumption, ScanInv, NEW g \in Jobs, ListTenants(g) \/ ListSubjects(g)
    PROVE  ScanInv'
  <1>0. ScanTypeOK /\ LedgerInv /\ (\A j \in Jobs : JobInv(j)) /\ JobInv(g)
    BY Zenon DEF ScanInv
  <1>1. UNCHANGED <<due, day, emissions, alerts, attempt, today, steady, changes>>
    BY Zenon DEF ListTenants, ListSubjects
  <1>2. steady[g] \subseteq due /\ due \subseteq Subjects /\ steady'[g] = steady[g] /\ today'[g] = today[g]
    BY <1>0, <1>1, Zenon DEF JobInv, ScanTypeOK
  <1>3. CASE ListTenants(g)
    <2>0. PICK all : all = Visible(Tenants) /\ all \subseteq Tenants
                     /\ (BypassesRLS => all = Tenants) /\ (~ BypassesRLS => all = {})
      BY Zenon DEF Visible
    <2>1. /\ stage[g] = "tenants" /\ tenantsLeft' = [tenantsLeft EXCEPT ![g] = all]
          /\ stage' = [stage EXCEPT ![g] = "list"] /\ rows' = rows
      BY <1>3, <2>0, Zenon DEF ListTenants
    <2>2. ScanTypeOK'
      <3>1. stage' \in [Jobs -> {"available", "tenants", "list", "emit", "completed", "discarded"}]
        BY <1>0, <2>1, Zenon DEF ScanTypeOK
      <3>2. tenantsLeft' \in [Jobs -> SUBSET Tenants]
        BY <1>0, <2>0, <2>1, Zenon DEF ScanTypeOK
      <3>3. QED
        BY <1>0, <1>1, <2>1, <3>1, <3>2, Zenon DEF ScanTypeOK
    <2>3. LedgerInv'
      BY <1>0, <1>1, Zenon DEF LedgerInv
    <2>4. \A j \in Jobs : j # g => /\ stage'[j] = stage[j] /\ attempt'[j] = attempt[j] /\ today'[j] = today[j]
                                   /\ tenantsLeft'[j] = tenantsLeft[j] /\ rows'[j] = rows[j] /\ steady'[j] = steady[j]
      BY <1>0, <1>1, <2>1, Zenon DEF ScanTypeOK
    <2>5. JobInv(g)'
      <3>1. stage'[g] = "list" /\ tenantsLeft'[g] = all /\ rows'[g] = rows[g]
        BY <1>0, <2>1, Zenon DEF ScanTypeOK
      <3>2. stage[g] # "emit" /\ stage'[g] # "available" /\ stage'[g] # "completed"
        BY <2>1, <3>1
      <3>3. BypassesRLS => \A s \in steady'[g] : Covered(g, s)'
        BY <1>2, <2>0, <3>1, Zenon DEF Covered, StockAlertsAssumption
      <3>4. QED
        BY <1>0, <1>1, <1>2, <2>0, <3>1, <3>2, <3>3, Zenon DEF JobInv
    <2>6. QED
      BY <1>0, <1>1, <2>2, <2>3, <2>4, <2>5, JobStep, Zenon DEF ScanInv
  <1>4. ASSUME stage[g] = "list", tenantsLeft[g] = {}, stage' = [stage EXCEPT ![g] = "completed"], UNCHANGED <<tenantsLeft, rows>>
        PROVE  ScanInv'
    <2>1. ScanTypeOK'
      <3>1. stage' \in [Jobs -> {"available", "tenants", "list", "emit", "completed", "discarded"}]
        BY <1>0, <1>4, Zenon DEF ScanTypeOK
      <3>2. QED
        BY <1>0, <1>1, <1>4, <3>1, Zenon DEF ScanTypeOK
    <2>2. LedgerInv'
      BY <1>0, <1>1, Zenon DEF LedgerInv
    <2>3. \A j \in Jobs : j # g => /\ stage'[j] = stage[j] /\ attempt'[j] = attempt[j] /\ today'[j] = today[j]
                                   /\ tenantsLeft'[j] = tenantsLeft[j] /\ rows'[j] = rows[j] /\ steady'[j] = steady[j]
      BY <1>0, <1>1, <1>4, Zenon DEF ScanTypeOK
    <2>4. JobInv(g)'
      <3>1. stage'[g] = "completed" /\ tenantsLeft'[g] = tenantsLeft[g] /\ rows'[g] = rows[g]
        BY <1>0, <1>4, Zenon DEF ScanTypeOK
      <3>2. stage[g] # "emit" /\ stage'[g] # "available"
        BY <1>4, <3>1, Zenon
      <3>3. BypassesRLS => \A s \in steady'[g] : Covered(g, s)'
        BY <1>0, <1>1, <1>2, <1>4, <3>1, Zenon DEF JobInv, Covered
      <3>4. QED
        BY <1>0, <1>1, <1>2, <1>4, <3>1, <3>2, <3>3, Zenon DEF JobInv
    <2>5. QED
      BY <1>0, <1>1, <2>1, <2>2, <2>3, <2>4, JobStep, Zenon DEF ScanInv
  <1>5. ASSUME NEW t \in tenantsLeft[g], stage[g] = "list", tenantsLeft' = [tenantsLeft EXCEPT ![g] = @ \ {t}],
               rows' = [rows EXCEPT ![g] = Visible({s \in due : TenantOf[s] = t})], stage' = [stage EXCEPT ![g] = "emit"]
        PROVE  ScanInv'
    <2>0. BypassesRLS /\ rows' = [rows EXCEPT ![g] = {s \in due : TenantOf[s] = t}]
      <3>1. BypassesRLS
        BY <1>0, <1>5, Zenon DEF JobInv
      <3>2. QED
        BY <1>5, <3>1, Zenon DEF Visible
    <2>1. ScanTypeOK'
      <3>1. stage' \in [Jobs -> {"available", "tenants", "list", "emit", "completed", "discarded"}]
        BY <1>0, <1>5, Zenon DEF ScanTypeOK
      <3>2. tenantsLeft' \in [Jobs -> SUBSET Tenants]
        BY <1>0, <1>5, Zenon DEF ScanTypeOK
      <3>3. rows' \in [Jobs -> SUBSET Subjects]
        <4>1. {s \in due : TenantOf[s] = t} \in SUBSET Subjects
          BY <1>2, Zenon
        <4>2. QED
          BY <1>0, <2>0, <4>1, Zenon DEF ScanTypeOK
      <3>4. QED
        BY <1>0, <1>1, <3>1, <3>2, <3>3, Zenon DEF ScanTypeOK
    <2>2. LedgerInv'
      BY <1>0, <1>1, Zenon DEF LedgerInv
    <2>3. \A j \in Jobs : j # g => /\ stage'[j] = stage[j] /\ attempt'[j] = attempt[j] /\ today'[j] = today[j]
                                   /\ tenantsLeft'[j] = tenantsLeft[j] /\ rows'[j] = rows[j] /\ steady'[j] = steady[j]
      BY <1>0, <1>1, <1>5, <2>0, Zenon DEF ScanTypeOK
    <2>4. JobInv(g)'
      <3>1. /\ stage'[g] = "emit" /\ tenantsLeft'[g] = tenantsLeft[g] \ {t}
            /\ rows'[g] = {s \in due : TenantOf[s] = t}
        BY <1>0, <1>5, <2>0, Zenon DEF ScanTypeOK
      <3>2. stage'[g] # "available" /\ stage'[g] # "completed" /\ rows[g] = {}
        <4>1. stage[g] # "emit" /\ stage'[g] # "available" /\ stage'[g] # "completed"
          BY <1>5, <3>1, Zenon
        <4>2. QED
          BY <1>0, <4>1, Zenon DEF JobInv
      <3>3. ASSUME NEW s \in steady[g] PROVE Covered(g, s)'
        <4>1. Covered(g, s) /\ s \in due
          BY <1>0, <1>2, <1>5, <2>0, <3>3, Zenon DEF JobInv
        <4>2. CASE TenantOf[s] = t
          BY <3>1, <4>1, <4>2, Zenon DEF Covered
        <4>3. CASE TenantOf[s] # t
          BY <1>1, <1>2, <3>1, <3>2, <4>1, <4>3, Zenon DEF Covered
        <4>4. QED
          BY <4>2, <4>3, Zenon
      <3>4. QED
        BY <1>1, <1>2, <2>0, <3>1, <3>2, <3>3, Zenon DEF JobInv
    <2>5. QED
      BY <1>0, <1>1, <2>1, <2>2, <2>3, <2>4, JobStep, Zenon DEF ScanInv
  <1>6. CASE ListSubjects(g)
    BY <1>4, <1>5, <1>6, Zenon DEF ListSubjects
  <1>7. QED
    BY <1>3, <1>6

\* EmitIfNew: the row of the ledger and the alert are written together.
LEMMA EmitSteps ==
    ASSUME StockAlertsAssumption, ScanInv, NEW g \in Jobs, EmitIfNew(g)
    PROVE  ScanInv'
  <1>0. ScanTypeOK /\ LedgerInv /\ (\A j \in Jobs : JobInv(j)) /\ JobInv(g)
    BY Zenon DEF ScanInv
  <1>1. stage[g] = "emit" /\ UNCHANGED <<due, day, attempt, today, tenantsLeft, steady, changes>>
    BY Zenon DEF EmitIfNew
  <1>2. ASSUME rows[g] = {}, stage' = [stage EXCEPT ![g] = "list"], UNCHANGED <<emissions, alerts, rows>>
        PROVE  ScanInv'
    <2>1. ScanTypeOK'
      <3>1. stage' \in [Jobs -> {"available", "tenants", "list", "emit", "completed", "discarded"}]
        BY <1>0, <1>2, Zenon DEF ScanTypeOK
      <3>2. QED
        BY <1>0, <1>1, <1>2, <3>1, Zenon DEF ScanTypeOK
    <2>2. LedgerInv'
      BY <1>0, <1>2, Zenon DEF LedgerInv
    <2>3. \A j \in Jobs : j # g => /\ stage'[j] = stage[j] /\ attempt'[j] = attempt[j] /\ today'[j] = today[j]
                                   /\ tenantsLeft'[j] = tenantsLeft[j] /\ rows'[j] = rows[j] /\ steady'[j] = steady[j]
      BY <1>0, <1>1, <1>2, Zenon DEF ScanTypeOK
    <2>4. JobInv(g)'
      <3>1. stage'[g] = "list"
        BY <1>0, <1>2, Zenon DEF ScanTypeOK
      <3>2. stage'[g] # "available" /\ stage'[g] # "completed"
        BY <3>1
      <3>3. QED
        BY <1>0, <1>1, <1>2, <3>1, <3>2, Zenon DEF JobInv, Covered
    <2>5. QED
      BY <1>0, <1>1, <1>2, <2>1, <2>2, <2>3, <2>4, JobStep, Zenon DEF ScanInv
  <1>3. ASSUME NEW s \in rows[g], rows' = [rows EXCEPT ![g] = @ \ {s}],
               emissions' = emissions \cup {<<s, today[g]>>},
               alerts' = IF <<s, today[g]>> \in emissions THEN alerts ELSE [alerts EXCEPT ![<<s, today[g]>>] = @ + 1],
               UNCHANGED stage
        PROVE  ScanInv'
    <2>1. PICK k \in Keys : k = <<s, today[g]>>
      <3>1. s \in Subjects /\ today[g] \in 1 .. MaxDay
        BY <1>0, Zenon DEF ScanTypeOK
      <3>2. QED
        BY <3>1, Zenon DEF Keys
    <2>2. alerts[k] \in Nat /\ alerts[k] + 1 \in Nat /\ (k \notin emissions => alerts[k] + 1 = 1)
      <3>1. alerts[k] \in Nat /\ (k \notin emissions => alerts[k] = 0)
        BY <1>0, Zenon DEF ScanTypeOK, LedgerInv
      <3>2. QED
        BY <3>1
    <2>3. alerts' \in [Keys -> Nat] /\ \A l \in Keys : alerts'[l] = IF l = k /\ k \notin emissions THEN 1 ELSE alerts[l]
      <3>1. CASE k \in emissions
        BY <1>0, <1>3, <2>1, <3>1, Zenon DEF ScanTypeOK
      <3>2. CASE k \notin emissions
        <4>1. alerts' = [alerts EXCEPT ![k] = alerts[k] + 1]
          BY <1>3, <2>1, <3>2, Zenon
        <4>2. QED
          BY <1>0, <2>2, <3>2, <4>1, Zenon DEF ScanTypeOK
      <3>3. QED
        BY <3>1, <3>2
    <2>4. LedgerInv'
      <3>1. BypassesRLS
        BY <1>0, <1>3, Zenon DEF JobInv
      <3>2. QED
        BY <1>0, <1>3, <2>1, <2>3, <3>1, Zenon DEF LedgerInv
    <2>5. ScanTypeOK'
      <3>1. rows' \in [Jobs -> SUBSET Subjects] /\ emissions' \subseteq Keys
        BY <1>0, <1>3, <2>1, Zenon DEF ScanTypeOK
      <3>2. QED
        BY <1>0, <1>1, <1>3, <2>3, <3>1, Zenon DEF ScanTypeOK
    <2>6. \A j \in Jobs : j # g => /\ stage'[j] = stage[j] /\ attempt'[j] = attempt[j] /\ today'[j] = today[j]
                                   /\ tenantsLeft'[j] = tenantsLeft[j] /\ rows'[j] = rows[j] /\ steady'[j] = steady[j]
      BY <1>0, <1>1, <1>3, Zenon DEF ScanTypeOK
    <2>7. JobInv(g)'
      <3>1. rows'[g] = rows[g] \ {s}
        BY <1>0, <1>3, Zenon DEF ScanTypeOK
      <3>2. BypassesRLS => \A x \in steady[g] : Covered(g, x)'
        BY <1>0, <1>1, <1>3, <3>1, Zenon DEF JobInv, Covered
      <3>3. QED
        BY <1>0, <1>1, <1>3, <3>1, <3>2, Zenon DEF JobInv
    <2>8. emissions \subseteq emissions'
      BY <1>3, Zenon
    <2>9. QED
      BY <1>0, <1>1, <2>4, <2>5, <2>6, <2>7, <2>8, JobStep, Zenon DEF ScanInv
  <1>4. QED
    BY <1>2, <1>3, Zenon DEF EmitIfNew

\* The scans keep the invariant, whatever the role they run as may see.
THEOREM ScanInvariant == ASSUME StockAlertsAssumption PROVE ScanSpec => []ScanInv
  <1>1. ScanInit => ScanInv
    BY ScanBegins
  <1>2. ScanInv /\ [ScanNext]_scanVars => ScanInv'
    <2> SUFFICES ASSUME ScanInv, [ScanNext]_scanVars PROVE ScanInv'
      OBVIOUS
    <2>1. CASE UNCHANGED scanVars
      <3>1. UNCHANGED <<due, day, emissions, alerts, stage, attempt, today, tenantsLeft, rows, steady, changes>>
        BY <2>1 DEF scanVars
      <3>2. QED
        BY <3>1, Zenon DEF ScanInv, ScanTypeOK, LedgerInv, JobInv, Covered
    <2>2. CASE ScanNext
      BY <2>2, WorldSteps, AttemptSteps, ListSteps, EmitSteps, Zenon DEF ScanNext
    <2>3. QED
      BY <2>1, <2>2
  <1>3. QED
    BY <1>1, <1>2, PTL DEF ScanSpec

\* What a scan does depends on the role of its pool (AlertScanRepository binds no scope).
\* Exempt from row-level security, a completed scan alerted every subject that was due from
\* its start to its end, and a subject gets one alert a day, exactly when the ledger says
\* so.  Bound by it, as leadkart_app is, every scan works through empty lists: nothing is
\* ever alerted.  Both hold for every number of jobs, tenants and subjects and however
\* often jobs fail and are retried.
THEOREM ScansFollowTheirRole ==
    ASSUME StockAlertsAssumption
    PROVE  ScanSpec => [](/\ BypassesRLS => ScanIsComplete
                          /\ ~ BypassesRLS => emissions = {} /\ \A k \in Keys : alerts[k] = 0)
  <1>1. ScanInv => (/\ BypassesRLS => ScanIsComplete
                    /\ ~ BypassesRLS => emissions = {} /\ \A k \in Keys : alerts[k] = 0)
    <2> SUFFICES ASSUME ScanInv
                 PROVE  /\ BypassesRLS => ScanIsComplete
                        /\ ~ BypassesRLS => emissions = {} /\ \A k \in Keys : alerts[k] = 0
      OBVIOUS
    <2>1. ASSUME BypassesRLS, NEW j \in Jobs, stage[j] = "completed", NEW s \in steady[j]
          PROVE  <<s, today[j]>> \in emissions
      <3>1. JobInv(j) /\ stage[j] # "emit"
        BY <2>1 DEF ScanInv
      <3>2. QED
        BY <2>1, <3>1, Zenon DEF JobInv, Covered
    <2>2. BypassesRLS => ScanIsComplete
      BY <2>1, Zenon DEF ScanInv, LedgerInv, ScanIsComplete
    <2>3. ~ BypassesRLS => emissions = {} /\ \A k \in Keys : alerts[k] = 0
      BY Zenon DEF ScanInv, LedgerInv
    <2>4. QED
      BY <2>2, <2>3, Zenon
  <1>2. QED
    BY <1>1, ScanInvariant, PTL
====
