---- MODULE SessionsProofs ----
(***************************************************************************)
(* The chain of refresh tokens, for every set of requests and however they *)
(* interleave; and what ends a session, for every set of requests that     *)
(* come one at a time.                                                     *)
(***************************************************************************)
EXTENDS Sessions, TLAPS

-----------------------------------------------------------------------------
(* The invariant, and the steps that write families and refresh tokens.     *)


Holding == {"update", "commit"}

\* Token rows that form chains of generations.
Linked(rows) ==
    \A t \in Tokens : rows[t] # NoRow =>
        /\ rows[t].generation = 0 <=> t = rows[t].family
        /\ rows[t].next # Live =>
              /\ rows[rows[t].next] # NoRow
              /\ rows[rows[t].next].family = rows[t].family
              /\ rows[rows[t].next].generation = rows[t].generation + 1

\* What a handler is about to write back is a chain of its family.  A stored token keeps
\* its family and its generation; a token that is not stored yet is the handler's own.
CopyInv(r) ==
    /\ Linked(mem[r].tokens)
    /\ \A t \in Tokens : mem[r].tokens[t] # NoRow =>
          /\ mem[r].tokens[t].family = fam[r]
          /\ tokens[t] = NoRow => t = r
          /\ tokens[t] # NoRow => /\ tokens[t].family = fam[r]
                                  /\ tokens[t].generation = mem[r].tokens[t].generation

StoreInv ==
    /\ Linked(tokens)
    /\ \A t \in Tokens : tokens[t] # NoRow => families[tokens[t].family] # NoRow

\* Where a request is, and what it has made of its token and its family by then.
ReqInv(r) ==
    /\ r \in Logins =>
          /\ pc[r] \in {"idle", "add", "rejected", "issue", "ok", "error"}
          /\ families[r] = NoRow <=> pc[r] \in {"idle", "add", "rejected"}
          /\ tokens[r] = NoRow <=> families[r] = NoRow
          /\ pc[r] = "add" => scope[r] \in Tenants
    /\ r \in Refreshes =>
          /\ pc[r] \in {"idle", "lookup"} \/ (pc[r] \in InTx /\ why[r] = "rotate") => tokens[r] = NoRow
          /\ pc[r] \in {"person", "membership", "issue", "ok"} => tokens[r] # NoRow
    /\ tok[r] # None => tokens[tok[r]] # NoRow
    /\ r \in Refreshes \cup Logouts /\ pc[r] \in InTx \cup {"person", "membership"} =>
          tok[r] # None /\ fam[r] = tokens[tok[r]].family
    /\ pc[r] \in InTx => fam[r] \in Logins
    /\ pc[r] \in InTx \cup {"list", "next"} /\ why[r] = "rotate" => r \in Refreshes
    /\ pc[r] \in {"tokens"} \cup Holding => families[fam[r]] # NoRow /\ mem[r] # NoRow
    /\ pc[r] \in Holding => CopyInv(r)

ChainInv == StoreInv /\ \A r \in Requests : ReqInv(r)

Alone == \A q, r \in Requests : pc[q] \in Running /\ pc[r] \in Running => q = r

\* A family has one token that is not consumed.
OneEnd ==
    \A f \in Logins : families[f] # NoRow =>
        \E t \in Tokens : \A u \in Tokens :
            tokens[u] # NoRow /\ tokens[u].family = f /\ tokens[u].next = Live <=> u = t

\* No other request than r ever gets past the token t.
Ended(t, r) == families[tokens[t].family].revoked # "no" \/ tokens[t].next = r

\* What a request leaves behind when it is over.
Rest(r) ==
    /\ r \in Refreshes /\ pc[r] = "rejected" /\ tok[r] # None =>
          Ended(tok[r], r) \/ (tokens[tok[r]].next = Live /\ tok[r] \in expired)
    /\ r \in Cascades => stamp[r] <= person.stamp
    /\ r \in Cascades /\ pc[r] = "ok" /\ scope[r] = None => \A f \in Active : stamp[f] >= stamp[r]

\* A handler's copy is the stored family, rotated or revoked.
Rotation(r) ==
    /\ why[r] = "rotate" /\ ~late[r]
    /\ families[fam[r]].revoked = "no" /\ mem[r].revoked = "no"
    /\ tokens[tok[r]].next = Live
    /\ \A t \in Tokens : mem[r].tokens[t] # NoRow =>
          mem[r].tokens[t].next = IF t = r THEN Live ELSE IF t = tok[r] THEN r ELSE tokens[t].next
    /\ mem[r].tokens[r] # NoRow /\ mem[r].tokens[tok[r]] # NoRow

Revocation(r) ==
    /\ mem[r].revoked # "no"
    /\ \A t \in Tokens : mem[r].tokens[t] # NoRow => tokens[t] # NoRow /\ mem[r].tokens[t].next = tokens[t].next

\* What a request knows while no other runs.
Run(r) ==
    /\ pc[r] = "add" => stamp[r] = person.stamp
    /\ pc[r] = "tokens" => mem[r].revoked = families[fam[r]].revoked
    /\ pc[r] \in Holding => Rotation(r) \/ Revocation(r)
    /\ r \in Refreshes /\ (pc[r] \in {"person", "membership"} \/ (pc[r] \in InTx /\ why[r] # "rotate")) =>
          tokens[tok[r]].next = r
    /\ r \in Refreshes /\ pc[r] \in InTx /\ why[r] = "rotate" =>
          IF late[r] THEN tok[r] \in expired
          ELSE \A q \in Refreshes : pc[q] = "rejected" /\ tok[q] = tok[r] => Ended(tok[r], q)
    /\ r \in Cascades /\ scope[r] = None /\ pc[r] \in {"next"} \cup InTx =>
          \A f \in Active : stamp[f] < stamp[r] => f \in todo[r] \/ (pc[r] \in InTx /\ f = fam[r])

SerialInv ==
    limit = 1 =>
        /\ Alone /\ OneEnd
        /\ \A r \in Requests : Rest(r) /\ (pc[r] \in Running => Run(r))

SessionsInv == TypeOK /\ ChainInv /\ SerialInv

\* Only the handler of r moves.
Others(r) ==
    \A q \in Requests \ {r} :
        /\ pc'[q] = pc[q] /\ tok'[q] = tok[q] /\ fam'[q] = fam[q] /\ why'[q] = why[q]
        /\ late'[q] = late[q] /\ todo'[q] = todo[q] /\ mem'[q] = mem[q]
        /\ scope'[q] = scope[q] /\ stamp'[q] = stamp[q]

\* What a commit does not undo.
Final ==
    limit = 1 =>
        /\ \A f \in Logins : families[f] # NoRow /\ families[f].revoked # "no" => families'[f].revoked # "no"
        /\ \A t \in Tokens : tokens[t] # NoRow /\ tokens[t].next # Live => tokens'[t].next = tokens[t].next

\* A stored row stays, in its family and its generation, and only r adds one.
Grows(r) ==
    /\ \A f \in Logins : f # r => (families'[f] = NoRow <=> families[f] = NoRow)
    /\ \A f \in Logins : families[f] # NoRow => families'[f] # NoRow
    /\ \A t \in Tokens : t # r => (tokens'[t] = NoRow <=> tokens[t] = NoRow)
    /\ \A t \in Tokens : tokens[t] # NoRow =>
          /\ tokens'[t] # NoRow /\ tokens'[t].family = tokens[t].family
          /\ tokens'[t].generation = tokens[t].generation

\* The kinds of requests are different.
LEMMA Kinds ==
    /\ \A r \in Logins : r \in Requests /\ r \in Tokens /\ r \notin Refreshes \cup Logouts \cup Batches
    /\ \A r \in Refreshes : r \in Requests /\ r \in Tokens /\ r \notin Logins \cup Logouts \cup SessionRevokes \cup Batches
    /\ \A r \in Logouts : r \in Requests /\ r \notin Tokens \cup Batches
    /\ \A r \in SessionRevokes : r \in Requests /\ r \notin Tokens \cup Logouts \cup Batches
    /\ \A r \in SignOuts : r \in Requests /\ r \notin Tokens \cup Logouts \cup Cascades
    /\ \A r \in Cascades : r \in Requests /\ r \notin Tokens \cup Logouts \cup SessionRevokes \cup SignOuts
  BY SessionsAssumption DEF Requests, Tokens, Batches

-----------------------------------------------------------------------------
(* The steps that write.                                                    *)

\* A handler that does not move keeps what it knows of rows that only grow.
LEMMA OthersKept ==
    ASSUME SessionsInv, NEW r \in Requests, Others(r), Grows(r), NEW q \in Requests, q # r
    PROVE  ReqInv(q)'
  <1>1. TypeOK /\ ReqInv(q)
    BY DEF SessionsInv, ChainInv
  <1>2. pc'[q] = pc[q] /\ tok'[q] = tok[q] /\ fam'[q] = fam[q] /\ why'[q] = why[q] /\ mem'[q] = mem[q]
        /\ scope'[q] = scope[q]
    BY DEF Others
  <1>3. tok[q] # None => tok[q] \in Tokens /\ tokens'[tok[q]] # NoRow /\ tokens'[tok[q]].family = tokens[tok[q]].family
    BY <1>1 DEF TypeOK, ReqInv, Grows
  <1>4. q \in Tokens => (tokens'[q] = NoRow <=> tokens[q] = NoRow)
    BY DEF Grows
  <1>5. q \in Logins => (families'[q] = NoRow <=> families[q] = NoRow)
    BY DEF Grows
  <1>6. pc[q] \in {"tokens"} \cup Holding => families'[fam[q]] # NoRow
    BY <1>1 DEF ReqInv, Grows, InTx, Holding
  <1>7. pc[q] \in Holding => CopyInv(q)'
    <2>1. SUFFICES ASSUME CopyInv(q) PROVE CopyInv(q)'
      BY <1>1 DEF ReqInv
    <2>2. Linked(mem[q].tokens)'
      BY <1>2, <2>1 DEF CopyInv, Linked
    <2>3. \A t \in Tokens : mem[q].tokens[t] # NoRow => 
             /\ mem[q].tokens[t].family = fam[q]
             /\ tokens'[t] = NoRow => t = q
             /\ tokens'[t] # NoRow => /\ tokens'[t].family = fam[q]
                                      /\ tokens'[t].generation = mem[q].tokens[t].generation
      BY <2>1 DEF CopyInv, Grows
    <2>4. QED
      BY <1>2, <2>2, <2>3 DEF CopyInv
  <1>8. QED
    BY <1>1, <1>2, <1>3, <1>4, <1>5, <1>6, <1>7, Kinds DEF ReqInv

\* NewFamily and Add.
LEMMA AddFamilyStep ==
    ASSUME SessionsInv, NEW r \in Logins, AddFamily(r), UNCHANGED limit
    PROVE  SessionsInv' /\ Final
  <1> DEFINE fr == [tenant |-> scope[r], revoked |-> "no"]
             tr == [family |-> r, generation |-> 0, next |-> Live]
             ev == [type |-> "Created", family |-> r]
  <1>1. /\ pc[r] = "add" /\ pc[r] \in Running /\ pc' = [pc EXCEPT ![r] = "issue"]
        /\ families' = [families EXCEPT ![r] = fr] /\ tokens' = [tokens EXCEPT ![r] = tr]
        /\ outbox' = outbox \cup {ev}
        /\ UNCHANGED <<lock, person, expired, tok, fam, why, late, todo, mem, scope, stamp>>
    BY DEF AddFamily, Goto, handler, Running
  <1>2. r \in Requests /\ r \in Tokens /\ r \notin Refreshes \cup Logouts \cup Batches
    BY Kinds
  <1>3. /\ TypeOK /\ person.stamp \in Nat /\ ReqInv(r) /\ StoreInv
        /\ families[r] = NoRow /\ tokens[r] = NoRow /\ scope[r] \in Tenants
    BY <1>1, <1>2 DEF SessionsInv, ChainInv, TypeOK, ReqInv
  <1>4. /\ fr \in FamilyRows /\ tr \in TokenRows /\ ev \in Events
        /\ fr.revoked = "no" /\ tr.family = r /\ tr.generation = 0 /\ tr.next = Live
    BY <1>3 DEF FamilyRows, TokenRows, Reasons, Events
  <1>5. fr # NoRow /\ tr # NoRow
    BY <1>4, SessionsAssumption
  <1> HIDE DEF fr, tr, ev
  <1>6. TypeOK'
    BY <1>1, <1>2, <1>3, <1>4 DEF TypeOK, Running
  <1>7. Others(r) /\ pc'[r] = "issue"
    BY <1>1, <1>2, <1>3 DEF TypeOK, Others
  <1>8. /\ \A f \in Logins : families'[f] = IF f = r THEN fr ELSE families[f]
        /\ \A t \in Tokens : tokens'[t] = IF t = r THEN tr ELSE tokens[t]
    BY <1>1, <1>2, <1>3 DEF TypeOK
  <1>9. Grows(r)
    BY <1>3, <1>5, <1>8 DEF Grows
  <1>10. \A t \in Tokens : tokens[t] # NoRow => /\ t # r /\ tokens[t].family \in Logins /\ tokens[t].family # r
                                               /\ tokens[t].next # r /\ tokens[t].next \in Tokens \cup {Live}
    BY <1>2, <1>3, SessionsAssumption DEF StoreInv, Linked, TypeOK, TokenRows
  <1>11. StoreInv'
    <2>1. Linked(tokens)'
      BY <1>2, <1>3, <1>4, <1>8, <1>10 DEF Linked, StoreInv
    <2>2. \A t \in Tokens : tokens'[t] # NoRow => families'[tokens'[t].family] # NoRow
      BY <1>3, <1>4, <1>5, <1>8, <1>10 DEF StoreInv
    <2>3. QED
      BY <2>1, <2>2 DEF StoreInv
  <1>12. ReqInv(r)'
    BY <1>1, <1>2, <1>3, <1>5, <1>7, <1>8, <1>10 DEF ReqInv, InTx, Holding, TypeOK
  <1>13. \A q \in Requests : ReqInv(q)'
    BY <1>2, <1>7, <1>9, <1>12, OthersKept
  <1>14. ASSUME limit = 1
         PROVE  Alone' /\ OneEnd' /\ \A q \in Requests : Rest(q)' /\ (pc'[q] \in Running => Run(q)')
    <2>1. \A q \in Requests \ {r} : pc[q] \notin Running /\ pc'[q] \notin Running
      BY <1>1, <1>2, <1>7, <1>14 DEF SessionsInv, SerialInv, Alone, Others
    <2>2. Alone'
      BY <1>2, <2>1 DEF Alone
    <2>3. OneEnd'
      <3>1. SUFFICES ASSUME NEW f \in Logins, families'[f] # NoRow
                     PROVE  \E t \in Tokens : \A u \in Tokens :
                               tokens'[u] # NoRow /\ tokens'[u].family = f /\ tokens'[u].next = Live <=> u = t
        BY DEF OneEnd
      <3>2. CASE f = r
        BY <1>2, <1>4, <1>5, <1>8, <1>10, <3>2
      <3>3. CASE f # r
        <4>1. PICK t \in Tokens : \A u \in Tokens :
                 tokens[u] # NoRow /\ tokens[u].family = f /\ tokens[u].next = Live <=> u = t
          BY <1>8, <1>14, <3>1, <3>3 DEF SessionsInv, SerialInv, OneEnd
        <4>2. QED
          BY <1>3, <1>4, <1>8, <3>3, <4>1
      <3>4. QED
        BY <3>2, <3>3
    <2>4. ASSUME NEW q \in Requests PROVE Rest(q)'
      <3>1. Rest(q) /\ ReqInv(q) /\ Run(r)
        BY <1>1, <1>2, <1>14 DEF SessionsInv, SerialInv, ChainInv
      <3>2. q \in Refreshes /\ pc'[q] = "rejected" /\ tok[q] # None =>
               /\ tok[q] \in Tokens /\ tokens'[tok[q]] = tokens[tok[q]] /\ pc[q] = "rejected"
               /\ families'[tokens[tok[q]].family] = families[tokens[tok[q]].family]
        <4>1. r \notin Refreshes /\ tok \in [Requests -> Tokens \cup {None}]
          BY <1>2, <1>3, Kinds, Zenon DEF TypeOK
        <4>2. q # r => pc'[q] = pc[q]
          BY <1>7, Zenon DEF Others
        <4>3. tok[q] # None => tok[q] \in Tokens /\ tokens[tok[q]] # NoRow
          BY <3>1, <4>1, Zenon DEF ReqInv
        <4>4. tok[q] # None => /\ tokens'[tok[q]] = tokens[tok[q]]
                               /\ families'[tokens[tok[q]].family] = families[tokens[tok[q]].family]
          BY <1>8, <1>10, <4>3, Zenon
        <4>5. QED
          BY <4>1, <4>2, <4>3, <4>4, Zenon
      <3>3. \A f \in Logins : f \in Active' => f = r \/ f \in Active
        BY <1>8 DEF Active
      <3>4. stamp[r] = person.stamp
        BY <1>1, <3>1, Zenon DEF Run
      <3>5. stamp[q] \in Nat /\ person.stamp \in Nat
        <4>1. /\ stamp \in [Requests -> Nat]
              /\ person \in [active : BOOLEAN, tenant : Tenants \cup {None}, stamp : Nat]
          BY <1>3, Zenon DEF TypeOK
        <4>2. QED
          BY <4>1
      <3>6. q \in Cascades => pc'[q] = pc[q] /\ stamp[q] <= person.stamp
        BY <1>2, <1>7, <3>1, Zenon DEF Others, Rest, Batches
      <3>7. q \in Cascades /\ pc'[q] = "ok" /\ scope[q] = None => \A f \in Active' : stamp[f] >= stamp[q]
        BY <3>1, <3>3, <3>4, <3>5, <3>6 DEF Rest, Active
      <3>8. QED
        BY <1>1, <3>1, <3>2, <3>6, <3>7, Zenon DEF Rest, Ended
    <2>5. Run(r)'
      BY <1>2, <1>7 DEF Run, InTx, Holding, Batches
    <2>6. QED
      BY <2>1, <2>2, <2>3, <2>4, <2>5
  <1>15. Final
    BY <1>3, <1>8 DEF Final
  <1>16. QED
    BY <1>6, <1>11, <1>13, <1>14, <1>15 DEF SessionsInv, ChainInv, SerialInv

\* The rows of a family that a handler has rotated or revoked.
LEMMA CommitRows ==
    ASSUME SessionsInv, NEW r \in Requests \ Logins, Commit(r), UNCHANGED limit
    PROVE  /\ TypeOK' /\ Others(r) /\ Grows(r) /\ StoreInv' /\ ReqInv(r)'
           /\ \A f \in Logins : f # fam[r] => families'[f] = families[f]
           /\ families'[fam[r]].revoked = mem[r].revoked
           /\ \A t \in Tokens : tokens'[t] = IF mem[r].tokens[t] # NoRow THEN mem[r].tokens[t] ELSE tokens[t]
           /\ fam[r] \in Logins /\ families[fam[r]] # NoRow /\ pc[r] = "commit" /\ pc'[r] = After(r, Minted(r))
           /\ UNCHANGED <<person, expired, tok, fam, why, late, todo, scope, stamp>>
  <1>1. /\ pc[r] = "commit" /\ pc[r] \in InTx /\ pc[r] \in Holding
        /\ UNCHANGED <<person, expired, tok, fam, why, late, todo, scope, stamp>>
    BY DEF Commit, InTx, Holding
  <1>2. /\ TypeOK /\ StoreInv /\ ReqInv(r) /\ CopyInv(r) /\ fam[r] \in Logins /\ families[fam[r]] # NoRow
        /\ mem[r] # NoRow
    BY <1>1 DEF SessionsInv, ChainInv, ReqInv
  <1> DEFINE F == fam[r]
             m == mem[r]
  <1>3. /\ m \in Aggregates /\ m.tokens \in [Tokens -> TokenRows \cup {NoRow}] /\ m.events \subseteq Events
        /\ m.revoked \in Reasons \cup {"no"}
    BY <1>2 DEF TypeOK, Aggregates
  <1>4. /\ families' = [families EXCEPT ![F].revoked = m.revoked]
        /\ tokens' = [t \in Tokens |-> IF m.tokens[t] # NoRow THEN m.tokens[t] ELSE tokens[t]]
        /\ outbox' = outbox \cup m.events
        /\ pc' = [pc EXCEPT ![r] = After(r, Minted(r))] /\ mem' = [mem EXCEPT ![r] = NoRow]
    BY DEF Commit
  <1> HIDE DEF F, m
  <1>5. F \in Logins /\ families[F] \in FamilyRows
    BY <1>2 DEF F, TypeOK
  <1>6. /\ \A f \in Logins : f # F => families'[f] = families[f]
        /\ families'[F] \in FamilyRows /\ families'[F].revoked = m.revoked
        /\ families' \in [Logins -> FamilyRows \cup {NoRow}]
    BY <1>2, <1>3, <1>4, <1>5 DEF TypeOK, FamilyRows
  <1>7. /\ \A t \in Tokens : tokens'[t] = IF m.tokens[t] # NoRow THEN m.tokens[t] ELSE tokens[t]
        /\ tokens' \in [Tokens -> TokenRows \cup {NoRow}]
    BY <1>2, <1>3, <1>4 DEF TypeOK
  <1>8. lock' \in [Logins -> Requests \cup {Free}]
    BY <1>2 DEF Commit, Unlock, TypeOK
  <1>9. After(r, Minted(r)) \in {"next", "ok", "person", "rejected"}
    BY DEF After
  <1>10. TypeOK'
    BY <1>1, <1>2, <1>3, <1>4, <1>6, <1>7, <1>8, <1>9 DEF TypeOK, Running, Outcomes
  <1>11. Others(r) /\ pc'[r] = After(r, Minted(r)) /\ mem'[r] = NoRow
    BY <1>1, <1>2, <1>4 DEF TypeOK, Others
  <1>12. families'[F] # NoRow
    BY <1>6, SessionsAssumption
  <1>13. /\ Linked(m.tokens)
         /\ \A t \in Tokens : m.tokens[t] # NoRow =>
               /\ m.tokens[t].family = F
               /\ tokens[t] = NoRow => t = r
               /\ tokens[t] # NoRow => tokens[t].family = F /\ tokens[t].generation = m.tokens[t].generation
    BY <1>2 DEF CopyInv, m, F
  <1>14. Grows(r)
    BY <1>2, <1>5, <1>6, <1>7, <1>12, <1>13 DEF Grows, F
  <1>15. \A t \in Tokens : /\ tokens[t] # NoRow => tokens[t].next \in Tokens \cup {Live} /\ tokens[t].family \in Logins
                           /\ m.tokens[t] # NoRow => m.tokens[t].next \in Tokens \cup {Live}
    BY <1>2, <1>3 DEF TypeOK, TokenRows
  <1>16. Linked(tokens)'
    <2>1. SUFFICES ASSUME NEW t \in Tokens, tokens'[t] # NoRow
                   PROVE  /\ tokens'[t].generation = 0 <=> t = tokens'[t].family
                          /\ tokens'[t].next # Live =>
                               /\ tokens'[tokens'[t].next] # NoRow
                               /\ tokens'[tokens'[t].next].family = tokens'[t].family
                               /\ tokens'[tokens'[t].next].generation = tokens'[t].generation + 1
      BY DEF Linked
    <2>2. CASE m.tokens[t] # NoRow
      BY <1>7, <1>13, <1>15, <2>2 DEF Linked
    <2>3. CASE m.tokens[t] = NoRow
      <3>1. tokens'[t] = tokens[t] /\ tokens[t] # NoRow
        BY <1>7, <2>1, <2>3
      <3>2. tokens[t].generation = 0 <=> t = tokens[t].family
        BY <1>2, <3>1 DEF StoreInv, Linked
      <3>3. ASSUME tokens[t].next # Live
            PROVE  /\ tokens[t].next \in Tokens /\ tokens[tokens[t].next] # NoRow
                   /\ tokens[tokens[t].next].family = tokens[t].family
                   /\ tokens[tokens[t].next].generation = tokens[t].generation + 1
        BY <1>2, <1>15, <3>1, <3>3 DEF StoreInv, Linked
      <3>4. QED
        BY <1>14, <3>1, <3>2, <3>3 DEF Grows
    <2>4. QED
      BY <2>2, <2>3
  <1>17. StoreInv'
    <2>1. \A t \in Tokens : tokens'[t] # NoRow => families'[tokens'[t].family] # NoRow
      BY <1>2, <1>7, <1>12, <1>13, <1>14, <1>15 DEF StoreInv, Grows
    <2>2. QED
      BY <1>16, <2>1 DEF StoreInv
  <1>18. ReqInv(r)'
    <2>1. r \in Requests /\ r \notin Logins
      OBVIOUS
    <2>2. tok[r] # None => tokens'[tok[r]] # NoRow /\ tokens'[tok[r]].family = tokens[tok[r]].family
      <3>1. tok \in [Requests -> Tokens \cup {None}] /\ (tok[r] # None => tokens[tok[r]] # NoRow)
        BY <1>2, Zenon DEF ReqInv, TypeOK
      <3>2. tok[r] # None => tok[r] \in Tokens
        BY <3>1, Zenon
      <3>3. QED
        BY <1>14, <3>1, <3>2, Zenon DEF Grows
    <2>3. r \in Refreshes /\ pc'[r] = "person" => tokens'[r] # NoRow
      BY <1>7, <1>11 DEF After, Minted, m, Batches
    <2>4. r \in Refreshes \/ pc'[r] \notin {"person", "rejected"}
      BY <1>11 DEF After
    <2>5. r \in Refreshes => pc'[r] \in {"person", "rejected"}
      BY <1>11, Kinds DEF After
    <2>6. pc'[r] \notin {"idle", "lookup", "membership", "issue", "list"} \cup InTx
      BY <1>9, <1>11 DEF InTx
    <2>7. why[r] = "rotate" => r \in Refreshes
      BY <1>1, <1>2 DEF ReqInv
    <2>8. QED
      BY <1>1, <1>2, <2>1, <2>2, <2>3, <2>4, <2>5, <2>6, <2>7, Zenon DEF ReqInv, InTx, Holding
  <1>19. QED
    BY <1>1, <1>2, <1>6, <1>7, <1>10, <1>11, <1>14, <1>17, <1>18 DEF m, F

\* A rotation that commits while no other request runs.
LEMMA CommitRotation ==
    ASSUME SessionsInv, NEW r \in Requests \ Logins, Commit(r), UNCHANGED limit, limit = 1, Rotation(r)
    PROVE  Final /\ OneEnd' /\ Run(r)' /\ \A q \in Requests : Rest(q)'
  <1> DEFINE F == fam[r]
             T == tok[r]
  <1>1. /\ TypeOK' /\ Others(r) /\ Grows(r)
        /\ \A f \in Logins : f # F => families'[f] = families[f]
        /\ families'[F].revoked = mem[r].revoked
        /\ \A t \in Tokens : tokens'[t] = IF mem[r].tokens[t] # NoRow THEN mem[r].tokens[t] ELSE tokens[t]
        /\ F \in Logins /\ families[F] # NoRow /\ pc[r] = "commit" /\ pc'[r] = After(r, Minted(r))
        /\ UNCHANGED <<person, expired, tok, fam, why, late, todo, scope, stamp>>
    BY CommitRows
  <1>2. /\ TypeOK /\ StoreInv /\ ReqInv(r) /\ CopyInv(r) /\ Run(r) /\ OneEnd
        /\ \A q \in Requests : Rest(q) /\ ReqInv(q)
    BY <1>1, Zenon DEF SessionsInv, ChainInv, SerialInv, ReqInv, Holding, Running, InTx
  <1>3. /\ r \in Refreshes /\ r \in Tokens /\ r \notin Batches /\ T \in Tokens /\ tokens[r] = NoRow
        /\ tokens[T] # NoRow /\ F = tokens[T].family
    <2>1. why[r] = "rotate" /\ pc[r] \in InTx
      BY <1>1, Zenon DEF Rotation, InTx
    <2>2. r \in Refreshes
      BY <1>2, <2>1, Zenon DEF ReqInv
    <2>3. T # None /\ F = tokens[T].family /\ tokens[T] # NoRow /\ tokens[r] = NoRow
      BY <1>2, <2>1, <2>2, Zenon DEF ReqInv
    <2>4. T \in Tokens
      BY <1>2, <2>3, Zenon DEF TypeOK
    <2>5. QED
      BY <2>2, <2>3, <2>4, Kinds, Zenon
  <1>4. pc'[r] = "person"
    BY <1>1, <1>3, Zenon DEF After, Minted, Rotation
  <1>5. /\ families[F].revoked = "no" /\ families'[F].revoked = "no" /\ tokens[T].next = Live /\ late[r] = FALSE
        /\ Live \notin Tokens
    <2>1. families[F].revoked = "no" /\ mem[r].revoked = "no" /\ tokens[T].next = Live /\ ~late[r]
      BY Zenon DEF Rotation
    <2>2. families'[F].revoked = "no"
      BY <1>1, <2>1, Zenon
    <2>3. late[r] \in BOOLEAN
      BY <1>2, Zenon DEF TypeOK
    <2>4. QED
      BY <2>1, <2>2, <2>3, SessionsAssumption, Zenon
  <1>6. \A t \in Tokens : tokens'[t] # NoRow =>
           tokens'[t].next = IF t = r THEN Live ELSE IF t = T THEN r ELSE tokens[t].next
    <2>1. ASSUME NEW t \in Tokens PROVE tokens'[t] = IF mem[r].tokens[t] # NoRow THEN mem[r].tokens[t] ELSE tokens[t]
      BY <1>1, Zenon
    <2>2. ASSUME NEW t \in Tokens, mem[r].tokens[t] # NoRow
          PROVE  mem[r].tokens[t].next = IF t = r THEN Live ELSE IF t = T THEN r ELSE tokens[t].next
      BY <2>2, Zenon DEF Rotation
    <2>3. mem[r].tokens[r] # NoRow /\ mem[r].tokens[T] # NoRow
      BY Zenon DEF Rotation
    <2>4. QED
      BY <1>3, <2>1, <2>2, <2>3, Zenon
  <1>7. tokens'[r] # NoRow /\ tokens'[r].family = F
    <2>1. mem[r].tokens[r] # NoRow /\ mem[r].tokens[r].family = F
      BY <1>2, <1>3, Zenon DEF Rotation, CopyInv
    <2>2. QED
      BY <1>1, <1>3, <2>1, Zenon
  <1>8. ASSUME NEW t \in Tokens, tokens[t] # NoRow
        PROVE  /\ t # r /\ tokens'[t] # NoRow
               /\ tokens'[t].family = tokens[t].family /\ tokens[t].family \in Logins
    <2>1. tokens[t] \in TokenRows
      BY <1>2, <1>8, Zenon DEF TypeOK
    <2>2. tokens[t].family \in Logins
      BY <2>1 DEF TokenRows
    <2>3. QED
      BY <1>1, <1>3, <1>8, <2>2, Zenon DEF Grows
  <1>9. \A t \in Tokens : t # r /\ tokens'[t] # NoRow => tokens[t] # NoRow
    BY <1>1, Zenon DEF Grows
  <1> HIDE DEF F, T
  <1>10. Final
    BY <1>1, <1>5, <1>6, <1>8, Zenon DEF Final
  <1>11. OneEnd'
    <2>1. SUFFICES ASSUME NEW f \in Logins, families'[f] # NoRow
                   PROVE  \E t \in Tokens : \A u \in Tokens :
                             tokens'[u] # NoRow /\ tokens'[u].family = f /\ tokens'[u].next = Live <=> u = t
      BY DEF OneEnd
    <2>2. families[f] # NoRow
      BY <1>1, <2>1, Zenon
    <2>3. PICK t \in Tokens : \A u \in Tokens :
             tokens[u] # NoRow /\ tokens[u].family = f /\ tokens[u].next = Live <=> u = t
      BY <1>2, <2>1, <2>2 DEF OneEnd
    <2>4. CASE f = F
      <3>1. t = T
        BY <1>3, <1>5, <2>3, <2>4
      <3>2. \A u \in Tokens : tokens'[u] # NoRow /\ tokens'[u].family = f /\ tokens'[u].next = Live <=> u = r
        BY <1>3, <1>5, <1>6, <1>7, <1>8, <1>9, <2>3, <2>4, <3>1
      <3>3. QED
        BY <1>3, <3>2
    <2>5. CASE f # F
      <3>1. \A u \in Tokens : tokens'[u] # NoRow /\ tokens'[u].family = f /\ tokens'[u].next = Live <=> u = t
        BY <1>3, <1>6, <1>7, <1>8, <1>9, <2>3, <2>5
      <3>2. QED
        BY <3>1
    <2>6. QED
      BY <2>4, <2>5
  <1>12. Active' = Active
    <2>1. \A f \in Logins : families'[f] # NoRow <=> families[f] # NoRow
      BY <1>1, Zenon DEF Grows
    <2>2. \A f \in Logins : families[f] # NoRow => families'[f].revoked = families[f].revoked
      BY <1>1, <1>5, Zenon
    <2>3. QED
      BY <2>1, <2>2 DEF Active
  <1>13. ASSUME NEW q \in Requests PROVE Rest(q)'
    <2>1. ASSUME q \in Refreshes, pc'[q] = "rejected", tok[q] # None
          PROVE  (Ended(tok[q], q) \/ (tokens[tok[q]].next = Live /\ tok[q] \in expired))'
      <3>1. q # r /\ pc[q] = "rejected"
        BY <1>1, <1>4, <2>1, Zenon DEF Others
      <3>2. tok[q] \in Tokens /\ tokens[tok[q]] # NoRow
        BY <1>2, <2>1, Zenon DEF ReqInv, TypeOK
      <3>3. tok[q] # T
        <4>1. SUFFICES ASSUME tok[q] = T PROVE FALSE
          OBVIOUS
        <4>2. Ended(T, q)
          BY <1>1, <1>2, <1>3, <1>5, <2>1, <3>1, <4>1, Zenon DEF Run, InTx, T, Rotation
        <4>3. QED
          BY <1>3, <1>5, <2>1, <4>2, Zenon DEF Ended, Tokens
      <3>4. tokens'[tok[q]].next = tokens[tok[q]].next /\ tokens'[tok[q]].family = tokens[tok[q]].family
        BY <1>3, <1>6, <1>8, <3>2, <3>3, Zenon
      <3>5. families'[tokens[tok[q]].family].revoked = families[tokens[tok[q]].family].revoked
        BY <1>1, <1>5, <1>8, <3>2, Zenon
      <3>6. Ended(tok[q], q) \/ (tokens[tok[q]].next = Live /\ tok[q] \in expired)
        BY <1>2, <2>1, <3>1, Zenon DEF Rest
      <3>7. QED
        BY <1>1, <3>4, <3>5, <3>6, Zenon DEF Ended
    <2>2. q \in Cascades => Rest(q) /\ pc'[q] = pc[q]
      <3>1. q \in Cascades => q # r
        BY <1>3, Kinds, Zenon
      <3>2. QED
        BY <1>1, <1>2, <3>1, Zenon DEF Others
    <2>3. QED
      BY <1>1, <1>12, <2>1, <2>2, Zenon DEF Rest
  <1>14. Run(r)'
    <2>1. tokens'[T].next = r
      BY <1>3, <1>6, <1>8, Zenon
    <2>2. QED
      BY <1>1, <1>3, <1>4, <2>1, Zenon DEF Run, InTx, Holding, Batches, T
  <1>15. QED
    BY <1>10, <1>11, <1>13, <1>14

\* A revocation that commits while no other request runs.
LEMMA CommitRevocation ==
    ASSUME SessionsInv, NEW r \in Requests \ Logins, Commit(r), UNCHANGED limit, limit = 1, Revocation(r)
    PROVE  Final /\ OneEnd' /\ (pc'[r] \in Running => Run(r)') /\ \A q \in Requests : Rest(q)'
  <1> DEFINE F == fam[r]
  <1>1. /\ TypeOK' /\ Others(r) /\ Grows(r)
        /\ \A f \in Logins : f # F => families'[f] = families[f]
        /\ families'[F].revoked = mem[r].revoked
        /\ \A t \in Tokens : tokens'[t] = IF mem[r].tokens[t] # NoRow THEN mem[r].tokens[t] ELSE tokens[t]
        /\ F \in Logins /\ families[F] # NoRow /\ pc[r] = "commit" /\ pc'[r] = After(r, Minted(r))
        /\ UNCHANGED <<person, expired, tok, fam, why, late, todo, scope, stamp>>
    BY CommitRows
  <1>2. /\ TypeOK /\ ReqInv(r) /\ Run(r) /\ OneEnd
        /\ \A q \in Requests : Rest(q) /\ ReqInv(q)
    BY <1>1 DEF SessionsInv, ChainInv, SerialInv, Running, InTx
  <1>3. families'[F].revoked # "no"
    BY <1>1 DEF Revocation
  <1>4. \A t \in Tokens : /\ tokens'[t] # NoRow <=> tokens[t] # NoRow
                          /\ tokens[t] # NoRow => /\ tokens'[t].next = tokens[t].next
                                                  /\ tokens'[t].family = tokens[t].family
                                                  /\ tokens[t].family \in Logins
    <2> SUFFICES ASSUME NEW t \in Tokens
                 PROVE  /\ tokens'[t] # NoRow <=> tokens[t] # NoRow
                        /\ tokens[t] # NoRow => /\ tokens'[t].next = tokens[t].next
                                                /\ tokens'[t].family = tokens[t].family
                                                /\ tokens[t].family \in Logins
      BY Zenon
    <2>1. mem[r].tokens[t] # NoRow => tokens[t] # NoRow /\ mem[r].tokens[t].next = tokens[t].next
      BY Zenon DEF Revocation
    <2>2. tokens'[t] = IF mem[r].tokens[t] # NoRow THEN mem[r].tokens[t] ELSE tokens[t]
      BY <1>1, Zenon
    <2>3. tokens[t] # NoRow => tokens'[t].family = tokens[t].family
      BY <1>1, Zenon DEF Grows
    <2>4. tokens[t] # NoRow => tokens[t].family \in Logins
      <3>1. tokens \in [Tokens -> TokenRows \cup {NoRow}]
        BY <1>2, Zenon DEF TypeOK
      <3>2. tokens[t] # NoRow => tokens[t] \in TokenRows
        BY <3>1, Zenon
      <3>3. QED
        BY <3>2 DEF TokenRows
    <2>5. CASE mem[r].tokens[t] # NoRow
      <3>1. tokens'[t] = mem[r].tokens[t] /\ tokens[t] # NoRow /\ mem[r].tokens[t].next = tokens[t].next
        BY <2>1, <2>2, <2>5, Zenon
      <3>2. QED
        BY <2>3, <2>4, <2>5, <3>1, Zenon
    <2>6. CASE mem[r].tokens[t] = NoRow
      BY <2>2, <2>4, <2>6, Zenon
    <2>7. QED
      BY <2>5, <2>6, Zenon
  <1>5. r \in Refreshes => pc'[r] = "rejected" \/ why[r] # "rotate"
    BY <1>1, <1>2, Kinds, Zenon DEF After, Minted, Revocation, ReqInv, InTx
  <1>6. r \in Refreshes => pc'[r] = "rejected"
    BY <1>1, <1>5, Kinds, Zenon DEF After
  <1>7. r \in Cascades => pc'[r] = "next"
    BY <1>1, Zenon DEF After, Batches
  <1>8. r \notin Refreshes => pc'[r] \in {"next", "ok"}
    BY <1>1, Zenon DEF After
  <1>9. \A f \in Logins : f \in Active' => f \in Active /\ f # F
    BY <1>1, <1>3 DEF Active
  <1> HIDE DEF F
  <1>10. Final
    BY <1>1, <1>3, <1>4 DEF Final
  <1>11. OneEnd'
    <2>1. \A f \in Logins : families'[f] # NoRow => families[f] # NoRow
      BY <1>1, Zenon
    <2>2. QED
      BY <1>2, <1>4, <2>1 DEF OneEnd
  <1>12. ASSUME NEW q \in Requests PROVE Rest(q)'
    <2>1. ASSUME q \in Refreshes, pc'[q] = "rejected", tok[q] # None
          PROVE  (Ended(tok[q], q) \/ (tokens[tok[q]].next = Live /\ tok[q] \in expired))'
      <3>1. tok[q] \in Tokens /\ tokens[tok[q]] # NoRow
        BY <1>2, <2>1, Zenon DEF ReqInv, TypeOK
      <3>2. CASE q = r
        <4>1. tokens'[tok[q]].family = F
          BY <1>1, <1>2, <1>4, <2>1, <3>1, <3>2, Zenon DEF ReqInv, InTx, F
        <4>2. QED
          BY <1>1, <1>3, <4>1, Zenon DEF Ended
      <3>3. CASE q # r
        <4>1. Ended(tok[q], q) \/ (tokens[tok[q]].next = Live /\ tok[q] \in expired)
          BY <1>1, <1>2, <2>1, <3>3, Zenon DEF Rest, Others
        <4>2. families'[tokens[tok[q]].family].revoked = families[tokens[tok[q]].family].revoked
              \/ families'[tokens[tok[q]].family].revoked # "no"
          BY <1>1, <1>3, <1>4, <3>1, Zenon
        <4>3. QED
          BY <1>1, <1>4, <3>1, <4>1, <4>2, Zenon DEF Ended
      <3>4. QED
        BY <3>2, <3>3
    <2>2. q \in Cascades => Rest(q) /\ (pc'[q] = "ok" => pc[q] = "ok")
      BY <1>1, <1>2, <1>7, Zenon DEF Others
    <2>3. QED
      BY <1>1, <1>9, <2>1, <2>2, Zenon DEF Rest, Active
  <1>13. ASSUME r \in Cascades, scope[r] = None
         PROVE  (\A f \in Active : stamp[f] < stamp[r] => f \in todo[r] \/ (pc[r] \in InTx /\ f = fam[r]))'
    <2>1. \A f \in Active : stamp[f] < stamp[r] => f \in todo[r] \/ f = F
      BY <1>1, <1>2, <1>13, Zenon DEF Run, InTx, F
    <2>2. QED
      BY <1>1, <1>9, <2>1 DEF Active
  <1>14. pc'[r] \in Running => Run(r)'
    BY <1>1, <1>6, <1>8, <1>13, Zenon DEF Run, Running, InTx, Holding
  <1>15. QED
    BY <1>10, <1>11, <1>12, <1>14

\* UpdateByID commits a rotation or a revocation.
LEMMA CommitStep ==
    ASSUME SessionsInv, NEW r \in Requests \ Logins, Commit(r), UNCHANGED limit
    PROVE  SessionsInv' /\ Final
  <1>1. TypeOK' /\ Others(r) /\ Grows(r) /\ StoreInv' /\ ReqInv(r)' /\ pc[r] = "commit"
    BY CommitRows, Zenon
  <1>2. \A q \in Requests : ReqInv(q)'
    BY <1>1, OthersKept
  <1>3. ASSUME limit = 1
        PROVE  Final /\ Alone' /\ OneEnd' /\ \A q \in Requests : Rest(q)' /\ (pc'[q] \in Running => Run(q)')
    <2>1. Alone /\ (Rotation(r) \/ Revocation(r))
      BY <1>1, <1>3, Zenon DEF SessionsInv, SerialInv, Run, Running, InTx, Holding
    <2>2. \A q \in Requests \ {r} : pc'[q] \notin Running
      BY <1>1, <2>1, Zenon DEF Alone, Others, Running, InTx
    <2>3. Final /\ OneEnd' /\ (pc'[r] \in Running => Run(r)') /\ \A q \in Requests : Rest(q)'
      BY <1>3, <2>1, CommitRotation, CommitRevocation
    <2>4. Alone'
      BY <2>2 DEF Alone
    <2>5. QED
      BY <2>2, <2>3, <2>4
  <1>4. Final
    BY <1>3 DEF Final
  <1>5. QED
    BY <1>1, <1>2, <1>3, <1>4, Zenon DEF SessionsInv, ChainInv, SerialInv

-----------------------------------------------------------------------------
(* The aggregate.                                                           *)

\* A revocation leaves the tokens as they are.
LEMMA RevokeFields ==
    ASSUME NEW m \in Aggregates, NEW f \in Logins, NEW reason \in Reasons
    PROVE  /\ Revoke(m, f, reason) \in Aggregates
           /\ Revoke(m, f, reason).tokens = m.tokens
           /\ Revoke(m, f, reason).revoked # "no"
           /\ m.revoked # "no" => Revoke(m, f, reason) = m
  <1> DEFINE ev == [type |-> "Revoked", family |-> f, reason |-> reason]
  <1>1. {ev} \in SUBSET Events /\ reason # "no"
    BY DEF Events, Reasons
  <1>2. Revoke(m, f, reason) = IF m.revoked # "no" THEN m ELSE [m EXCEPT !.revoked = reason, !.events = {ev}]
    BY DEF Revoke
  <1> HIDE DEF ev
  <1>3. QED
    BY <1>1, <1>2, Zenon DEF Aggregates

\* A rotation consumes the presented token and adds the next generation.
LEMMA RotateFields ==
    ASSUME NEW m \in Aggregates, NEW f \in Logins, NEW t \in Tokens, NEW new \in Refreshes,
           m.tokens[t] # NoRow, m.tokens[new] = NoRow
    PROVE  /\ Rotate(m, f, t, new) \in Aggregates
           /\ Rotate(m, f, t, new).revoked = m.revoked
           /\ \A u \in Tokens : Rotate(m, f, t, new).tokens[u] =
                 IF u = new THEN [family |-> f, generation |-> m.tokens[t].generation + 1, next |-> Live]
                 ELSE IF u = t THEN [m.tokens[t] EXCEPT !.next = new] ELSE m.tokens[u]
  <1>1. new \in Tokens /\ new # t
    BY DEF Tokens
  <1>2. m.tokens \in [Tokens -> TokenRows \cup {NoRow}] /\ m.tokens[t] \in TokenRows
    BY DEF Aggregates
  <1> DEFINE row == [family |-> f, generation |-> m.tokens[t].generation + 1, next |-> Live]
             used == [m.tokens[t] EXCEPT !.next = new]
             rows == [m.tokens EXCEPT ![t].next = new, ![new] = row]
             ev == [type |-> "Rotated", family |-> f, token |-> new]
  <1>3. row \in TokenRows /\ used \in TokenRows
    BY <1>1, <1>2 DEF TokenRows
  <1>4. \A u \in Tokens : rows[u] = IF u = new THEN row ELSE IF u = t THEN used ELSE m.tokens[u]
    BY <1>1, <1>2
  <1>5. rows \in [Tokens -> TokenRows \cup {NoRow}]
    BY <1>1, <1>2, <1>3, <1>4
  <1>6. Rotate(m, f, t, new) = [m EXCEPT !.tokens = rows, !.events = {ev}]
    BY DEF Rotate
  <1>7. {ev} \in SUBSET Events
    BY DEF Events
  <1> HIDE DEF row, used, rows, ev
  <1>8. Rotate(m, f, t, new) \in Aggregates /\ Rotate(m, f, t, new).revoked = m.revoked
        /\ Rotate(m, f, t, new).tokens = rows
    BY <1>5, <1>6, <1>7, Zenon DEF Aggregates
  <1>9. QED
    BY <1>4, <1>8 DEF row, used

\* The rows of one family in a chain are a chain.
LEMMA TokensOfLinked ==
    ASSUME TypeOK, Linked(tokens), NEW f \in Logins
    PROVE  /\ TokensOf(f) \in [Tokens -> TokenRows \cup {NoRow}]
           /\ Linked(TokensOf(f))
  <1>1. \A t \in Tokens : tokens[t] # NoRow => tokens[t] \in TokenRows
    BY DEF TypeOK
  <1>2. TokensOf(f) \in [Tokens -> TokenRows \cup {NoRow}]
    BY <1>1 DEF TokensOf
  <1>3. ASSUME NEW t \in Tokens
        PROVE  TokensOf(f)[t] = IF tokens[t] # NoRow /\ tokens[t].family = f THEN tokens[t] ELSE NoRow
    BY DEF TokensOf
  <1>4. \A t \in Tokens : tokens[t] # NoRow /\ tokens[t].next # Live => tokens[t].next \in Tokens
    BY <1>1 DEF TokenRows
  <1>5. QED
    BY <1>2, <1>3, <1>4 DEF Linked

\* A rotation of the live token of a chain is a chain.
LEMMA RotateLinked ==
    ASSUME NEW m \in Aggregates, NEW f \in Logins, NEW t \in Tokens, NEW new \in Refreshes,
           m.tokens[t] # NoRow, m.tokens[new] = NoRow, Linked(m.tokens), m.tokens[t].family = f
    PROVE  Linked(Rotate(m, f, t, new).tokens)
  <1> DEFINE row == [family |-> f, generation |-> m.tokens[t].generation + 1, next |-> Live]
             used == [m.tokens[t] EXCEPT !.next = new]
             rows == Rotate(m, f, t, new).tokens
  <1>1. \A u \in Tokens : rows[u] = IF u = new THEN row ELSE IF u = t THEN used ELSE m.tokens[u]
    BY RotateFields
  <1>2. new \in Tokens /\ new # t /\ new \notin Logins /\ Live \notin Tokens
    BY SessionsAssumption DEF Tokens
  <1>3. \A u \in Tokens : m.tokens[u] # NoRow => m.tokens[u] \in TokenRows
    BY DEF Aggregates
  <1>4. /\ used.family = f /\ used.generation = m.tokens[t].generation /\ used.next = new
        /\ row.family = f /\ row.generation = m.tokens[t].generation + 1 /\ row.next = Live
        /\ m.tokens[t].generation \in Nat
        /\ row \in TokenRows /\ used \in TokenRows
    BY <1>2, <1>3 DEF TokenRows
  <1>5. row # NoRow /\ used # NoRow
    BY <1>4, SessionsAssumption
  <1>6. \A u \in Tokens : m.tokens[u] # NoRow /\ m.tokens[u].next # Live =>
           m.tokens[u].next \in Tokens /\ m.tokens[u].next # new
    BY <1>3 DEF TokenRows, Linked
  <1> HIDE DEF row, used, rows
  <1>7. \A u \in Tokens : rows[u] # NoRow => (rows[u].generation = 0 <=> u = rows[u].family)
    BY <1>1, <1>2, <1>4, <1>5 DEF Linked
  <1>8. ASSUME NEW u \in Tokens, rows[u] # NoRow, rows[u].next # Live
        PROVE  /\ rows[rows[u].next] # NoRow
               /\ rows[rows[u].next].family = rows[u].family
               /\ rows[rows[u].next].generation = rows[u].generation + 1
    <2>1. CASE u = t
      BY <1>1, <1>2, <1>4, <1>5, <2>1
    <2>2. CASE u # t
      <3>1. u # new /\ rows[u] = m.tokens[u]
        BY <1>1, <1>2, <1>4, <1>8, <2>2
      <3>2. m.tokens[u].next \in Tokens /\ m.tokens[u].next # new
        BY <1>6, <1>8, <3>1
      <3>3. CASE m.tokens[u].next = t
        BY <1>1, <1>2, <1>4, <1>5, <1>8, <3>1, <3>3 DEF Linked
      <3>4. CASE m.tokens[u].next # t
        BY <1>1, <1>8, <3>1, <3>2, <3>4 DEF Linked
      <3>5. QED
        BY <3>3, <3>4
    <2>3. QED
      BY <2>1, <2>2
  <1>9. Linked(rows)
    BY <1>7, <1>8 DEF Linked
  <1>10. QED
    BY <1>9 DEF rows

\* The aggregate that UpdateByID hands to the handler's function.
Loaded(r) == [mem[r] EXCEPT !.tokens = TokensOf(fam[r])]

\* The aggregate that was read is a chain of its family.
LEMMA LoadedFields ==
    ASSUME SessionsInv, NEW r \in Requests, pc[r] = "tokens"
    PROVE  /\ Loaded(r) \in Aggregates /\ Loaded(r).revoked = mem[r].revoked
           /\ Linked(Loaded(r).tokens)
           /\ \A t \in Tokens : Loaded(r).tokens[t] =
                 IF tokens[t] # NoRow /\ tokens[t].family = fam[r] THEN tokens[t] ELSE NoRow
  <1>1. mem[r] \in Aggregates /\ fam[r] \in Logins
    BY DEF SessionsInv, ChainInv, ReqInv, TypeOK, InTx
  <1>2. TokensOf(fam[r]) \in [Tokens -> TokenRows \cup {NoRow}] /\ Linked(TokensOf(fam[r]))
    BY <1>1, TokensOfLinked DEF SessionsInv, ChainInv, StoreInv
  <1>3. Loaded(r) \in Aggregates /\ Loaded(r).revoked = mem[r].revoked /\ Loaded(r).tokens = TokensOf(fam[r])
    BY <1>1, <1>2 DEF Loaded, Aggregates
  <1>4. QED
    BY <1>2, <1>3, Zenon DEF TokensOf

\* A function that rotates makes a copy with the next token.
LEMMA RotatedCopy ==
    ASSUME SessionsInv, NEW r \in Requests \ Logins, pc[r] = "tokens", why[r] = "rotate",
           RotateError(Loaded(r), tok[r], late[r]) = "none",
           UNCHANGED <<families, tokens, fam, tok, why, late>>, mem'[r] = Updated(r, Loaded(r))
    PROVE  /\ mem'[r] \in Aggregates /\ CopyInv(r)'
           /\ limit = 1 => Rotation(r)'
  <1> DEFINE m == Loaded(r)
             t == tok[r]
  <1>1. r \in Refreshes /\ tokens[r] = NoRow /\ t # None /\ t \in Tokens /\ tokens[t] # NoRow
        /\ fam[r] = tokens[t].family /\ fam[r] \in Logins
    BY Zenon DEF SessionsInv, ChainInv, ReqInv, TypeOK, InTx
  <1>2. /\ m \in Aggregates /\ m.revoked = mem[r].revoked /\ Linked(m.tokens)
        /\ \A u \in Tokens : m.tokens[u] =
              IF tokens[u] # NoRow /\ tokens[u].family = fam[r] THEN tokens[u] ELSE NoRow
    BY LoadedFields, Zenon
  <1>3. m.tokens[t] = tokens[t] /\ m.tokens[r] = NoRow /\ r \in Tokens
    BY <1>1, <1>2, Zenon DEF Tokens
  <1>4. m.revoked = "no" /\ m.tokens[t].next = Live /\ late[r] = FALSE
    BY <1>1, Zenon DEF RotateError, SessionsInv, TypeOK
  <1>5. mem'[r] = Rotate(m, fam[r], t, r)
    BY Zenon DEF Updated
  <1>6. tokens \in [Tokens -> TokenRows \cup {NoRow}] /\ \A u \in Tokens : tokens[u] # NoRow => tokens[u] \in TokenRows
    BY DEF SessionsInv, TypeOK
  <1> DEFINE row == [family |-> fam[r], generation |-> m.tokens[t].generation + 1, next |-> Live]
             used == [m.tokens[t] EXCEPT !.next = r]
  <1>7. /\ mem'[r] \in Aggregates /\ mem'[r].revoked = m.revoked
        /\ \A u \in Tokens : mem'[r].tokens[u] = IF u = r THEN row ELSE IF u = t THEN used ELSE m.tokens[u]
    BY <1>1, <1>2, <1>3, <1>5, RotateFields
  <1>8. Linked(mem'[r].tokens)
    BY <1>1, <1>2, <1>3, <1>5, RotateLinked, Zenon
  <1>9. /\ row.family = fam[r] /\ row.next = Live /\ row \in TokenRows
        /\ used.family = fam[r] /\ used.next = r /\ used.generation = tokens[t].generation /\ used \in TokenRows
    BY <1>1, <1>3, <1>6 DEF TokenRows
  <1>10. row # NoRow /\ used # NoRow
    BY <1>9, SessionsAssumption
  <1> HIDE DEF m, row, used
  <1>11. CopyInv(r)'
    <2>1. \A u \in Tokens : mem'[r].tokens[u] # NoRow =>
             /\ mem'[r].tokens[u].family = fam[r]
             /\ tokens[u] = NoRow => u = r
             /\ tokens[u] # NoRow => /\ tokens[u].family = fam[r]
                                     /\ tokens[u].generation = mem'[r].tokens[u].generation
      <3>1. ASSUME NEW u \in Tokens, u # r, u # t, mem'[r].tokens[u] # NoRow
            PROVE  tokens[u] # NoRow /\ tokens[u].family = fam[r] /\ mem'[r].tokens[u] = tokens[u]
        BY <1>2, <1>7, <3>1, Zenon
      <3>2. mem'[r].tokens[r] = row /\ mem'[r].tokens[t] = used
        BY <1>1, <1>3, <1>7, Zenon
      <3>3. ASSUME NEW u \in Tokens, u = r \/ u = t
            PROVE  /\ mem'[r].tokens[u].family = fam[r]
                   /\ u = r => tokens[u] = NoRow
                   /\ u # r => tokens[u] # NoRow /\ tokens[u].family = fam[r]
                               /\ tokens[u].generation = mem'[r].tokens[u].generation
        BY <1>1, <1>9, <3>2, <3>3, Zenon
      <3>4. QED
        BY <3>1, <3>3, Zenon
    <2>2. Linked(mem[r].tokens)'
      BY <1>8, Zenon DEF Linked
    <2>3. QED
      BY <2>1, <2>2, Zenon DEF CopyInv
  <1>12. ASSUME limit = 1 PROVE Rotation(r)'
    <2>1. mem[r].revoked = families[fam[r]].revoked
      BY <1>12, Zenon DEF SessionsInv, SerialInv, Run, Running, InTx
    <2>2. \A u \in Tokens : mem'[r].tokens[u] # NoRow =>
             mem'[r].tokens[u].next = IF u = r THEN Live ELSE IF u = t THEN r ELSE tokens[u].next
      <3>1. ASSUME NEW u \in Tokens, u # r, u # t, mem'[r].tokens[u] # NoRow
            PROVE  mem'[r].tokens[u] = tokens[u]
        BY <1>2, <1>7, <3>1, Zenon
      <3>2. mem'[r].tokens[r] = row /\ mem'[r].tokens[t] = used
        BY <1>1, <1>3, <1>7, Zenon
      <3>3. QED
        BY <1>9, <3>1, <3>2, Zenon
    <2>3. mem'[r].tokens[r] # NoRow /\ mem'[r].tokens[t] # NoRow
      BY <1>1, <1>3, <1>7, <1>10, Zenon
    <2>4. QED
      BY <1>2, <1>3, <1>4, <1>7, <2>1, <2>2, <2>3, Zenon DEF Rotation
  <1>13. QED
    BY <1>7, <1>11, <1>12

\* A function that revokes copies the tokens as they are.
LEMMA RevokedCopy ==
    ASSUME SessionsInv, NEW r \in Requests, pc[r] = "tokens", NEW reason \in Reasons,
           UNCHANGED <<families, tokens, fam, tok>>, mem'[r] = Revoke(Loaded(r), fam[r], reason)
    PROVE  mem'[r] \in Aggregates /\ CopyInv(r)' /\ Revocation(r)'
  <1>1. fam[r] \in Logins
    BY DEF SessionsInv, ChainInv, ReqInv, InTx
  <1>2. /\ Loaded(r) \in Aggregates /\ Linked(Loaded(r).tokens)
        /\ \A t \in Tokens : Loaded(r).tokens[t] =
              IF tokens[t] # NoRow /\ tokens[t].family = fam[r] THEN tokens[t] ELSE NoRow
    BY LoadedFields, Zenon
  <1>3. mem'[r] \in Aggregates /\ mem'[r].tokens = Loaded(r).tokens /\ mem'[r].revoked # "no"
    <2>1. /\ Revoke(Loaded(r), fam[r], reason) \in Aggregates
          /\ Revoke(Loaded(r), fam[r], reason).tokens = Loaded(r).tokens
          /\ Revoke(Loaded(r), fam[r], reason).revoked # "no"
      BY <1>1, <1>2, RevokeFields, Zenon
    <2>2. QED
      BY <2>1, Zenon
  <1>4. Linked(mem[r].tokens)'
    BY <1>2, <1>3, Zenon DEF Linked
  <1>5. CopyInv(r)'
    <2>1. ASSUME NEW t \in Tokens, mem'[r].tokens[t] # NoRow
          PROVE  tokens[t] # NoRow /\ tokens[t].family = fam[r] /\ mem'[r].tokens[t] = tokens[t]
      BY <1>2, <1>3, <2>1, Zenon
    <2>2. QED
      BY <1>4, <2>1, Zenon DEF CopyInv
  <1>6. Revocation(r)'
    BY <1>2, <1>3, Zenon DEF Revocation
  <1>7. QED
    BY <1>3, <1>5, <1>6

-----------------------------------------------------------------------------
(* Steps that leave the families and the tokens as they are.                *)

\* A request that may start while requests come one at a time finds no other running.
LEMMA NobodyRuns ==
    ASSUME limit = 1, NEW r \in Requests, Start(r)
    PROVE  \A q \in Requests : pc[q] \notin Running
  BY Zenon DEF Start, MayBegin

\* A request that does not move keeps what it knows of families and tokens.
LEMMA ReqKept ==
    ASSUME NEW q, ReqInv(q), UNCHANGED <<families, tokens>>,
           pc'[q] = pc[q], tok'[q] = tok[q], fam'[q] = fam[q], why'[q] = why[q], mem'[q] = mem[q],
           scope'[q] = scope[q]
    PROVE  ReqInv(q)'
  <1>1. CopyInv(q) => CopyInv(q)'
    BY Zenon DEF CopyInv, Linked
  <1>2. QED
    BY <1>1, Zenon DEF ReqInv

\* The chains keep their ends while no row changes.
LEMMA OneEndKept ==
    ASSUME OneEnd, UNCHANGED <<families, tokens>>
    PROVE  OneEnd'
  BY Zenon DEF OneEnd

\* A stamp that was not above another stays so when that one grows.
LEMMA StampsGrow ==
    ASSUME NEW a \in Nat, NEW b \in Nat, NEW c \in Nat, a <= b, c >= b
    PROVE  a <= c
  OBVIOUS

\* The general step of one handler.
LEMMA QuietStep ==
    ASSUME SessionsInv, TypeOK', NEW r \in Requests, Others(r),
           UNCHANGED <<limit, families, tokens, expired>>,
           pc[r] \in Running \/ Start(r),
           person'.stamp >= person.stamp,
           \A f \in Logins : families[f] # NoRow => stamp'[f] = stamp[f],
           ReqInv(r)',
           limit = 1 => Rest(r)' /\ (pc'[r] \in Running => Run(r)')
    PROVE  SessionsInv'
  <1>1. StoreInv'
    BY DEF SessionsInv, ChainInv, StoreInv, Linked
  <1>2. ASSUME NEW q \in Requests PROVE ReqInv(q)'
    BY ReqKept DEF SessionsInv, ChainInv, Others
  <1>3. ASSUME limit = 1
        PROVE  Alone' /\ OneEnd' /\ \A q \in Requests : Rest(q)' /\ (pc'[q] \in Running => Run(q)')
    <2>1. \A q \in Requests \ {r} : pc[q] \notin Running
      BY <1>3, NobodyRuns DEF SessionsInv, SerialInv, Alone
    <2>2. Alone'
      BY <2>1 DEF Others, Alone
    <2>3. OneEnd'
      <3>1. OneEnd
        BY <1>3, Zenon DEF SessionsInv, SerialInv
      <3>2. QED
        BY <3>1, OneEndKept, Zenon
    <2>4. ASSUME NEW q \in Requests, q # r PROVE Rest(q)' /\ pc'[q] \notin Running
      <3>1. Rest(q) /\ pc'[q] \notin Running
        BY <1>3, <2>1, <2>4 DEF SessionsInv, SerialInv, Others
      <3>2. pc'[q] = pc[q] /\ tok'[q] = tok[q] /\ scope'[q] = scope[q] /\ stamp'[q] = stamp[q]
        BY <2>4 DEF Others
      <3>3. Active' = Active /\ \A f \in Active : stamp'[f] = stamp[f]
        BY DEF Active
      <3>4. stamp[q] \in Nat /\ person.stamp \in Nat /\ person'.stamp \in Nat
        BY DEF SessionsInv, TypeOK
      <3>5. q \in Cascades => stamp'[q] <= person'.stamp
        <4>1. q \in Cascades => stamp[q] <= person.stamp
          BY <3>1, Zenon DEF Rest
        <4>2. QED
          BY <3>2, <3>4, <4>1, StampsGrow, Zenon
      <3>6. QED
        BY <3>1, <3>2, <3>3, <3>5 DEF Rest, Ended
    <2>5. QED
      BY <1>3, <2>2, <2>3, <2>4
  <1>4. QED
    BY <1>1, <1>2, <1>3 DEF SessionsInv, ChainInv, SerialInv

\* A step that leaves the person and the stamps alone.
LEMMA SamePersonStep ==
    ASSUME SessionsInv, TypeOK', NEW r \in Requests, Others(r),
           UNCHANGED <<limit, families, tokens, expired, person, stamp>>,
           pc[r] \in Running \/ Start(r),
           ReqInv(r)',
           limit = 1 => Rest(r)' /\ (pc'[r] \in Running => Run(r)')
    PROVE  SessionsInv'
  <1>1. person'.stamp >= person.stamp
    BY DEF SessionsInv, TypeOK
  <1>2. QED
    BY <1>1, QuietStep, Zenon

\* LoginHandler.resolveAndVerify.
LEMMA LoginStep ==
    ASSUME SessionsInv, NEW r \in Logins, Login(r), UNCHANGED limit
    PROVE  SessionsInv'
  <1>1. /\ Start(r) /\ pc[r] = "idle"
        /\ UNCHANGED <<families, tokens, outbox, lock, person, expired, tok, fam, why, late, todo, mem>>
    BY DEF Login, Start, store
  <1>2. r \in Requests /\ r \notin Refreshes \cup Logouts \cup Batches
    BY Kinds
  <1>3. TypeOK /\ ReqInv(r) /\ person.stamp \in Nat
    BY <1>2 DEF SessionsInv, ChainInv, TypeOK
  <1>4. \/ /\ person.tenant \in Tenants /\ pc' = [pc EXCEPT ![r] = "add"]
           /\ stamp' = [stamp EXCEPT ![r] = person.stamp] /\ scope' = [scope EXCEPT ![r] = person.tenant]
        \/ pc' = [pc EXCEPT ![r] = "rejected"] /\ UNCHANGED <<stamp, scope>>
    BY <1>3 DEF Login, Goto, TypeOK
  <1>5. TypeOK'
    BY <1>1, <1>2, <1>3, <1>4 DEF TypeOK, Running, Outcomes
  <1>6. Others(r)
    BY <1>1, <1>3, <1>4 DEF TypeOK, Others
  <1>7. ReqInv(r)' /\ \A f \in Logins : families[f] # NoRow => stamp'[f] = stamp[f]
    <2>1. \/ pc'[r] = "add" /\ scope'[r] \in Tenants
          \/ pc'[r] = "rejected"
      <3>1. DOMAIN pc = Requests /\ DOMAIN scope = Requests
        BY <1>3, Zenon DEF TypeOK
      <3>2. QED
        BY <1>2, <1>4, <3>1
    <2>2. \A f \in Logins \ {r} : stamp'[f] = stamp[f]
      BY <1>2, <1>6, Kinds, Zenon DEF Others
    <2>3. families[r] = NoRow
      BY <1>1, <1>3, Zenon DEF ReqInv
    <2>4. ReqInv(r)'
      BY <1>1, <1>2, <1>3, <2>1, Zenon DEF ReqInv, InTx, Holding
    <2>5. QED
      BY <2>2, <2>3, <2>4, Zenon
  <1>8. Rest(r)' /\ Run(r)'
    <2>1. \/ pc'[r] = "add" /\ stamp'[r] = person.stamp
          \/ pc'[r] = "rejected"
      <3>1. DOMAIN pc = Requests /\ DOMAIN stamp = Requests
        BY <1>3, Zenon DEF TypeOK
      <3>2. QED
        BY <1>2, <1>4, <3>1
    <2>2. r \notin Cascades
      BY <1>2, Zenon DEF Batches
    <2>3. QED
      BY <1>1, <1>2, <2>1, <2>2, Zenon DEF Rest, Run, Holding, InTx
  <1>9. person'.stamp >= person.stamp
    BY <1>1, <1>3
  <1>10. QED
    BY <1>1, <1>2, <1>5, <1>6, <1>7, <1>8, <1>9, QuietStep, Zenon

\* A token is presented by a request of the client it was given to.
LEMMA PresentStep ==
    ASSUME SessionsInv, NEW r \in Refreshes \cup Logouts, Present(r), UNCHANGED limit
    PROVE  SessionsInv'
  <1>1. /\ Start(r) /\ pc[r] = "idle" /\ pc' = [pc EXCEPT ![r] = "lookup"]
        /\ UNCHANGED <<families, tokens, outbox, lock, person, expired, fam, why, late, todo, mem, scope, stamp>>
    BY DEF Present, Start, Goto, store
  <1>2. r \in Requests /\ r \notin Logins \cup Batches
    BY Kinds
  <1>3. TypeOK /\ person.stamp \in Nat /\ \A q \in Requests : ReqInv(q)
    BY DEF SessionsInv, ChainInv, TypeOK
  <1>4. PICK t \in Tokens \cup {None} : tok' = [tok EXCEPT ![r] = t] /\ (t # None => pc[t] = "ok")
    BY Zenon DEF Present
  <1>5. TypeOK'
    BY <1>1, <1>2, <1>3, <1>4 DEF TypeOK, Running
  <1>6. Others(r)
    BY <1>1, <1>3, <1>4 DEF TypeOK, Others
  <1>7. t # None => tokens[t] # NoRow
    <2> SUFFICES ASSUME t # None PROVE tokens[t] # NoRow
      OBVIOUS
    <2>1. ReqInv(t) /\ t \in Logins \cup Refreshes
      BY <1>3 DEF Requests, Tokens
    <2>2. QED
      BY <1>4, <2>1 DEF ReqInv
  <1>8. ReqInv(r)'
    BY <1>1, <1>2, <1>3, <1>4, <1>7 DEF TypeOK, ReqInv, InTx, Holding
  <1>9. Rest(r)' /\ Run(r)'
    BY <1>1, <1>2, <1>3, Zenon DEF TypeOK, Rest, Run, Holding, InTx, Batches
  <1>10. QED
    BY <1>1, <1>2, <1>3, <1>5, <1>6, <1>8, <1>9, SamePersonStep, Zenon

\* GetByTokenHash: the family is the token's.
LEMMA LookupStep ==
    ASSUME SessionsInv, NEW r \in Refreshes \cup Logouts, Lookup(r), UNCHANGED limit
    PROVE  SessionsInv'
  <1>1. /\ pc[r] = "lookup" /\ pc[r] \in Running
        /\ UNCHANGED <<families, tokens, outbox, lock, person, expired, tok, todo, mem, scope, stamp>>
    BY Zenon DEF Lookup, store, Running
  <1>2. r \in Requests /\ r \notin Logins \cup Batches
    BY Kinds
  <1>3. TypeOK /\ person.stamp \in Nat /\ ReqInv(r)
    BY <1>2 DEF SessionsInv, ChainInv, TypeOK
  <1>4. CASE tok[r] = None
    <2>1. /\ pc' = [pc EXCEPT ![r] = IF r \in Refreshes THEN "rejected" ELSE "ok"]
          /\ UNCHANGED <<fam, late, why>>
      BY <1>4 DEF Lookup, Goto
    <2>2. TypeOK'
      BY <1>1, <1>2, <1>3, <2>1 DEF TypeOK, Outcomes
    <2>3. Others(r)
      BY <1>1, <1>3, <2>1 DEF TypeOK, Others
    <2>4. pc'[r] \in {"rejected", "ok"} /\ (r \in Refreshes => pc'[r] = "rejected")
      BY <1>2, <1>3, <2>1 DEF TypeOK
    <2>5. ReqInv(r)' /\ Rest(r)' /\ pc'[r] \notin Running
      BY <1>1, <1>2, <1>3, <1>4, <2>4, Zenon DEF ReqInv, Rest, InTx, Holding, Batches, Running
    <2>6. QED
      BY <1>1, <1>2, <1>3, <2>2, <2>3, <2>5, SamePersonStep, Zenon
  <1>5. CASE tok[r] # None
    <2>1. /\ pc' = [pc EXCEPT ![r] = "family"]
          /\ fam' = [fam EXCEPT ![r] = tokens[tok[r]].family]
          /\ late' = [late EXCEPT ![r] = tok[r] \in expired]
          /\ why' = [why EXCEPT ![r] = IF r \in Refreshes THEN "rotate" ELSE "revoked_by_request"]
      BY <1>5, Zenon DEF Lookup, Goto
    <2>2. tok[r] \in Tokens /\ tokens[tok[r]] \in TokenRows /\ tokens[tok[r]].family \in Logins
      BY <1>2, <1>3, <1>5 DEF ReqInv, TypeOK, TokenRows
    <2>3. TypeOK'
      <3>1. "family" \in Running /\ {"rotate", "revoked_by_request"} \subseteq Reasons \cup {"rotate"}
        BY Zenon DEF Running, InTx, Reasons
      <3>2. pc' \in [Requests -> {"idle"} \cup Running \cup Outcomes] /\ fam' \in [Requests -> Logins \cup {None}]
        BY <1>2, <1>3, <2>1, <2>2, <3>1, Zenon DEF TypeOK
      <3>3. late' \in [Requests -> BOOLEAN] /\ why' \in [Requests -> Reasons \cup {"rotate"}]
        BY <1>2, <1>3, <2>1, <3>1 DEF TypeOK
      <3>4. QED
        BY <1>1, <1>3, <3>2, <3>3, Zenon DEF TypeOK
    <2>4. Others(r)
      BY <1>1, <1>3, <2>1 DEF TypeOK, Others
    <2>5. /\ pc'[r] = "family" /\ fam'[r] = tokens[tok[r]].family /\ late'[r] = (tok[r] \in expired)
          /\ why'[r] = IF r \in Refreshes THEN "rotate" ELSE "revoked_by_request"
      BY <1>2, <1>3, <2>1 DEF TypeOK
    <2>6. ReqInv(r)'
      BY <1>1, <1>2, <1>3, <1>5, <2>2, <2>5 DEF ReqInv, InTx, Holding
    <2>7. ASSUME limit = 1 PROVE Rest(r)' /\ Run(r)'
      <3>1. \A q \in Refreshes : pc'[q] = "rejected" => pc[q] = "rejected" /\ Rest(q) /\ tok'[q] = tok[q]
        BY <1>1, <2>4, <2>5, <2>7, Kinds, Zenon DEF Others, SessionsInv, SerialInv
      <3>2. tok[r] \notin expired =>
               \A q \in Refreshes : pc'[q] = "rejected" /\ tok'[q] = tok[r] => Ended(tok[r], q)
        BY <1>5, <3>1, Zenon DEF Rest
      <3>3. (late[r] = FALSE => \A q \in Refreshes : pc[q] = "rejected" /\ tok[q] = tok[r] => Ended(tok[r], q))'
        BY <1>1, <2>5, <3>2, Zenon DEF Ended
      <3>4. late'[r] \in BOOLEAN
        BY <2>5
      <3>5. QED
        BY <1>1, <1>2, <2>5, <3>3, <3>4, Zenon DEF Rest, Run, Holding, InTx, Batches
    <2>8. QED
      BY <1>1, <1>2, <1>3, <2>3, <2>4, <2>6, <2>7, SamePersonStep, Zenon
  <1>6. QED
    BY <1>4, <1>5

\* A refresh that has rotated its token goes on, or revokes the family it rotated.
LEMMA RefreshGoesOn ==
    ASSUME SessionsInv, NEW r \in Refreshes, pc[r] \in {"person", "membership"},
           NEW next \in {"membership", "issue", "error", "family"}, pc' = [pc EXCEPT ![r] = next],
           NEW reason \in Reasons, why' = IF next = "family" THEN [why EXCEPT ![r] = reason] ELSE why,
           UNCHANGED <<limit, store, person, expired, tok, fam, late, todo, mem, scope, stamp>>
    PROVE  SessionsInv'
  <1>1. r \in Requests /\ r \notin Logins \cup Logouts \cup Batches /\ pc[r] \in Running
    BY Kinds DEF Running
  <1>2. TypeOK /\ person.stamp \in Nat /\ ReqInv(r)
    BY <1>1 DEF SessionsInv, ChainInv, TypeOK
  <1>3. UNCHANGED <<families, tokens, outbox, lock>>
    BY DEF store
  <1>4. TypeOK'
    BY <1>1, <1>2, <1>3 DEF TypeOK, Running, InTx, Outcomes
  <1>5. Others(r)
    BY <1>1, <1>2 DEF TypeOK, Others
  <1>6. pc'[r] = next /\ (next = "family" => why'[r] # "rotate")
    BY <1>1, <1>2 DEF TypeOK, Reasons
  <1>7. tok[r] # None /\ fam[r] = tokens[tok[r]].family /\ tok[r] \in Tokens /\ tokens[tok[r]] # NoRow
    BY <1>1, <1>2 DEF ReqInv, TypeOK
  <1>8. fam[r] \in Logins
    BY <1>1, <1>2, <1>7 DEF TypeOK, TokenRows
  <1>9. ReqInv(r)'
    BY <1>1, <1>2, <1>3, <1>6, <1>7, <1>8, Zenon DEF ReqInv, InTx, Holding
  <1>10. limit = 1 => tokens[tok[r]].next = r
    BY <1>1, Zenon DEF SessionsInv, SerialInv, Run
  <1>11. limit = 1 => Rest(r)' /\ Run(r)'
    BY <1>1, <1>3, <1>6, <1>10, Zenon DEF Rest, Run, Holding, InTx, Batches
  <1>12. QED
    BY <1>1, <1>2, <1>3, <1>4, <1>5, <1>9, <1>11, SamePersonStep, Zenon

\* Refresh, step 5.
LEMMA CheckStep ==
    ASSUME SessionsInv, NEW r \in Refreshes, CheckPerson(r) \/ CheckMembership(r), UNCHANGED limit
    PROVE  SessionsInv'
  <1>1. \E next \in {"membership", "issue", "error", "family"}, reason \in Reasons :
           /\ pc' = [pc EXCEPT ![r] = next]
           /\ why' = IF next = "family" THEN [why EXCEPT ![r] = reason] ELSE why
    BY Zenon DEF CheckPerson, CheckMembership, Goto, RevokeBecause, Reasons
  <1>2. /\ pc[r] \in {"person", "membership"}
        /\ UNCHANGED <<limit, store, person, expired, tok, fam, late, todo, mem, scope, stamp>>
    BY Zenon DEF CheckPerson, CheckMembership
  <1>3. QED
    BY <1>1, <1>2, RefreshGoesOn, Zenon

\* ResolveAuth and the JWT.
LEMMA IssueStep ==
    ASSUME SessionsInv, NEW r \in Tokens, Issue(r), UNCHANGED limit
    PROVE  SessionsInv'
  <1>1. /\ pc[r] = "issue" /\ pc[r] \in Running
        /\ UNCHANGED <<families, tokens, outbox, lock, person, expired, tok, fam, why, late, todo, mem, scope, stamp>>
    BY DEF Issue, store, handler, Running
  <1>2. r \in Requests /\ r \notin Logouts \cup Batches
    BY Kinds DEF Tokens
  <1>3. TypeOK /\ person.stamp \in Nat /\ ReqInv(r)
    BY <1>2 DEF SessionsInv, ChainInv, TypeOK
  <1>4. PICK outcome \in {"ok", "error"} : pc' = [pc EXCEPT ![r] = outcome]
    BY Zenon DEF Issue, Goto
  <1>5. TypeOK'
    BY <1>1, <1>2, <1>3, <1>4 DEF TypeOK, Outcomes
  <1>6. Others(r)
    BY <1>1, <1>3, <1>4 DEF TypeOK, Others
  <1>7. ReqInv(r)' /\ Rest(r)' /\ pc'[r] \notin Running
    BY <1>1, <1>2, <1>3, <1>4, Zenon DEF TypeOK, ReqInv, Rest, InTx, Holding, Batches, Running
  <1>8. QED
    BY <1>1, <1>2, <1>3, <1>5, <1>6, <1>7, SamePersonStep, Zenon

\* One family, named by the request.
LEMMA RevokeSessionStep ==
    ASSUME SessionsInv, NEW r \in SessionRevokes, RevokeSession(r), UNCHANGED limit
    PROVE  SessionsInv'
  <1>1. /\ Start(r) /\ pc[r] = "idle" /\ pc' = [pc EXCEPT ![r] = "family"]
        /\ why' = [why EXCEPT ![r] = "revoked_by_request"]
        /\ UNCHANGED <<families, tokens, outbox, lock, person, expired, tok, late, todo, mem, scope, stamp>>
    BY DEF RevokeSession, RevokeBecause, Start, Goto, store
  <1>2. r \in Requests /\ r \notin Tokens \cup Logouts \cup Batches
    BY Kinds
  <1>3. TypeOK /\ person.stamp \in Nat /\ ReqInv(r)
    BY <1>2 DEF SessionsInv, ChainInv, TypeOK
  <1>4. PICK f \in Logins : fam' = [fam EXCEPT ![r] = f]
    BY Zenon DEF RevokeSession
  <1>5. TypeOK'
    BY <1>1, <1>2, <1>3, <1>4 DEF TypeOK, Running, InTx, Reasons
  <1>6. Others(r)
    BY <1>1, <1>3, <1>4 DEF TypeOK, Others
  <1>7. pc'[r] = "family" /\ fam'[r] = f /\ why'[r] = "revoked_by_request"
    BY <1>1, <1>2, <1>3, <1>4 DEF TypeOK
  <1>8. ReqInv(r)' /\ Rest(r)' /\ Run(r)'
    BY <1>1, <1>2, <1>3, <1>7, Zenon DEF ReqInv, Rest, Run, InTx, Holding, Batches, Tokens
  <1>9. QED
    BY <1>1, <1>2, <1>3, <1>5, <1>6, <1>8, SamePersonStep, Zenon

\* A batch begins: a sign-out, or a security event and its subscriber.
LEMMA BatchStep ==
    ASSUME SessionsInv, NEW r \in Batches, UNCHANGED limit,
           \/ r \in SignOuts /\ SignOut(r)
           \/ r \in Cascades /\ (SecurityChange(r) \/ DeactivateMembership(r))
    PROVE  SessionsInv'
  <1>1. /\ Start(r) /\ pc[r] = "idle" /\ pc' = [pc EXCEPT ![r] = "list"]
        /\ UNCHANGED <<families, tokens, outbox, lock, expired, tok, fam, late, todo, mem>>
    BY Zenon DEF SignOut, SecurityChange, DeactivateMembership, Start, Goto, store
  <1>2. r \in Requests /\ r \notin Tokens \cup Logouts
    BY Kinds DEF Batches
  <1>3. TypeOK /\ person.stamp \in Nat /\ ReqInv(r)
    BY <1>2 DEF SessionsInv, ChainInv, TypeOK
  <1>4. /\ why' \in [Requests -> Reasons \cup {"rotate"}] /\ why'[r] # "rotate"
        /\ scope' \in [Requests -> Tenants \cup {None}] /\ stamp' \in [Requests -> Nat]
        /\ \A q \in Requests \ {r} : why'[q] = why[q] /\ scope'[q] = scope[q] /\ stamp'[q] = stamp[q]
        /\ r \in Cascades => stamp'[r] <= person'.stamp
        /\ person' \in [active : BOOLEAN, tenant : Tenants \cup {None}, stamp : Nat]
        /\ person'.stamp >= person.stamp
    <2>1. CASE r \in SignOuts /\ SignOut(r)
      <3>1. UNCHANGED <<person, scope, stamp>> /\ why' = [why EXCEPT ![r] = "revoked_by_request"] /\ r \notin Cascades
        BY <2>1, Kinds DEF SignOut
      <3>2. QED
        BY <1>2, <1>3, <3>1 DEF TypeOK, Reasons
    <2>2. CASE SecurityChange(r)
      <3>1. PICK active \in BOOLEAN : person' = [person EXCEPT !.stamp = @ + 1, !.active = active]
        BY <2>2, Zenon DEF SecurityChange
      <3>2. person' = [active |-> active, tenant |-> person.tenant, stamp |-> person.stamp + 1]
        BY <1>3, <3>1, Zenon DEF TypeOK
      <3>3. person.stamp + 1 \in Nat /\ person.tenant \in Tenants \cup {None}
        BY <1>3 DEF TypeOK
      <3>4. person' \in [active : BOOLEAN, tenant : Tenants \cup {None}, stamp : Nat]
        BY <3>1, <3>2, <3>3
      <3>5. person'.stamp = person.stamp + 1
        BY <3>2
      <3>6. /\ stamp' = [stamp EXCEPT ![r] = person.stamp + 1]
            /\ why' = [why EXCEPT ![r] = "security_change"] /\ scope' = scope
        BY <2>2, Zenon DEF SecurityChange
      <3>7. QED
        BY <1>2, <1>3, <3>3, <3>4, <3>5, <3>6 DEF TypeOK, Reasons
    <2>3. CASE DeactivateMembership(r)
      <3>1. /\ person' = [person EXCEPT !.tenant = None] /\ scope' = [scope EXCEPT ![r] = person.tenant]
            /\ stamp' = [stamp EXCEPT ![r] = person.stamp] /\ why' = [why EXCEPT ![r] = "security_change"]
        BY <2>3 DEF DeactivateMembership
      <3>2. /\ person' \in [active : BOOLEAN, tenant : Tenants \cup {None}, stamp : Nat]
            /\ person'.stamp = person.stamp /\ person.tenant \in Tenants \cup {None}
        BY <1>3, <3>1 DEF TypeOK
      <3>3. QED
        BY <1>2, <1>3, <3>1, <3>2 DEF TypeOK, Reasons
    <2>4. QED
      BY <2>1, <2>2, <2>3, Zenon
  <1>5. TypeOK'
    BY <1>1, <1>2, <1>3, <1>4 DEF TypeOK, Running
  <1>6. Others(r) /\ pc'[r] = "list"
    BY <1>1, <1>2, <1>3, <1>4 DEF TypeOK, Others
  <1>7. ReqInv(r)'
    BY <1>1, <1>2, <1>3, <1>4, <1>6, Zenon DEF ReqInv, InTx, Holding, Tokens
  <1>8. Rest(r)' /\ Run(r)'
    BY <1>1, <1>2, <1>4, <1>6, Zenon DEF Rest, Run, InTx, Holding, Tokens
  <1>9. \A f \in Logins : stamp'[f] = stamp[f]
    BY <1>2, <1>6, Kinds, Zenon DEF Others, Tokens
  <1>10. QED
    BY <1>1, <1>2, <1>4, <1>5, <1>6, <1>7, <1>8, <1>9, QuietStep, Zenon

\* ListActiveForPerson.
LEMMA ListStep ==
    ASSUME SessionsInv, NEW r \in Batches, List(r), UNCHANGED limit
    PROVE  SessionsInv'
  <1>1. /\ pc[r] = "list" /\ pc[r] \in Running /\ pc' = [pc EXCEPT ![r] = "next"]
        /\ UNCHANGED <<families, tokens, outbox, lock, person, expired, tok, fam, why, late, mem, scope, stamp>>
    BY DEF List, Goto, store, Running
  <1>2. r \in Requests /\ r \notin Tokens \cup Logouts /\ (r \in Cascades => r \notin SignOuts)
    BY Kinds DEF Batches
  <1>3. TypeOK /\ person.stamp \in Nat /\ ReqInv(r)
    BY <1>2 DEF SessionsInv, ChainInv, TypeOK
  <1>4. PICK S \in SUBSET Logins : /\ todo' = [todo EXCEPT ![r] = S]
                                   /\ r \in Cascades /\ scope[r] = None => S = Active
    <2>1. CASE todo' = [todo EXCEPT ![r] = ActiveOf(r)]
      <3>1. ActiveOf(r) \in SUBSET Logins /\ (scope[r] = None => ActiveOf(r) = Active)
        BY DEF ActiveOf, Active
      <3>2. QED
        BY <2>1, <3>1, Zenon
    <2>2. ASSUME r \in SignOuts, NEW f \in Active, todo' = [todo EXCEPT ![r] = Active \ {f}]
          PROVE  \E S \in SUBSET Logins : /\ todo' = [todo EXCEPT ![r] = S]
                                          /\ r \in Cascades /\ scope[r] = None => S = Active
      <3>1. Active \ {f} \in SUBSET Logins /\ r \notin Cascades
        BY <1>2, <2>2 DEF Active
      <3>2. QED
        BY <2>2, <3>1, Zenon
    <2>3. QED
      BY <2>1, <2>2, Zenon DEF List
  <1>5. TypeOK'
    BY <1>1, <1>2, <1>3, <1>4 DEF TypeOK, Running
  <1>6. Others(r)
    BY <1>1, <1>3, <1>4 DEF TypeOK, Others
  <1>7. pc'[r] = "next" /\ todo'[r] = S /\ Active' = Active
    BY <1>1, <1>2, <1>3, <1>4 DEF TypeOK, Active
  <1>8. ReqInv(r)' /\ Run(r)'
    BY <1>1, <1>2, <1>3, <1>4, <1>7, Zenon DEF ReqInv, Run, InTx, Holding, Tokens
  <1>9. limit = 1 => Rest(r)'
    BY <1>1, <1>2, <1>7, Zenon DEF SessionsInv, SerialInv, Rest, Tokens
  <1>10. QED
    BY <1>1, <1>2, <1>3, <1>5, <1>6, <1>8, <1>9, SamePersonStep, Zenon

\* The loop over the listed families.
LEMMA NextFamilyStep ==
    ASSUME SessionsInv, NEW r \in Batches, NextFamily(r), UNCHANGED limit
    PROVE  SessionsInv'
  <1>1. /\ pc[r] = "next" /\ pc[r] \in Running
        /\ UNCHANGED <<families, tokens, outbox, lock, person, expired, tok, why, late, mem, scope, stamp>>
    BY DEF NextFamily, store, Running
  <1>2. r \in Requests /\ r \notin Tokens \cup Logouts
    BY Kinds DEF Batches
  <1>3. TypeOK /\ person.stamp \in Nat /\ ReqInv(r) /\ Active' = Active
    BY <1>1, <1>2 DEF SessionsInv, ChainInv, TypeOK, Active
  <1>4. limit = 1 => Run(r) /\ Rest(r)
    BY <1>1, <1>2 DEF SessionsInv, SerialInv
  <1>5. CASE todo[r] = {} /\ pc' = [pc EXCEPT ![r] = "ok"] /\ UNCHANGED <<fam, todo>>
    <2>1. TypeOK'
      BY <1>1, <1>2, <1>3, <1>5 DEF TypeOK, Outcomes
    <2>2. Others(r) /\ pc'[r] = "ok" /\ pc'[r] \notin Running
      BY <1>1, <1>2, <1>3, <1>5 DEF TypeOK, Others, Running, InTx
    <2>3. ReqInv(r)'
      BY <1>1, <1>2, <1>3, <1>5, <2>2, Zenon DEF ReqInv, InTx, Holding, Tokens
    <2>4. \A f \in Active : stamp[f] \in Nat /\ stamp[r] \in Nat
      BY <1>2, <1>3, Kinds, Zenon DEF TypeOK, Active
    <2>5. ASSUME limit = 1, r \in Cascades, scope[r] = None PROVE \A f \in Active : stamp[f] >= stamp[r]
      <3>1. \A f \in Active : ~(stamp[f] < stamp[r])
        BY <1>1, <1>4, <1>5, <2>5, Zenon DEF Run, InTx
      <3>2. QED
        BY <2>4, <3>1
    <2>6. limit = 1 => Rest(r)'
      BY <1>1, <1>2, <1>3, <1>4, <2>2, <2>5, Zenon DEF Rest, Tokens
    <2>7. QED
      BY <1>1, <1>2, <1>3, <2>1, <2>2, <2>3, <2>6, SamePersonStep, Zenon
  <1>6. ASSUME NEW f \in todo[r], fam' = [fam EXCEPT ![r] = f], todo' = [todo EXCEPT ![r] = @ \ {f}],
               pc' = [pc EXCEPT ![r] = "family"]
        PROVE  SessionsInv'
    <2>1. f \in Logins
      BY <1>2, <1>3 DEF TypeOK
    <2>2. TypeOK'
      BY <1>1, <1>2, <1>3, <1>6, <2>1 DEF TypeOK, Running, InTx
    <2>3. /\ Others(r) /\ pc'[r] = "family" /\ fam'[r] = f
          /\ \A g \in todo[r] : g = f \/ g \in todo'[r]
      BY <1>1, <1>2, <1>3, <1>6 DEF TypeOK, Others
    <2>4. why[r] # "rotate"
      BY <1>1, <1>2, <1>3, Zenon DEF ReqInv, Tokens
    <2>5. ReqInv(r)'
      BY <1>1, <1>2, <1>3, <2>1, <2>3, <2>4, Zenon DEF ReqInv, InTx, Holding, Tokens
    <2>6. limit = 1 => Rest(r)' /\ Run(r)'
      BY <1>1, <1>2, <1>3, <1>4, <2>3, Zenon DEF Rest, Run, InTx, Holding, Tokens
    <2>7. QED
      BY <1>1, <1>2, <1>3, <2>2, <2>3, <2>5, <2>6, SamePersonStep, Zenon
  <1>7. QED
    BY <1>5, <1>6 DEF NextFamily, Goto

\* What a request knows holds on while it is in the transaction.
LEMMA RunOn ==
    ASSUME NEW r \in Requests, TypeOK, Run(r), pc[r] \in InTx, pc'[r] \in InTx, Others(r),
           UNCHANGED <<families, tokens, expired, person, tok, fam, why, late, todo, scope, stamp>>,
           pc'[r] = "tokens" => mem'[r].revoked = families[fam[r]].revoked,
           pc'[r] \in Holding => Rotation(r)' \/ Revocation(r)'
    PROVE  Run(r)'
  <1>1. pc'[r] # "add" /\ pc'[r] # "rejected" /\ late[r] \in BOOLEAN /\ pc'[r] \notin {"person", "membership"}
    BY Zenon DEF InTx, TypeOK
  <1>2. r \in Refreshes /\ why[r] # "rotate" => tokens[tok[r]].next = r
    BY Zenon DEF Run
  <1>3. ASSUME r \in Refreshes, why[r] = "rotate"
        PROVE  (IF late[r] THEN tok[r] \in expired
                ELSE \A q \in Refreshes : pc[q] = "rejected" /\ tok[q] = tok[r] => Ended(tok[r], q))'
    <2>1. CASE late[r] = TRUE
      BY <1>3, <2>1, Zenon DEF Run
    <2>2. CASE late[r] = FALSE
      <3>1. \A q \in Refreshes : pc[q] = "rejected" /\ tok[q] = tok[r] => Ended(tok[r], q)
        BY <1>3, <2>2, Zenon DEF Run
      <3>2. \A q \in Refreshes : Ended(tok[r], q) => Ended(tok[r], q)'
        BY Zenon DEF Ended
      <3>3. \A q \in Refreshes : pc'[q] = "rejected" => pc[q] = "rejected"
        BY <1>1, Kinds, Zenon DEF Others
      <3>4. QED
        BY <2>2, <3>1, <3>2, <3>3, Zenon
    <2>3. QED
      BY <1>1, <2>1, <2>2, Zenon
  <1>4. ASSUME r \in Cascades, scope[r] = None
        PROVE  (\A f \in Active : stamp[f] < stamp[r] => f \in todo[r] \/ (pc[r] \in InTx /\ f = fam[r]))'
    BY <1>4, Zenon DEF Run, Active
  <1>5. QED
    BY <1>1, <1>2, <1>3, <1>4, Zenon DEF Run

\* FindFamily.
LEMMA ReadFamilyStep ==
    ASSUME SessionsInv, NEW r \in Requests \ Logins, ReadFamily(r), UNCHANGED limit
    PROVE  SessionsInv'
  <1> DEFINE m == [revoked |-> families[fam[r]].revoked, events |-> {}, tokens |-> [t \in Tokens |-> NoRow]]
  <1>1. /\ pc[r] = "family" /\ pc[r] \in Running /\ pc[r] \in InTx
        /\ UNCHANGED <<families, tokens, outbox, lock, person, expired, tok, fam, why, late, todo, scope, stamp>>
    BY Zenon DEF ReadFamily, store, Running, InTx
  <1>2. TypeOK /\ person.stamp \in Nat /\ ReqInv(r) /\ fam[r] \in Logins
    BY <1>1, Zenon DEF SessionsInv, ChainInv, TypeOK, ReqInv
  <1>3. \/ pc' = [pc EXCEPT ![r] = "notFound"] /\ UNCHANGED mem
        \/ /\ families[fam[r]] # NoRow /\ m \in Aggregates
           /\ pc' = [pc EXCEPT ![r] = "tokens"] /\ mem' = [mem EXCEPT ![r] = m]
    BY <1>2, Zenon DEF ReadFamily, TypeOK, FamilyRows, Aggregates
  <1>4. m.revoked = families[fam[r]].revoked
    BY Zenon
  <1> HIDE DEF m
  <1>5. TypeOK'
    <2>1. {"tokens", "notFound"} \subseteq {"idle"} \cup Running \cup Outcomes
      BY Zenon DEF Running, InTx, Outcomes
    <2>2. pc' \in [Requests -> {"idle"} \cup Running \cup Outcomes]
      BY <1>2, <1>3, <2>1, Zenon DEF TypeOK
    <2>3. mem' \in [Requests -> Aggregates \cup {NoRow}]
      BY <1>2, <1>3, Zenon DEF TypeOK
    <2>4. QED
      BY <1>1, <1>2, <2>2, <2>3, Zenon DEF TypeOK
  <1>6. Others(r)
    BY <1>1, <1>2, <1>3 DEF TypeOK, Others
  <1>7. \/ pc'[r] = "notFound"
        \/ pc'[r] = "tokens" /\ families[fam[r]] # NoRow /\ mem'[r] # NoRow /\ mem'[r].revoked = families[fam[r]].revoked
    <2>1. \/ pc'[r] = "notFound"
          \/ pc'[r] = "tokens" /\ families[fam[r]] # NoRow /\ mem'[r] = m /\ m \in Aggregates
      BY <1>2, <1>3, Zenon DEF TypeOK
    <2>2. NoRow \notin Aggregates
      BY SessionsAssumption, Zenon
    <2>3. QED
      BY <1>4, <2>1, <2>2, Zenon
  <1>8. ReqInv(r)'
    BY <1>1, <1>2, <1>7, Zenon DEF ReqInv, InTx, Holding
  <1>9. limit = 1 => Rest(r) /\ Run(r)
    BY <1>1 DEF SessionsInv, SerialInv
  <1>10. limit = 1 => Rest(r)'
    BY <1>1, <1>7, <1>9, Zenon DEF Rest
  <1>11. limit = 1 => (pc'[r] \in Running => Run(r)')
    BY <1>1, <1>2, <1>6, <1>7, <1>9, RunOn, Zenon DEF Running, InTx, Holding
  <1>12. QED
    BY <1>1, <1>2, <1>5, <1>6, <1>8, <1>10, <1>11, SamePersonStep, Zenon

\* FindTokens, and the handler's function on what was read.
LEMMA ReadTokensStep ==
    ASSUME SessionsInv, NEW r \in Requests \ Logins, ReadTokens(r), UNCHANGED limit
    PROVE  SessionsInv'
  <1>1. /\ pc[r] = "tokens" /\ pc[r] \in Running /\ pc[r] \in InTx
        /\ UNCHANGED <<families, tokens, outbox, lock, person, expired, tok, fam, why, late, todo, scope, stamp>>
    BY DEF ReadTokens, store, Running, InTx
  <1>2. TypeOK /\ person.stamp \in Nat /\ ReqInv(r) /\ fam[r] \in Logins
    BY <1>1, Zenon DEF SessionsInv, ChainInv, TypeOK, ReqInv
  <1>3. limit = 1 => Rest(r) /\ Run(r)
    BY <1>1 DEF SessionsInv, SerialInv
  <1>4. CASE /\ Persists(r, Loaded(r)) /\ mem' = [mem EXCEPT ![r] = Updated(r, Loaded(r))]
             /\ pc' = [pc EXCEPT ![r] = "update"]
    <2>1. pc'[r] = "update" /\ mem'[r] = Updated(r, Loaded(r))
      BY <1>2, <1>4 DEF TypeOK
    <2>2. mem'[r] \in Aggregates /\ CopyInv(r)' /\ (limit = 1 => Rotation(r)' \/ Revocation(r)')
      <3>1. CASE why[r] = "rotate" /\ RotateError(Loaded(r), tok[r], late[r]) = "none"
        BY <1>1, <2>1, <3>1, RotatedCopy, Zenon
      <3>2. CASE why[r] = "rotate" /\ RotateError(Loaded(r), tok[r], late[r]) = "reuse"
        <4>1. mem'[r] = Revoke(Loaded(r), fam[r], "reuse_detected") /\ "reuse_detected" \in Reasons
          BY <2>1, <3>2 DEF Updated, Reasons
        <4>2. QED
          BY <1>1, <4>1, RevokedCopy
      <3>3. CASE why[r] # "rotate"
        <4>1. mem'[r] = Revoke(Loaded(r), fam[r], why[r]) /\ why[r] \in Reasons
          BY <1>2, <2>1, <3>3, Zenon DEF Updated, TypeOK
        <4>2. QED
          BY <1>1, <4>1, RevokedCopy, Zenon
      <3>4. QED
        BY <1>4, <3>1, <3>2, <3>3, Zenon DEF Persists
    <2>3. TypeOK'
      BY <1>1, <1>2, <1>4, <2>1, <2>2 DEF TypeOK, Running, InTx
    <2>4. Others(r) /\ mem'[r] # NoRow
      BY <1>1, <1>2, <1>4, <2>2, SessionsAssumption DEF TypeOK, Others
    <2>5. ReqInv(r)'
      BY <1>1, <1>2, <2>1, <2>2, <2>4, Zenon DEF ReqInv, InTx, Holding
    <2>6. limit = 1 => Rest(r)'
      BY <1>1, <1>3, <2>1, Zenon DEF Rest
    <2>7. limit = 1 => Run(r)'
      BY <1>1, <1>2, <1>3, <2>1, <2>2, <2>4, RunOn, Zenon DEF InTx, Holding
    <2>8. QED
      BY <1>1, <1>2, <2>3, <2>4, <2>5, <2>6, <2>7, SamePersonStep, Zenon
  <1>5. CASE /\ ~Persists(r, Loaded(r)) /\ mem' = [mem EXCEPT ![r] = NoRow]
             /\ pc' = [pc EXCEPT ![r] = After(r, FALSE)]
    <2>1. pc'[r] = After(r, FALSE) /\ After(r, FALSE) \in {"next", "ok", "rejected"}
      BY <1>2, <1>5 DEF TypeOK, After
    <2>2. TypeOK'
      BY <1>1, <1>2, <1>5, <2>1, Zenon DEF TypeOK, Running, Outcomes
    <2>3. Others(r)
      BY <1>1, <1>2, <1>5 DEF TypeOK, Others
    <2>4. r \notin Cascades
      <3>1. r \in Cascades => why[r] # "rotate" /\ r \notin SessionRevokes \cup SignOuts
        BY <1>1, <1>2, Kinds, Zenon DEF ReqInv, Tokens
      <3>2. QED
        BY <1>5, <3>1, Zenon DEF Persists
    <2>5. r \in Refreshes => why[r] = "rotate" /\ pc'[r] = "rejected"
      BY <1>5, <2>1, Kinds, Zenon DEF Persists, After
    <2>6. r \notin Refreshes => pc'[r] \in {"next", "ok"}
      BY <2>1 DEF After
    <2>7. ReqInv(r)'
      BY <1>1, <1>2, <2>5, <2>6, Zenon DEF ReqInv, InTx, Holding
    <2>8. ASSUME limit = 1, r \in Refreshes, tok[r] # None
          PROVE  Ended(tok[r], r) \/ (tokens[tok[r]].next = Live /\ tok[r] \in expired)
      <3>1. /\ RotateError(Loaded(r), tok[r], late[r]) \notin {"none", "reuse"}
            /\ late[r] \in BOOLEAN /\ tok[r] \in Tokens
        BY <1>2, <1>5, <2>5, <2>8 DEF Persists, TypeOK
      <3>2. tokens[tok[r]] # NoRow /\ fam[r] = tokens[tok[r]].family
        BY <1>1, <1>2, <2>8, Zenon DEF ReqInv
      <3>3. Loaded(r).tokens[tok[r]] = tokens[tok[r]] /\ Loaded(r).revoked = families[fam[r]].revoked
        BY <1>1, <1>3, <2>8, <3>1, <3>2, LoadedFields, Zenon DEF Run
      <3>4. CASE families[fam[r]].revoked # "no"
        BY <3>2, <3>4, Zenon DEF Ended
      <3>5. CASE families[fam[r]].revoked = "no"
        <4>1. tokens[tok[r]].next = Live /\ late[r] = TRUE
          BY <3>1, <3>2, <3>3, <3>5, Zenon DEF RotateError
        <4>2. QED
          BY <1>1, <1>3, <2>5, <2>8, <4>1, Zenon DEF Run
      <3>6. QED
        BY <3>4, <3>5, Zenon
    <2>9. limit = 1 => Rest(r)'
      BY <1>1, <2>4, <2>8, Zenon DEF Rest, Ended
    <2>10. pc'[r] \in Running => Run(r)'
      BY <2>1, <2>4, <2>5, Zenon DEF Run, Running, InTx, Holding
    <2>11. QED
      BY <1>1, <2>2, <2>3, <2>7, <2>9, <2>10, SamePersonStep, Zenon
  <1>6. QED
    BY <1>4, <1>5, Zenon DEF ReadTokens, Loaded

\* The UPDATE of the family's row.
LEMMA UpdateFamilyStep ==
    ASSUME SessionsInv, NEW r \in Requests \ Logins, UpdateFamily(r), UNCHANGED limit
    PROVE  SessionsInv'
  <1>1. /\ pc[r] = "update" /\ pc[r] \in Running /\ pc[r] \in InTx /\ pc' = [pc EXCEPT ![r] = "commit"]
        /\ lock' = [lock EXCEPT ![fam[r]] = r]
        /\ UNCHANGED <<families, tokens, outbox, person, expired, tok, fam, why, late, todo, mem, scope, stamp>>
    BY DEF UpdateFamily, handler, Running, InTx
  <1>2. TypeOK /\ person.stamp \in Nat /\ ReqInv(r) /\ fam[r] \in Logins
    BY <1>1, Zenon DEF SessionsInv, ChainInv, TypeOK, ReqInv
  <1>3. limit = 1 => Rest(r) /\ Run(r)
    BY <1>1 DEF SessionsInv, SerialInv
  <1>4. TypeOK'
    BY <1>1, <1>2 DEF TypeOK, Running, InTx
  <1>5. Others(r) /\ pc'[r] = "commit"
    BY <1>1, <1>2 DEF TypeOK, Others
  <1>6. CopyInv(r) /\ (CopyInv(r) => CopyInv(r)')
    BY <1>1, <1>2, Zenon DEF ReqInv, Holding, CopyInv, Linked
  <1>7. ReqInv(r)'
    BY <1>1, <1>2, <1>5, <1>6, Zenon DEF ReqInv, InTx, Holding
  <1>8. limit = 1 => Rest(r)'
    BY <1>1, <1>3, <1>5, Zenon DEF Rest
  <1>9. limit = 1 => Rotation(r)' \/ Revocation(r)'
    BY <1>1, <1>3, Zenon DEF Run, Holding, Rotation, Revocation
  <1>10. limit = 1 => Run(r)'
    BY <1>1, <1>2, <1>3, <1>5, <1>9, RunOn, Zenon DEF InTx, Holding
  <1>11. QED
    BY <1>1, <1>2, <1>4, <1>5, <1>7, <1>8, <1>10, SamePersonStep, Zenon

\* A statement fails.
LEMMA AbortStep ==
    ASSUME SessionsInv, NEW r \in Requests \ Logins, Abort(r), UNCHANGED limit
    PROVE  SessionsInv'
  <1>1. /\ pc[r] \in InTx /\ pc[r] \in Running /\ pc' = [pc EXCEPT ![r] = AfterError(r)]
        /\ mem' = [mem EXCEPT ![r] = NoRow]
        /\ UNCHANGED <<families, tokens, outbox, person, expired, tok, fam, why, late, todo, scope, stamp>>
    BY DEF Abort, Running
  <1>2. TypeOK /\ person.stamp \in Nat /\ ReqInv(r)
    BY DEF SessionsInv, ChainInv, TypeOK
  <1>3. limit = 1 => Rest(r) /\ Run(r)
    BY <1>1 DEF SessionsInv, SerialInv
  <1>4. lock' \in [Logins -> Requests \cup {Free}]
    BY <1>2 DEF Abort, Unlock, TypeOK
  <1>5. Others(r) /\ pc'[r] = AfterError(r) /\ AfterError(r) \in {"list", "rejected", "error"}
    BY <1>1, <1>2 DEF TypeOK, Others, AfterError
  <1>6. TypeOK'
    BY <1>1, <1>2, <1>4, <1>5, Zenon DEF TypeOK, Running, Outcomes
  <1>7. ReqInv(r)'
    BY <1>1, <1>2, <1>5, Zenon DEF ReqInv, InTx, Holding
  <1>8. /\ pc'[r] = "rejected" => r \in Refreshes /\ why[r] # "rotate"
        /\ pc'[r] = "list" => r \in Cascades
    BY <1>5, Zenon DEF AfterError
  <1>9. limit = 1 => Rest(r)'
    BY <1>1, <1>3, <1>5, <1>8, Zenon DEF Rest, Run, Ended
  <1>10. pc'[r] \in Running => Run(r)'
    BY <1>5, <1>8, Kinds, Zenon DEF Run, Running, InTx, Holding, Tokens
  <1>11. QED
    BY <1>1, <1>2, <1>5, <1>6, <1>7, <1>9, <1>10, SamePersonStep, Zenon

-----------------------------------------------------------------------------
(* Every step.                                                              *)

\* No handler moves.
LEMMA NobodyMoves ==
    ASSUME SessionsInv, TypeOK', UNCHANGED <<limit, families, tokens>>,
           UNCHANGED <<pc, tok, fam, why, late, todo, mem, scope, stamp>>,
           person'.stamp = person.stamp, expired \subseteq expired'
    PROVE  SessionsInv'
  <1>1. StoreInv' /\ \A q \in Requests : ReqInv(q)'
    BY ReqKept, Zenon DEF SessionsInv, ChainInv, StoreInv, Linked
  <1>2. ASSUME limit = 1, NEW q \in Requests PROVE Rest(q)'
    BY <1>2, Zenon DEF SessionsInv, SerialInv, Rest, Ended, Active
  <1>3. ASSUME limit = 1, NEW q \in Requests, pc[q] \in Running PROVE Run(q)'
    <2>1. Run(q) /\ late[q] \in BOOLEAN
      BY <1>3, Zenon DEF SessionsInv, SerialInv, TypeOK
    <2>2. /\ Rotation(q) => Rotation(q)'
          /\ Revocation(q) => Revocation(q)'
          /\ Active' = Active
      BY Zenon DEF Rotation, Revocation, Active
    <2>3. \A c \in Refreshes : Ended(tok[q], c) => Ended(tok[q], c)'
      BY Zenon DEF Ended
    <2>4. CASE late[q] = TRUE
      BY <2>1, <2>2, <2>4, Zenon DEF Run
    <2>5. CASE late[q] = FALSE
      BY <2>1, <2>2, <2>3, <2>5, Zenon DEF Run
    <2>6. QED
      BY <2>1, <2>4, <2>5, Zenon
  <1>4. Alone => Alone'
    BY Zenon DEF Alone
  <1>5. OneEnd => OneEnd'
    BY Zenon DEF OneEnd
  <1>6. QED
    BY <1>1, <1>2, <1>3, <1>4, <1>5, Zenon DEF SessionsInv, ChainInv, SerialInv

\* Time passes, or the person joins a tenant: no handler moves.
LEMMA OutsideStep ==
    ASSUME SessionsInv, UNCHANGED limit, ActivateMembership \/ \E t \in Tokens : Expire(t)
    PROVE  SessionsInv'
  <1>1. /\ UNCHANGED <<families, tokens, outbox, lock, pc, tok, fam, why, late, todo, mem, scope, stamp>>
        /\ person'.stamp = person.stamp /\ expired \subseteq expired' /\ TypeOK'
    <2>1. CASE ActivateMembership
      <3>1. PICK t \in Tenants : person' = [person EXCEPT !.tenant = t]
        BY <2>1 DEF ActivateMembership
      <3>2. /\ person' \in [active : BOOLEAN, tenant : Tenants \cup {None}, stamp : Nat]
            /\ person'.stamp = person.stamp
        BY <3>1 DEF SessionsInv, TypeOK
      <3>3. QED
        BY <2>1, <3>2 DEF ActivateMembership, store, handler, SessionsInv, TypeOK
    <2>2. CASE \E t \in Tokens : Expire(t)
      BY <2>2, Zenon DEF Expire, store, handler, SessionsInv, TypeOK
    <2>3. QED
      BY <2>1, <2>2, Zenon
  <1>2. QED
    BY <1>1, NobodyMoves, Zenon

\* At the start nothing is stored and nobody runs.
LEMMA InvInit == Init => SessionsInv
  <1> SUFFICES ASSUME Init PROVE SessionsInv
    OBVIOUS
  <1>1. person \in [active : BOOLEAN, tenant : Tenants \cup {None}, stamp : Nat]
    <2>1. PICK t \in Tenants : person = [active |-> TRUE, tenant |-> t, stamp |-> 0]
      BY Zenon DEF Init
    <2>2. QED
      BY <2>1
  <1>2. TypeOK
    BY <1>1 DEF Init, TypeOK
  <1>3. \A t \in Tokens : tokens[t] = NoRow
    BY DEF Init
  <1>4. \A f \in Logins : families[f] = NoRow
    BY DEF Init
  <1>5. ASSUME NEW r \in Requests PROVE pc[r] = "idle" /\ tok[r] = None /\ stamp[r] = 0 /\ pc[r] \notin Running
    BY DEF Init, Running, InTx
  <1>6. StoreInv
    BY <1>3 DEF StoreInv, Linked
  <1>7. ASSUME NEW r \in Requests PROVE ReqInv(r)
    BY <1>3, <1>4, <1>5, Kinds, Zenon DEF ReqInv, InTx, Holding
  <1>8. ASSUME NEW r \in Requests PROVE Rest(r)
    BY <1>2, <1>5 DEF Rest, TypeOK
  <1>9. Alone /\ OneEnd
    BY <1>4, <1>5, Zenon DEF Alone, OneEnd
  <1>10. QED
    BY <1>2, <1>5, <1>6, <1>7, <1>8, <1>9, Zenon DEF SessionsInv, ChainInv, SerialInv

\* Every step of every handler keeps the invariant and undoes no end.
LEMMA InvNext == SessionsInv /\ Next => SessionsInv' /\ Final
  <1> SUFFICES ASSUME SessionsInv, Next PROVE SessionsInv' /\ Final
    OBVIOUS
  <1>1. UNCHANGED limit
    BY DEF Next
  <1>2. UNCHANGED <<families, tokens>> => Final
    BY DEF Final
  <1>3. ASSUME NEW r \in Logins, Login(r) \/ AddFamily(r) PROVE SessionsInv' /\ Final
    BY <1>1, <1>2, <1>3, LoginStep, AddFamilyStep DEF Login, store
  <1>4. ASSUME NEW r \in Refreshes \cup Logouts, Present(r) \/ Lookup(r) PROVE SessionsInv' /\ Final
    BY <1>1, <1>2, <1>4, PresentStep, LookupStep, Zenon DEF Present, Lookup, store
  <1>5. ASSUME NEW r \in Refreshes, CheckPerson(r) \/ CheckMembership(r) PROVE SessionsInv' /\ Final
    BY <1>1, <1>2, <1>5, CheckStep, Zenon DEF CheckPerson, CheckMembership, store
  <1>6. ASSUME NEW r \in Tokens, Issue(r) PROVE SessionsInv' /\ Final
    BY <1>1, <1>2, <1>6, IssueStep DEF Issue, store
  <1>7. ASSUME NEW r \in SessionRevokes, RevokeSession(r) PROVE SessionsInv' /\ Final
    BY <1>1, <1>2, <1>7, RevokeSessionStep, Zenon DEF RevokeSession, store
  <1>8. ASSUME NEW r \in SignOuts, SignOut(r) PROVE SessionsInv' /\ Final
    BY <1>1, <1>2, <1>8, BatchStep, Zenon DEF SignOut, store, Batches
  <1>9. ASSUME NEW r \in Cascades, SecurityChange(r) \/ DeactivateMembership(r) PROVE SessionsInv' /\ Final
    BY <1>1, <1>2, <1>9, BatchStep, Zenon DEF SecurityChange, DeactivateMembership, store, Batches
  <1>10. ASSUME NEW r \in Batches, List(r) \/ NextFamily(r) PROVE SessionsInv' /\ Final
    BY <1>1, <1>2, <1>10, ListStep, NextFamilyStep DEF List, NextFamily, store
  <1>11. ASSUME NEW r \in Requests \ Logins, ReadFamily(r) \/ ReadTokens(r) PROVE SessionsInv' /\ Final
    <2>1. UNCHANGED <<families, tokens>>
      BY <1>11, Zenon DEF ReadFamily, ReadTokens, store
    <2>2. QED
      BY <1>1, <1>2, <1>11, <2>1, ReadFamilyStep, ReadTokensStep
  <1>12. ASSUME NEW r \in Requests \ Logins, UpdateFamily(r) \/ Abort(r) PROVE SessionsInv' /\ Final
    <2>1. UNCHANGED <<families, tokens>>
      BY <1>12 DEF UpdateFamily, Abort
    <2>2. QED
      BY <1>1, <1>2, <1>12, <2>1, UpdateFamilyStep, AbortStep
  <1>13. ASSUME NEW r \in Requests \ Logins, Commit(r) PROVE SessionsInv' /\ Final
    BY <1>1, <1>13, CommitStep
  <1>14. CASE ActivateMembership \/ \E t \in Tokens : Expire(t)
    BY <1>1, <1>2, <1>14, OutsideStep DEF ActivateMembership, Expire, store
  <1>15. QED
    BY <1>3, <1>4, <1>5, <1>6, <1>7, <1>8, <1>9, <1>10, <1>11, <1>12, <1>13, <1>14 DEF Next, UpdateByID

\* Nor does a step that changes nothing.
LEMMA InvStutter == SessionsInv /\ UNCHANGED vars => SessionsInv' /\ Final
  <1> SUFFICES ASSUME SessionsInv, UNCHANGED vars PROVE SessionsInv' /\ Final
    OBVIOUS
  <1>1. /\ UNCHANGED <<limit, families, tokens, outbox, person, expired, lock>>
        /\ UNCHANGED <<pc, tok, fam, why, late, todo, mem, scope, stamp>>
    BY DEF vars
  <1>2. TypeOK'
    BY <1>1, Zenon DEF SessionsInv, TypeOK
  <1>3. Final
    BY <1>1, Zenon DEF Final
  <1>4. QED
    BY <1>1, <1>2, <1>3, NobodyMoves, Zenon

\* Type correctness, the chains of stored tokens and of handlers' copies, and, while
\* requests come one at a time, what each handler knows of the family it works on
\* (Family, UpdateByID and the handlers that call it).
THEOREM SessionsInvariant == Spec => []SessionsInv
  <1>1. SessionsInv /\ [Next]_vars => SessionsInv'
    BY InvNext, InvStutter
  <1>2. QED
    BY <1>1, InvInit, PTL DEF Spec

\* The refresh tokens of a family are one chain of generations, however requests
\* interleave, and the chain of an active family has one end while they come one at a
\* time (Family.Rotate, upsertFamilyTokens).
THEOREM ChainsAreLinked == Spec => []ChainIsLinked
  <1>1. SessionsInv => ChainIsLinked
    <2> SUFFICES ASSUME SessionsInv PROVE ChainIsLinked
      OBVIOUS
    <2>1. TypeOK /\ StoreInv
      BY DEF SessionsInv, ChainInv
    <2>2. ASSUME limit = 1, NEW f \in Active
          PROVE  \E t \in Tokens : LiveTokens(f) = {t}
      <3>1. PICK t \in Tokens : \A u \in Tokens :
               tokens[u] # NoRow /\ tokens[u].family = f /\ tokens[u].next = Live <=> u = t
        BY <2>2, Zenon DEF SessionsInv, SerialInv, OneEnd, Active
      <3>2. LiveTokens(f) = {t}
        BY <3>1 DEF LiveTokens
      <3>3. QED
        BY <3>2, Zenon
    <2>3. QED
      BY <2>1, <2>2, Zenon DEF ChainIsLinked, StoreInv, Linked
  <1>2. QED
    BY <1>1, SessionsInvariant, PTL

\* What must end a session has ended it, while requests come one at a time: a refresh
\* refused for a token consumed by another has revoked its family, and after the
\* subscriber of a security change no earlier login is active.
THEOREM CompromiseIsContained == Spec => []CompromiseEndsSessions
  <1>1. SessionsInv => CompromiseEndsSessions
    BY Zenon DEF SessionsInv, SerialInv, Rest, Ended, CompromiseEndsSessions, Requests, Tokens
  <1>2. QED
    BY <1>1, SessionsInvariant, PTL

\* No commit restores a revoked family or gives a consumed token another successor while
\* requests come one at a time (UpdateByID writes back what it read).
THEOREM EndsAreFinal == Spec => EndedStaysEnded
  <1>1. SessionsInv /\ [Next]_vars => SessionsInv' /\ Final
    BY InvNext, InvStutter
  <1>2. Final => [limit = 1 =>
         /\ \A f \in Logins : families[f] # NoRow /\ families[f].revoked # "no"
               => families'[f].revoked # "no"
         /\ \A t \in Tokens : tokens[t] # NoRow /\ tokens[t].next # Live
               => tokens'[t].next = tokens[t].next]_vars
    BY DEF Final
  <1>3. QED
    BY <1>1, <1>2, InvInit, PTL DEF Spec, EndedStaysEnded
====
