---- MODULE MCPlatform ----
(***************************************************************************)
(* Small instances of Tenants, Gateway and Idempotency, side by side: a    *)
(* behaviour exercises one of them.  Gateway: one operator whose stamp     *)
(* rotates once, two requests, three logins and impersonations, entries of *)
(* the cache that live one unit of time and reads that take at most one.   *)
(* Idempotency: one caller, two command ids and two bodies.  The requests  *)
(* and bodies are the model values of the tenants, which shares their      *)
(* symmetry.                                                               *)
(***************************************************************************)
EXTENDS MCTenants, Gateway, Idempotency

ASSUME GatewayAssumption /\ IdempotencyAssumption

TenantsIdle == clock = 0 /\ failures = 0 /\ \A c \in Calls : pc[c] = "idle"
GateIdle == instant = 0 /\ faults = 0 /\ tokens = {} /\ rotations = {} /\ \A p \in People : retired[p] = <<>>
IdemIdle == ticks = 0 /\ runs = {} /\ replayed = {} /\ \A q \in Attempts : attempt[q] = NoAttempt

\* The third login or impersonation comes without a rotation and without a failure.
PlatformScope == Scope /\ (Begun = MaxTokens => faults = 0 /\ \A p \in People : retired[p] = <<>>)

PlatformInit == Init /\ GateInit /\ IdemInit /\ alimit = limit

PlatformNext ==
    \/ GateIdle /\ IdemIdle /\ Next /\ UNCHANGED <<gateVars, idemVars, alimit>>
    \/ limit = 1 /\ TenantsIdle /\ IdemIdle /\ GateNext /\ UNCHANGED <<vars, limit, idemVars, alimit>>
    \/ TenantsIdle /\ GateIdle /\ IdemNext /\ UNCHANGED <<vars, limit, gateVars>>

PlatformSpec == PlatformInit /\ [][PlatformNext]_<<vars, limit, gateVars, idemVars, alimit>>
====
