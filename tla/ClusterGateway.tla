--------------------------- MODULE ClusterGateway ---------------------------
(***************************************************************************)
(* /llm/cluster/<servedName>: the proxy sends each request to one of the   *)
(* deployments that serve the name.  gatewayTargets of                     *)
(* server/serving/deployments.js lists those that should run, with the     *)
(* health that their port's row shows; the handler of                      *)
(* server/proxy/llmProxy.js takes the healthy ones if there are any, all   *)
(* otherwise, and goes round with a cursor that it keeps per name.  The    *)
(* list may change between any two requests, the cursor stays.             *)
(***************************************************************************)
EXTENDS Naturals, Sequences, FiniteSets, SequencesExt

CONSTANTS
    Members,        \* the recipes that serve the name, in the order of the store
    MaxRequests     \* bound on requests while the pool stays as it is

ASSUME GatewayAssumption ==
    Members \in Seq(ToSet(Members)) /\ IsInjective(Members) /\ MaxRequests \in Nat

VARIABLES
    serves,     \* per recipe: "out" (stopped or orphaned), "warm" or "up"
    cursor,     \* the round-robin cursor of the name, 0 if it has none yet
    served      \* requests each recipe got since the pool changed

gatewayVars == <<serves, cursor, served>>

All == ToSet(Members)

\* Those of S, in the store's order.
InOrder(S) ==
    LET first[i \in 0..Len(Members)] ==
            IF i = 0 THEN <<>>
            ELSE IF Members[i] \in S THEN Append(first[i - 1], Members[i]) ELSE first[i - 1]
    IN  first[Len(Members)]

\* gatewayTargets: what should run.
GatewayTargets == InOrder({m \in All : serves[m] # "out"})

Pool == LET healthy == InOrder({m \in All : serves[m] = "up"})
        IN  IF healthy = <<>> THEN GatewayTargets ELSE healthy

Index == cursor % Len(Pool)

GatewayInit ==
    /\ serves \in [All -> {"out", "warm", "up"}]
    /\ cursor = 0
    /\ served = [m \in All |-> 0]

Moved(i) == i + 1

Request ==
    /\ GatewayTargets # <<>>
    /\ LET m == Pool[Index + 1]
       IN  /\ served[m] < MaxRequests
           /\ served' = [served EXCEPT ![m] = @ + 1]
    /\ cursor' = Moved(Index)
    /\ UNCHANGED serves

\* Nobody serves the name: 404, with the names of gatewayNames.
NoTarget ==
    /\ GatewayTargets = <<>>
    /\ UNCHANGED gatewayVars

\* A start, a stop, the spark's removal or return, a new row of its port.
Changes(m, s) ==
    /\ s # serves[m]
    /\ serves' = [serves EXCEPT ![m] = s]
    /\ served' = IF Pool' = Pool THEN served ELSE [x \in All |-> 0]
    /\ UNCHANGED cursor

GatewayNext ==
    \/ Request \/ NoTarget
    \/ \E m \in All, s \in {"out", "warm", "up"} : Changes(m, s)

-----------------------------------------------------------------------------
GatewayTypeOK ==
    /\ serves \in [All -> {"out", "warm", "up"}]
    /\ cursor \in 0..Len(Members)
    /\ served \in [All -> 0..MaxRequests]

\* While the pool stays as it is, its members get their requests in turn: no
\* one gets two more than another, wherever the cursor stood when the pool
\* became what it is; others get none.
FairShares ==
    \A m \in All : \A o \in All :
        o \in ToSet(Pool) => served[m] <= served[o] + 1
=============================================================================
