----------------------------- MODULE MCLlmProxy -----------------------------
(***************************************************************************)
(* Instances of LlmProxy, all of whose requests have one target, so that   *)
(* they share its cap, and of ClusterGateway and ServeState, which         *)
(* deployments a served name goes to and what the dashboard says of one of *)
(* them.  They run side by side: part says which of them this behaviour is *)
(* about, the others rest.                                                 *)
(***************************************************************************)
EXTENDS LlmProxy, ServeState, ClusterGateway

CONSTANTS r1, r2, r3, t, p, q, m1, m2, m3

VARIABLE part

OneTarget == [r \in Reqs |-> t]

\* The recipe's port alone, and after another one.
Lists == {<<p>>, <<q, p>>}
Three == <<m1, m2, m3>>

frontVars == <<part, vars, stateVars, gatewayVars>>

FrontInit ==
    /\ part \in {"proxy", "gateway", "state"}
    /\ Init /\ StateInit /\ GatewayInit
    /\ part # "gateway" => serves = [m \in All |-> "out"]

FrontNext ==
    \/ part = "proxy" /\ Next /\ UNCHANGED <<part, stateVars, gatewayVars>>
    \/ part = "gateway" /\ GatewayNext /\ UNCHANGED <<part, vars, stateVars>>
    \/ part = "state" /\ StateNext /\ UNCHANGED <<part, vars, gatewayVars>>

FrontSpec ==
    /\ FrontInit /\ [][FrontNext]_frontVars
    /\ \/ part = "proxy" /\ Fairness
       \/ part = "gateway"
       \/ part = "state" /\ StateFairness

-----------------------------------------------------------------------------
\* What is said of a deployment was so when it was probed, its gateway is fair.
FrontIsHonest ==
    /\ StateTypeOK /\ StoppedIsHonest /\ HealthyAnswered /\ StopOutranks
    /\ GatewayTypeOK /\ FairShares
=============================================================================
