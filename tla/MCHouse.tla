------------------------------ MODULE MCHouse ------------------------------
(***************************************************************************)
(* Instances of ServeEngine, DashboardConfig and SshMux, side by side:     *)
(* part says which of them this behaviour is about, the others rest.       *)
(***************************************************************************)
EXTENDS ServeEngine, DashboardConfig, SshMux

CONSTANTS g, h, s1, p1, q1, q2, q3

VARIABLE part

OneSpark == [r \in Recipes |-> s1]
OnePort  == [r \in Recipes |-> p1]
LastIsH  == [q \in Requests |-> IF q = q3 THEN h ELSE g]

houseVars == <<part, vars, configVars, muxVars>>

HouseInit ==
    /\ part \in {"engine", "config", "mux"}
    /\ Init /\ ConfigInit /\ MuxInit
    /\ part # "config" => /\ envKey = 0 /\ writable /\ settingsFile = Missing

HouseNext ==
    \/ part = "engine" /\ Next /\ UNCHANGED <<part, configVars, muxVars>>
    \/ part = "config" /\ ConfigNext /\ UNCHANGED <<part, vars, muxVars>>
    \/ part = "mux" /\ MuxNext /\ UNCHANGED <<part, vars, configVars>>

HouseSpec == HouseInit /\ [][HouseNext]_houseVars

-----------------------------------------------------------------------------
\* Tokens, passwords and settings are read as they were given; one connection
\* is opened to a spark at a time, and is trusted only if it was probed since
\* the last failure.
HouseHolds ==
    /\ ConfigTypeOK /\ SecretsStay /\ OneKeyIsMade /\ SettingsAreKept
    /\ MuxTypeOK /\ OneDials /\ TrustIsNew /\ NobodyWaits
=============================================================================
