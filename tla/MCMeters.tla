------------------------------ MODULE MCMeters ------------------------------
(***************************************************************************)
(* Instances of SparkStore, TokenLedger and FleetEnergy, side by side:     *)
(* part says which of them this behaviour is about, the others rest.  The  *)
(* energy accounts are run for their time, without tokens, and for tokens, *)
(* with one upset and the nodes fresh all or none.                         *)
(***************************************************************************)
EXTENDS SparkStore, TokenLedger, FleetEnergy, TLC

CONSTANTS a, p, q, m1, m2, n1, n2, s1, s2

VARIABLE part

Fault(missing, high) == [missing |-> missing, high |-> high]
SomeFaults == {Fault({}, {}), Fault({"prompt"}, {}), Fault({}, {"output"}), Fault({}, {"prompt"})}

vars == <<part, storeVars, ledgerVars, energyVars>>

Init == /\ part \in {"store", "ledger", "time", "tokens"}
        /\ StoreInit /\ LedgerInit /\ EnergyInit
        /\ part # "ledger" => model = m1
        /\ part \notin {"time", "tokens"} => disk = OldFile(0)

Next ==
    \/ part = "store" /\ StoreNext /\ UNCHANGED <<part, ledgerVars, energyVars>>
    \/ part = "ledger" /\ LedgerNext /\ UNCHANGED <<part, storeVars, energyVars>>
    \/ part = "time" /\ EnergyNext /\ produced' = 0 /\ tokenBase' = NoCount
       /\ UNCHANGED <<part, storeVars, ledgerVars>>
    \/ part = "tokens" /\ EnergyNext /\ upsets' <= 1 /\ nodeBase'[n1] = nodeBase'[n2]
       /\ UNCHANGED <<part, storeVars, ledgerVars>>

Spec == Init /\ [][Next]_vars

-----------------------------------------------------------------------------
\* Type correctness of the three.
MeterTypesOK == StoreTypeOK /\ LedgerTypeOK /\ EnergyTypeOK

\* Neither tokens nor time are counted twice, through restarts of engines and
\* of the dashboard, absurd samples and clocks set back, and what a total is
\* broken down to belongs to it.
MetersAddUp ==
    /\ NeverOvercounts /\ TimeCountsOnce /\ TokensCountOnce
    /\ RightModel /\ CachedIsPart /\ DaysAddUp /\ FleetIsCovered

\* Memory, disk and the identity of the sparks go together; crashes, boots and
\* saves of one bucket cost no spark, key or token.
StoreHolds ==
    /\ [](MemoryOnDisk /\ NoInheritedSecret)
    /\ CrashIsAtomic /\ LoadKeepsKeys /\ TokenKept
=============================================================================
