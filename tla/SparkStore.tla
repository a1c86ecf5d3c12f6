----------------------------- MODULE SparkStore -----------------------------
(***************************************************************************)
(* The registry of sparks and its two files (server/sparks/SparkRegistry,  *)
(* server/secretsStore, server/atomicWrite): sparks.json with the sparks   *)
(* and their LLM ports, and the encrypted sparks-secrets.json with         *)
(* passwords, LLM API keys per port, and the token of the agents.          *)
(*                                                                         *)
(* Operations are synchronous, so no two of them interleave; a write may   *)
(* fail and the process may die at any point of one.  A file that is       *)
(* missing or cannot be parsed reads as empty.  A secret stands for the    *)
(* registration of the spark it was stored for.                            *)
(***************************************************************************)
EXTENDS Naturals, Sequences, FiniteSets

CONSTANTS
    Ids, Ports,
    MaxAdds,    \* bound: registrations
    MaxTokens,  \* bound: tokens generated
    MaxFaults   \* bound: failed writes and crashes

ASSUME StoreAssumption == {MaxAdds, MaxTokens, MaxFaults} \subseteq Nat /\ IsFiniteSet(Ports)

VARIABLES
    diskS, diskX,   \* what the two files hold
    memS, memX,     \* _sparks, with _passwords and _llmApiKeys
    phase,          \* what happens next: "idle", "sparks" or "secrets" is written,
                    \* the "token", "undo" of sparks, or "down"
    op,             \* the operation under way
    born,           \* born[i]: number of the registration of i
    adds, faults,
    damaged,        \* history: files left behind by a failed restore or a lost file
    orphaned        \* history: ids booted with secrets and no spark

storeVars == <<diskS, diskX, memS, memX, phase, op, born, adds, faults, damaged, orphaned>>

\* Ports of each spark; a spark has a port at least, {} is no spark.
NoSparks == [i \in Ids |-> {}]
\* 0 is no password, no key, no token.
NoKeys    == [p \in Ports |-> 0]
NoSecrets == [pw |-> [i \in Ids |-> 0], keys |-> [i \in Ids |-> NoKeys], token |-> 0]

\* s: sparks to write; writes: the secrets to write after them; joint: the
\* first of these and the sparks commit together; loading: part of the boot.
NoOp == [s |-> NoSparks, writes |-> <<>>, joint |-> FALSE, loading |-> FALSE]

StoreInit ==
    /\ diskS = NoSparks /\ memS = NoSparks
    /\ diskX = [NoSecrets EXCEPT !.token = 1] /\ memX = NoSecrets
    /\ phase = "idle" /\ op = NoOp
    /\ born = [i \in Ids |-> 0] /\ adds = 0 /\ faults = 0
    /\ damaged = {} /\ orphaned = {}

Known(i) == memS[i] # {}

-----------------------------------------------------------------------------
(* The operations: what they will write *)

WithPassword(x, i, v) == [x EXCEPT !.pw[i] = v]
WithKeys(x, i, ks)    == [x EXCEPT !.keys[i] = ks]

\* moveLlmApiKey
Moved(ks, from, to) ==
    IF ks[from] = 0 THEN ks ELSE [ks EXCEPT ![from] = 0, ![to] = ks[from]]

\* syncLlmApiKeysToPorts moves the key when exactly one port was renamed ...
Renamed(ks, prev, next) ==
    IF Cardinality(prev \ next) = 1 /\ Cardinality(next \ prev) = 1
    THEN Moved(ks, CHOOSE p \in prev \ next : TRUE, CHOOSE p \in next \ prev : TRUE)
    ELSE ks

\* Mutated form: the other ports are not part of the result.
PrunedBug(ks, next) == [p \in next |-> ks[p]]

\* ... and then prunes.
Pruned(ks, next) == [p \in Ports |-> IF p \in next THEN ks[p] ELSE 0]

\* One write for each change.
Changes(x, i, seq) ==
    (IF seq[1] # x.keys[i] THEN <<WithKeys(x, i, seq[1])>> ELSE <<>>)
    \o (IF seq[2] # seq[1] THEN <<WithKeys(x, i, seq[2])>> ELSE <<>>)

SyncWrites(x, i, prev, next) ==
    LET ks == Renamed(x.keys[i], prev, next) IN Changes(x, i, <<ks, Pruned(ks, next)>>)

Begin(first, s, writes, joint) ==
    /\ phase = "idle" /\ phase' = first
    /\ op' = [s |-> s, writes |-> writes, joint |-> joint, loading |-> FALSE]
    /\ UNCHANGED <<diskS, diskX, memS, memX, faults, damaged, orphaned>>

\* addSpark, with or without a password.
Add(i, ports, secret) ==
    /\ ~Known(i) /\ ports # {} /\ adds < MaxAdds
    /\ adds' = adds + 1 /\ born' = [born EXCEPT ![i] = adds + 1]
    /\ Begin("sparks", [memS EXCEPT ![i] = ports],
             IF secret THEN <<WithPassword(memX, i, adds + 1)>> ELSE <<>>, secret)

\* patchSpark, PUT of the ports: ports and, maybe, a password.
Patch(i, ports, secret) ==
    LET x == IF secret THEN WithPassword(memX, i, born[i]) ELSE memX IN
    /\ Known(i) /\ ports # {}
    /\ Begin("sparks", [memS EXCEPT ![i] = ports],
             (IF secret THEN <<x>> ELSE <<>>) \o SyncWrites(x, i, memS[i], ports), secret)
    /\ UNCHANGED <<born, adds>>

\* POST of a port: the keys are left alone.
AddPort(i, p) ==
    /\ Known(i) /\ p \notin memS[i]
    /\ Begin("sparks", [memS EXCEPT ![i] = @ \union {p}], <<>>, FALSE)
    /\ UNCHANGED <<born, adds>>

\* DELETE of a port: its key goes too.
DropPort(i, p) ==
    LET ks == [memX.keys[i] EXCEPT ![p] = 0] IN
    /\ p \in memS[i] /\ memS[i] # {p}
    /\ Begin("sparks", [memS EXCEPT ![i] = @ \ {p}], Changes(memX, i, <<ks, ks>>), FALSE)
    /\ UNCHANGED <<born, adds>>

\* PUT of an API key; v = 0 clears it.  The port need not be a port of the spark.
SetKey(i, p, v) ==
    LET ks == [memX.keys[i] EXCEPT ![p] = v] IN
    /\ Known(i) /\ v \in {0, born[i]} /\ ks # memX.keys[i]
    /\ Begin("secrets", memS, Changes(memX, i, <<ks, ks>>), FALSE)
    /\ UNCHANGED <<born, adds>>

\* Mutated form: the keys of the spark are forgotten about.
ForgottenBug(i) == WithPassword(memX, i, 0)

\* Secrets without those of spark i.
Forgotten(i) == WithKeys(WithPassword(memX, i, 0), i, NoKeys)

\* removeSpark: the sparks first, the secrets after them.
Remove(i) ==
    /\ Known(i)
    /\ Begin("sparks", [memS EXCEPT ![i] = {}],
             IF Forgotten(i) = memX THEN <<>> ELSE <<Forgotten(i)>>, Forgotten(i) # memX)
    /\ UNCHANGED <<born, adds>>

\* reorderSparks, noteDetectedMac, and updates of anything else.
Touch ==
    /\ memS # NoSparks /\ Begin("sparks", memS, <<>>, FALSE)
    /\ UNCHANGED <<born, adds>>

\* rotateAgentToken
Rotate ==
    /\ diskX.token < MaxTokens
    /\ Begin("token", memS, <<>>, FALSE)
    /\ UNCHANGED <<born, adds>>

-----------------------------------------------------------------------------
(* The writes *)

\* saveSecrets reads the secrets of the app from the file.
Stored(x) == [x EXCEPT !.token = diskX.token]

SparksWritten ==
    /\ phase = "sparks"
    /\ diskS' = op.s /\ damaged' = damaged \ {"sparks"}
    /\ memS' = IF op.joint THEN memS ELSE op.s
    /\ phase' = IF op.writes = <<>> THEN "idle" ELSE "secrets"
    /\ UNCHANGED <<diskX, memX, op, born, adds, faults, orphaned>>

SecretsWritten ==
    /\ phase = "secrets"
    /\ diskX' = Stored(Head(op.writes)) /\ damaged' = damaged \ {"secrets"}
    /\ memX' = Head(op.writes)
    /\ memS' = IF op.joint THEN op.s ELSE memS
    /\ op' = [op EXCEPT !.writes = Tail(@), !.joint = FALSE]
    /\ phase' = IF Tail(op.writes) = <<>> THEN "idle" ELSE "secrets"
    /\ UNCHANGED <<diskS, born, adds, faults, orphaned>>

\* Restore the file of sparks after the joint write of the secrets failed.
Restored ==
    /\ phase = "undo" /\ phase' = "idle"
    /\ diskS' = memS /\ damaged' = damaged \ {"sparks"}
    /\ UNCHANGED <<diskX, memS, memX, op, born, adds, faults, orphaned>>

\* setAppSecret: the other buckets are copied from the file.
TokenWritten ==
    /\ phase = "token" /\ phase' = "idle"
    /\ diskX' = [diskX EXCEPT !.token = @ + 1]
    /\ UNCHANGED <<diskS, memS, memX, op, born, adds, faults, damaged, orphaned>>

\* The file that is being written.
Target == IF phase \in {"secrets", "token"} THEN "secrets" ELSE "sparks"

\* A fault in a write: the file stays as it was, or atomicWrite had fallen
\* back to unlink and overwrite and it is lost.
FileAfterFault(lost) ==
    /\ diskS' = IF lost /\ Target = "sparks" THEN NoSparks ELSE diskS
    /\ diskX' = IF lost /\ Target = "secrets" THEN NoSecrets ELSE diskX

\* Mutated form: a joint write is not undone.
AfterFailureBug(p) == IF op.loading THEN "down" ELSE "idle"

\* What comes after a failed write in phase p: the boot does not survive one.
AfterFailure(p) ==
    IF op.loading THEN "down" ELSE IF p = "secrets" /\ op.joint THEN "undo" ELSE "idle"

WriteFails(lost) ==
    /\ phase \notin {"idle", "down"}
    /\ faults < MaxFaults /\ faults' = faults + 1
    /\ FileAfterFault(lost)
    /\ phase' = AfterFailure(phase)
    /\ damaged' = damaged \union (IF lost \/ phase = "undo" THEN {Target} ELSE {})
    /\ UNCHANGED <<memS, memX, op, born, adds, orphaned>>

\* The process dies, before, in or after a write.
Crash(lost) ==
    /\ phase # "down" /\ phase' = "down"
    /\ faults < MaxFaults /\ faults' = faults + 1
    /\ IF phase = "idle" THEN ~lost /\ UNCHANGED <<diskS, diskX>> ELSE FileAfterFault(lost)
    /\ damaged' = damaged \union (IF lost THEN {Target} ELSE {})
    /\ UNCHANGED <<memS, memX, op, born, adds, orphaned>>

-----------------------------------------------------------------------------
(* The boot *)

Orphans(i) == {p \in Ports : diskX.keys[i][p] # 0} \ diskS[i]
Missing(i) == {p \in diskS[i] : diskX.keys[i][p] = 0}

\* _reconcileLlmApiKeysAtLoad
Reconciled(i) ==
    IF Cardinality(Orphans(i)) = 1 /\ Cardinality(Missing(i)) = 1
    THEN Moved(diskX.keys[i], CHOOSE p \in Orphans(i) : TRUE, CHOOSE p \in Missing(i) : TRUE)
    ELSE diskX.keys[i]

\* The sparks whose keys it moves, one write each; with one move at most per
\* boot, as the reconcile of a second spark reads what the first one wrote.
ToReconcile == {i \in Ids : diskS[i] # {} /\ Reconciled(i) # diskX.keys[i]}

\* _load; a lost token is replaced.
Boot ==
    LET file == [diskX EXCEPT !.token = 0] IN
    /\ phase = "down"
    /\ memS' = diskS /\ memX' = file
    /\ diskX' = IF diskX.token = 0 THEN [diskX EXCEPT !.token = 1] ELSE diskX
    /\ IF ToReconcile = {} THEN phase' = "idle" /\ op' = NoOp
       ELSE /\ phase' = "secrets"
            /\ \E i \in ToReconcile :
                  op' = [s |-> diskS, writes |-> <<WithKeys(file, i, Reconciled(i))>>,
                         joint |-> FALSE, loading |-> TRUE]
    /\ damaged' = {}
    /\ orphaned' = orphaned \union {i \in Ids : diskS[i] = {} /\ (diskX.pw[i] # 0 \/ diskX.keys[i] # NoKeys)}
    /\ UNCHANGED <<diskS, born, adds, faults>>

StoreNext ==
    \/ \E i \in Ids :
          \/ Remove(i)
          \/ \E ports \in SUBSET Ports, secret \in BOOLEAN : Add(i, ports, secret) \/ Patch(i, ports, secret)
          \/ \E p \in Ports : AddPort(i, p) \/ DropPort(i, p) \/ \E v \in 0..MaxAdds : SetKey(i, p, v)
    \/ Touch \/ Rotate \/ SparksWritten \/ SecretsWritten \/ TokenWritten \/ Restored \/ Boot
    \/ \E lost \in BOOLEAN : WriteFails(lost) \/ Crash(lost)

StoreSpec == StoreInit /\ [][StoreNext]_storeVars
-----------------------------------------------------------------------------
SecretsType == [pw : [Ids -> 0..MaxAdds], keys : [Ids -> [Ports -> 0..MaxAdds]], token : 0..(MaxTokens + 1)]

StoreTypeOK ==
    /\ diskS \in [Ids -> SUBSET Ports] /\ memS \in [Ids -> SUBSET Ports]
    /\ diskX \in SecretsType /\ memX \in SecretsType
    /\ phase \in {"idle", "sparks", "secrets", "token", "undo", "down"}
    /\ op \in [s : [Ids -> SUBSET Ports], writes : Seq(SecretsType), joint : BOOLEAN, loading : BOOLEAN]
    /\ born \in [Ids -> 0..MaxAdds] /\ adds \in 0..MaxAdds /\ faults \in 0..MaxFaults
    /\ damaged \subseteq {"sparks", "secrets"} /\ orphaned \subseteq Ids

\* A failed write never leaves memory and disk apart: between operations the
\* files hold what the process works with, unless the write that restores the
\* sparks failed too, or atomicWrite had already removed the file.
MemoryOnDisk == phase = "idle" =>
    /\ "sparks" \in damaged \/ diskS = memS
    /\ "secrets" \in damaged \/ diskX = [memX EXCEPT !.token = diskX.token]

\* A spark uses no password and no key of another machine that had its name
\* before it.  Only when the process died between the two writes of a removal,
\* or the list of sparks was lost, do secrets outlive their spark.
NoInheritedSecret == \A i \in Ids \ orphaned : Known(i) =>
    /\ memX.pw[i] \in {0, born[i]}
    /\ \A p \in Ports : memX.keys[i][p] \in {0, born[i]}

\* After a crash at any point of an operation the registry is the one from
\* before or from after that operation, and so is each of its secrets.
CrashIsAtomic ==
    [][phase = "down" /\ phase' # "down" =>
          /\ "sparks" \in damaged \/ memS' \in {memS, op.s}
          /\ "secrets" \in damaged \/ memX' = memX \/ (op.writes # <<>> /\ memX' = Head(op.writes))]_storeVars

KeysOf(x, i) == {p \in Ports : x.keys[i][p] # 0}

\* Loading deletes no key: the reconcile moves one or does nothing.
LoadKeepsKeys ==
    [][op.loading /\ phase = "secrets" /\ phase' = "idle" =>
          \A i \in Ids : Cardinality(KeysOf(memX', i)) = Cardinality(KeysOf(memX, i))]_storeVars

\* Saving passwords and keys never costs the agents their token: it changes by
\* rotation only, unless the file was lost.
TokenKept ==
    [][diskX.token # 0 /\ diskX'.token # diskX.token
          => phase = "token" \/ "secrets" \in damaged']_storeVars
=============================================================================
