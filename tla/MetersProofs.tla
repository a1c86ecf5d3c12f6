---------------------------- MODULE MetersProofs ----------------------------
(***************************************************************************)
(* Proofs about the registry, the token ledger and the energy accounts.    *)
(* Nothing here depends on how many sparks, models or nodes there are.     *)
(***************************************************************************)
EXTENDS MCMeters, Sums, SequenceTheorems

-----------------------------------------------------------------------------
(* SparkStore: the invariant *)

\* No password and no key of spark i.
Bare(x, i) == x.pw[i] = 0 /\ x.keys[i] = NoKeys

\* The secrets of spark i are of its registration.
OwnAt(x, i, b) == x.pw[i] \in {0, b} /\ \A k \in Ports : x.keys[i][k] \in {0, b}
Own(x, i) == OwnAt(x, i, born[i])

\* Equal but for the token of the agents.
Same(x, y) == x.pw = y.pw /\ x.keys = y.keys

\* What is written is there to be written, and has no token of its own.
WritesAreThere ==
    /\ phase = "secrets" \/ (phase = "sparks" /\ op.joint) => op.writes # <<>>
    /\ phase = "token" => diskX.token < MaxTokens
    /\ memX.token = 0 /\ \A k \in DOMAIN op.writes : op.writes[k].token = 0

\* Memory and disk, at every point of an operation.
SparksAgree ==
    \/ "sparks" \in damaged
    \/ phase \in {"down", "undo"} /\ diskS \in {memS, op.s}
    \/ phase = "secrets" /\ op.joint /\ diskS = op.s
    \/ phase \notin {"down", "undo"} /\ ~(phase = "secrets" /\ op.joint) /\ diskS = memS

SecretsAgree ==
    /\ "secrets" \in damaged => Same(diskX, NoSecrets)
    /\ "secrets" \in damaged \/ Same(diskX, memX)

\* The write that is joint with that of the sparks is undone with it.
JointIsFresh == phase = "secrets" /\ op.joint => "sparks" \notin damaged

\* Whose secrets memory, disk and the writes under way have.
SecretsAreOwn ==
    \A i \in Ids \ orphaned :
        /\ Own(memX, i) /\ Own(diskX, i)
        /\ phase \in {"sparks", "secrets"} => \A k \in DOMAIN op.writes : Own(op.writes[k], i)

\* A spark that is not there has none, nor one that is being removed when the
\* writes are done.
GoneIsBare ==
    \A i \in Ids \ orphaned :
        /\ phase # "down" /\ memS[i] = {} => Bare(memX, i)
        /\ phase \in {"sparks", "secrets"} /\ op.s[i] = {} =>
               /\ \A k \in DOMAIN op.writes : Bare(op.writes[k], i)
               /\ ~op.joint => Bare(memX, i)

StillThere == phase = "secrets" /\ ~op.joint => memS = op.s

\* The reconcile moves keys.
LoadMoves ==
    op.loading =>
        /\ phase # "sparks"
        /\ phase = "secrets" => Tail(op.writes) = <<>> /\ \A i \in Ids : Cardinality(KeysOf(Head(op.writes), i)) = Cardinality(KeysOf(memX, i))

StoreInv == StoreTypeOK /\ WritesAreThere /\ SparksAgree /\ SecretsAgree /\ JointIsFresh /\ SecretsAreOwn
            /\ GoneIsBare /\ StillThere /\ LoadMoves


-----------------------------------------------------------------------------
KeyRow == [Ports -> 0..MaxAdds]
PortRow == [Ids -> SUBSET Ports]

LEMMA WithKeysIs ==
  ASSUME NEW x \in SecretsType, NEW i \in Ids, NEW ks \in KeyRow
  PROVE  LET y == WithKeys(x, i, ks) IN
         /\ y \in SecretsType /\ y.token = x.token /\ y.pw = x.pw /\ y.keys[i] = ks
         /\ \A j \in Ids \ {i} : y.keys[j] = x.keys[j]
  BY DEF WithKeys, SecretsType, KeyRow

LEMMA WithPasswordIs ==
  ASSUME NEW x \in SecretsType, NEW i \in Ids, NEW v \in 0..MaxAdds
  PROVE  LET y == WithPassword(x, i, v) IN
         /\ y \in SecretsType /\ y.token = x.token /\ y.keys = x.keys /\ y.pw[i] = v
         /\ \A j \in Ids \ {i} : y.pw[j] = x.pw[j]
  BY DEF WithPassword, SecretsType

\* Keys that were there, at whatever port.
From(ks, old) == ks \in KeyRow /\ \A k \in Ports : ks[k] = 0 \/ \E l \in Ports : ks[k] = old[l]

LEMMA MovedIs ==
  ASSUME NEW ks \in KeyRow, NEW fr \in Ports, NEW to \in Ports
  PROVE  From(Moved(ks, fr, to), ks)
  BY StoreAssumption DEF Moved, From, KeyRow

LEMMA OneIsThere ==
  ASSUME NEW S, Cardinality(S) = 1
  PROVE  (CHOOSE x \in S : TRUE) \in S
<1>1. S # {}
  BY FS_EmptySet
<1> QED
  BY <1>1

LEMMA RenamedIs ==
  ASSUME NEW ks \in KeyRow, NEW prev \in SUBSET Ports, NEW next \in SUBSET Ports
  PROVE  From(Renamed(ks, prev, next), ks)
<1>1. From(ks, ks)
  BY DEF From
<1>2. CASE Cardinality(prev \ next) = 1 /\ Cardinality(next \ prev) = 1
  <2>1. (CHOOSE x \in prev \ next : TRUE) \in Ports /\ (CHOOSE x \in next \ prev : TRUE) \in Ports
    BY <1>2, OneIsThere
  <2> QED
    BY <1>2, <2>1, MovedIs DEF Renamed
<1> QED
  BY <1>1, <1>2 DEF Renamed

LEMMA PrunedIs ==
  ASSUME NEW ks, NEW old, From(ks, old), NEW next
  PROVE  From(Pruned(ks, next), old)
  BY StoreAssumption DEF From, Pruned, KeyRow

\* What two lists have in common their concatenation has.
LEMMA ConcatHas ==
  ASSUME NEW S, NEW T, NEW u \in Seq(S), NEW w \in Seq(S),
         \A k \in DOMAIN u : u[k] \in T, \A k \in DOMAIN w : w[k] \in T
  PROVE  /\ u \o w \in Seq(S) /\ \A k \in DOMAIN (u \o w) : (u \o w)[k] \in T
         /\ u # <<>> => u \o w # <<>>
<1> DEFINE c == u \o w
<1>1. c \in Seq(S) /\ Len(c) = Len(u) + Len(w) /\ Len(u) \in Nat /\ Len(w) \in Nat
      /\ \A k \in 1 .. Len(u) + Len(w) : c[k] = IF k <= Len(u) THEN u[k] ELSE w[k - Len(u)]
  BY ConcatProperties
<1>2. DOMAIN c = 1..Len(u) + Len(w) /\ DOMAIN u = 1..Len(u) /\ DOMAIN w = 1..Len(w)
  BY <1>1
<1> HIDE DEF c
<1>3. ASSUME NEW k \in DOMAIN c PROVE c[k] \in T
  <2>1. k \in Int /\ (k <= Len(u) => k \in DOMAIN u) /\ (~(k <= Len(u)) => k - Len(u) \in DOMAIN w)
    BY <1>1, <1>2
  <2>2. c[k] = IF k <= Len(u) THEN u[k] ELSE w[k - Len(u)]
    BY <1>1, <1>2
  <2> QED
    BY <2>1, <2>2
<1>4. u # <<>> => c # <<>>
  <2>1. SUFFICES ASSUME u # <<>>, c = <<>> PROVE FALSE
    OBVIOUS
  <2>2. Len(c) = 0 /\ Len(u) # 0
    BY <2>1, EmptySeq
  <2> QED
    BY <1>1, <2>2
<1> QED
  BY <1>1, <1>3, <1>4 DEF c

LEMMA ChangesAre ==
  ASSUME NEW x \in SecretsType, NEW i \in Ids, NEW ks \in KeyRow, NEW ls \in KeyRow
  PROVE  LET cs == Changes(x, i, <<ks, ls>>) IN
         /\ cs \in Seq(SecretsType)
         /\ \A k \in DOMAIN cs : cs[k] \in {WithKeys(x, i, ks), WithKeys(x, i, ls)}
         /\ ks # x.keys[i] => cs # <<>>
<1> DEFINE A == WithKeys(x, i, ks)
           B == WithKeys(x, i, ls)
           u == IF ks # x.keys[i] THEN <<A>> ELSE <<>>
           w == IF ls # ks THEN <<B>> ELSE <<>>
<1>1. A \in SecretsType /\ B \in SecretsType
  BY WithKeysIs
<1>2. Changes(x, i, <<ks, ls>>) = u \o w
  BY DEF Changes
<1> HIDE DEF A, B
<1>3. u \in Seq(SecretsType) /\ w \in Seq(SecretsType)
  BY <1>1
<1>4. (\A k \in DOMAIN u : u[k] \in {A, B}) /\ (\A k \in DOMAIN w : w[k] \in {A, B})
  OBVIOUS
<1>5. ks # x.keys[i] => u # <<>>
  OBVIOUS
<1> HIDE DEF u, w
<1>6. /\ u \o w \in Seq(SecretsType) /\ \A k \in DOMAIN (u \o w) : (u \o w)[k] \in {A, B}
      /\ u # <<>> => u \o w # <<>>
  BY <1>3, <1>4, ConcatHas
<1> QED
  BY <1>2, <1>5, <1>6 DEF A, B

-----------------------------------------------------------------------------
(* SparkStore: the steps *)

\* What an operation may begin with.
OpType == [s : PortRow, writes : Seq(SecretsType), joint : BOOLEAN, loading : BOOLEAN]

LEMMA BeginKeeps ==
  ASSUME StoreInv, phase = "idle", phase' \in {"sparks", "secrets", "token"},
         op' \in OpType, ~op'.loading,
         UNCHANGED <<diskS, diskX, memS, memX, faults, damaged, orphaned>>,
         born' \in [Ids -> 0..MaxAdds], adds' \in 0..MaxAdds,
         phase' = "secrets" \/ op'.joint => op'.writes # <<>>, op'.joint => phase' = "sparks",
         phase' = "token" => diskX.token < MaxTokens, phase' # "sparks" => op'.s = memS,
         \A k \in DOMAIN op'.writes : op'.writes[k].token = 0,
         \A i \in Ids \ orphaned :
             /\ OwnAt(memX, i, born'[i]) /\ OwnAt(diskX, i, born'[i])
             /\ \A k \in DOMAIN op'.writes : OwnAt(op'.writes[k], i, born'[i])
             /\ op'.s[i] = {} => (\A k \in DOMAIN op'.writes : Bare(op'.writes[k], i)) /\ (op'.joint \/ Bare(memX, i))
  PROVE  StoreInv'
<1>3. StoreTypeOK'
  BY DEF StoreInv, StoreTypeOK, PortRow, OpType
<1>4. WritesAreThere'
  BY DEF StoreInv, WritesAreThere
<1>5. SparksAgree'
  BY DEF StoreInv, SparksAgree
<1>6. SecretsAgree'
  BY DEF StoreInv, SecretsAgree
<1>7. JointIsFresh'
  BY DEF JointIsFresh
<1>8. SecretsAreOwn'
  BY DEF SecretsAreOwn, Own
<1>9. GoneIsBare'
  BY DEF StoreInv, GoneIsBare
<1>10. StillThere'
  BY DEF StillThere
<1>11. LoadMoves'
  BY DEF LoadMoves
<1> QED
  BY <1>3, <1>4, <1>5, <1>6, <1>7, <1>8, <1>9, <1>10, <1>11 DEF StoreInv

\* Between operations: whose the secrets are.
LEMMA IdleIs ==
  ASSUME StoreInv, phase = "idle"
  PROVE  /\ memS \in PortRow /\ memX \in SecretsType /\ memX.token = 0
         /\ born \in [Ids -> 0..MaxAdds] /\ adds \in 0..MaxAdds
         /\ \A i \in Ids \ orphaned :
               /\ OwnAt(memX, i, born[i]) /\ OwnAt(diskX, i, born[i])
               /\ memS[i] = {} => Bare(memX, i) /\ Bare(diskX, i)
<1>1. memS \in PortRow /\ memX \in SecretsType /\ memX.token = 0
      /\ born \in [Ids -> 0..MaxAdds] /\ adds \in 0..MaxAdds
  BY DEF StoreInv, StoreTypeOK, WritesAreThere, PortRow
<1>2. ASSUME NEW i \in Ids \ orphaned
      PROVE  /\ OwnAt(memX, i, born[i]) /\ OwnAt(diskX, i, born[i])
             /\ memS[i] = {} => Bare(memX, i)
  BY DEF StoreInv, SecretsAreOwn, GoneIsBare, Own
<1>3. ASSUME NEW i \in Ids, Bare(memX, i) PROVE Bare(diskX, i)
  <2>1. Bare(NoSecrets, i)
    BY DEF Bare, NoSecrets
  <2>2. (diskX.pw = NoSecrets.pw /\ diskX.keys = NoSecrets.keys) \/ (diskX.pw = memX.pw /\ diskX.keys = memX.keys)
    BY DEF StoreInv, SecretsAgree, Same
  <2> QED
    BY <1>3, <2>1, <2>2 DEF Bare
<1> QED
  BY <1>1, <1>2, <1>3

LEMMA BareIsOwn ==
  ASSUME NEW x, NEW i, NEW b, Bare(x, i)
  PROVE  OwnAt(x, i, b)
<1>1. \A k \in Ports : NoKeys[k] = 0
  BY DEF NoKeys
<1> QED
  BY <1>1 DEF Bare, OwnAt

LEMMA AddKeeps ==
  ASSUME StoreInv, NEW i \in Ids, NEW ports \in SUBSET Ports, NEW secret \in BOOLEAN, Add(i, ports, secret)
  PROVE  StoreInv'
<1> DEFINE w == WithPassword(memX, i, adds + 1)
           ws == IF secret THEN <<w>> ELSE <<>>
           s == [memS EXCEPT ![i] = ports]
<1>1. memS[i] = {} /\ ports # {} /\ adds < MaxAdds /\ adds' = adds + 1 /\ born' = [born EXCEPT ![i] = adds + 1]
      /\ Begin("sparks", s, ws, secret) /\ phase = "idle"
  BY DEF Add, Known, Begin
<1>2. /\ memS \in PortRow /\ memX \in SecretsType /\ memX.token = 0
      /\ born \in [Ids -> 0..MaxAdds] /\ adds \in 0..MaxAdds
      /\ \A j \in Ids \ orphaned :
               /\ OwnAt(memX, j, born[j]) /\ OwnAt(diskX, j, born[j])
               /\ memS[j] = {} => Bare(memX, j) /\ Bare(diskX, j)
  BY <1>1, IdleIs
<1>3. MaxAdds \in Nat /\ adds + 1 \in 0..MaxAdds
  BY <1>1, <1>2, StoreAssumption
<1>4. /\ w \in SecretsType /\ w.token = 0 /\ w.keys = memX.keys /\ w.pw[i] = adds + 1
      /\ \A j \in Ids \ {i} : w.pw[j] = memX.pw[j]
  <2>1. memX \in SecretsType /\ memX.token = 0
    BY <1>2
  <2> QED
    BY <2>1, <1>3, WithPasswordIs
<1> HIDE DEF w
<1>5. ws \in Seq(SecretsType) /\ (\A k \in DOMAIN ws : ws[k] = w) /\ (secret = TRUE => ws # <<>>)
  BY <1>4
<1>6. s \in PortRow /\ s[i] = ports /\ \A j \in Ids \ {i} : s[j] = memS[j]
  BY <1>2 DEF PortRow
<1>7. born' \in [Ids -> 0..MaxAdds] /\ adds' \in 0..MaxAdds /\ born'[i] = adds + 1 /\ \A j \in Ids \ {i} : born'[j] = born[j]
  BY <1>1, <1>2, <1>3
<1>8. ASSUME NEW j \in Ids \ orphaned
      PROVE  /\ OwnAt(memX, j, born'[j]) /\ OwnAt(diskX, j, born'[j])
             /\ OwnAt(w, j, born'[j]) /\ (s[j] = {} => Bare(w, j) /\ Bare(memX, j))
  <2>1. CASE j = i
    <3>1. OwnAt(memX, i, adds + 1) /\ OwnAt(diskX, i, adds + 1)
      BY <1>1, <1>2, <2>1, BareIsOwn
    <3>2. OwnAt(w, i, adds + 1)
      BY <1>4, <3>1 DEF OwnAt
    <3> QED
      BY <1>1, <1>6, <1>7, <2>1, <3>1, <3>2
  <2>2. CASE j # i
    <3>1. OwnAt(w, j, born[j])
      BY <1>2, <1>4, <2>2 DEF OwnAt
    <3>2. memS[j] = {} => Bare(w, j)
      BY <1>2, <1>4, <2>2 DEF Bare
    <3> QED
      BY <1>2, <1>6, <1>7, <2>2, <3>1, <3>2
  <2> QED
    BY <2>1, <2>2
<1>9. \A k \in DOMAIN ws : ws[k].token = 0
  BY <1>4, <1>5
<1> HIDE DEF ws, s
<1>10. \A j \in Ids \ orphaned :
             /\ OwnAt(memX, j, born'[j]) /\ OwnAt(diskX, j, born'[j])
             /\ \A k \in DOMAIN ws : OwnAt(ws[k], j, born'[j])
             /\ s[j] = {} => (\A k \in DOMAIN ws : Bare(ws[k], j)) /\ (secret = FALSE => Bare(memX, j))
  BY <1>5, <1>8
<1>11. /\ phase = "idle" /\ phase' = "sparks"
       /\ op' = [s |-> s, writes |-> ws, joint |-> secret, loading |-> FALSE]
       /\ UNCHANGED <<diskS, diskX, memS, memX, faults, damaged, orphaned>>
  BY <1>1 DEF Begin
<1>12. op' \in OpType /\ op'.s = s /\ op'.writes = ws /\ op'.joint = secret /\ op'.loading = FALSE
  BY <1>5, <1>6, <1>11 DEF OpType
<1> HIDE DEF StoreInv
<1> QED
  BY <1>5, <1>7, <1>9, <1>10, <1>11, <1>12, BeginKeeps

\* Secrets that an operation on spark i may write.
Writable(i) ==
    {y \in SecretsType : y.token = 0 /\ \A j \in Ids \ orphaned :
        OwnAt(y, j, born[j]) /\ (j # i /\ memS[j] = {} => Bare(y, j))}

LEMMA WritableNow ==
  ASSUME StoreInv, phase = "idle", NEW i \in Ids
  PROVE  memX \in Writable(i)
  BY IdleIs DEF Writable

LEMMA WritableKeys ==
  ASSUME NEW i \in Ids, NEW y \in Writable(i), NEW ks \in KeyRow,
         i \in orphaned \/ \A k \in Ports : ks[k] \in {0, born[i]}
  PROVE  WithKeys(y, i, ks) \in Writable(i)
<1> DEFINE z == WithKeys(y, i, ks)
<1>1. y \in SecretsType /\ y.token = 0
  BY DEF Writable
<1>2. /\ z \in SecretsType /\ z.token = y.token /\ z.pw = y.pw /\ z.keys[i] = ks
      /\ \A j \in Ids \ {i} : z.keys[j] = y.keys[j]
  BY <1>1, WithKeysIs
<1> HIDE DEF z
<1>3. ASSUME NEW j \in Ids \ orphaned PROVE OwnAt(z, j, born[j]) /\ (j # i /\ memS[j] = {} => Bare(z, j))
  <2>1. OwnAt(y, j, born[j]) /\ (j # i /\ memS[j] = {} => Bare(y, j))
    BY DEF Writable
  <2>2. CASE j = i
    BY <1>2, <2>1, <2>2 DEF OwnAt
  <2>3. CASE j # i
    BY <1>2, <2>1, <2>3 DEF OwnAt, Bare
  <2> QED
    BY <2>2, <2>3
<1>4. z \in Writable(i)
  BY <1>1, <1>2, <1>3 DEF Writable
<1> QED
  BY <1>4 DEF z

LEMMA WritableFrom ==
  ASSUME NEW i \in Ids, NEW y \in Writable(i), NEW ks, From(ks, y.keys[i])
  PROVE  WithKeys(y, i, ks) \in Writable(i)
<1>1. ks \in KeyRow /\ \A k \in Ports : ks[k] = 0 \/ \E l \in Ports : ks[k] = y.keys[i][l]
  BY DEF From
<1>2. i \in orphaned \/ \A l \in Ports : y.keys[i][l] \in {0, born[i]}
  BY DEF Writable, OwnAt
<1>3. i \in orphaned \/ \A k \in Ports : ks[k] \in {0, born[i]}
  BY <1>1, <1>2
<1> QED
  BY <1>1, <1>3, WritableKeys

LEMMA WritablePassword ==
  ASSUME born \in [Ids -> 0..MaxAdds], NEW i \in Ids, NEW y \in Writable(i), NEW v \in {0, born[i]}
  PROVE  WithPassword(y, i, v) \in Writable(i)
<1> DEFINE z == WithPassword(y, i, v)
<1>1. y \in SecretsType /\ y.token = 0 /\ v \in 0..MaxAdds
  BY StoreAssumption DEF Writable
<1>2. /\ z \in SecretsType /\ z.token = y.token /\ z.keys = y.keys /\ z.pw[i] = v
      /\ \A j \in Ids \ {i} : z.pw[j] = y.pw[j]
  BY <1>1, WithPasswordIs
<1> HIDE DEF z
<1>3. ASSUME NEW j \in Ids \ orphaned PROVE OwnAt(z, j, born[j]) /\ (j # i /\ memS[j] = {} => Bare(z, j))
  <2>1. OwnAt(y, j, born[j]) /\ (j # i /\ memS[j] = {} => Bare(y, j))
    BY DEF Writable
  <2>2. CASE j = i
    BY <1>2, <2>1, <2>2 DEF OwnAt
  <2>3. CASE j # i
    BY <1>2, <2>1, <2>3 DEF OwnAt, Bare
  <2> QED
    BY <2>2, <2>3
<1>4. z \in Writable(i)
  BY <1>1, <1>2, <1>3 DEF Writable
<1> QED
  BY <1>4 DEF z

\* An operation on spark i.
LEMMA OpKeeps ==
  ASSUME StoreInv, NEW i \in Ids, phase = "idle", phase' \in {"sparks", "secrets"},
         op' \in OpType, ~op'.loading,
         UNCHANGED <<diskS, diskX, memS, memX, faults, damaged, orphaned, born, adds>>,
         phase' = "secrets" \/ op'.joint => op'.writes # <<>>, op'.joint => phase' = "sparks",
         phase' = "secrets" => op'.s = memS,
         \A j \in Ids \ {i} : op'.s[j] = memS[j],
         \A k \in DOMAIN op'.writes : op'.writes[k] \in Writable(i),
         op'.s[i] = {} => i \in orphaned \/ ((\A k \in DOMAIN op'.writes : Bare(op'.writes[k], i)) /\ (op'.joint \/ Bare(memX, i)))
  PROVE  StoreInv'
<1>1. /\ memS \in PortRow /\ memX \in SecretsType /\ memX.token = 0
      /\ born \in [Ids -> 0..MaxAdds] /\ adds \in 0..MaxAdds
      /\ \A j \in Ids \ orphaned :
               /\ OwnAt(memX, j, born[j]) /\ OwnAt(diskX, j, born[j])
               /\ memS[j] = {} => Bare(memX, j) /\ Bare(diskX, j)
  BY IdleIs
<1>2. \A k \in DOMAIN op'.writes : op'.writes[k].token = 0
  BY DEF Writable
<1>3. ASSUME NEW j \in Ids \ orphaned
      PROVE  /\ OwnAt(memX, j, born'[j]) /\ OwnAt(diskX, j, born'[j])
             /\ \A k \in DOMAIN op'.writes : OwnAt(op'.writes[k], j, born'[j])
             /\ op'.s[j] = {} => (\A k \in DOMAIN op'.writes : Bare(op'.writes[k], j)) /\ (op'.joint \/ Bare(memX, j))
  <2>1. OwnAt(memX, j, born[j]) /\ OwnAt(diskX, j, born[j])
    BY <1>1
  <2>2. \A k \in DOMAIN op'.writes : OwnAt(op'.writes[k], j, born[j]) /\ (j # i /\ memS[j] = {} => Bare(op'.writes[k], j))
    BY DEF Writable
  <2>3. born' = born
    OBVIOUS
  <2>4. CASE j = i
    BY <2>1, <2>2, <2>3, <2>4
  <2>5. CASE j # i
    BY <1>1, <2>1, <2>2, <2>3, <2>5
  <2> QED
    BY <2>4, <2>5
<1>4. born' \in [Ids -> 0..MaxAdds] /\ adds' \in 0..MaxAdds
  BY <1>1
<1> HIDE DEF StoreInv
<1> QED
  BY <1>2, <1>3, <1>4, BeginKeeps

LEMMA BeginIs ==
  ASSUME NEW first, NEW s \in PortRow, NEW writes \in Seq(SecretsType), NEW joint \in BOOLEAN,
         Begin(first, s, writes, joint)
  PROVE  /\ phase = "idle" /\ phase' = first /\ UNCHANGED <<diskS, diskX, memS, memX, faults, damaged, orphaned>>
         /\ op' \in OpType /\ ~op'.loading
         /\ op'.s = s /\ op'.writes = writes /\ (op'.joint <=> joint)
  BY DEF Begin, OpType

LEMMA PatchKeeps ==
  ASSUME StoreInv, NEW i \in Ids, NEW ports \in SUBSET Ports, NEW secret \in BOOLEAN, Patch(i, ports, secret)
  PROVE  StoreInv'
<1> DEFINE x == IF secret THEN WithPassword(memX, i, born[i]) ELSE memX
           first == IF secret THEN <<x>> ELSE <<>>
           ks == Renamed(x.keys[i], memS[i], ports)
           ls == Pruned(ks, ports)
           rest == Changes(x, i, <<ks, ls>>)
           s == [memS EXCEPT ![i] = ports]
<1>1. /\ ports # {} /\ Begin("sparks", s, first \o rest, secret)
      /\ born' = born /\ adds' = adds
  BY DEF Patch, SyncWrites
<1>2. phase = "idle"
  BY <1>1 DEF Begin
<1>3. memS \in PortRow /\ born \in [Ids -> 0..MaxAdds] /\ memX \in Writable(i)
  BY <1>2, IdleIs, WritableNow
<1>4. x \in Writable(i)
  BY <1>3, WritablePassword
<1> HIDE DEF x
<1>5. x \in SecretsType /\ x.keys[i] \in KeyRow
  BY <1>4 DEF Writable, SecretsType, KeyRow
<1>6. From(ks, x.keys[i])
  BY <1>3, <1>5, RenamedIs DEF PortRow
<1> HIDE DEF ks
<1>7. From(ls, x.keys[i])
  BY <1>6, PrunedIs
<1> HIDE DEF ls
<1>8. /\ rest \in Seq(SecretsType)
      /\ \A k \in DOMAIN rest : rest[k] \in {WithKeys(x, i, ks), WithKeys(x, i, ls)}
  BY <1>5, <1>6, <1>7, ChangesAre DEF From
<1> HIDE DEF rest
<1>9. \A k \in DOMAIN rest : rest[k] \in Writable(i)
  BY <1>4, <1>6, <1>7, <1>8, WritableFrom
<1>10. /\ first \in Seq(SecretsType) /\ \A k \in DOMAIN first : first[k] \in Writable(i)
       /\ secret => first # <<>>
  BY <1>4, <1>5
<1> HIDE DEF first
<1>11. /\ first \o rest \in Seq(SecretsType) /\ \A k \in DOMAIN (first \o rest) : (first \o rest)[k] \in Writable(i)
       /\ first # <<>> => first \o rest # <<>>
  BY <1>8, <1>9, <1>10, ConcatHas
<1> DEFINE ws == first \o rest
<1>12. s \in PortRow /\ s[i] = ports /\ \A j \in Ids \ {i} : s[j] = memS[j]
  BY <1>3 DEF PortRow
<1> HIDE DEF s
<1>13. /\ phase' = "sparks" /\ UNCHANGED <<diskS, diskX, memS, memX, faults, damaged, orphaned>>
       /\ op' \in OpType /\ ~op'.loading
       /\ op'.s = s /\ op'.writes = ws /\ (op'.joint <=> secret)
  BY <1>1, <1>11, <1>12, BeginIs
<1>14. op'.joint => op'.writes # <<>>
  BY <1>10, <1>11, <1>13
<1>15. \A k \in DOMAIN op'.writes : op'.writes[k] \in Writable(i)
  BY <1>11, <1>13
<1>16. op'.s[i] # {} /\ \A j \in Ids \ {i} : op'.s[j] = memS[j]
  BY <1>1, <1>12, <1>13
<1> HIDE DEF StoreInv, ws
<1> QED
  BY <1>1, <1>2, <1>13, <1>14, <1>15, <1>16, OpKeeps

LEMMA AddPortKeeps ==
  ASSUME StoreInv, NEW i \in Ids, NEW pt \in Ports, AddPort(i, pt)
  PROVE  StoreInv'
<1> DEFINE s == [memS EXCEPT ![i] = @ \union {pt}]
<1>1. Begin("sparks", s, <<>>, FALSE) /\ born' = born /\ adds' = adds /\ phase = "idle"
  BY DEF AddPort, Begin
<1>2. memS \in PortRow
  BY <1>1, IdleIs
<1>3. s \in PortRow /\ s[i] # {} /\ \A j \in Ids \ {i} : s[j] = memS[j]
  BY <1>2 DEF PortRow
<1> HIDE DEF s
<1>4. <<>> \in Seq(SecretsType)
  OBVIOUS
<1>5. /\ phase' = "sparks" /\ UNCHANGED <<diskS, diskX, memS, memX, faults, damaged, orphaned>>
      /\ op' \in OpType /\ ~op'.loading
      /\ op'.s = s /\ op'.writes = <<>> /\ ~op'.joint
  BY <1>1, <1>3, <1>4, BeginIs
<1>6. \A k \in DOMAIN op'.writes : op'.writes[k] \in Writable(i)
  BY <1>5
<1> HIDE DEF StoreInv
<1> QED
  BY <1>1, <1>3, <1>5, <1>6, OpKeeps

\* One change of the keys of spark i.
LEMMA KeysChange ==
  ASSUME StoreInv, phase = "idle", NEW i \in Ids, NEW ks \in KeyRow,
         i \in orphaned \/ \A k \in Ports : ks[k] \in {0, born[i]}
  PROVE  LET cs == Changes(memX, i, <<ks, ks>>) IN
         /\ cs \in Seq(SecretsType) /\ \A k \in DOMAIN cs : cs[k] \in Writable(i)
         /\ ks # memX.keys[i] => cs # <<>>
<1> DEFINE cs == Changes(memX, i, <<ks, ks>>)
<1>1. memX \in SecretsType /\ memX \in Writable(i)
  BY IdleIs, WritableNow
<1>2. /\ cs \in Seq(SecretsType)
      /\ \A k \in DOMAIN cs : cs[k] \in {WithKeys(memX, i, ks), WithKeys(memX, i, ks)}
      /\ ks # memX.keys[i] => cs # <<>>
  BY <1>1, ChangesAre
<1>3. WithKeys(memX, i, ks) \in Writable(i)
  BY <1>1, WritableKeys
<1> HIDE DEF cs
<1>4. \A k \in DOMAIN cs : cs[k] \in Writable(i)
  BY <1>2, <1>3
<1>5. cs \in Seq(SecretsType) /\ (\A k \in DOMAIN cs : cs[k] \in Writable(i)) /\ (ks # memX.keys[i] => cs # <<>>)
  BY <1>2, <1>4
<1> QED
  BY <1>5 DEF cs

LEMMA DropPortKeeps ==
  ASSUME StoreInv, NEW i \in Ids, NEW pt \in Ports, DropPort(i, pt)
  PROVE  StoreInv'
<1> DEFINE s == [memS EXCEPT ![i] = @ \ {pt}]
           ks == [memX.keys[i] EXCEPT ![pt] = 0]
           ws == Changes(memX, i, <<ks, ks>>)
<1>1. Begin("sparks", s, ws, FALSE) /\ born' = born /\ adds' = adds /\ phase = "idle"
      /\ pt \in memS[i] /\ memS[i] # {pt}
  BY DEF DropPort, Begin
<1>2. memS \in PortRow /\ memX \in Writable(i)
  BY <1>1, IdleIs, WritableNow
<1>3. s \in PortRow /\ s[i] # {} /\ \A j \in Ids \ {i} : s[j] = memS[j]
  BY <1>1, <1>2 DEF PortRow
<1>4. memX.keys[i] \in KeyRow /\ (i \in orphaned \/ \A k \in Ports : memX.keys[i][k] \in {0, born[i]})
  BY <1>2 DEF Writable, SecretsType, KeyRow, OwnAt
<1>5. ks \in KeyRow /\ (i \in orphaned \/ \A k \in Ports : ks[k] \in {0, born[i]})
  BY <1>4, StoreAssumption DEF KeyRow
<1> HIDE DEF s, ks
<1>6. ws \in Seq(SecretsType) /\ \A k \in DOMAIN ws : ws[k] \in Writable(i)
  BY <1>1, <1>5, KeysChange
<1> HIDE DEF ws
<1>7. /\ phase' = "sparks" /\ UNCHANGED <<diskS, diskX, memS, memX, faults, damaged, orphaned>>
      /\ op' \in OpType /\ ~op'.loading
      /\ op'.s = s /\ op'.writes = ws /\ ~op'.joint
  BY <1>1, <1>3, <1>6, BeginIs
<1>8. \A k \in DOMAIN op'.writes : op'.writes[k] \in Writable(i)
  BY <1>6, <1>7
<1> HIDE DEF StoreInv
<1> QED
  BY <1>1, <1>3, <1>7, <1>8, OpKeeps

LEMMA SetKeyKeeps ==
  ASSUME StoreInv, NEW i \in Ids, NEW pt \in Ports, NEW v \in 0..MaxAdds, SetKey(i, pt, v)
  PROVE  StoreInv'
<1> DEFINE ks == [memX.keys[i] EXCEPT ![pt] = v]
           ws == Changes(memX, i, <<ks, ks>>)
<1>1. Begin("secrets", memS, ws, FALSE) /\ born' = born /\ adds' = adds /\ phase = "idle"
      /\ v \in {0, born[i]} /\ ks # memX.keys[i] /\ memS[i] # {}
  BY DEF SetKey, Begin, Known
<1>2. memS \in PortRow /\ memX \in Writable(i)
  BY <1>1, IdleIs, WritableNow
<1>4. memX.keys[i] \in KeyRow /\ (i \in orphaned \/ \A k \in Ports : memX.keys[i][k] \in {0, born[i]})
  BY <1>2 DEF Writable, SecretsType, KeyRow, OwnAt
<1>5. ks \in KeyRow /\ (i \in orphaned \/ \A k \in Ports : ks[k] \in {0, born[i]})
  BY <1>1, <1>4 DEF KeyRow
<1> HIDE DEF ks
<1>6. ws \in Seq(SecretsType) /\ (\A k \in DOMAIN ws : ws[k] \in Writable(i)) /\ ws # <<>>
  BY <1>1, <1>5, KeysChange
<1> HIDE DEF ws
<1>7. /\ phase' = "secrets" /\ UNCHANGED <<diskS, diskX, memS, memX, faults, damaged, orphaned>>
      /\ op' \in OpType /\ ~op'.loading
      /\ op'.s = memS /\ op'.writes = ws /\ ~op'.joint
  BY <1>1, <1>2, <1>6, BeginIs
<1>8. (\A k \in DOMAIN op'.writes : op'.writes[k] \in Writable(i)) /\ op'.writes # <<>>
  BY <1>6, <1>7
<1>9. op'.s[i] # {} /\ \A j \in Ids \ {i} : op'.s[j] = memS[j]
  BY <1>1, <1>7
<1> HIDE DEF StoreInv
<1> QED
  BY <1>1, <1>7, <1>8, <1>9, OpKeeps

LEMMA RemoveKeeps ==
  ASSUME StoreInv, NEW i \in Ids, Remove(i)
  PROVE  StoreInv'
<1> DEFINE s == [memS EXCEPT ![i] = {}]
           f == Forgotten(i)
           ws == IF f = memX THEN <<>> ELSE <<f>>
           joint == f # memX
<1>1. Begin("sparks", s, ws, joint) /\ born' = born /\ adds' = adds /\ phase = "idle"
  BY DEF Remove, Begin
<1>2. memS \in PortRow /\ memX \in Writable(i) /\ born \in [Ids -> 0..MaxAdds]
  BY <1>1, IdleIs, WritableNow
<1>3. s \in PortRow /\ \A j \in Ids \ {i} : s[j] = memS[j]
  BY <1>2 DEF PortRow
<1> DEFINE x == WithPassword(memX, i, 0)
<1>4. x \in Writable(i)
  BY <1>2, WritablePassword
<1>5. NoKeys \in KeyRow /\ \A k \in Ports : NoKeys[k] = 0
  BY StoreAssumption DEF NoKeys, KeyRow
<1>6. f \in Writable(i)
  BY <1>4, <1>5, WritableKeys DEF Forgotten
<1>7. Bare(f, i)
  <2>1. memX \in SecretsType /\ x \in SecretsType /\ 0 \in 0..MaxAdds
    BY <1>2, <1>4, StoreAssumption DEF Writable
  <2>2. x.pw[i] = 0
    BY <2>1, WithPasswordIs
  <2>3. f.pw = x.pw /\ f.keys[i] = NoKeys
    BY <1>5, <2>1, WithKeysIs DEF Forgotten
  <2> QED
    BY <2>2, <2>3 DEF Bare
<1> HIDE DEF s, f
<1>8. /\ ws \in Seq(SecretsType) /\ (\A k \in DOMAIN ws : ws[k] = f)
      /\ (joint => ws # <<>>) /\ (joint \/ f = memX) /\ joint \in BOOLEAN
  BY <1>6 DEF Writable
<1> HIDE DEF ws, joint
<1>9. /\ phase' = "sparks" /\ UNCHANGED <<diskS, diskX, memS, memX, faults, damaged, orphaned>>
      /\ op' \in OpType /\ ~op'.loading
      /\ op'.s = s /\ op'.writes = ws /\ (op'.joint <=> joint)
  BY <1>1, <1>3, <1>8, BeginIs
<1>10. (\A k \in DOMAIN op'.writes : op'.writes[k] \in Writable(i) /\ Bare(op'.writes[k], i)) /\ (op'.joint => op'.writes # <<>>)
       /\ (op'.joint \/ Bare(memX, i))
  BY <1>6, <1>7, <1>8, <1>9
<1>11. \A j \in Ids \ {i} : op'.s[j] = memS[j]
  BY <1>3, <1>9
<1> HIDE DEF StoreInv
<1> QED
  BY <1>1, <1>9, <1>10, <1>11, OpKeeps

LEMMA TouchKeeps ==
  ASSUME StoreInv, Touch \/ Rotate
  PROVE  StoreInv'
<1>1. PICK first \in {"sparks", "token"} :
          /\ Begin(first, memS, <<>>, FALSE) /\ born' = born /\ adds' = adds /\ phase = "idle"
          /\ first = "token" => diskX.token < MaxTokens
  BY DEF Touch, Rotate, Begin
<1>2. /\ memS \in PortRow /\ born \in [Ids -> 0..MaxAdds] /\ adds \in 0..MaxAdds
      /\ \A j \in Ids \ orphaned :
               /\ OwnAt(memX, j, born[j]) /\ OwnAt(diskX, j, born[j])
               /\ memS[j] = {} => Bare(memX, j) /\ Bare(diskX, j)
  BY <1>1, IdleIs
<1>3. <<>> \in Seq(SecretsType)
  OBVIOUS
<1>4. /\ phase' = first /\ UNCHANGED <<diskS, diskX, memS, memX, faults, damaged, orphaned>>
      /\ op' \in OpType /\ ~op'.loading
      /\ op'.s = memS /\ op'.writes = <<>> /\ ~op'.joint
  BY <1>1, <1>2, <1>3, BeginIs
<1>5. DOMAIN op'.writes = {}
  BY <1>4
<1>6. born' \in [Ids -> 0..MaxAdds] /\ adds' \in 0..MaxAdds
  BY <1>1, <1>2
<1>7. \A j \in Ids \ orphaned :
         /\ OwnAt(memX, j, born'[j]) /\ OwnAt(diskX, j, born'[j])
         /\ \A k \in DOMAIN op'.writes : OwnAt(op'.writes[k], j, born'[j])
         /\ op'.s[j] = {} => (\A k \in DOMAIN op'.writes : Bare(op'.writes[k], j)) /\ (op'.joint \/ Bare(memX, j))
  BY <1>1, <1>2, <1>4, <1>5
<1>8. phase' \in {"sparks", "secrets", "token"} /\ phase' # "secrets" /\ (phase' = "token" => diskX.token < MaxTokens)
  BY <1>1, <1>4
<1>9. \A k \in DOMAIN op'.writes : op'.writes[k].token = 0
  BY <1>5
<1> HIDE DEF StoreInv
<1> QED
  BY <1>1, <1>4, <1>6, <1>7, <1>8, <1>9, BeginKeeps

LEMMA StoreStarts == StoreInit => StoreInv
<1> SUFFICES ASSUME StoreInit PROVE StoreInv
  OBVIOUS
<1> USE StoreAssumption
<1>1. NoSparks \in PortRow /\ NoKeys \in KeyRow /\ NoSecrets \in SecretsType
  BY DEF NoSparks, NoKeys, NoSecrets, PortRow, KeyRow, SecretsType
<1>2. /\ NoOp \in OpType /\ NoOp.s = NoSparks /\ NoOp.writes = <<>> /\ ~NoOp.joint /\ ~NoOp.loading
      /\ DOMAIN NoOp.writes = {}
  <2>1. <<>> \in Seq(SecretsType) /\ DOMAIN <<>> = {}
    OBVIOUS
  <2> QED
    BY <1>1, <2>1 DEF NoOp, OpType
<1>3. /\ diskX \in SecretsType /\ memX = NoSecrets /\ Same(diskX, memX) /\ memX.token = 0
      /\ diskS = NoSparks /\ memS = NoSparks /\ op = NoOp /\ phase = "idle" /\ damaged = {} /\ orphaned = {}
  BY <1>1 DEF StoreInit, SecretsType, Same, NoSecrets
<1>4. StoreTypeOK
  BY <1>1, <1>2, <1>3 DEF StoreInit, StoreTypeOK, PortRow, OpType
<1>5. WritesAreThere
  BY <1>2, <1>3 DEF WritesAreThere
<1>6. SparksAgree /\ SecretsAgree /\ JointIsFresh /\ StillThere /\ LoadMoves
  BY <1>2, <1>3 DEF SparksAgree, SecretsAgree, JointIsFresh, StillThere, LoadMoves
<1>7. \A j \in Ids : Bare(memX, j) /\ Bare(diskX, j)
  BY <1>3 DEF Bare, NoSecrets, Same
<1>8. SecretsAreOwn /\ GoneIsBare
  BY <1>3, <1>7, BareIsOwn DEF SecretsAreOwn, GoneIsBare, Own
<1> QED
  BY <1>4, <1>5, <1>6, <1>8 DEF StoreInv

LEMMA SparksWrittenKeeps ==
  ASSUME StoreInv, SparksWritten
  PROVE  StoreInv'
<1>1. /\ phase = "sparks" /\ diskS' = op.s /\ damaged' = damaged \ {"sparks"}
      /\ memS' = IF op.joint THEN memS ELSE op.s
      /\ phase' = IF op.writes = <<>> THEN "idle" ELSE "secrets"
      /\ diskX' = diskX /\ memX' = memX /\ op' = op /\ born' = born /\ orphaned' = orphaned
  BY DEF SparksWritten
<1>2. (op.joint => op.writes # <<>>) /\ op.joint \in BOOLEAN
  BY <1>1 DEF StoreInv, WritesAreThere, StoreTypeOK
<1>3. StoreTypeOK'
  BY <1>1 DEF SparksWritten, StoreInv, StoreTypeOK
<1>4. WritesAreThere'
  BY <1>1 DEF StoreInv, WritesAreThere
<1>5. SparksAgree'
  BY <1>1, <1>2 DEF SparksAgree
<1>6. SecretsAgree'
  BY <1>1 DEF StoreInv, SecretsAgree
<1>7. JointIsFresh' /\ StillThere'
  BY <1>1 DEF JointIsFresh, StillThere
<1>8. SecretsAreOwn'
  BY <1>1 DEF StoreInv, SecretsAreOwn, Own
<1>9. GoneIsBare'
  BY <1>1 DEF StoreInv, GoneIsBare
<1>10. LoadMoves'
  BY <1>1 DEF StoreInv, LoadMoves
<1> QED
  BY <1>3, <1>4, <1>5, <1>6, <1>7, <1>8, <1>9, <1>10 DEF StoreInv

LEMMA SecretsWrittenKeeps ==
  ASSUME StoreInv, SecretsWritten
  PROVE  StoreInv'
<1> DEFINE x == Head(op.writes)
<1>1. /\ phase = "secrets" /\ diskX' = Stored(x) /\ damaged' = damaged \ {"secrets"}
      /\ memX' = x /\ memS' = (IF op.joint THEN op.s ELSE memS)
      /\ op' = [op EXCEPT !.writes = Tail(@), !.joint = FALSE]
      /\ phase' = IF Tail(op.writes) = <<>> THEN "idle" ELSE "secrets"
      /\ diskS' = diskS /\ born' = born /\ orphaned' = orphaned /\ adds' = adds /\ faults' = faults
  BY DEF SecretsWritten
<1>2. op \in OpType /\ op.writes \in Seq(SecretsType) /\ op.writes # <<>> /\ diskX \in SecretsType /\ op.joint \in BOOLEAN
  BY <1>1 DEF StoreInv, StoreTypeOK, WritesAreThere, OpType, PortRow
<1>3. /\ x \in SecretsType /\ x = op.writes[1] /\ 1 \in DOMAIN op.writes
      /\ Tail(op.writes) \in Seq(SecretsType)
      /\ \A k \in DOMAIN Tail(op.writes) : k + 1 \in DOMAIN op.writes /\ Tail(op.writes)[k] = op.writes[k + 1]
  BY <1>2
<1> HIDE DEF x
<1>4. /\ op' \in OpType /\ op'.s = op.s /\ op'.writes = Tail(op.writes) /\ ~op'.joint /\ op'.loading = op.loading
  BY <1>1, <1>2, <1>3 DEF OpType
<1>5. diskX' \in SecretsType /\ Same(diskX', x)
  BY <1>1, <1>2, <1>3 DEF Stored, SecretsType, Same
<1>6. \A k \in DOMAIN op'.writes : \E l \in DOMAIN op.writes : op'.writes[k] = op.writes[l]
  BY <1>3, <1>4
<1>7. memS' = op.s
  BY <1>1, <1>2 DEF StoreInv, StillThere
<1>8. StoreTypeOK'
  BY <1>1, <1>3, <1>4, <1>5, <1>7 DEF StoreInv, StoreTypeOK, OpType, PortRow
<1>9. WritesAreThere'
  <2>1. x.token = 0 /\ \A k \in DOMAIN op'.writes : op'.writes[k].token = 0
    BY <1>3, <1>6 DEF StoreInv, WritesAreThere
  <2> QED
    BY <1>1, <1>4, <2>1 DEF WritesAreThere
<1>10. SparksAgree'
  BY <1>1, <1>2, <1>4, <1>7 DEF StoreInv, SparksAgree
<1>11. SecretsAgree'
  BY <1>1, <1>5 DEF SecretsAgree
<1>12. JointIsFresh' /\ StillThere'
  BY <1>4, <1>7 DEF JointIsFresh, StillThere
<1>13. ASSUME NEW i \in Ids \ orphaned
       PROVE  /\ OwnAt(x, i, born[i]) /\ OwnAt(diskX', i, born[i]) /\ \A k \in DOMAIN op'.writes : OwnAt(op'.writes[k], i, born[i])
              /\ op.s[i] = {} => Bare(x, i) /\ \A k \in DOMAIN op'.writes : Bare(op'.writes[k], i)
  <2>1. \A l \in DOMAIN op.writes : OwnAt(op.writes[l], i, born[i])
    BY <1>1 DEF StoreInv, SecretsAreOwn, Own
  <2>2. op.s[i] = {} => \A l \in DOMAIN op.writes : Bare(op.writes[l], i)
    BY <1>1 DEF StoreInv, GoneIsBare
  <2>3. OwnAt(x, i, born[i]) /\ (op.s[i] = {} => Bare(x, i))
    BY <1>3, <2>1, <2>2
  <2>4. OwnAt(diskX', i, born[i])
    BY <1>5, <2>3 DEF Same, OwnAt
  <2> QED
    BY <1>6, <2>1, <2>2, <2>3, <2>4
<1>14. SecretsAreOwn'
  BY <1>1, <1>13 DEF SecretsAreOwn, Own
<1>15. GoneIsBare'
  BY <1>1, <1>4, <1>7, <1>13 DEF GoneIsBare
<1>16. LoadMoves'
  <2>1. op.loading => phase' = "idle"
    BY <1>1 DEF StoreInv, LoadMoves
  <2> QED
    BY <1>4, <2>1 DEF LoadMoves
<1> QED
  BY <1>8, <1>9, <1>10, <1>11, <1>12, <1>14, <1>15, <1>16 DEF StoreInv

LEMMA TokenWrittenKeeps ==
  ASSUME StoreInv, TokenWritten
  PROVE  StoreInv'
<1>1. /\ phase = "token" /\ phase' = "idle" /\ diskX' = [diskX EXCEPT !.token = @ + 1]
      /\ diskS' = diskS /\ memS' = memS /\ memX' = memX /\ op' = op /\ born' = born /\ adds' = adds
      /\ faults' = faults /\ damaged' = damaged /\ orphaned' = orphaned
  BY DEF TokenWritten
<1>2. diskX \in SecretsType /\ diskX.token < MaxTokens
  BY <1>1 DEF StoreInv, StoreTypeOK, WritesAreThere
<1>3. diskX' \in SecretsType /\ diskX'.pw = diskX.pw /\ diskX'.keys = diskX.keys
  BY <1>1, <1>2, StoreAssumption DEF SecretsType
<1>4. StoreTypeOK'
  BY <1>1, <1>3 DEF StoreInv, StoreTypeOK
<1>5. WritesAreThere'
  BY <1>1 DEF StoreInv, WritesAreThere
<1>6. SparksAgree'
  BY <1>1 DEF StoreInv, SparksAgree
<1>7. SecretsAgree'
  BY <1>1, <1>3 DEF StoreInv, SecretsAgree, Same
<1>8. JointIsFresh' /\ StillThere' /\ LoadMoves'
  BY <1>1 DEF JointIsFresh, StillThere, LoadMoves
<1>9. SecretsAreOwn'
  <2>1. \A i \in Ids \ orphaned : Own(memX, i) /\ Own(diskX, i)
    BY DEF StoreInv, SecretsAreOwn
  <2>2. \A i \in Ids : Own(diskX, i) => Own(diskX, i)'
    BY <1>1, <1>3 DEF Own, OwnAt
  <2>3. \A i \in Ids : Own(memX, i) => Own(memX, i)'
    BY <1>1 DEF Own
  <2> QED
    BY <1>1, <2>1, <2>2, <2>3 DEF SecretsAreOwn
<1>10. GoneIsBare'
  BY <1>1 DEF StoreInv, GoneIsBare
<1> QED
  BY <1>4, <1>5, <1>6, <1>7, <1>8, <1>9, <1>10 DEF StoreInv

LEMMA RestoredKeeps ==
  ASSUME StoreInv, Restored
  PROVE  StoreInv'
<1>1. /\ phase = "undo" /\ phase' = "idle" /\ diskS' = memS /\ damaged' = damaged \ {"sparks"}
      /\ diskX' = diskX /\ memS' = memS /\ memX' = memX /\ op' = op /\ born' = born /\ adds' = adds
      /\ faults' = faults /\ orphaned' = orphaned
  BY DEF Restored
<1>2. StoreTypeOK'
  BY <1>1 DEF StoreInv, StoreTypeOK
<1>3. WritesAreThere'
  BY <1>1 DEF StoreInv, WritesAreThere
<1>4. SparksAgree' /\ JointIsFresh' /\ StillThere' /\ LoadMoves'
  BY <1>1 DEF SparksAgree, JointIsFresh, StillThere, LoadMoves
<1>5. SecretsAgree'
  BY <1>1 DEF StoreInv, SecretsAgree
<1>6. SecretsAreOwn'
  BY <1>1 DEF StoreInv, SecretsAreOwn, Own
<1>7. GoneIsBare'
  BY <1>1 DEF StoreInv, GoneIsBare
<1> QED
  BY <1>2, <1>3, <1>4, <1>5, <1>6, <1>7 DEF StoreInv

\* A fault in a write, or between two: what is on file is what was, or nothing.
LEMMA FaultKeeps ==
  ASSUME StoreInv, NEW lost \in BOOLEAN, WriteFails(lost) \/ Crash(lost)
  PROVE  StoreInv'
<1>1. /\ memS' = memS /\ memX' = memX /\ op' = op /\ born' = born /\ adds' = adds /\ orphaned' = orphaned
      /\ faults < MaxFaults /\ faults' = faults + 1
      /\ phase # "down" /\ phase' \in {"down", "undo", "idle"} /\ phase \in {"idle", "sparks", "secrets", "token", "undo", "down"}
  BY DEF WriteFails, Crash, AfterFailure, StoreInv, StoreTypeOK
<1>2. /\ phase' = "undo" => phase = "secrets" /\ op.joint
      /\ phase' = "idle" => phase = "undo" \/ (phase \in {"sparks", "secrets", "token"} /\ ~(phase = "secrets" /\ op.joint))
  BY <1>1 DEF WriteFails, Crash, AfterFailure
<1>3. /\ diskS' = diskS \/ (diskS' = NoSparks /\ "sparks" \in damaged')
      /\ phase \in {"undo"} /\ phase' = "idle" => "sparks" \in damaged'
      /\ damaged \subseteq damaged' /\ damaged' \subseteq damaged \union {"sparks", "secrets"}
  BY <1>1 DEF WriteFails, Crash, FileAfterFault, Target
<1>4. \/ diskX' = NoSecrets /\ "secrets" \in damaged'
      \/ diskX' = diskX /\ ("secrets" \in damaged' => "secrets" \in damaged)
  BY <1>1 DEF WriteFails, Crash, FileAfterFault, Target
<1>5. NoSparks \in PortRow /\ NoSecrets \in SecretsType
  BY StoreAssumption DEF NoSparks, NoKeys, NoSecrets, PortRow, SecretsType
<1>6. StoreTypeOK'
  <2>1. diskS' \in PortRow /\ diskX' \in SecretsType
    BY <1>3, <1>4, <1>5 DEF StoreInv, StoreTypeOK, PortRow
  <2>2. faults' \in 0..MaxFaults /\ damaged' \subseteq {"sparks", "secrets"}
    BY <1>1, <1>3, StoreAssumption DEF StoreInv, StoreTypeOK
  <2> QED
    BY <1>1, <2>1, <2>2 DEF StoreInv, StoreTypeOK, PortRow
<1>7. WritesAreThere'
  BY <1>1 DEF StoreInv, WritesAreThere
<1>8. SparksAgree'
  BY <1>1, <1>2, <1>3 DEF StoreInv, SparksAgree
<1>9. SecretsAgree'
  <2>1. CASE diskX' = NoSecrets /\ "secrets" \in damaged'
    BY <2>1 DEF SecretsAgree, Same
  <2>2. CASE diskX' = diskX /\ ("secrets" \in damaged' => "secrets" \in damaged)
    BY <1>1, <1>3, <2>2 DEF StoreInv, SecretsAgree
  <2> QED
    BY <1>4, <2>1, <2>2
<1>10. JointIsFresh' /\ StillThere' /\ LoadMoves'
  BY <1>1 DEF JointIsFresh, StillThere, LoadMoves
<1>11. \A i \in Ids : Bare(NoSecrets, i)
  BY DEF Bare, NoSecrets
<1>12. SecretsAreOwn'
  BY <1>1, <1>4, <1>11, BareIsOwn DEF StoreInv, SecretsAreOwn, Own
<1>13. GoneIsBare'
  BY <1>1 DEF StoreInv, GoneIsBare
<1> QED
  BY <1>6, <1>7, <1>8, <1>9, <1>10, <1>12, <1>13 DEF StoreInv

\* Moving the key of one port to another that has none keeps the number.
LEMMA MovedKeeps ==
  ASSUME NEW ks \in KeyRow, NEW fr \in Ports, NEW to \in Ports, ks[fr] # 0, ks[to] = 0
  PROVE  LET ls == Moved(ks, fr, to) IN
         Cardinality({k \in Ports : ls[k] # 0}) = Cardinality({k \in Ports : ks[k] # 0})
<1> DEFINE ls == Moved(ks, fr, to)
           K == {k \in Ports : ks[k] # 0}
           L == {k \in Ports : ls[k] # 0}
           C == K \ {fr}
<1>1. fr # to
  OBVIOUS
<1>2. ls[fr] = 0 /\ ls[to] = ks[fr] /\ \A k \in Ports \ {fr, to} : ls[k] = ks[k]
  BY <1>1 DEF Moved, KeyRow
<1> HIDE DEF ls
<1>3. K = C \union {fr} /\ L = C \union {to} /\ fr \notin C /\ to \notin C
  BY <1>1, <1>2
<1>4. IsFiniteSet(C)
  BY StoreAssumption, FS_Subset
<1> HIDE DEF K, L, C
<1>5. Cardinality(C \union {fr}) = Cardinality(C) + 1 /\ Cardinality(C \union {to}) = Cardinality(C) + 1
  BY <1>3, <1>4, FS_AddElement
<1>6. Cardinality(K) = Cardinality(L)
  BY <1>3, <1>5
<1> QED
  BY <1>6 DEF K, L, ls

LEMMA ReconciledIs ==
  ASSUME StoreInv, NEW i \in Ids
  PROVE  /\ From(Reconciled(i), diskX.keys[i])
         /\ Cardinality({k \in Ports : Reconciled(i)[k] # 0}) = Cardinality({k \in Ports : diskX.keys[i][k] # 0})
<1> DEFINE ks == diskX.keys[i]
           fr == CHOOSE x \in Orphans(i) : TRUE
           to == CHOOSE x \in Missing(i) : TRUE
<1>1. ks \in KeyRow /\ diskS[i] \subseteq Ports
  BY DEF StoreInv, StoreTypeOK, SecretsType, KeyRow
<1>2. CASE Cardinality(Orphans(i)) = 1 /\ Cardinality(Missing(i)) = 1
  <2>1. fr \in Orphans(i) /\ to \in Missing(i)
    BY <1>2, OneIsThere
  <2>2. Reconciled(i) = Moved(ks, fr, to)
    BY <1>2 DEF Reconciled
  <2> HIDE DEF fr, to
  <2>3. fr \in Ports /\ to \in Ports /\ ks[fr] # 0 /\ ks[to] = 0
    BY <1>1, <2>1 DEF Orphans, Missing
  <2> HIDE DEF ks
  <2>4. From(Moved(ks, fr, to), ks)
    BY <1>1, <2>3, MovedIs
  <2>5. Cardinality({k \in Ports : Moved(ks, fr, to)[k] # 0}) = Cardinality({k \in Ports : ks[k] # 0})
    BY <1>1, <2>3, MovedKeeps
  <2> QED
    BY <2>2, <2>4, <2>5 DEF ks
<1>3. CASE ~(Cardinality(Orphans(i)) = 1 /\ Cardinality(Missing(i)) = 1)
  BY <1>1, <1>3 DEF Reconciled, From
<1> QED
  BY <1>2, <1>3

LEMMA BootKeeps ==
  ASSUME StoreInv, Boot
  PROVE  StoreInv'
<1> DEFINE f == [diskX EXCEPT !.token = 0]
<1>1. /\ phase = "down" /\ memS' = diskS /\ memX' = f /\ damaged' = {} /\ diskS' = diskS
      /\ born' = born /\ adds' = adds /\ faults' = faults
      /\ diskX' = IF diskX.token = 0 THEN [diskX EXCEPT !.token = 1] ELSE diskX
      /\ orphaned' = orphaned \union {i \in Ids : diskS[i] = {} /\ (diskX.pw[i] # 0 \/ diskX.keys[i] # NoKeys)}
      /\ \/ ToReconcile = {} /\ phase' = "idle" /\ op' = NoOp
         \/ phase' = "secrets" /\ \E i \in ToReconcile :
               op' = [s |-> diskS, writes |-> <<WithKeys(f, i, Reconciled(i))>>, joint |-> FALSE, loading |-> TRUE]
  BY DEF Boot
<1>2. diskX \in SecretsType /\ diskS \in PortRow /\ diskX.keys \in [Ids -> KeyRow]
  BY DEF StoreInv, StoreTypeOK, PortRow, SecretsType, KeyRow
<1>3. /\ f \in SecretsType /\ f.token = 0 /\ f.pw = diskX.pw /\ f.keys = diskX.keys
      /\ diskX' \in SecretsType /\ diskX'.pw = diskX.pw /\ diskX'.keys = diskX.keys
  BY <1>1, <1>2, StoreAssumption DEF SecretsType
<1> HIDE DEF f
\* What is on file is that of the sparks that are still there.
<1>4. ASSUME NEW j \in Ids \ orphaned'
      PROVE  /\ OwnAt(f, j, born[j]) /\ OwnAt(diskX', j, born[j])
             /\ diskS[j] = {} => Bare(f, j)
  <2>1. j \in Ids \ orphaned
    BY <1>1
  <2>2. OwnAt(diskX, j, born[j])
    BY <2>1 DEF StoreInv, SecretsAreOwn, Own
  <2>3. diskS[j] = {} => diskX.pw[j] = 0 /\ diskX.keys[j] = NoKeys
    BY <1>1
  <2> QED
    BY <1>3, <2>2, <2>3 DEF OwnAt, Bare
<1>5. SecretsAgree' /\ JointIsFresh'
  BY <1>1, <1>3 DEF SecretsAgree, JointIsFresh, Same
<1>6. CASE ToReconcile = {} /\ phase' = "idle" /\ op' = NoOp
  <2>1. /\ NoOp \in OpType /\ NoOp.writes = <<>> /\ DOMAIN NoOp.writes = {}
    <3>1. <<>> \in Seq(SecretsType) /\ DOMAIN <<>> = {} /\ NoSparks \in PortRow
      BY DEF NoSparks, PortRow
    <3> QED
      BY <3>1 DEF NoOp, OpType
  <2>2. StoreTypeOK'
    BY <1>1, <1>2, <1>3, <1>6, <2>1 DEF StoreInv, StoreTypeOK, PortRow, OpType
  <2>3. WritesAreThere'
    BY <1>1, <1>3, <1>6, <2>1 DEF WritesAreThere
  <2>4. SparksAgree' /\ StillThere' /\ LoadMoves'
    BY <1>1, <1>6 DEF SparksAgree, StillThere, LoadMoves
  <2>5. SecretsAreOwn'
    BY <1>1, <1>4, <1>6 DEF SecretsAreOwn, Own
  <2>6. GoneIsBare'
    BY <1>1, <1>4, <1>6 DEF GoneIsBare
  <2> QED
    BY <1>5, <2>2, <2>3, <2>4, <2>5, <2>6 DEF StoreInv
<1>7. CASE phase' = "secrets" /\ \E i \in ToReconcile :
               op' = [s |-> diskS, writes |-> <<WithKeys(f, i, Reconciled(i))>>, joint |-> FALSE, loading |-> TRUE]
  <2>1. PICK i \in ToReconcile :
               op' = [s |-> diskS, writes |-> <<WithKeys(f, i, Reconciled(i))>>, joint |-> FALSE, loading |-> TRUE]
    BY <1>7
  <2>2. i \in Ids /\ diskS[i] # {}
    BY DEF ToReconcile
  <2> DEFINE w == WithKeys(f, i, Reconciled(i))
  <2>3. /\ From(Reconciled(i), diskX.keys[i])
        /\ Cardinality({k \in Ports : Reconciled(i)[k] # 0}) = Cardinality({k \in Ports : diskX.keys[i][k] # 0})
    BY <2>2, ReconciledIs
  <2>4. /\ w \in SecretsType /\ w.token = 0 /\ w.pw = f.pw /\ w.keys[i] = Reconciled(i)
        /\ \A j \in Ids \ {i} : w.keys[j] = f.keys[j]
    BY <1>3, <2>2, <2>3, WithKeysIs DEF From
  <2> HIDE DEF w
  <2>5. <<w>> \in Seq(SecretsType) /\ DOMAIN <<w>> = {1} /\ <<w>>[1] = w /\ Head(<<w>>) = w /\ Tail(<<w>>) = <<>> /\ <<w>> # <<>>
    BY <2>4
  <2>6. /\ op' \in OpType /\ op'.s = diskS /\ op'.writes = <<w>> /\ ~op'.joint /\ op'.loading
    BY <1>2, <2>1, <2>5 DEF OpType, w
  <2>7. ASSUME NEW j \in Ids \ orphaned'
        PROVE  OwnAt(w, j, born[j]) /\ (diskS[j] = {} => Bare(w, j))
    <3>1. OwnAt(f, j, born[j]) /\ (diskS[j] = {} => Bare(f, j))
      BY <1>4
    <3>2. CASE j = i
      <4>1. \A k \in Ports : f.keys[i][k] \in {0, born[i]}
        BY <3>1, <3>2 DEF OwnAt
      <4>2. \A k \in Ports : Reconciled(i)[k] \in {0, born[i]}
        BY <1>3, <2>3, <4>1 DEF From
      <4> QED
        BY <2>2, <2>4, <3>1, <3>2, <4>2 DEF OwnAt
    <3>3. CASE j # i
      BY <2>4, <3>1, <3>3 DEF OwnAt, Bare
    <3> QED
      BY <3>2, <3>3
  <2>8. StoreTypeOK'
    BY <1>1, <1>2, <1>3, <1>7, <2>6 DEF StoreInv, StoreTypeOK, PortRow, OpType
  <2>9. WritesAreThere'
    BY <1>1, <1>3, <1>7, <2>4, <2>5, <2>6 DEF WritesAreThere
  <2>10. SparksAgree' /\ StillThere'
    BY <1>1, <1>7, <2>6 DEF SparksAgree, StillThere
  <2>11. SecretsAreOwn'
    BY <1>1, <1>4, <2>5, <2>6, <2>7 DEF SecretsAreOwn, Own
  <2>12. GoneIsBare'
    BY <1>1, <1>4, <2>5, <2>6, <2>7 DEF GoneIsBare
  <2>13. ASSUME NEW j \in Ids PROVE Cardinality(KeysOf(w, j)) = Cardinality(KeysOf(f, j))
    <3>1. CASE j = i
      BY <1>3, <2>3, <2>4, <3>1 DEF KeysOf
    <3>2. CASE j # i
      BY <2>4, <3>2 DEF KeysOf
    <3> QED
      BY <3>1, <3>2
  <2>14. LoadMoves'
    BY <1>1, <2>5, <2>6, <2>13 DEF LoadMoves
  <2> QED
    BY <1>5, <2>8, <2>9, <2>10, <2>11, <2>12, <2>14 DEF StoreInv
<1> QED
  BY <1>1, <1>6, <1>7

LEMMA StoreStep == StoreInv /\ [StoreNext]_storeVars => StoreInv'
<1> SUFFICES ASSUME StoreInv, [StoreNext]_storeVars PROVE StoreInv'
  OBVIOUS
<1>1. ASSUME NEW i \in Ids,
             \/ Remove(i)
             \/ \E ports \in SUBSET Ports, secret \in BOOLEAN : Add(i, ports, secret) \/ Patch(i, ports, secret)
             \/ \E k \in Ports : AddPort(i, k) \/ DropPort(i, k) \/ \E v \in 0..MaxAdds : SetKey(i, k, v)
      PROVE  StoreInv'
  BY <1>1, RemoveKeeps, AddKeeps, PatchKeeps, AddPortKeeps, DropPortKeeps, SetKeyKeeps
<1>2. CASE Touch \/ Rotate
  BY <1>2, TouchKeeps
<1>3. CASE SparksWritten \/ SecretsWritten \/ TokenWritten \/ Restored \/ Boot
  BY <1>3, SparksWrittenKeeps, SecretsWrittenKeeps, TokenWrittenKeeps, RestoredKeeps, BootKeeps
<1>4. ASSUME NEW lost \in BOOLEAN, WriteFails(lost) \/ Crash(lost) PROVE StoreInv'
  BY <1>4, FaultKeeps
<1>5. CASE UNCHANGED storeVars
  BY <1>5 DEF storeVars, StoreInv, StoreTypeOK, WritesAreThere, SparksAgree, SecretsAgree, JointIsFresh, SecretsAreOwn,
              GoneIsBare, StillThere, LoadMoves, Own
<1> QED
  BY <1>1, <1>2, <1>3, <1>4, <1>5 DEF StoreNext

LEMMA StoreInvImplies == StoreInv => MemoryOnDisk /\ NoInheritedSecret
<1> SUFFICES ASSUME StoreInv PROVE MemoryOnDisk /\ NoInheritedSecret
  OBVIOUS
<1>1. MemoryOnDisk
  <2> SUFFICES ASSUME phase = "idle"
               PROVE  /\ "sparks" \in damaged \/ diskS = memS
                      /\ "secrets" \in damaged \/ diskX = [memX EXCEPT !.token = diskX.token]
    BY DEF MemoryOnDisk
  <2>1. "sparks" \in damaged \/ diskS = memS
    BY DEF StoreInv, SparksAgree
  <2>2. memX \in SecretsType /\ diskX \in SecretsType
    BY DEF StoreInv, StoreTypeOK
  <2>3. Same(diskX, memX) => diskX = [memX EXCEPT !.token = diskX.token]
    BY <2>2 DEF SecretsType, Same
  <2> QED
    BY <2>1, <2>3 DEF StoreInv, SecretsAgree
<1>2. NoInheritedSecret
  BY DEF StoreInv, SecretsAreOwn, Own, OwnAt, NoInheritedSecret
<1> QED
  BY <1>1, <1>2

\* Only a boot leaves the state in which the process is down.
LEMMA UpIsBoot ==
  ASSUME [StoreNext]_storeVars, phase = "down", phase' # "down"
  PROVE  Boot
<1>1. ~ UNCHANGED storeVars
  BY DEF storeVars
<1>2. ASSUME NEW i \in Ids,
             \/ Remove(i)
             \/ \E ports \in SUBSET Ports, secret \in BOOLEAN : Add(i, ports, secret) \/ Patch(i, ports, secret)
             \/ \E k \in Ports : AddPort(i, k) \/ DropPort(i, k) \/ \E v \in 0..MaxAdds : SetKey(i, k, v)
      PROVE  FALSE
  BY <1>2 DEF Remove, Add, Patch, AddPort, DropPort, SetKey, Begin
<1>3. ~(Touch \/ Rotate \/ SparksWritten \/ SecretsWritten \/ TokenWritten \/ Restored)
  BY DEF Touch, Rotate, Begin, SparksWritten, SecretsWritten, TokenWritten, Restored
<1>4. \A lost \in BOOLEAN : ~WriteFails(lost) /\ ~Crash(lost)
  BY DEF WriteFails, Crash
<1> QED
  BY <1>1, <1>2, <1>3, <1>4 DEF StoreNext

LEMMA CrashStep ==
  ASSUME StoreInv, [StoreNext]_storeVars, phase = "down", phase' # "down"
  PROVE  /\ "sparks" \in damaged \/ memS' \in {memS, op.s}
         /\ "secrets" \in damaged \/ memX' = memX \/ (op.writes # <<>> /\ memX' = Head(op.writes))
<1>1. memS' = diskS /\ memX' = [diskX EXCEPT !.token = 0]
  BY UpIsBoot DEF Boot
<1>2. "sparks" \in damaged \/ memS' \in {memS, op.s}
  BY <1>1 DEF StoreInv, SparksAgree
<1>3. memX \in SecretsType /\ diskX \in SecretsType /\ memX.token = 0
  BY DEF StoreInv, StoreTypeOK, WritesAreThere
<1>4. Same(diskX, memX) => memX' = memX
  BY <1>1, <1>3 DEF SecretsType, Same
<1> QED
  BY <1>2, <1>4 DEF StoreInv, SecretsAgree

LEMMA LoadStep ==
  ASSUME StoreInv, [StoreNext]_storeVars, op.loading, phase = "secrets", phase' = "idle", NEW j \in Ids
  PROVE  Cardinality(KeysOf(memX', j)) = Cardinality(KeysOf(memX, j))
<1>1. ~ UNCHANGED storeVars
  BY DEF storeVars
<1>2. ASSUME NEW i \in Ids,
             \/ Remove(i)
             \/ \E ports \in SUBSET Ports, secret \in BOOLEAN : Add(i, ports, secret) \/ Patch(i, ports, secret)
             \/ \E k \in Ports : AddPort(i, k) \/ DropPort(i, k) \/ \E v \in 0..MaxAdds : SetKey(i, k, v)
      PROVE  FALSE
  BY <1>2 DEF Remove, Add, Patch, AddPort, DropPort, SetKey, Begin
<1>3. ~(Touch \/ Rotate \/ SparksWritten \/ TokenWritten \/ Restored \/ Boot)
  BY DEF Touch, Rotate, Begin, SparksWritten, TokenWritten, Restored, Boot
<1>4. \A lost \in BOOLEAN : ~WriteFails(lost) /\ ~Crash(lost)
  BY DEF WriteFails, Crash, AfterFailure
<1>5. SecretsWritten
  BY <1>1, <1>2, <1>3, <1>4 DEF StoreNext
<1>6. memX' = Head(op.writes)
  BY <1>5 DEF SecretsWritten
<1> QED
  BY <1>6 DEF StoreInv, LoadMoves

LEMMA TokenStep ==
  ASSUME StoreInv, [StoreNext]_storeVars, diskX.token # 0, diskX'.token # diskX.token
  PROVE  phase = "token" \/ "secrets" \in damaged'
<1>1. ~ UNCHANGED storeVars
  BY DEF storeVars
<1>2. ASSUME NEW i \in Ids,
             \/ Remove(i)
             \/ \E ports \in SUBSET Ports, secret \in BOOLEAN : Add(i, ports, secret) \/ Patch(i, ports, secret)
             \/ \E k \in Ports : AddPort(i, k) \/ DropPort(i, k) \/ \E v \in 0..MaxAdds : SetKey(i, k, v)
      PROVE  FALSE
  BY <1>2 DEF Remove, Add, Patch, AddPort, DropPort, SetKey, Begin
<1>3. ~(Touch \/ Rotate \/ SparksWritten \/ Restored \/ Boot)
  BY DEF Touch, Rotate, Begin, SparksWritten, Restored, Boot
<1>4. ~SecretsWritten
  <2> SUFFICES ASSUME SecretsWritten PROVE FALSE
    OBVIOUS
  <2>1. diskX' = [Head(op.writes) EXCEPT !.token = diskX.token]
    BY DEF SecretsWritten, Stored
  <2>2. op.writes \in Seq(SecretsType) /\ op.writes # <<>>
    BY DEF SecretsWritten, StoreInv, StoreTypeOK, WritesAreThere
  <2>3. Head(op.writes) \in SecretsType
    BY <2>2
  <2> QED
    BY <2>1, <2>3 DEF SecretsType
<1>5. ASSUME NEW lost \in BOOLEAN, WriteFails(lost) \/ Crash(lost) PROVE "secrets" \in damaged'
  BY <1>5 DEF WriteFails, Crash, FileAfterFault, Target
<1>6. CASE TokenWritten
  BY <1>6 DEF TokenWritten
<1> QED
  BY <1>1, <1>2, <1>3, <1>4, <1>5, <1>6 DEF StoreNext

-----------------------------------------------------------------------------
(* TokenLedger: the invariant *)

\* What a baseline says of the counter, if it was absurd or not.
Low(b) == IF b >= Jump THEN b - Jump ELSE b

\* What a counter at c has grown by since its baseline b.
Ahead(c, b) == IF b = Null \/ c < Low(b) THEN 0 ELSE c - Low(b)

\* What may still be credited, with the counters at cs and the baselines bs:
\* cached tokens also as prompt tokens, where these are missing.
Owed(f, cs, bs) ==
    IF f = "prompt" /\ Ahead(cs["cached"], bs["cached"]) > Ahead(cs["prompt"], bs["prompt"])
    THEN Ahead(cs["cached"], bs["cached"]) ELSE Ahead(cs[f], bs[f])

SeriesType == [base : [Fields -> Nat \union {Null}], last : Named,
               totals : [Named -> Rows], daily : [Days -> [Named -> Rows]]]

BasesOK(s) == \A f \in Fields : s.base[f] \in {Null} \union 0..MaxServed \union Jump..(Jump + MaxServed)

\* What is and will be credited was made, of all models and of each.
TotalsOK(s, cs, mk) ==
    \A f \in Fields : Total(s.totals, f, Named) + Owed(f, cs, s.base) <= Total(mk, f, Models)
ModelsOK(s, cs, mk, md) ==
    \A m \in Models, f \in Fields :
       s.totals[m][f] + (IF m = md THEN Owed(f, cs, s.base) ELSE 0) <= mk[m][f]

CachedOK(s) ==
    /\ \A m \in Named : s.totals[m].cached <= s.totals[m].prompt
    /\ \A d \in Days, m \in Named : s.daily[d][m].cached <= s.daily[d][m].prompt

InDays(s, m) == MapThenSumSet(LAMBDA d : s.daily[d][m].output, Days)

FewDays(s) == Cardinality(UsedDays(s)) <= KeepDays
NoneAfter(s, td) == \A d \in Days : d > td => s.daily[d] = NewSeries.daily[0]
SumsOK(s, td) == \A m \in Named : /\ InDays(s, m) <= s.totals[m].output
                                  /\ td < KeepDays => InDays(s, m) = s.totals[m].output

SeriesOK(s, cs, mk, td) ==
    /\ s \in SeriesType /\ BasesOK(s) /\ CachedOK(s)
    /\ FewDays(s) /\ NoneAfter(s, td) /\ SumsOK(s, td) /\ TotalsOK(s, cs, mk)

LedgerInv ==
    /\ model \in Models /\ counter \in Rows /\ made \in [Models -> Rows]
    /\ today \in Days /\ served \in 0..MaxServed /\ events \in 0..MaxEvents /\ guessed \in BOOLEAN
    /\ \A f \in Fields : counter[f] <= served
    /\ SeriesOK(ledger, counter, made, today) /\ SeriesOK(file, counter, made, today)
    /\ ~guessed => ModelsOK(ledger, counter, made, model) /\ ModelsOK(file, counter, made, model)

-----------------------------------------------------------------------------
(* TokenLedger: the sums *)

LEMMA TotalIsSum ==
  ASSUME NEW S, IsFiniteSet(S), NEW rows \in [S -> Rows], NEW f \in Fields,
         NEW h \in [S -> Nat], \A m \in S : h[m] = rows[m][f]
  PROVE  IsSum(h, S, Total(rows, f, S)) /\ Total(rows, f, S) \in Nat
<1> DEFINE P(g) == g = [s \in SUBSET S |-> IF s = {} THEN 0
                          ELSE rows[CHOOSE x \in s : TRUE][f] + g[s \ {CHOOSE x \in s : TRUE}]]
           G == CHOOSE g : P(g)
<1>1. Total(rows, f, S) = G[S]
  BY DEF Total, MapThenSumSet, MapThenFoldSet
<1>2. ASSUME NEW g PROVE Adds(h, S, g) <=> P(g)
  <2>1. \A s \in SUBSET S : s # {} => (CHOOSE x \in s : TRUE) \in S
    OBVIOUS
  <2> QED
    BY <2>1 DEF Adds, Pick
<1>3. h \in [S -> Int]
  OBVIOUS
<1> HIDE DEF P
<1>4. \E g : P(g)
  BY <1>2, <1>3, AddsExists
<1>5. P(G)
  BY <1>4
<1> HIDE DEF G
<1>6. IsSum(h, S, Total(rows, f, S))
  BY <1>1, <1>2, <1>5 DEF IsSum
<1> QED
  BY <1>6, SumIsNat

LEMMA TotalIsNat ==
  ASSUME NEW S, IsFiniteSet(S), NEW rows \in [S -> Rows], NEW f \in Fields
  PROVE  Total(rows, f, S) \in Nat
<1> DEFINE h == [m \in S |-> rows[m][f]]
<1>1. h \in [S -> Nat] /\ \A m \in S : h[m] = rows[m][f]
  BY DEF Rows
<1> HIDE DEF h
<1> QED
  BY <1>1, TotalIsSum

LEMMA DaysAreFinite == IsFiniteSet(Days) /\ 0 \in Days
  BY LedgerAssumption, FS_Interval DEF Days

LEMMA NamesAreFinite == IsFiniteSet(Models) /\ IsFiniteSet(Named)
  BY LedgerAssumption, FS_AddElement DEF Named

LEMMA InDaysIsSum ==
  ASSUME NEW s, NEW m,
         NEW h \in [Days -> Nat], \A d \in Days : h[d] = s.daily[d][m].output
  PROVE  IsSum(h, Days, InDays(s, m)) /\ InDays(s, m) \in Nat
<1> DEFINE P(g) == g = [ss \in SUBSET Days |-> IF ss = {} THEN 0
                          ELSE s.daily[CHOOSE x \in ss : TRUE][m].output + g[ss \ {CHOOSE x \in ss : TRUE}]]
           G == CHOOSE g : P(g)
<1>1. InDays(s, m) = G[Days]
  BY DEF InDays, MapThenSumSet, MapThenFoldSet
<1>2. ASSUME NEW g PROVE Adds(h, Days, g) <=> P(g)
  <2>1. \A ss \in SUBSET Days : ss # {} => (CHOOSE x \in ss : TRUE) \in Days
    OBVIOUS
  <2>2. \A ss \in SUBSET Days : ss # {} => s.daily[CHOOSE x \in ss : TRUE][m].output = h[CHOOSE x \in ss : TRUE]
    BY <2>1
  <2> QED
    BY <2>2 DEF Adds, Pick
<1>3. h \in [Days -> Int]
  OBVIOUS
<1> HIDE DEF P
<1>4. \E g : P(g)
  BY <1>2, <1>3, AddsExists, DaysAreFinite
<1>5. P(G)
  BY <1>4
<1> HIDE DEF G
<1>6. IsSum(h, Days, InDays(s, m))
  BY <1>1, <1>2, <1>5 DEF IsSum
<1> QED
  BY <1>6, SumIsNat, DaysAreFinite

-----------------------------------------------------------------------------
(* TokenLedger: what may still be credited *)

LEMMA AheadIs ==
  ASSUME NEW c \in Nat, NEW b \in Nat \union {Null}
  PROVE  /\ Ahead(c, b) \in Nat /\ Ahead(0, b) = 0
         /\ \A i \in 0..1 : Ahead(c + i, b) \in Nat /\ Ahead(c + i, b) <= Ahead(c, b) + i
<1>1. Jump \in Nat
  BY LedgerAssumption
<1>2. b # Null => Low(b) \in Nat
  BY <1>1 DEF Low, Null
<1> QED
  BY <1>2 DEF Ahead

LEMMA OwedIs ==
  ASSUME NEW cs \in Rows, NEW bs \in [Fields -> Nat \union {Null}], NEW f \in Fields
  PROVE  /\ Owed(f, cs, bs) \in Nat
         /\ Ahead(cs[f], bs[f]) <= Owed(f, cs, bs)
         /\ f = "prompt" => Ahead(cs["cached"], bs["cached"]) <= Owed(f, cs, bs)
         /\ (\A e \in Fields : Ahead(cs[e], bs[e]) = 0) => Owed(f, cs, bs) = 0
<1>1. \A e \in Fields : Ahead(cs[e], bs[e]) \in Nat
  BY AheadIs DEF Rows
<1>2. "prompt" \in Fields /\ "cached" \in Fields
  BY DEF Fields
<1> QED
  BY <1>1, <1>2 DEF Owed

LEMMA OwedGrows ==
  ASSUME NEW cs \in Rows, NEW bs \in [Fields -> Nat \union {Null}], NEW f \in Fields, NEW w \in Work
  PROVE  Plus(cs, w) \in Rows /\ Owed(f, Plus(cs, w), bs) <= Owed(f, cs, bs) + w[f] /\ w[f] \in 0..1
<1>1. w \in [Fields -> 0..1] /\ w["cached"] <= w["prompt"]
  BY DEF Work
<1>2. \A e \in Fields : Plus(cs, w)[e] = cs[e] + w[e] /\ cs[e] \in Nat /\ w[e] \in 0..1
  BY <1>1 DEF Plus, Rows
<1>3. Plus(cs, w) \in Rows
  BY <1>1 DEF Plus, Rows
<1>4. \A e \in Fields : /\ Ahead(cs[e], bs[e]) \in Nat /\ Ahead(Plus(cs, w)[e], bs[e]) \in Nat
                        /\ Ahead(Plus(cs, w)[e], bs[e]) <= Ahead(cs[e], bs[e]) + w[e]
  <2> TAKE e \in Fields
  <2>1. bs[e] \in Nat \union {Null}
    OBVIOUS
  <2> QED
    BY <1>2, <2>1, AheadIs
<1>5. "prompt" \in Fields /\ "cached" \in Fields
  BY DEF Fields
<1> DEFINE old(e) == Ahead(cs[e], bs[e])
           new(e) == Ahead(Plus(cs, w)[e], bs[e])
<1>6. /\ Owed(f, Plus(cs, w), bs) = IF f = "prompt" /\ new("cached") > new("prompt") THEN new("cached") ELSE new(f)
      /\ Owed(f, cs, bs) = IF f = "prompt" /\ old("cached") > old("prompt") THEN old("cached") ELSE old(f)
  BY DEF Owed
<1>7. \A e \in Fields : old(e) \in Nat /\ new(e) \in Nat /\ new(e) <= old(e) + w[e] /\ w[e] \in 0..1
  BY <1>2, <1>4
<1> HIDE DEF old, new
<1> QED
  BY <1>1, <1>3, <1>5, <1>6, <1>7

\* Requests served raise what was made by what they raise the counters.
LEMMA ServesKeeps ==
  ASSUME NEW s \in SeriesType, NEW cs \in Rows, NEW mk \in [Models -> Rows], NEW md \in Models, NEW w \in Work
  PROVE  /\ [mk EXCEPT ![md] = Plus(@, w)] \in [Models -> Rows]
         /\ TotalsOK(s, cs, mk) => TotalsOK(s, Plus(cs, w), [mk EXCEPT ![md] = Plus(@, w)])
         /\ ModelsOK(s, cs, mk, md) => ModelsOK(s, Plus(cs, w), [mk EXCEPT ![md] = Plus(@, w)], md)
<1> DEFINE mk2 == [mk EXCEPT ![md] = Plus(@, w)]
<1>0. w \in [Fields -> 0..1]
  BY DEF Work
<1>1. /\ \A m \in Models \ {md} : mk2[m] = mk[m]
      /\ \A f \in Fields : mk2[md][f] = mk[md][f] + w[f] /\ mk[md][f] \in Nat
  BY <1>0 DEF Plus, Rows
<1>2. mk2 \in [Models -> Rows]
  BY <1>0 DEF Plus, Rows
<1>3. s.base \in [Fields -> Nat \union {Null}] /\ s.totals \in [Named -> Rows]
  BY DEF SeriesType
<1> HIDE DEF mk2
<1>4. ASSUME TotalsOK(s, cs, mk), NEW f \in Fields
      PROVE  Total(s.totals, f, Named) + Owed(f, Plus(cs, w), s.base) <= Total(mk2, f, Models)
  <2> DEFINE h == [m \in Models |-> mk[m][f]]
             k == [m \in Models |-> mk2[m][f]]
  <2>1. h \in [Models -> Nat] /\ \A m \in Models : h[m] = mk[m][f]
    BY DEF Rows
  <2>2. k \in [Models -> Nat] /\ \A m \in Models : k[m] = mk2[m][f]
    BY <1>2 DEF Rows
  <2>3. (\A m \in Models \ {md} : h[m] = k[m]) /\ k[md] = h[md] + w[f] /\ h[md] \in Nat
    BY <1>1
  <2>4. h \in [Models -> Int] /\ k \in [Models -> Int]
    BY <2>1, <2>2
  <2> HIDE DEF h, k
  <2>a. IsSum(h, Models, Total(mk, f, Models)) /\ Total(mk, f, Models) \in Nat
    BY <2>1, TotalIsSum, NamesAreFinite
  <2>b. IsSum(k, Models, Total(mk2, f, Models)) /\ Total(mk2, f, Models) \in Nat
    BY <1>2, <2>2, TotalIsSum, NamesAreFinite
  <2>5. Total(mk2, f, Models) = Total(mk, f, Models) + (k[md] - h[md])
    BY <2>3, <2>4, <2>a, <2>b, SumMoves, NamesAreFinite
  <2>6. Total(s.totals, f, Named) \in Nat
    BY <1>3, TotalIsNat, NamesAreFinite
  <2>7. Owed(f, Plus(cs, w), s.base) <= Owed(f, cs, s.base) + w[f] /\ Plus(cs, w) \in Rows /\ w[f] \in 0..1
    BY <1>3, OwedGrows
  <2>8. Owed(f, cs, s.base) \in Nat /\ Owed(f, Plus(cs, w), s.base) \in Nat
    BY <1>3, <2>7, OwedIs
  <2>9. Total(s.totals, f, Named) + Owed(f, cs, s.base) <= Total(mk, f, Models)
    BY <1>4 DEF TotalsOK
  <2> QED
    BY <2>a, <2>b, <2>3, <2>5, <2>6, <2>7, <2>8, <2>9
<1>5. ASSUME ModelsOK(s, cs, mk, md), NEW m \in Models, NEW f \in Fields
      PROVE  s.totals[m][f] + (IF m = md THEN Owed(f, Plus(cs, w), s.base) ELSE 0) <= mk2[m][f]
  <2>1. Owed(f, Plus(cs, w), s.base) <= Owed(f, cs, s.base) + w[f] /\ Plus(cs, w) \in Rows /\ w[f] \in 0..1
    BY <1>3, OwedGrows
  <2>2. Owed(f, cs, s.base) \in Nat /\ Owed(f, Plus(cs, w), s.base) \in Nat
    BY <1>3, <2>1, OwedIs
  <2>3. s.totals[m][f] + (IF m = md THEN Owed(f, cs, s.base) ELSE 0) <= mk[m][f]
    BY <1>5 DEF ModelsOK
  <2>4. s.totals[m][f] \in Nat
    BY <1>3 DEF Rows, Named
  <2> QED
    BY <1>1, <2>1, <2>2, <2>3, <2>4
<1> QED
  BY <1>2, <1>4, <1>5 DEF TotalsOK, ModelsOK, mk2

\* With its counters at zero the engine owes nothing.
LEMMA RestartKeeps ==
  ASSUME NEW s \in SeriesType, NEW cs \in Rows, NEW mk \in [Models -> Rows], NEW md \in Models, NEW m2x \in Models
  PROVE  /\ Zero \in Rows
         /\ TotalsOK(s, cs, mk) => TotalsOK(s, Zero, mk)
         /\ ModelsOK(s, cs, mk, md) => ModelsOK(s, Zero, mk, m2x)
<1>1. Zero \in Rows
  BY DEF Zero, Rows
<1>2. s.base \in [Fields -> Nat \union {Null}] /\ s.totals \in [Named -> Rows]
  BY DEF SeriesType
<1>3. \A f \in Fields : Owed(f, Zero, s.base) = 0 /\ Owed(f, cs, s.base) \in Nat
  <2>1. \A f \in Fields : Ahead(Zero[f], s.base[f]) = 0
    BY <1>2, AheadIs DEF Zero
  <2> QED
    BY <1>1, <1>2, <2>1, OwedIs
<1>4. \A f \in Fields : Total(s.totals, f, Named) \in Nat /\ Total(mk, f, Models) \in Nat
  BY <1>2, TotalIsNat, NamesAreFinite
<1>5. \A m \in Models, f \in Fields : s.totals[m][f] \in Nat /\ mk[m][f] \in Nat
  BY <1>2 DEF Rows, Named
<1>6. TotalsOK(s, cs, mk) => TotalsOK(s, Zero, mk)
  BY <1>3, <1>4 DEF TotalsOK
<1>7. ASSUME ModelsOK(s, cs, mk, md), NEW m \in Models, NEW f \in Fields
      PROVE  s.totals[m][f] + (IF m = m2x THEN Owed(f, Zero, s.base) ELSE 0) <= mk[m][f]
  <2>1. s.totals[m][f] + (IF m = md THEN Owed(f, cs, s.base) ELSE 0) <= mk[m][f]
    BY <1>7 DEF ModelsOK
  <2> QED
    BY <1>3, <1>5, <2>1
<1> QED
  BY <1>1, <1>6, <1>7 DEF ModelsOK

-----------------------------------------------------------------------------
(* TokenLedger: the days kept *)

Blank == NewSeries.daily[0]

LEMMA BlankIs == Blank = [m \in Named |-> Zero] /\ Blank \in [Named -> Rows] /\ Zero \in Rows
<1>1. Zero \in Rows
  BY DEF Zero, Rows
<1> QED
  BY <1>1, DaysAreFinite DEF Blank, NewSeries

\* Of the days with tokens as many are kept as there is room for.
LEMMA KeptDaysAreFew ==
  ASSUME NEW U \in SUBSET Days, NEW K, K = {d \in U : Cardinality({e \in U : e > d}) < KeepDays}
  PROVE  Cardinality(K) <= KeepDays /\ \A T : T \subseteq K => Cardinality(T) <= KeepDays
<1> DEFINE R == {ss \in Nat \X Nat : ss[1] < ss[2]}
<1>1. KeepDays \in Nat \ {0}
  BY LedgerAssumption
<1>2. IsFiniteSet(U) /\ IsFiniteSet(K) /\ K \in SUBSET Nat
  <2>1. Days \subseteq Nat
    BY DEF Days
  <2>2. K \in SUBSET U
    OBVIOUS
  <2>3. IsFiniteSet(U)
    BY DaysAreFinite, FS_Subset
  <2>4. IsFiniteSet(K)
    BY <2>2, <2>3, FS_Subset
  <2> QED
    BY <2>1, <2>2, <2>3, <2>4
<1>3. ASSUME K # {} PROVE Cardinality(K) <= KeepDays
  <2>1. IsWellFoundedOn(R, Nat)
    BY NatLessThanWellFounded DEF OpToRel
  <2> HIDE DEF R
  <2>2. PICK x \in K : \A y \in K : ~(<<y, x>> \in R)
    BY <1>2, <1>3, <2>1, WFMin
  <2>3. \A y \in K : y # x => y > x
    <3>1. \A y \in Nat : \A z \in Nat : y < z => <<y, z>> \in R
      BY DEF R
    <3>2. x \in Nat /\ \A y \in K : y \in Nat
      BY <1>2, <2>2
    <3>3. \A y \in K : ~(y < x)
      BY <2>2, <3>1, <3>2
    <3> QED
      BY <3>2, <3>3
  <2> DEFINE W == {e \in U : e > x}
  <2>4. Cardinality(W) < KeepDays /\ IsFiniteSet(W) /\ x \in K
    BY <1>2, FS_Subset
  <2>5. K \subseteq W \union {x}
    BY <2>3
  <2>6. x \notin W
    BY <1>2
  <2> HIDE DEF W
  <2>7. IsFiniteSet(W \union {x}) /\ Cardinality(W \union {x}) = Cardinality(W) + 1 /\ Cardinality(W) \in Nat
    BY <2>4, <2>6, FS_AddElement, FS_CardinalityType
  <2>8. Cardinality(K) <= Cardinality(W \union {x}) /\ Cardinality(K) \in Nat
    BY <1>2, <2>5, <2>7, FS_Subset, FS_CardinalityType
  <2> QED
    BY <1>1, <2>4, <2>7, <2>8
<1>4. K = {} => Cardinality(K) = 0
  BY FS_EmptySet
<1>5. Cardinality(K) <= KeepDays
  BY <1>1, <1>3, <1>4
<1>6. ASSUME NEW T, T \subseteq K PROVE Cardinality(T) <= KeepDays
  <2>1. Cardinality(T) <= Cardinality(K) /\ Cardinality(T) \in Nat /\ Cardinality(K) \in Nat
    BY <1>2, <1>6, FS_Subset, FS_CardinalityType
  <2> QED
    BY <1>1, <1>5, <2>1
<1> QED
  BY <1>5, <1>6

LEMMA KeptIs ==
  ASSUME NEW s \in SeriesType
  PROVE  /\ Kept(s) \in SeriesType
         /\ Kept(s).base = s.base /\ Kept(s).last = s.last /\ Kept(s).totals = s.totals
         /\ \A d \in Days : Kept(s).daily[d] \in {s.daily[d], Blank}
         /\ FewDays(Kept(s))
         /\ \A td \in Days : NoneAfter(s, td) => /\ NoneAfter(Kept(s), td)
                                                 /\ td < KeepDays => Kept(s).daily = s.daily
<1> DEFINE keep(d) == Cardinality({e \in UsedDays(s) : e > d}) < KeepDays
           dy == [d \in Days |-> IF keep(d) THEN s.daily[d] ELSE Blank]
<1>0. dy \in [Days -> [Named -> Rows]] /\ s.daily \in [Days -> [Named -> Rows]]
  BY BlankIs DEF SeriesType
<1>1. Kept(s) = [s EXCEPT !.daily = dy]
  BY DEF Kept, Blank
<1>2. \A d \in Days : dy[d] = IF keep(d) THEN s.daily[d] ELSE Blank
  OBVIOUS
<1> HIDE DEF dy
<1>3. /\ Kept(s) \in SeriesType
      /\ Kept(s).base = s.base /\ Kept(s).last = s.last /\ Kept(s).totals = s.totals /\ Kept(s).daily = dy
  BY <1>0, <1>1 DEF SeriesType
<1>4. \A d \in Days : dy[d] \in {s.daily[d], Blank}
  BY <1>2
<1>5. FewDays(Kept(s))
  <2> DEFINE U == UsedDays(s)
             K == {d \in U : Cardinality({e \in U : e > d}) < KeepDays}
  <2>1. U \in SUBSET Days
    BY DEF UsedDays
  <2>2. UsedDays(Kept(s)) \subseteq K
    BY <1>2, <1>3 DEF UsedDays, Blank
  <2> HIDE DEF U
  <2>3. \A T : T \subseteq K => Cardinality(T) <= KeepDays
    BY <2>1, KeptDaysAreFew
  <2> QED
    BY <2>2, <2>3 DEF FewDays
<1>6. ASSUME NEW td \in Days, NoneAfter(s, td) PROVE NoneAfter(Kept(s), td)
  BY <1>3, <1>4, <1>6 DEF NoneAfter, Blank
<1>7. ASSUME NEW td \in Days, NoneAfter(s, td), td < KeepDays PROVE dy = s.daily
  <2>1. ASSUME NEW d \in Days PROVE dy[d] = s.daily[d]
    <3>1. CASE d > td
      BY <1>4, <1>7, <3>1 DEF NoneAfter, Blank
    <3>2. CASE ~(d > td)
      <4> DEFINE W == {e \in UsedDays(s) : e > d}
      <4>1. W \subseteq (d + 1)..td
        BY <1>7 DEF W, UsedDays, NoneAfter, Days
      <4>2. d \in Int /\ td \in Int /\ d >= 0 /\ d <= td
        BY <3>2, LedgerAssumption DEF Days
      <4>3. IsFiniteSet((d + 1)..td) /\ Cardinality((d + 1)..td) = td - d
        <5>1. d + 1 \in Int /\ td \in Int
          BY <4>2
        <5>2. Cardinality((d + 1)..td) = IF d + 1 > td THEN 0 ELSE td - (d + 1) + 1
          BY <5>1, FS_Interval
        <5>3. IsFiniteSet((d + 1)..td)
          BY <5>1, FS_Interval
        <5>4. (IF d + 1 > td THEN 0 ELSE td - (d + 1) + 1) = td - d
          BY <4>2
        <5> QED
          BY <5>2, <5>3, <5>4
      <4> HIDE DEF W
      <4>4. Cardinality(W) <= td - d /\ Cardinality(W) \in Nat
        BY <4>1, <4>3, FS_Subset, FS_CardinalityType
      <4>5. Cardinality(W) < KeepDays
        BY <1>7, <4>2, <4>4, LedgerAssumption
      <4>6. keep(d)
        BY <4>5 DEF W
      <4> QED
        BY <1>2, <4>6
    <3> QED
      BY <3>1, <3>2
  <2> QED
    BY <1>0, <2>1
<1> QED
  BY <1>3, <1>4, <1>5, <1>6, <1>7

-----------------------------------------------------------------------------
(* TokenLedger: record *)

\* A delta is at most what the counter has grown by, and after the sample the
\* counter is its own baseline.
LEMMA DeltaIs ==
  ASSUME NEW s, s.base \in [Fields -> Nat \union {Null}], BasesOK(s), NEW f \in Fields,
         NEW obs \in [Fields -> Int], NEW c \in 0..MaxServed, obs[f] \in {Null, c, c + Jump}
  PROVE  /\ Delta(f, obs, s) \in Nat /\ Delta(f, obs, s) <= Ahead(c, s.base[f])
         /\ Ahead(c, obs[f]) = 0
         /\ obs[f] \in {Null} \union 0..MaxServed \union Jump..(Jump + MaxServed)
         /\ obs[f] \in Nat \union {Null}
<1>1. MaxServed \in Nat /\ MaxDelta \in Nat /\ Jump \in Nat /\ Jump > MaxDelta + MaxServed
  BY LedgerAssumption
<1>2. s.base[f] \in {Null} \union 0..MaxServed \union Jump..(Jump + MaxServed)
  BY DEF BasesOK
<1> DEFINE b == s.base[f]
           o == obs[f]
<1>3. Delta(f, obs, s) = IF o = Null \/ b = Null THEN 0 ELSE IF o - b \in 0..MaxDelta THEN o - b ELSE 0
  BY DEF Delta
<1>4. b \in {Null} \union 0..MaxServed \union Jump..(Jump + MaxServed) /\ o \in {Null, c, c + Jump}
  BY <1>2
<1> HIDE DEF b, o
<1>5. b # Null => b \in Nat /\ Low(b) \in Nat /\ (b <= MaxServed => Low(b) = b) /\ (b >= Jump => Low(b) = b - Jump)
  BY <1>1, <1>4 DEF Low
<1>6. Low(c) = c /\ Low(c + Jump) = c
  BY <1>1 DEF Low
<1>7. Ahead(c, o) = 0
  BY <1>4, <1>6 DEF Ahead
<1>8. Delta(f, obs, s) \in Nat /\ Delta(f, obs, s) <= Ahead(c, b)
  <2>1. CASE b = Null \/ o = Null
    BY <1>1, <1>3, <1>5, <2>1 DEF Ahead
  <2>2. CASE b # Null /\ o = c /\ b <= MaxServed
    BY <1>1, <1>3, <1>4, <1>5, <2>2 DEF Ahead, Null
  <2>3. CASE b # Null /\ o = c /\ b >= Jump
    <3>1. o - b \notin 0..MaxDelta
      BY <1>1, <1>4, <2>3
    <3> QED
      BY <1>3, <1>5, <2>3, <3>1 DEF Ahead
  <2>4. CASE b # Null /\ o = c + Jump /\ b <= MaxServed
    <3>1. o - b \notin 0..MaxDelta
      BY <1>1, <1>4, <2>4, <1>5
    <3> QED
      BY <1>3, <1>5, <2>4, <3>1 DEF Ahead
  <2>5. CASE b # Null /\ o = c + Jump /\ b >= Jump
    <3>1. o - b = c - Low(b)
      BY <1>1, <1>4, <1>5, <2>5
    <3> QED
      BY <1>1, <1>3, <1>5, <2>5, <3>1 DEF Ahead, Null
  <2> QED
    BY <1>1, <1>4, <2>1, <2>2, <2>3, <2>4, <2>5
<1>9. o \in Nat \union {Null} /\ o \in {Null} \union 0..MaxServed \union Jump..(Jump + MaxServed)
  BY <1>1, <1>4
<1> QED
  BY <1>7, <1>8, <1>9 DEF b, o

\* What a credit adds to a row.
LEMMA CreditedIs ==
  ASSUME NEW row \in Rows, NEW d \in Rows
  PROVE  /\ Credited(row, d) \in Rows
         /\ Credited(row, d).cached <= Credited(row, d).prompt
         /\ Credited(row, d).output = row.output + d.output
         /\ Credited(row, d).cached = row.cached + d.cached
         /\ Credited(row, d).prompt =
               IF row.cached + d.cached > row.prompt + d.prompt THEN row.cached + d.cached ELSE row.prompt + d.prompt
<1> DEFINE sum == Plus(row, d)
<1>1. sum \in [Fields -> Nat] /\ \A f \in Fields : sum[f] = row[f] + d[f]
  BY DEF Plus, Rows
<1>2. {"output", "prompt", "cached"} = Fields
  BY DEF Fields
<1>3. Credited(row, d) = [sum EXCEPT !["prompt"] = IF sum["cached"] > sum["prompt"] THEN sum["cached"] ELSE sum["prompt"]]
  BY DEF Credited
<1> HIDE DEF sum
<1>4. /\ Credited(row, d) \in [Fields -> Nat]
      /\ Credited(row, d)["output"] = sum["output"] /\ Credited(row, d)["cached"] = sum["cached"]
      /\ Credited(row, d)["prompt"] = IF sum["cached"] > sum["prompt"] THEN sum["cached"] ELSE sum["prompt"]
  BY <1>1, <1>2, <1>3
<1>5. sum["output"] \in Nat /\ sum["cached"] \in Nat /\ sum["prompt"] \in Nat
  BY <1>1, <1>2
<1> QED
  BY <1>1, <1>2, <1>4, <1>5 DEF Rows

LEMMA CreditIsOwed ==
  ASSUME NEW row \in Rows, row.cached <= row.prompt, NEW d \in Rows,
         NEW cs \in Rows, NEW bs \in [Fields -> Nat \union {Null}],
         \A f \in Fields : d[f] <= Ahead(cs[f], bs[f]), NEW f \in Fields
  PROVE  Credited(row, d)[f] <= row[f] + Owed(f, cs, bs)
<1>1. \A e \in Fields : row[e] \in Nat /\ d[e] \in Nat /\ d[e] <= Ahead(cs[e], bs[e]) /\ Ahead(cs[e], bs[e]) \in Nat
  BY AheadIs DEF Rows
<1>2. /\ Owed(f, cs, bs) \in Nat /\ Ahead(cs[f], bs[f]) <= Owed(f, cs, bs)
      /\ f = "prompt" => Ahead(cs["cached"], bs["cached"]) <= Owed(f, cs, bs)
  BY OwedIs
<1>3. Fields = {"output", "prompt", "cached"}
  BY DEF Fields
<1>4. CASE f = "output"
  BY <1>1, <1>2, <1>3, <1>4, CreditedIs
<1>5. CASE f = "cached"
  BY <1>1, <1>2, <1>3, <1>5, CreditedIs
<1>6. CASE f = "prompt"
  BY <1>1, <1>2, <1>3, <1>6, CreditedIs
<1> QED
  BY <1>3, <1>4, <1>5, <1>6

LEMMA SeriesParts ==
  ASSUME NEW s \in SeriesType
  PROVE  /\ s.base \in [Fields -> Nat \union {Null}] /\ s.last \in Named
         /\ s.totals \in [Named -> Rows] /\ s.daily \in [Days -> [Named -> Rows]]
         /\ \A m \in Named, f \in Fields : s.totals[m][f] \in Nat
         /\ \A d \in Days, m \in Named, f \in Fields : s.daily[d][m][f] \in Nat
  BY DEF SeriesType, Rows

\* A sample without a credit only moves the baselines.
LEMMA SeenKeeps ==
  ASSUME NEW s, NEW cs \in Rows, NEW mk \in [Models -> Rows], NEW td \in Days, SeriesOK(s, cs, mk, td),
         NEW obs \in [Fields -> Nat \union {Null}], NEW l \in Named,
         \A f \in Fields : obs[f] \in {Null} \union 0..MaxServed \union Jump..(Jump + MaxServed),
         \A f \in Fields : Ahead(cs[f], obs[f]) = 0,
         NEW u, u = [s EXCEPT !.base = obs, !.last = l]
  PROVE  /\ SeriesOK(u, cs, mk, td)
         /\ \A md \in Models : ModelsOK(s, cs, mk, md) => ModelsOK(u, cs, mk, md)
<1>1. s \in SeriesType
  BY DEF SeriesOK
<1>2. u \in SeriesType /\ u.base = obs /\ u.totals = s.totals /\ u.daily = s.daily
  BY <1>1 DEF SeriesType
<1>3. \A f \in Fields : /\ Owed(f, cs, u.base) = 0 /\ Owed(f, cs, s.base) \in Nat
                        /\ Total(s.totals, f, Named) \in Nat /\ Total(mk, f, Models) \in Nat
  BY <1>1, <1>2, OwedIs, SeriesParts, TotalIsNat, NamesAreFinite
<1>4. TotalsOK(u, cs, mk)
  BY <1>2, <1>3 DEF SeriesOK, TotalsOK
<1>5. ASSUME NEW md \in Models, ModelsOK(s, cs, mk, md) PROVE ModelsOK(u, cs, mk, md)
  <2> SUFFICES ASSUME NEW m \in Models, NEW f \in Fields
               PROVE  u.totals[m][f] + (IF m = md THEN Owed(f, cs, u.base) ELSE 0) <= mk[m][f]
    BY DEF ModelsOK
  <2>1. s.totals[m][f] + (IF m = md THEN Owed(f, cs, s.base) ELSE 0) <= mk[m][f]
    BY <1>5 DEF ModelsOK
  <2>2. s.totals[m][f] \in Nat /\ mk[m][f] \in Nat
    BY <1>1, SeriesParts DEF Rows, Named
  <2> QED
    BY <1>2, <1>3, <2>1, <2>2
<1>6. BasesOK(u) /\ CachedOK(u)
  BY <1>2 DEF SeriesOK, BasesOK, CachedOK
<1>7. FewDays(u) /\ NoneAfter(u, td)
  BY <1>2 DEF SeriesOK, FewDays, NoneAfter, UsedDays
<1>8. SumsOK(u, td)
  <2> SUFFICES ASSUME NEW m \in Named
               PROVE  InDays(u, m) <= u.totals[m].output /\ (td < KeepDays => InDays(u, m) = u.totals[m].output)
    BY DEF SumsOK
  <2> DEFINE h == [d \in Days |-> s.daily[d][m].output]
  <2>1. h \in [Days -> Nat] /\ (\A d \in Days : h[d] = s.daily[d][m].output) /\ \A d \in Days : h[d] = u.daily[d][m].output
    BY <1>1, <1>2, SeriesParts DEF Fields
  <2>2. h \in [Days -> Int]
    BY <2>1
  <2> HIDE DEF h
  <2>3. IsSum(h, Days, InDays(s, m)) /\ InDays(s, m) \in Nat
    BY <2>1, InDaysIsSum
  <2>4. IsSum(h, Days, InDays(u, m)) /\ InDays(u, m) \in Nat
    BY <2>1, InDaysIsSum
  <2>5. InDays(s, m) <= InDays(u, m) /\ InDays(u, m) <= InDays(s, m)
    BY <2>2, <2>3, <2>4, SumGrows, DaysAreFinite
  <2>6. InDays(s, m) <= s.totals[m].output /\ (td < KeepDays => InDays(s, m) = s.totals[m].output)
    BY DEF SeriesOK, SumsOK
  <2>7. InDays(s, m) = InDays(u, m)
    BY <2>3, <2>4, <2>5
  <2> QED
    BY <1>2, <2>6, <2>7
<1> QED
  BY <1>2, <1>4, <1>5, <1>6, <1>7, <1>8 DEF SeriesOK

\* Days are dropped from what counts as summed only once there are too many.
LEMMA KeptKeeps ==
  ASSUME NEW s \in SeriesType, NEW cs, NEW mk, NEW td \in Days,
         BasesOK(s), CachedOK(s), NoneAfter(s, td), SumsOK(s, td), TotalsOK(s, cs, mk)
  PROVE  /\ SeriesOK(Kept(s), cs, mk, td)
         /\ \A md \in Models : ModelsOK(s, cs, mk, md) => ModelsOK(Kept(s), cs, mk, md)
<1> DEFINE u == Kept(s)
<1>1. /\ u \in SeriesType /\ u.base = s.base /\ u.totals = s.totals /\ FewDays(u)
      /\ \A d \in Days : u.daily[d] \in {s.daily[d], Blank}
      /\ NoneAfter(u, td) /\ (td < KeepDays => u.daily = s.daily)
  BY KeptIs
<1> HIDE DEF u
<1>2. BasesOK(u) /\ TotalsOK(u, cs, mk) /\ \A md \in Models : ModelsOK(s, cs, mk, md) => ModelsOK(u, cs, mk, md)
  BY <1>1 DEF BasesOK, TotalsOK, ModelsOK
<1>3. \A m \in Named : Blank[m].cached = 0 /\ Blank[m].prompt = 0 /\ Blank[m].output = 0
  BY BlankIs DEF Zero, Fields
<1>4. CachedOK(u)
  BY <1>1, <1>3 DEF CachedOK
<1>5. SumsOK(u, td)
  <2> SUFFICES ASSUME NEW m \in Named
               PROVE  InDays(u, m) <= u.totals[m].output /\ (td < KeepDays => InDays(u, m) = u.totals[m].output)
    BY DEF SumsOK
  <2> DEFINE h == [d \in Days |-> s.daily[d][m].output]
             k == [d \in Days |-> u.daily[d][m].output]
  <2>1. h \in [Days -> Nat] /\ \A d \in Days : h[d] = s.daily[d][m].output
    BY SeriesParts DEF Fields
  <2>2. k \in [Days -> Nat] /\ \A d \in Days : k[d] = u.daily[d][m].output
    BY <1>1, SeriesParts DEF Fields
  <2>3. h \in [Days -> Int] /\ k \in [Days -> Int]
    BY <2>1, <2>2
  <2> HIDE DEF h, k
  <2>4. \A d \in Days : k[d] <= h[d] /\ (td < KeepDays => h[d] <= k[d])
    <3> TAKE d \in Days
    <3>1. u.daily[d] = s.daily[d] \/ u.daily[d] = Blank
      BY <1>1
    <3>2. k[d] = h[d] \/ k[d] = 0
      BY <1>3, <2>1, <2>2, <3>1
    <3>3. td < KeepDays => k[d] = h[d]
      BY <1>1, <2>1, <2>2
    <3>4. k[d] \in Nat /\ h[d] \in Nat
      BY <2>1, <2>2
    <3> QED
      BY <3>2, <3>3, <3>4
  <2>5. IsSum(h, Days, InDays(s, m)) /\ InDays(s, m) \in Nat
    BY <2>1, InDaysIsSum
  <2>6. IsSum(k, Days, InDays(u, m)) /\ InDays(u, m) \in Nat
    BY <2>2, InDaysIsSum
  <2>7. InDays(u, m) <= InDays(s, m)
    BY <2>3, <2>4, <2>5, <2>6, SumGrows, DaysAreFinite
  <2>8. td < KeepDays => InDays(s, m) <= InDays(u, m)
    BY <2>3, <2>4, <2>5, <2>6, SumGrows, DaysAreFinite
  <2>9. /\ InDays(s, m) <= s.totals[m].output /\ (td < KeepDays => InDays(s, m) = s.totals[m].output)
    BY DEF SumsOK
  <2>10. s.totals[m].output \in Nat
    BY SeriesParts DEF Fields
  <2> QED
    BY <1>1, <2>5, <2>6, <2>7, <2>8, <2>9, <2>10
<1> QED
  BY <1>1, <1>2, <1>4, <1>5 DEF SeriesOK, u

\* The series with baselines obs and last model l, and d credited to model c.
WithCredit(s, obs, l, c, td, d) ==
    [s EXCEPT !.base = obs, !.last = l, !.totals[c] = Credited(@, d), !.daily[td][c] = Credited(@, d)]

CreditOK(s, u, cs, mk, td, c) ==
    /\ u \in SeriesType /\ BasesOK(u) /\ CachedOK(u) /\ NoneAfter(u, td) /\ SumsOK(u, td) /\ TotalsOK(u, cs, mk)
    /\ \A md \in Models : ModelsOK(s, cs, mk, md) /\ c = md => ModelsOK(u, cs, mk, md)

\* A credit adds the same to the total and to the day, and no more than was
\* owed.
LEMMA CreditKeeps ==
  ASSUME NEW s, NEW cs \in Rows, NEW mk \in [Models -> Rows], NEW td \in Days, SeriesOK(s, cs, mk, td),
         NEW obs \in [Fields -> Nat \union {Null}], NEW l \in Named, NEW c \in Named, NEW d \in Rows,
         \A f \in Fields : obs[f] \in {Null} \union 0..MaxServed \union Jump..(Jump + MaxServed),
         \A f \in Fields : d[f] <= Ahead(cs[f], s.base[f]),
         \A f \in Fields : Ahead(cs[f], obs[f]) = 0,
         NEW u, u = WithCredit(s, obs, l, c, td, d)
  PROVE  CreditOK(s, u, cs, mk, td, c)
<1>1. /\ s \in SeriesType /\ s.base \in [Fields -> Nat \union {Null}]
      /\ s.totals \in [Named -> Rows] /\ s.daily \in [Days -> [Named -> Rows]]
  BY SeriesParts DEF SeriesOK
<1> DEFINE tot == [s.totals EXCEPT ![c] = Credited(@, d)]
           dy == [s.daily EXCEPT ![td][c] = Credited(@, d)]
<1>2. s.totals[c] \in Rows /\ s.daily[td][c] \in Rows
  BY <1>1
<1>3. Credited(s.totals[c], d) \in Rows /\ Credited(s.daily[td][c], d) \in Rows
  BY <1>2, CreditedIs
<1>4. tot \in [Named -> Rows] /\ dy \in [Days -> [Named -> Rows]]
  BY <1>1, <1>3
<1>5. /\ tot[c] = Credited(s.totals[c], d) /\ \A m \in Named \ {c} : tot[m] = s.totals[m]
      /\ dy[td][c] = Credited(s.daily[td][c], d)
      /\ \A e \in Days, m \in Named : e # td \/ m # c => dy[e][m] = s.daily[e][m]
  BY <1>1
<1>a. \A e \in Days : e # td => dy[e] = s.daily[e]
  BY <1>1
<1>6. u = [s EXCEPT !.base = obs, !.last = l, !.totals = tot, !.daily = dy]
  BY <1>1 DEF SeriesType, WithCredit
<1> HIDE DEF tot, dy
<1>7. u \in SeriesType /\ u.base = obs /\ u.totals = tot /\ u.daily = dy
  BY <1>1, <1>4, <1>6 DEF SeriesType
<1>8. BasesOK(u)
  BY <1>7 DEF BasesOK
<1>9. CachedOK(u)
  <2>1. CachedOK(s)
    BY DEF SeriesOK
  <2>2. /\ Credited(s.totals[c], d).cached <= Credited(s.totals[c], d).prompt
        /\ Credited(s.daily[td][c], d).cached <= Credited(s.daily[td][c], d).prompt
    BY <1>2, CreditedIs
  <2>3. \A m \in Named : tot[m].cached <= tot[m].prompt
    BY <1>5, <2>1, <2>2 DEF CachedOK
  <2>4. \A e \in Days, m \in Named : dy[e][m].cached <= dy[e][m].prompt
    BY <1>5, <2>1, <2>2 DEF CachedOK
  <2> QED
    BY <1>7, <2>3, <2>4 DEF CachedOK
<1>10. NoneAfter(u, td)
  <2>1. \A e \in Days : e > td => e # td
    BY DEF Days
  <2> QED
    BY <1>7, <1>a, <2>1 DEF NoneAfter, SeriesOK
<1>11. /\ Credited(s.totals[c], d).output = s.totals[c].output + d.output
       /\ Credited(s.daily[td][c], d).output = s.daily[td][c].output + d.output
  BY <1>2, CreditedIs
<1>12. SumsOK(u, td)
  <2> SUFFICES ASSUME NEW m \in Named
               PROVE  InDays(u, m) <= u.totals[m].output /\ (td < KeepDays => InDays(u, m) = u.totals[m].output)
    BY DEF SumsOK
  <2> DEFINE h == [e \in Days |-> s.daily[e][m].output]
             k == [e \in Days |-> dy[e][m].output]
             more == IF m = c THEN d.output ELSE 0
  <2>1. h \in [Days -> Nat] /\ \A e \in Days : h[e] = s.daily[e][m].output
    BY <1>1, SeriesParts DEF Fields
  <2>2. k \in [Days -> Nat] /\ (\A e \in Days : k[e] = u.daily[e][m].output) /\ \A e \in Days : k[e] = dy[e][m].output
    BY <1>7, SeriesParts DEF Fields
  <2>3. h \in [Days -> Int] /\ k \in [Days -> Int]
    BY <2>1, <2>2
  <2> HIDE DEF h, k
  <2>4. \A e \in Days \ {td} : h[e] = k[e]
    BY <1>a, <2>1, <2>2
  <2>5. k[td] = h[td] + more /\ h[td] \in Nat /\ more \in Nat
    BY <1>5, <1>11, <2>1, <2>2 DEF Rows, Fields
  <2>6. IsSum(h, Days, InDays(s, m)) /\ InDays(s, m) \in Nat
    BY <2>1, InDaysIsSum
  <2>7. IsSum(k, Days, InDays(u, m)) /\ InDays(u, m) \in Nat
    BY <2>2, InDaysIsSum
  <2>8. InDays(u, m) = InDays(s, m) + (k[td] - h[td])
    BY <2>3, <2>4, <2>6, <2>7, SumMoves, DaysAreFinite
  <2>9. tot[m].output = s.totals[m].output + more /\ s.totals[m].output \in Nat
    BY <1>1, <1>5, <1>11, SeriesParts DEF Fields
  <2>10. /\ InDays(s, m) <= s.totals[m].output /\ (td < KeepDays => InDays(s, m) = s.totals[m].output)
    BY DEF SumsOK, SeriesOK
  <2> HIDE DEF more
  <2>11. InDays(u, m) = InDays(s, m) + more /\ u.totals[m].output = s.totals[m].output + more
    <3>1. u.totals[m].output = tot[m].output
      BY <1>7
    <3>2. k[td] - h[td] = more
      BY <2>5
    <3> QED
      BY <2>8, <2>9, <3>1, <3>2
  <2>12. InDays(s, m) \in Nat /\ s.totals[m].output \in Nat /\ more \in Nat
    BY <2>5, <2>6, <2>9
  <2> QED
    BY <2>10, <2>11, <2>12
<1>13. ASSUME NEW f \in Fields
       PROVE  /\ tot[c][f] <= s.totals[c][f] + Owed(f, cs, s.base) /\ Owed(f, cs, s.base) \in Nat
              /\ Owed(f, cs, obs) = 0 /\ tot[c][f] \in Nat /\ s.totals[c][f] \in Nat
  <2>1. s.totals[c].cached <= s.totals[c].prompt
    BY DEF SeriesOK, CachedOK
  <2>2. Credited(s.totals[c], d)[f] <= s.totals[c][f] + Owed(f, cs, s.base)
    BY <1>1, <1>2, <2>1, CreditIsOwed
  <2>3. Owed(f, cs, s.base) \in Nat /\ Owed(f, cs, obs) = 0
    BY <1>1, OwedIs
  <2>4. tot[c][f] \in Nat /\ s.totals[c][f] \in Nat
    BY <1>2, <1>4 DEF Rows
  <2> QED
    BY <1>5, <2>2, <2>3, <2>4
<1>14. ASSUME NEW f \in Fields PROVE Total(tot, f, Named) + Owed(f, cs, obs) <= Total(mk, f, Models)
  <2> DEFINE h == [m \in Named |-> s.totals[m][f]]
             k == [m \in Named |-> tot[m][f]]
  <2>1. h \in [Named -> Nat] /\ \A m \in Named : h[m] = s.totals[m][f]
    BY <1>1 DEF Rows
  <2>2. k \in [Named -> Nat] /\ \A m \in Named : k[m] = tot[m][f]
    BY <1>4 DEF Rows
  <2>3. h \in [Named -> Int] /\ k \in [Named -> Int]
    BY <2>1, <2>2
  <2> HIDE DEF h, k
  <2>4. \A m \in Named \ {c} : h[m] = k[m]
    BY <1>5, <2>1, <2>2
  <2>5. IsSum(h, Named, Total(s.totals, f, Named)) /\ Total(s.totals, f, Named) \in Nat
    BY <1>1, <2>1, TotalIsSum, NamesAreFinite
  <2>6. IsSum(k, Named, Total(tot, f, Named)) /\ Total(tot, f, Named) \in Nat
    BY <1>4, <2>2, TotalIsSum, NamesAreFinite
  <2>7. Total(tot, f, Named) = Total(s.totals, f, Named) + (k[c] - h[c])
    BY <2>3, <2>4, <2>5, <2>6, SumMoves, NamesAreFinite
  <2>8. k[c] = tot[c][f] /\ h[c] = s.totals[c][f]
    BY <2>1, <2>2
  <2>9. Total(s.totals, f, Named) + Owed(f, cs, s.base) <= Total(mk, f, Models)
    BY DEF SeriesOK, TotalsOK
  <2>10. Total(mk, f, Models) \in Nat
    BY TotalIsNat, NamesAreFinite
  <2> QED
    BY <1>13, <2>5, <2>6, <2>7, <2>8, <2>9, <2>10
<1>15. ASSUME NEW md \in Models, ModelsOK(s, cs, mk, md), c = md PROVE ModelsOK(u, cs, mk, md)
  <2> SUFFICES ASSUME NEW m \in Models, NEW f \in Fields
               PROVE  tot[m][f] + (IF m = md THEN Owed(f, cs, obs) ELSE 0) <= mk[m][f]
    BY <1>7 DEF ModelsOK
  <2>1. s.totals[m][f] + (IF m = md THEN Owed(f, cs, s.base) ELSE 0) <= mk[m][f]
    BY <1>15 DEF ModelsOK
  <2>2. s.totals[m][f] \in Nat /\ mk[m][f] \in Nat /\ m \in Named
    BY <1>1, SeriesParts DEF Rows, Named
  <2>3. CASE m = c
    BY <1>13, <1>15, <2>1, <2>2, <2>3
  <2>4. CASE m # c
    BY <1>5, <1>15, <2>1, <2>2, <2>4
  <2> QED
    BY <2>3, <2>4
<1> QED
  BY <1>7, <1>8, <1>9, <1>10, <1>12, <1>14, <1>15 DEF TotalsOK, CreditOK

\* A sample: the observation has for each counter nothing, its value, or its
\* value and a jump.
LEMMA RecordedKeeps ==
  ASSUME today \in Days, NEW s, NEW cs \in Rows, NEW mk \in [Models -> Rows], SeriesOK(s, cs, mk, today),
         \A f \in Fields : cs[f] <= MaxServed,
         NEW name \in Named, NEW obs \in [Fields -> Int],
         \A f \in Fields : obs[f] \in {Null, cs[f], cs[f] + Jump}
  PROVE  /\ SeriesOK(Recorded(s, name, obs), cs, mk, today)
         /\ \A md \in Models : ModelsOK(s, cs, mk, md) /\ name = md => ModelsOK(Recorded(s, name, obs), cs, mk, md)
<1> DEFINE c == CreditsTo(name, s)
           d == [f \in Fields |-> Delta(f, obs, s)]
           l == IF name # Unnamed THEN name ELSE s.last
           seen == [s EXCEPT !.base = obs, !.last = l]
           credited == WithCredit(s, obs, l, c, today, d)
<1>1. s \in SeriesType /\ s.base \in [Fields -> Nat \union {Null}] /\ s.last \in Named
  BY SeriesParts DEF SeriesOK
<1>2. ASSUME NEW f \in Fields
      PROVE  /\ Delta(f, obs, s) \in Nat /\ Delta(f, obs, s) <= Ahead(cs[f], s.base[f])
             /\ Ahead(cs[f], obs[f]) = 0
             /\ obs[f] \in {Null} \union 0..MaxServed \union Jump..(Jump + MaxServed)
             /\ obs[f] \in Nat \union {Null}
  <2>1. cs[f] \in 0..MaxServed
    BY LedgerAssumption DEF Rows
  <2>2. BasesOK(s)
    BY DEF SeriesOK
  <2> QED
    BY <1>1, <2>1, <2>2, DeltaIs
<1>3. d \in Rows /\ \A f \in Fields : d[f] <= Ahead(cs[f], s.base[f])
  BY <1>2 DEF Rows
<1>4. obs \in [Fields -> Nat \union {Null}]
  BY <1>2
<1>5. l \in Named /\ c \in Named
  BY <1>1 DEF CreditsTo
<1>6. \/ Recorded(s, name, obs) = seen
      \/ Recorded(s, name, obs) = Kept(credited)
  <2>1. credited = [seen EXCEPT !.totals[c] = Credited(@, d), !.daily[today][c] = Credited(@, d)]
    BY <1>1 DEF SeriesType, WithCredit
  <2> HIDE DEF credited
  <2> QED
    BY <2>1 DEF Recorded
<1> HIDE DEF d
<1>7. CASE Recorded(s, name, obs) = seen
  <2>1. /\ SeriesOK(seen, cs, mk, today)
        /\ \A md \in Models : ModelsOK(s, cs, mk, md) => ModelsOK(seen, cs, mk, md)
    <3> HIDE DEF l
    <3>1. PICK v : v = seen
      OBVIOUS
    <3> HIDE DEF seen
    <3>2. v = [s EXCEPT !.base = obs, !.last = l]
      BY <3>1 DEF seen
    <3> QED
      BY <1>2, <1>4, <1>5, <3>1, <3>2, SeenKeeps
  <2> HIDE DEF seen
  <2> QED
    BY <1>7, <2>1
<1>8. CASE Recorded(s, name, obs) = Kept(credited)
  <2>1. /\ credited \in SeriesType /\ BasesOK(credited) /\ CachedOK(credited)
        /\ NoneAfter(credited, today) /\ SumsOK(credited, today) /\ TotalsOK(credited, cs, mk)
        /\ \A md \in Models : ModelsOK(s, cs, mk, md) /\ c = md => ModelsOK(credited, cs, mk, md)
    <3> HIDE DEF l, c
    <3>1. PICK v : v = credited
      OBVIOUS
    <3> HIDE DEF credited
    <3>2. v = WithCredit(s, obs, l, c, today, d)
      BY <3>1 DEF credited
    <3>3. /\ \A f \in Fields : obs[f] \in {Null} \union 0..MaxServed \union Jump..(Jump + MaxServed)
          /\ \A f \in Fields : d[f] <= Ahead(cs[f], s.base[f])
          /\ \A f \in Fields : Ahead(cs[f], obs[f]) = 0
          /\ l \in Named /\ c \in Named /\ d \in Rows
      BY <1>2, <1>3, <1>5
    <3>4. CreditOK(s, v, cs, mk, today, c)
      BY <1>4, <3>2, <3>3, CreditKeeps
    <3> QED
      BY <3>1, <3>4 DEF CreditOK
  <2> HIDE DEF credited, c
  <2>2. SeriesOK(Kept(credited), cs, mk, today)
        /\ \A md \in Models : ModelsOK(credited, cs, mk, md) => ModelsOK(Kept(credited), cs, mk, md)
    BY <2>1, KeptKeeps
  <2>3. \A md \in Models : name = md => c = md
    BY LedgerAssumption DEF c, CreditsTo
  <2> QED
    BY <1>8, <2>1, <2>2, <2>3
<1> QED
  BY <1>6, <1>7, <1>8

-----------------------------------------------------------------------------
(* TokenLedger: the steps *)

LEMMA LedgerStarts == LedgerInit => LedgerInv
<1> SUFFICES ASSUME LedgerInit PROVE LedgerInv
  OBVIOUS
<1> DEFINE s == NewSeries
           cs == Zero
           mk == [m \in Models |-> Zero]
<1>1. Zero \in Rows /\ Blank \in [Named -> Rows] /\ \A m \in Named : Blank[m] = Zero
  BY BlankIs
<1>2. /\ s.base \in [Fields -> {Null}] /\ s.last = Unnamed /\ s.totals = [m \in Named |-> Zero]
      /\ s.daily = [d \in Days |-> Blank]
  BY <1>1 DEF NewSeries, Blank
<1>3. s \in SeriesType
  BY <1>1 DEF NewSeries, SeriesType, Named
<1>4. mk \in [Models -> Rows]
  BY <1>1
<1>5. \A f \in Fields : s.base[f] = Null
  BY <1>2
<1>6. BasesOK(s) /\ CachedOK(s) /\ NoneAfter(s, 0)
  <2>1. CachedOK(s)
    BY <1>1, <1>2 DEF CachedOK, Zero, Fields
  <2> QED
    BY <1>2, <1>5, <2>1 DEF BasesOK, NoneAfter, Blank
<1>7. FewDays(s)
  <2>1. UsedDays(s) = {}
    BY <1>2 DEF UsedDays, Blank
  <2>2. Cardinality(UsedDays(s)) = 0
    BY <2>1, FS_EmptySet
  <2> QED
    BY <2>2, LedgerAssumption DEF FewDays
<1> HIDE DEF s
<1>8. SumsOK(s, 0)
  <2> SUFFICES ASSUME NEW m \in Named PROVE InDays(s, m) = 0 /\ s.totals[m].output = 0
    BY DEF SumsOK
  <2> DEFINE h == [d \in Days |-> 0]
  <2>1. h \in [Days -> Nat] /\ (\A d \in Days : h[d] = s.daily[d][m].output) /\ s.totals[m].output = 0
    BY <1>1, <1>2 DEF Zero, Fields
  <2>2. h \in [Days -> Int] /\ \A d \in Days : h[d] = 0
    OBVIOUS
  <2> HIDE DEF h
  <2>3. IsSum(h, Days, InDays(s, m))
    BY <2>1, InDaysIsSum
  <2> QED
    BY <2>1, <2>2, <2>3, SumOfZeros, DaysAreFinite
<1>9. \A f \in Fields : Owed(f, cs, s.base) = 0
  <2>1. \A f \in Fields : Ahead(cs[f], s.base[f]) = 0
    BY <1>5 DEF Ahead
  <2>2. s.base \in [Fields -> Nat \union {Null}]
    BY <1>2
  <2> QED
    BY <1>1, <2>1, <2>2, OwedIs
<1>10. TotalsOK(s, cs, mk)
  <2> SUFFICES ASSUME NEW f \in Fields PROVE Total(s.totals, f, Named) = 0 /\ Total(mk, f, Models) \in Nat
    BY <1>9 DEF TotalsOK
  <2> DEFINE h == [m \in Named |-> 0]
  <2>1. h \in [Named -> Nat] /\ (\A m \in Named : h[m] = s.totals[m][f]) /\ s.totals \in [Named -> Rows]
    BY <1>1, <1>2 DEF Zero
  <2>2. h \in [Named -> Int] /\ \A m \in Named : h[m] = 0
    OBVIOUS
  <2> HIDE DEF h
  <2>3. IsSum(h, Named, Total(s.totals, f, Named))
    BY <2>1, TotalIsSum, NamesAreFinite
  <2>4. Total(s.totals, f, Named) = 0
    BY <2>2, <2>3, SumOfZeros, NamesAreFinite
  <2> QED
    BY <1>4, <2>4, TotalIsNat, NamesAreFinite
<1>11. \A md \in Models : ModelsOK(s, cs, mk, md)
  <2> SUFFICES ASSUME NEW md \in Models, NEW m \in Models, NEW f \in Fields
               PROVE  s.totals[m][f] = 0 /\ mk[m][f] = 0
    BY <1>9 DEF ModelsOK
  <2> QED
    BY <1>2 DEF Zero, Named
<1>12. SeriesOK(s, cs, mk, 0)
  BY <1>3, <1>6, <1>7, <1>8, <1>10 DEF SeriesOK
<1>13. ledger = s /\ file = s /\ counter = cs /\ made = mk /\ today = 0 /\ model \in Models
       /\ served = 0 /\ events = 0 /\ guessed = FALSE
  BY DEF LedgerInit, s
<1>14. \A f \in Fields : Zero[f] <= 0
  BY DEF Zero
<1> HIDE DEF mk
<1>15. 0 \in 0..MaxServed /\ 0 \in 0..MaxEvents /\ today \in Days
  BY <1>13, LedgerAssumption, DaysAreFinite
<1>16. SeriesOK(ledger, counter, made, today) /\ SeriesOK(file, counter, made, today)
  BY <1>12, <1>13
<1>17. ModelsOK(ledger, counter, made, model) /\ ModelsOK(file, counter, made, model)
  BY <1>11, <1>13
<1>18. counter \in Rows /\ made \in [Models -> Rows] /\ \A f \in Fields : counter[f] <= served
  BY <1>1, <1>4, <1>13, <1>14
<1> QED
  BY <1>13, <1>15, <1>16, <1>17, <1>18 DEF LedgerInv

LEMMA ObservedIs ==
  ASSUME counter \in Rows, NEW missing, NEW high
  PROVE  /\ Observed(missing, high) \in [Fields -> Int]
         /\ \A f \in Fields : Observed(missing, high)[f] \in {Null, counter[f], counter[f] + Jump}
<1>1. \A f \in Fields : counter[f] \in Nat
  BY DEF Rows
<1> QED
  BY <1>1, LedgerAssumption DEF Observed, Null

LEMMA ServesStep == LedgerInv /\ (\E w \in Work : EngineServes(w)) => LedgerInv'
<1> SUFFICES ASSUME LedgerInv, NEW w \in Work, EngineServes(w) PROVE LedgerInv'
  OBVIOUS
<1>1. /\ model \in Models /\ counter \in Rows /\ made \in [Models -> Rows] /\ served \in 0..MaxServed
      /\ SeriesOK(ledger, counter, made, today) /\ SeriesOK(file, counter, made, today)
      /\ ~guessed => ModelsOK(ledger, counter, made, model) /\ ModelsOK(file, counter, made, model)
      /\ \A f \in Fields : counter[f] <= served
  BY DEF LedgerInv
<1> DEFINE mk == [made EXCEPT ![model] = Plus(@, w)]
           cs == Plus(counter, w)
<1>2. /\ served' = served + 1 /\ served < MaxServed /\ counter' = cs /\ made' = mk
      /\ UNCHANGED <<model, ledger, file, today, events, guessed>>
  BY DEF EngineServes
<1>3. ledger \in SeriesType /\ file \in SeriesType
  BY <1>1 DEF SeriesOK
<1>4. mk \in [Models -> Rows]
  BY <1>1, <1>3, ServesKeeps
<1>5. \A s : SeriesOK(s, counter, made, today) => SeriesOK(s, cs, mk, today)
  BY <1>1, ServesKeeps DEF SeriesOK
<1>6. \A s \in SeriesType : ModelsOK(s, counter, made, model) => ModelsOK(s, cs, mk, model)
  BY <1>1, ServesKeeps
<1>7. cs \in Rows /\ \A f \in Fields : cs[f] <= served + 1
  <2>1. w \in [Fields -> 0..1]
    BY DEF Work
  <2>2. \A f \in Fields : cs[f] = counter[f] + w[f] /\ counter[f] \in Nat /\ w[f] \in 0..1
    BY <1>1, <2>1 DEF Plus, Rows
  <2>3. \A f \in Fields : cs[f] <= served + 1
    BY <1>1, <2>2
  <2> QED
    BY <1>1, <2>1, <2>3 DEF Plus, Rows
<1> HIDE DEF mk, cs
<1>8. served' \in 0..MaxServed
  BY <1>1, <1>2, LedgerAssumption
<1>9. SeriesOK(ledger', counter', made', today') /\ SeriesOK(file', counter', made', today')
  BY <1>1, <1>2, <1>5
<1>10. ~guessed' => ModelsOK(ledger', counter', made', model') /\ ModelsOK(file', counter', made', model')
  BY <1>1, <1>2, <1>3, <1>6
<1> QED
  BY <1>2, <1>4, <1>7, <1>8, <1>9, <1>10 DEF LedgerInv

LEMMA EngineRestartStep == LedgerInv /\ (\E m \in Models : EngineRestarts(m)) => LedgerInv'
<1> SUFFICES ASSUME LedgerInv, NEW m \in Models, EngineRestarts(m) PROVE LedgerInv'
  OBVIOUS
<1>1. /\ model \in Models /\ counter \in Rows /\ made \in [Models -> Rows] /\ served \in 0..MaxServed /\ events \in 0..MaxEvents
      /\ SeriesOK(ledger, counter, made, today) /\ SeriesOK(file, counter, made, today)
      /\ ~guessed => ModelsOK(ledger, counter, made, model) /\ ModelsOK(file, counter, made, model)
  BY DEF LedgerInv
<1>2. /\ events' = events + 1 /\ events < MaxEvents /\ counter' = Zero /\ model' = m
      /\ UNCHANGED <<made, ledger, file, today, served, guessed>>
  BY DEF EngineRestarts
<1>3. ledger \in SeriesType /\ file \in SeriesType
  BY <1>1 DEF SeriesOK
<1>4. \A s : SeriesOK(s, counter, made, today) => SeriesOK(s, Zero, made, today)
  BY <1>1, RestartKeeps DEF SeriesOK
<1>5. \A s \in SeriesType : ModelsOK(s, counter, made, model) => ModelsOK(s, Zero, made, m)
  BY <1>1, RestartKeeps
<1>6. Zero \in Rows /\ \A f \in Fields : Zero[f] <= served
  BY <1>1, BlankIs, LedgerAssumption DEF Zero
<1>7. events' \in 0..MaxEvents
  BY <1>1, <1>2, LedgerAssumption
<1>8. SeriesOK(ledger', counter', made', today') /\ SeriesOK(file', counter', made', today')
  BY <1>1, <1>2, <1>4
<1>9. ~guessed' => ModelsOK(ledger', counter', made', model') /\ ModelsOK(file', counter', made', model')
  BY <1>1, <1>2, <1>3, <1>5
<1> QED
  BY <1>2, <1>6, <1>7, <1>8, <1>9 DEF LedgerInv

LEMMA SampleStep ==
  LedgerInv /\ (\E name \in {model, Unnamed}, fault \in Faults : Sample(name, fault.missing, fault.high)) => LedgerInv'
<1> SUFFICES ASSUME LedgerInv, NEW name \in {model, Unnamed}, NEW missing, NEW high, Sample(name, missing, high)
             PROVE  LedgerInv'
  OBVIOUS
<1>1. /\ model \in Models /\ counter \in Rows /\ made \in [Models -> Rows] /\ served \in 0..MaxServed /\ today \in Days
      /\ SeriesOK(ledger, counter, made, today) /\ events \in 0..MaxEvents
      /\ \A f \in Fields : counter[f] <= served
  BY DEF LedgerInv
<1>2. ~guessed => ModelsOK(ledger, counter, made, model)
  BY DEF LedgerInv
<1> DEFINE obs == Observed(missing, high)
           s == Recorded(ledger, name, obs)
<1>3. ledger' = s /\ UNCHANGED <<model, counter, made, file, today, served>>
  BY DEF Sample
<1>4. events' \in 0..MaxEvents
  BY <1>1, LedgerAssumption DEF Sample
<1>5. guessed' \in BOOLEAN /\ (~guessed' => ~guessed /\ name # Unnamed)
  BY DEF Sample, LedgerInv
<1>6. obs \in [Fields -> Int] /\ \A f \in Fields : obs[f] \in {Null, counter[f], counter[f] + Jump}
  BY <1>1, ObservedIs
<1>7. \A f \in Fields : counter[f] <= MaxServed
  BY <1>1, LedgerAssumption DEF Rows
<1>8. name \in Named
  BY <1>1 DEF Named
<1> HIDE DEF obs
<1>9. SeriesOK(s, counter, made, today)
  BY <1>1, <1>6, <1>7, <1>8, RecordedKeeps
<1>10. ModelsOK(ledger, counter, made, model) /\ name = model => ModelsOK(s, counter, made, model)
  BY <1>1, <1>6, <1>7, <1>8, RecordedKeeps
<1> HIDE DEF s
<1>11. ~guessed' => ModelsOK(ledger', counter', made', model')
  BY <1>2, <1>3, <1>5, <1>10
<1>12. ~guessed' => ModelsOK(file', counter', made', model')
  BY <1>3, <1>5 DEF LedgerInv
<1>13. SeriesOK(ledger', counter', made', today') /\ SeriesOK(file', counter', made', today')
  BY <1>3, <1>9 DEF LedgerInv
<1> QED
  BY <1>1, <1>3, <1>4, <1>5, <1>11, <1>12, <1>13 DEF LedgerInv

LEMMA KeepingStep == LedgerInv /\ (Flush \/ Restart) => LedgerInv'
<1>1. ASSUME LedgerInv, Flush PROVE LedgerInv'
  BY <1>1 DEF LedgerInv, Flush
<1>2. ASSUME LedgerInv, Restart PROVE LedgerInv'
  <2>1. events' \in 0..MaxEvents
    BY <1>2, LedgerAssumption DEF LedgerInv, Restart
  <2> QED
    BY <1>2, <2>1 DEF LedgerInv, Restart
<1> QED
  BY <1>1, <1>2

LEMMA NextDayStep == LedgerInv /\ NextDay => LedgerInv'
<1> SUFFICES ASSUME LedgerInv, NextDay PROVE LedgerInv'
  OBVIOUS
<1>1. /\ today \in Nat /\ today' = today + 1 /\ today' \in Days
      /\ UNCHANGED <<model, counter, made, ledger, file, served, events, guessed>>
  BY LedgerAssumption DEF LedgerInv, NextDay, Days
<1>2. ASSUME NEW s, SeriesOK(s, counter, made, today) PROVE SeriesOK(s, counter, made, today')
  <2>1. NoneAfter(s, today')
    BY <1>1, <1>2 DEF SeriesOK, NoneAfter, Days
  <2>2. today' < KeepDays => today < KeepDays
    BY <1>1, LedgerAssumption
  <2>3. SumsOK(s, today')
    BY <1>2, <2>2 DEF SeriesOK, SumsOK
  <2> QED
    BY <1>2, <2>1, <2>3 DEF SeriesOK
<1>3. SeriesOK(ledger', counter', made', today') /\ SeriesOK(file', counter', made', today')
  BY <1>1, <1>2 DEF LedgerInv
<1> QED
  BY <1>1, <1>3 DEF LedgerInv

LEMMA LedgerStep == LedgerInv /\ [LedgerNext]_ledgerVars => LedgerInv'
<1>1. LedgerInv /\ UNCHANGED ledgerVars => LedgerInv'
  BY DEF LedgerInv, ledgerVars
<1> QED
  BY <1>1, ServesStep, EngineRestartStep, SampleStep, KeepingStep, NextDayStep DEF LedgerNext

LEMMA LedgerInvImplies == LedgerInv => LedgerTypeOK /\ NeverOvercounts /\ RightModel /\ CachedIsPart /\ DaysAddUp
<1> SUFFICES ASSUME LedgerInv PROVE LedgerTypeOK /\ NeverOvercounts /\ RightModel /\ CachedIsPart /\ DaysAddUp
  OBVIOUS
<1>1. ledger \in SeriesType /\ file \in SeriesType /\ counter \in Rows /\ made \in [Models -> Rows]
  BY DEF LedgerInv, SeriesOK
<1>2. LedgerTypeOK
  <2>1. \A s \in {ledger, file} : Cardinality(UsedDays(s)) <= KeepDays
    BY DEF LedgerInv, SeriesOK, FewDays
  <2>2. \A s \in {ledger, file} : /\ s.base \in [Fields -> Nat \union {Null}] /\ s.last \in Named
                                  /\ s.totals \in [Named -> Rows] /\ s.daily \in [Days -> [Named -> Rows]]
    BY <1>1, SeriesParts
  <2> QED
    BY <2>1, <2>2 DEF LedgerInv, LedgerTypeOK
<1>3. \A f \in Fields : Owed(f, counter, ledger.base) \in Nat
  BY <1>1, OwedIs, SeriesParts
<1>4. NeverOvercounts
  <2> SUFFICES ASSUME NEW f \in Fields PROVE Total(ledger.totals, f, Named) <= Total(made, f, Models)
    BY DEF NeverOvercounts
  <2>1. Total(ledger.totals, f, Named) + Owed(f, counter, ledger.base) <= Total(made, f, Models)
    BY DEF LedgerInv, SeriesOK, TotalsOK
  <2>2. Total(ledger.totals, f, Named) \in Nat /\ Total(made, f, Models) \in Nat
    BY <1>1, SeriesParts, TotalIsNat, NamesAreFinite
  <2> QED
    BY <1>3, <2>1, <2>2
<1>5. RightModel
  <2> SUFFICES ASSUME ~guessed, NEW m \in Models, NEW f \in Fields PROVE ledger.totals[m][f] <= made[m][f]
    BY DEF RightModel
  <2>1. ledger.totals[m][f] + (IF m = model THEN Owed(f, counter, ledger.base) ELSE 0) <= made[m][f]
    BY DEF LedgerInv, ModelsOK
  <2>2. ledger.totals[m][f] \in Nat /\ made[m][f] \in Nat
    BY <1>1, SeriesParts DEF Rows, Named
  <2> QED
    BY <1>3, <2>1, <2>2
<1>6. CachedIsPart
  BY DEF LedgerInv, SeriesOK, CachedOK, CachedIsPart
<1>7. DaysAddUp
  <2>1. \A m \in Named : /\ InDays(ledger, m) <= ledger.totals[m].output
                         /\ today < KeepDays => InDays(ledger, m) = ledger.totals[m].output
    BY DEF LedgerInv, SeriesOK, SumsOK
  <2> QED
    BY <2>1 DEF DaysAddUp, InDays
<1> QED
  BY <1>2, <1>4, <1>5, <1>6, <1>7

-----------------------------------------------------------------------------
(* FleetEnergy: the invariant *)

HighTypes == Times \union 0..(MaxClock + MinuteLen)
CountTypes == [source : Sources \union {Never}, total : 0..MaxProduced, at : Ticks]
Credits == [Ticks -> Nat]

\* A tick that was credited, and a mark behind all of them.
IsPaid(node, fleet, t) == fleet[t] > 0 \/ \E n \in Nodes : node[n][t] > 0
Behind(high, node, fleet) == \A t \in Ticks : IsPaid(node, fleet, t) => high # Never /\ t < high

TimeOK(node, fleet) ==
    /\ node \in [Nodes -> Credits] /\ fleet \in Credits
    /\ \A t \in Ticks : fleet[t] <= 1
    /\ \A n \in Nodes, t \in Ticks : node[n][t] <= 1 /\ fleet[t] <= node[n][t]

MinuteRows == [all : Nat, covered : Nat]
AllOf(rows) == MapThenSumSet(LAMBDA m : rows[m].all, Minutes)

TokensOK(rows, limit) ==
    /\ rows \in [Minutes -> MinuteRows] /\ AllOf(rows) <= limit
    /\ \A m \in Minutes : rows[m].covered <= rows[m].all

\* What the next sample may still credit.
Pending(base, again, totals) ==
    IF again \/ base.source = Never \/ totals[base.source] < base.total THEN 0
    ELSE totals[base.source] - base.total

ClockOK == clock \in Ticks /\ upsets \in 0..MaxUpsets

BaseOK ==
    /\ nodeBase \in [Nodes -> Times] /\ fleetBase \in Times /\ lastRecord \in Times
    /\ fleetBase # Never => \A n \in Nodes : nodeBase[n] = fleetBase

MemoryOK ==
    /\ TimeOK(nodeTicks, fleetTicks) /\ highWater \in HighTypes
    /\ Behind(highWater, nodeTicks, fleetTicks)

FileType == [node : [Nodes -> Credits], fleet : Credits, high : HighTypes, count : CountTypes,
             tokens : [Minutes -> MinuteRows]]

FileOK ==
    /\ disk \in FileType /\ TimeOK(disk.node, disk.fleet)
    /\ disk.high # Never => Behind(disk.high, disk.node, disk.fleet)
    /\ TokensOK(disk.tokens, produced)

CountsOK ==
    /\ produced \in 0..MaxProduced /\ engine \in [Sources -> Nat] /\ \A s \in Sources : engine[s] <= produced
    /\ tokenBase \in CountTypes /\ rebase \in BOOLEAN
    /\ TokensOK(tokens, produced) /\ AllOf(tokens) + Pending(tokenBase, rebase, engine) <= produced

EnergyInv == ClockOK /\ BaseOK /\ MemoryOK /\ FileOK /\ CountsOK

-----------------------------------------------------------------------------
(* FleetEnergy: times *)

LEMMA StartIs ==
  ASSUME NEW t \in Ticks
  PROVE  /\ t \in Nat /\ Start(t) \in Nat /\ Start(t) <= t /\ t < Start(t) + MinuteLen /\ Start(t) \in Minutes
         /\ Start(t) + MinuteLen \in 0..(MaxClock + MinuteLen)
<1>1. t \in Nat /\ MinuteLen \in Nat \ {0} /\ MaxClock \in Nat /\ t <= MaxClock
  BY EnergyAssumption DEF Ticks
<1> DEFINE k == t \div MinuteLen
<1>2. k \in Nat /\ t = MinuteLen * k + (t % MinuteLen) /\ t % MinuteLen \in 0..(MinuteLen - 1)
  BY <1>1
<1>3. Start(t) = k * MinuteLen
  BY DEF Start
<1> HIDE DEF k
<1>4. k * MinuteLen \in Nat /\ k * MinuteLen = MinuteLen * k
  BY <1>1, <1>2
<1>5. t % MinuteLen \in Nat /\ t % MinuteLen < MinuteLen
  BY <1>1, <1>2
<1>6. Start(t) \in Nat /\ t = Start(t) + (t % MinuteLen)
  BY <1>2, <1>3, <1>4
<1>7. Start(t) <= t /\ t < Start(t) + MinuteLen
  BY <1>1, <1>5, <1>6
<1> QED
  BY <1>1, <1>6, <1>7 DEF Minutes

LEMMA TicksAreFinite == IsFiniteSet(Ticks) /\ IsFiniteSet(Minutes) /\ Ticks \subseteq Nat
<1>1. IsFiniteSet(Ticks) /\ Ticks \subseteq Nat
  BY EnergyAssumption, FS_Interval DEF Ticks
<1>2. Minutes \subseteq Ticks
  <2> SUFFICES ASSUME NEW t \in Ticks PROVE Start(t) \in Ticks
    BY DEF Minutes
  <2>1. Start(t) \in Nat /\ Start(t) <= t /\ t \in Nat
    BY StartIs
  <2> QED
    BY <2>1, EnergyAssumption DEF Ticks
<1> QED
  BY <1>1, <1>2, FS_Subset

LEMMA LatestIs ==
  ASSUME NEW T \in SUBSET Ticks, T # {}
  PROVE  Max(T) \in T /\ \A y \in T : y <= Max(T)
<1> DEFINE R == {ss \in Nat \X Nat : ss[1] < ss[2]}
           W == {MaxClock - y : y \in T}
<1>1. \A y \in T : y \in Nat /\ y <= MaxClock /\ MaxClock - y \in Nat
  BY EnergyAssumption DEF Ticks
<1>2. IsWellFoundedOn(R, Nat)
  BY NatLessThanWellFounded DEF OpToRel
<1>3. \A y \in Nat : \A z \in Nat : y < z => <<y, z>> \in R
  OBVIOUS
<1> HIDE DEF R
<1>4. W \in SUBSET Nat /\ W # {}
  BY <1>1
<1> HIDE DEF W
<1>5. PICK w \in W : \A y \in W : ~(<<y, w>> \in R)
  BY <1>2, <1>4, WFMin
<1>6. PICK x \in T : w = MaxClock - x
  BY DEF W
<1>7. ASSUME NEW y \in T PROVE x >= y
  <2>1. MaxClock - y \in W /\ MaxClock - y \in Nat /\ w \in Nat
    BY <1>1, <1>6 DEF W
  <2>2. ~(MaxClock - y < w)
    BY <1>3, <1>5, <2>1
  <2> QED
    BY <1>1, <1>6, <2>2, EnergyAssumption
<1>8. Max(T) \in T /\ \A y \in T : Max(T) >= y
  BY <1>7 DEF Max
<1> QED
  BY <1>1, <1>8

\* After a load the mark is behind all credits of the file.
LEMMA HighIs ==
  ASSUME NEW f \in FileType, f.high # Never => Behind(f.high, f.node, f.fleet)
  PROVE  HighWaterOf(f) \in HighTypes /\ Behind(HighWaterOf(f), f.node, f.fleet)
<1> DEFINE C == Covered(f)
           last == Max(C)
           end == Start(last) + MinuteLen
<1>1. C = {t \in Ticks : IsPaid(f.node, f.fleet, t)} /\ C \in SUBSET Ticks
  BY DEF Covered, IsPaid
<1>2. CASE C = {}
  BY <1>1, <1>2 DEF HighWaterOf, HighTypes, Times, Behind
<1>3. CASE C # {}
  <2>1. last \in C /\ (\A t \in C : t <= last) /\ last \in Ticks
    BY <1>1, <1>3, LatestIs
  <2>2. HighWaterOf(f) = end \/ (HighWaterOf(f) = f.high /\ f.high # Never)
    BY <1>3 DEF HighWaterOf
  <2> HIDE DEF C, last
  <2>3. end \in 0..(MaxClock + MinuteLen) /\ last < end /\ last \in Nat
    BY <2>1, StartIs
  <2>4. end \in Int /\ end # Never
    <3>1. end \in Int
      BY <2>3, EnergyAssumption
    <3> QED
      BY <3>1, EnergyAssumption
  <2> HIDE DEF end
  <2>5. ASSUME NEW t \in Ticks, IsPaid(f.node, f.fleet, t) PROVE t < end
    <3>1. t <= last /\ t \in Nat
      BY <1>1, <2>1, <2>5, TicksAreFinite
    <3> QED
      BY <2>3, <2>4, <3>1
  <2>6. CASE HighWaterOf(f) = end
    BY <2>3, <2>4, <2>5, <2>6 DEF HighTypes, Behind
  <2>7. CASE HighWaterOf(f) = f.high /\ f.high # Never
    BY <2>7 DEF FileType
  <2> QED
    BY <2>2, <2>6, <2>7
<1> QED
  BY <1>2, <1>3

LEMMA RetainedTime ==
  ASSUME NEW node, NEW fleet, TimeOK(node, fleet), NEW c,
         NEW node2, node2 = [n \in Nodes |-> Retained(node[n], c, 0)],
         NEW fleet2, fleet2 = Retained(fleet, c, 0)
  PROVE  /\ TimeOK(node2, fleet2)
         /\ \A high : Behind(high, node, fleet) => Behind(high, node2, fleet2)
<1>1. node \in [Nodes -> Credits] /\ fleet \in Credits
  BY DEF TimeOK
<1>2. /\ fleet2 = [t \in Ticks |-> IF Drops(c, t) THEN 0 ELSE fleet[t]]
      /\ \A n \in Nodes : node2[n] = [t \in Ticks |-> IF Drops(c, t) THEN 0 ELSE node[n][t]]
  BY <1>1 DEF Retained, Credits
<1>3. node2 \in [Nodes -> Credits] /\ fleet2 \in Credits
  <2>1. fleet2 \in Credits
    BY <1>1, <1>2 DEF Credits
  <2>2. \A n \in Nodes : node2[n] \in Credits
    BY <1>1, <1>2 DEF Credits
  <2>3. node2 = [n \in Nodes |-> node2[n]]
    OBVIOUS
  <2> QED
    BY <2>1, <2>2, <2>3
<1>4. /\ \A t \in Ticks : fleet2[t] = IF Drops(c, t) THEN 0 ELSE fleet[t]
      /\ \A n \in Nodes, t \in Ticks : node2[n][t] = IF Drops(c, t) THEN 0 ELSE node[n][t]
  BY <1>2
<1>5. /\ \A t \in Ticks : fleet[t] \in Nat /\ fleet[t] <= 1
      /\ \A n \in Nodes, t \in Ticks : node[n][t] \in Nat /\ node[n][t] <= 1 /\ fleet[t] <= node[n][t]
  BY <1>1 DEF TimeOK, Credits
<1>6. TimeOK(node2, fleet2)
  BY <1>3, <1>4, <1>5 DEF TimeOK
<1>7. \A t \in Ticks : IsPaid(node2, fleet2, t) => IsPaid(node, fleet, t)
  BY <1>4, <1>5 DEF IsPaid
<1> QED
  BY <1>6, <1>7 DEF Behind

\* Only ticks are credited that were never credited before.
LEMMA UnaccountedIs ==
  ASSUME ClockOK, MemoryOK, NEW prev \in Times
  PROVE  /\ Unaccounted(prev) \in SUBSET Ticks
         /\ \A t \in Unaccounted(prev) : /\ t < clock /\ ~IsPaid(nodeTicks, fleetTicks, t)
                                         /\ highWater # Never => highWater <= t
         /\ Unaccounted(Never) = {}
<1>1. clock \in Ticks /\ clock \in Nat /\ clock <= MaxClock /\ MaxClock \in Nat /\ Ticks \subseteq Nat
  BY EnergyAssumption DEF ClockOK, Ticks
<1>2. highWater # Never => highWater \in Nat
  BY EnergyAssumption DEF MemoryOK, HighTypes, Times, Ticks
<1>3. ASSUME NEW t \in Unaccounted(prev)
      PROVE  t \in Ticks /\ t < clock /\ (highWater = Never \/ highWater <= t)
  <2>1. prev # Never /\ t \in prev..(clock - 1) /\ (highWater = Never \/ t >= highWater)
    BY DEF Unaccounted
  <2>2. prev \in Nat
    BY <1>1, <2>1 DEF Times
  <2>3. t \in Nat /\ t < clock
    BY <1>1, <2>1, <2>2
  <2> QED
    BY <1>1, <1>2, <2>1, <2>3 DEF Ticks
<1>4. ASSUME NEW t \in Unaccounted(prev) PROVE ~IsPaid(nodeTicks, fleetTicks, t)
  <2>1. t \in Ticks /\ t \in Nat /\ (highWater = Never \/ highWater <= t)
    BY <1>1, <1>3
  <2>2. IsPaid(nodeTicks, fleetTicks, t) => highWater # Never /\ t < highWater
    BY <2>1 DEF MemoryOK, Behind
  <2> QED
    BY <1>2, <2>1, <2>2
<1>5. Unaccounted(Never) = {}
  BY DEF Unaccounted
<1> QED
  BY <1>3, <1>4, <1>5

LEMMA IntegratedIs ==
  ASSUME NEW ticks \in Credits, NEW since
  PROVE  /\ Integrated(ticks, since) \in Credits
         /\ \A t \in Ticks : /\ Integrated(ticks, since)[t] = IF t \in since THEN ticks[t] + 1 ELSE ticks[t]
                             /\ ticks[t] \in Nat
  BY DEF Integrated, Credits

LEMMA RecordTime ==
  ASSUME ClockOK, BaseOK, MemoryOK, NEW fresh \in SUBSET Nodes, NEW source, Record(fresh, source)
  PROVE  BaseOK' /\ MemoryOK'
<1> DEFINE back == lastRecord # Never /\ clock < lastRecord
           base(n) == IF back THEN Never ELSE nodeBase[n]
           since == [n \in fresh |-> Unaccounted(base(n))]
           fb == IF back THEN Never ELSE fleetBase
           fleet == IF Whole(fresh) THEN Unaccounted(fb) ELSE {}
           node1 == [n \in Nodes |-> IF n \in fresh THEN Integrated(nodeTicks[n], since[n]) ELSE nodeTicks[n]]
           fleet1 == Integrated(fleetTicks, fleet)
<1>1. /\ lastRecord' = clock /\ clock' = clock
      /\ nodeTicks' = [n \in Nodes |-> Retained(
               IF n \in fresh THEN Integrated(nodeTicks[n], since[n]) ELSE nodeTicks[n], clock, 0)]
      /\ fleetTicks' = Retained(fleet1, clock, 0)
      /\ nodeBase' = [n \in Nodes |-> IF n \in fresh THEN clock ELSE Never]
      /\ fleetBase' = IF Whole(fresh) THEN clock ELSE Never
      /\ highWater' = IF fleet = {} /\ \A n \in fresh : since[n] = {} THEN highWater ELSE clock
  BY DEF Record
<1>2. clock \in Ticks /\ clock \in Nat /\ clock \in Times /\ Never \in Times /\ Never \notin Nat
  BY TicksAreFinite, EnergyAssumption DEF ClockOK, Times
<1>3. BaseOK'
  <2>1. nodeBase' \in [Nodes -> Times] /\ fleetBase' \in Times /\ lastRecord' \in Times
    BY <1>1, <1>2
  <2>2. fleetBase' # Never => \A n \in Nodes : nodeBase'[n] = fleetBase'
    BY <1>1 DEF Whole
  <2> QED
    BY <2>1, <2>2 DEF BaseOK
<1>4. /\ nodeTicks \in [Nodes -> Credits] /\ fleetTicks \in Credits /\ highWater \in HighTypes
      /\ \A n \in Nodes, t \in Ticks : nodeTicks[n][t] \in Nat /\ nodeTicks[n][t] <= 1 /\ fleetTicks[t] <= nodeTicks[n][t]
      /\ \A t \in Ticks : fleetTicks[t] \in Nat /\ fleetTicks[t] <= 1
  BY DEF MemoryOK, TimeOK, Credits
<1>5. \A n \in fresh : base(n) \in Times
  BY <1>2 DEF BaseOK
<1>6. fb \in Times
  BY <1>2 DEF BaseOK
<1>7. \A n \in fresh : since[n] = Unaccounted(base(n))
  OBVIOUS
<1>8. ASSUME NEW n \in Nodes, NEW t \in fleet PROVE n \in fresh /\ t \in since[n]
  <2>1. Whole(fresh) /\ t \in Unaccounted(fb)
    OBVIOUS
  <2>2. Unaccounted(Never) = {}
    BY <1>2, UnaccountedIs
  <2>3. fb # Never
    <3> HIDE DEF fb
    <3> QED
      BY <2>1, <2>2
  <2>4. n \in fresh /\ base(n) = fb
    BY <2>1, <2>3 DEF Whole, BaseOK
  <2> HIDE DEF base, fb, since
  <2> QED
    BY <1>7, <2>1, <2>4
<1>9. \A n \in fresh : /\ since[n] \in SUBSET Ticks
                       /\ \A t \in since[n] : /\ t < clock /\ ~IsPaid(nodeTicks, fleetTicks, t)
                                              /\ highWater # Never => highWater <= t
  <2> HIDE DEF base, since
  <2> QED
    BY <1>5, <1>7, UnaccountedIs
<1>10. /\ fleet \in SUBSET Ticks
       /\ \A t \in fleet : /\ t < clock /\ ~IsPaid(nodeTicks, fleetTicks, t)
                           /\ highWater # Never => highWater <= t
  <2> HIDE DEF fb
  <2> QED
    BY <1>6, UnaccountedIs
<1> HIDE DEF since, fleet, base, fb, back
<1>11. \A t \in Ticks : ~IsPaid(nodeTicks, fleetTicks, t) => fleetTicks[t] = 0 /\ \A n \in Nodes : nodeTicks[n][t] = 0
  BY <1>4 DEF IsPaid
<1>12. fleet1 \in Credits /\ \A t \in Ticks : fleet1[t] = IF t \in fleet THEN fleetTicks[t] + 1 ELSE fleetTicks[t]
  BY <1>4, IntegratedIs
<1>13. node1 \in [Nodes -> Credits]
  <2>1. \A n \in Nodes : (IF n \in fresh THEN Integrated(nodeTicks[n], since[n]) ELSE nodeTicks[n]) \in Credits
    BY <1>4, IntegratedIs
  <2> QED
    BY <2>1
<1>14. \A n \in Nodes, t \in Ticks :
          node1[n][t] = IF n \in fresh /\ t \in since[n] THEN nodeTicks[n][t] + 1 ELSE nodeTicks[n][t]
  <2> TAKE n \in Nodes, t \in Ticks
  <2>1. nodeTicks[n] \in Credits
    BY <1>4
  <2>2. Integrated(nodeTicks[n], since[n])[t] = IF t \in since[n] THEN nodeTicks[n][t] + 1 ELSE nodeTicks[n][t]
    BY <2>1, IntegratedIs
  <2> QED
    BY <2>2
<1>15. /\ nodeTicks' = [n \in Nodes |-> Retained(node1[n], clock, 0)]
       /\ fleetTicks' = Retained(fleet1, clock, 0)
  BY <1>1
<1> HIDE DEF node1, fleet1
<1>16. TimeOK(node1, fleet1)
  <2>1. \A t \in Ticks : fleet1[t] <= 1
    BY <1>4, <1>10, <1>11, <1>12
  <2>2. ASSUME NEW n \in Nodes, NEW t \in Ticks PROVE node1[n][t] <= 1 /\ fleet1[t] <= node1[n][t]
    <3>1. nodeTicks[n][t] \in Nat /\ fleetTicks[t] \in Nat /\ nodeTicks[n][t] <= 1 /\ fleetTicks[t] <= nodeTicks[n][t]
      BY <1>4
    <3>2. node1[n][t] = IF n \in fresh /\ t \in since[n] THEN nodeTicks[n][t] + 1 ELSE nodeTicks[n][t]
      BY <1>14
    <3>3. fleet1[t] = IF t \in fleet THEN fleetTicks[t] + 1 ELSE fleetTicks[t]
      BY <1>12
    <3>4. n \in fresh /\ t \in since[n] => nodeTicks[n][t] = 0
      BY <1>9, <1>11
    <3>5. t \in fleet => n \in fresh /\ t \in since[n]
      BY <1>8
    <3> QED
      BY <3>1, <3>2, <3>3, <3>4, <3>5
  <2> QED
    BY <1>12, <1>13, <2>1, <2>2 DEF TimeOK
<1>17. Behind(highWater', node1, fleet1)
  <2> SUFFICES ASSUME NEW t \in Ticks, IsPaid(node1, fleet1, t) PROVE highWater' # Never /\ t < highWater'
    BY DEF Behind
  <2>1. t \in Nat /\ (highWater # Never => highWater \in Nat)
    BY TicksAreFinite, EnergyAssumption, <1>4 DEF HighTypes, Times
  <2>2. \/ IsPaid(nodeTicks, fleetTicks, t)
        \/ t \in fleet
        \/ \E n \in fresh : t \in since[n]
    BY <1>4, <1>12, <1>14 DEF IsPaid
  <2>3. CASE t \in fleet \/ \E n \in fresh : t \in since[n]
    <3>1. highWater' = clock /\ t < clock
      BY <1>1, <1>9, <1>10, <2>3
    <3> QED
      BY <1>2, <3>1
  <2>4. CASE IsPaid(nodeTicks, fleetTicks, t)
    <3>1. highWater # Never /\ t < highWater
      BY <2>4 DEF MemoryOK, Behind
    <3>2. CASE highWater' = highWater
      BY <3>1, <3>2
    <3>3. CASE highWater' # highWater
      <4>1. PICK x \in Ticks : x < clock /\ highWater <= x
        BY <1>1, <1>9, <1>10, <3>1, <3>3
      <4>2. highWater' = clock
        BY <1>1, <3>3
      <4>3. x \in Nat /\ highWater \in Nat
        BY <2>1, <3>1, TicksAreFinite
      <4>4. t < clock
        BY <1>2, <2>1, <3>1, <4>1, <4>3
      <4> QED
        BY <1>2, <4>2, <4>4
    <3> QED
      BY <3>2, <3>3
  <2> QED
    BY <2>2, <2>3, <2>4
<1>18. TimeOK(nodeTicks', fleetTicks') /\ Behind(highWater', nodeTicks', fleetTicks')
  BY <1>15, <1>16, <1>17, RetainedTime
<1>19. highWater' \in HighTypes
  BY <1>1, <1>2, <1>4 DEF HighTypes
<1> QED
  BY <1>3, <1>18, <1>19 DEF MemoryOK

-----------------------------------------------------------------------------
(* FleetEnergy: tokens *)

LEMMA AllIsSum ==
  ASSUME NEW rows, NEW h \in [Minutes -> Nat], \A m \in Minutes : h[m] = rows[m].all
  PROVE  IsSum(h, Minutes, AllOf(rows)) /\ AllOf(rows) \in Nat
<1> DEFINE P(g) == g = [ss \in SUBSET Minutes |-> IF ss = {} THEN 0
                          ELSE rows[CHOOSE x \in ss : TRUE].all + g[ss \ {CHOOSE x \in ss : TRUE}]]
           G == CHOOSE g : P(g)
<1>1. AllOf(rows) = G[Minutes]
  BY DEF AllOf, MapThenSumSet, MapThenFoldSet
<1>2. ASSUME NEW g PROVE Adds(h, Minutes, g) <=> P(g)
  <2>1. \A ss \in SUBSET Minutes : ss # {} => (CHOOSE x \in ss : TRUE) \in Minutes
    OBVIOUS
  <2>2. \A ss \in SUBSET Minutes : ss # {} => rows[CHOOSE x \in ss : TRUE].all = h[CHOOSE x \in ss : TRUE]
    BY <2>1
  <2> QED
    BY <2>2 DEF Adds, Pick
<1>3. h \in [Minutes -> Int]
  OBVIOUS
<1> HIDE DEF P
<1>4. \E g : P(g)
  BY <1>2, <1>3, AddsExists, TicksAreFinite
<1>5. P(G)
  BY <1>4
<1> HIDE DEF G
<1>6. IsSum(h, Minutes, AllOf(rows))
  BY <1>1, <1>2, <1>5 DEF IsSum
<1> QED
  BY <1>6, SumIsNat, TicksAreFinite

LEMMA AllIsNat ==
  ASSUME NEW rows \in [Minutes -> MinuteRows]
  PROVE  AllOf(rows) \in Nat
<1> DEFINE h == [m \in Minutes |-> rows[m].all]
<1>1. h \in [Minutes -> Nat] /\ \A m \in Minutes : h[m] = rows[m].all
  BY DEF MinuteRows
<1> HIDE DEF h
<1> QED
  BY <1>1, AllIsSum

\* A minute has no more tokens than all have.
LEMMA EachIsPart ==
  ASSUME NEW rows \in [Minutes -> MinuteRows], NEW x \in Minutes
  PROVE  rows[x].all <= AllOf(rows)
<1> DEFINE h == [m \in Minutes |-> rows[m].all]
           z == [m \in Minutes |-> 0]
           k == [m \in Minutes |-> IF m = x THEN rows[x].all ELSE 0]
<1>1. h \in [Minutes -> Nat] /\ \A m \in Minutes : h[m] = rows[m].all
  BY DEF MinuteRows
<1>2. /\ h \in [Minutes -> Int] /\ z \in [Minutes -> Int] /\ k \in [Minutes -> Int]
      /\ (\A m \in Minutes : z[m] = 0) /\ k[x] = rows[x].all /\ (\A m \in Minutes \ {x} : z[m] = k[m])
      /\ \A m \in Minutes : k[m] <= h[m]
  BY DEF MinuteRows
<1> HIDE DEF h, z, k
<1>3. PICK g : Adds(z, Minutes, g)
  BY <1>2, AddsExists, TicksAreFinite
<1>4. PICK l : Adds(k, Minutes, l)
  BY <1>2, AddsExists, TicksAreFinite
<1>5. IsSum(z, Minutes, g[Minutes]) /\ IsSum(k, Minutes, l[Minutes])
  BY <1>3, <1>4 DEF IsSum
<1>6. g[Minutes] = 0
  BY <1>2, <1>5, SumOfZeros, TicksAreFinite
<1>7. l[Minutes] = g[Minutes] + (k[x] - z[x])
  BY <1>2, <1>5, SumMoves, TicksAreFinite
<1>8. IsSum(h, Minutes, AllOf(rows))
  BY <1>1, AllIsSum
<1>9. l[Minutes] <= AllOf(rows)
  BY <1>2, <1>5, <1>8, SumGrows, TicksAreFinite
<1>10. k[x] \in Int /\ z[x] = 0
  BY <1>2
<1>11. l[Minutes] = rows[x].all
  BY <1>2, <1>6, <1>7, <1>10
<1> QED
  BY <1>9, <1>11

LEMMA RetainedTokens ==
  ASSUME NEW rows, NEW limit \in Nat, TokensOK(rows, limit), NEW c,
         NEW rows2, rows2 = Retained(rows, c, NoTokens)
  PROVE  TokensOK(rows2, limit) /\ AllOf(rows2) <= AllOf(rows)
<1>1. rows \in [Minutes -> MinuteRows] /\ \A m \in Minutes : rows[m].all \in Nat
  BY DEF TokensOK, MinuteRows
<1>2. \A m \in Minutes : rows2[m] = IF Drops(c, m) THEN NoTokens ELSE rows[m]
  BY <1>1 DEF Retained
<1>3. rows2 \in [Minutes -> MinuteRows]
  BY <1>1 DEF Retained, NoTokens, MinuteRows
<1> DEFINE h == [m \in Minutes |-> rows[m].all]
           k == [m \in Minutes |-> rows2[m].all]
<1>4. h \in [Minutes -> Nat] /\ (\A m \in Minutes : h[m] = rows[m].all) /\ h \in [Minutes -> Int]
  BY <1>1
<1>5. k \in [Minutes -> Nat] /\ (\A m \in Minutes : k[m] = rows2[m].all) /\ k \in [Minutes -> Int]
  BY <1>3 DEF MinuteRows
<1> HIDE DEF h, k
<1>6. \A m \in Minutes : k[m] <= h[m]
  BY <1>1, <1>2, <1>4, <1>5 DEF NoTokens
<1>7. IsSum(h, Minutes, AllOf(rows)) /\ AllOf(rows) \in Nat
  BY <1>4, AllIsSum
<1>8. IsSum(k, Minutes, AllOf(rows2)) /\ AllOf(rows2) \in Nat
  BY <1>5, AllIsSum
<1>9. AllOf(rows2) <= AllOf(rows)
  BY <1>4, <1>5, <1>6, <1>7, <1>8, SumGrows, TicksAreFinite
<1>10. AllOf(rows2) <= limit
  BY <1>7, <1>8, <1>9 DEF TokensOK
<1>11. \A m \in Minutes : rows2[m].covered <= rows2[m].all
  BY <1>2 DEF TokensOK, NoTokens
<1> QED
  BY <1>3, <1>9, <1>10, <1>11 DEF TokensOK

CountedRow(rows, x, delta, cov) == [rows EXCEPT ![x] = [all |-> rows[x].all + delta, covered |-> cov]]

LEMMA CountedTokens ==
  ASSUME NEW rows, NEW limit \in Nat, TokensOK(rows, limit), NEW x \in Minutes, NEW delta \in Nat,
         NEW cov \in {rows[x].covered, rows[x].covered + delta},
         NEW rows2, rows2 = CountedRow(rows, x, delta, cov)
  PROVE  /\ AllOf(rows2) = AllOf(rows) + delta /\ AllOf(rows) \in Nat
         /\ \A lim \in Nat : AllOf(rows2) <= lim => TokensOK(rows2, lim)
<1>1. rows \in [Minutes -> MinuteRows] /\ \A m \in Minutes : rows[m].all \in Nat /\ rows[m].covered \in Nat
  BY DEF TokensOK, MinuteRows
<1>2. rows2[x] = [all |-> rows[x].all + delta, covered |-> cov] /\ \A m \in Minutes \ {x} : rows2[m] = rows[m]
  BY <1>1 DEF CountedRow
<1>3. cov \in Nat /\ cov <= rows[x].all + delta
  BY <1>1 DEF TokensOK
<1>4. rows2 \in [Minutes -> MinuteRows]
  <2>1. [all |-> rows[x].all + delta, covered |-> cov] \in MinuteRows
    BY <1>1, <1>3 DEF MinuteRows
  <2> QED
    BY <1>1, <2>1 DEF CountedRow
<1> DEFINE h == [m \in Minutes |-> rows[m].all]
           k == [m \in Minutes |-> rows2[m].all]
<1>5. h \in [Minutes -> Nat] /\ (\A m \in Minutes : h[m] = rows[m].all) /\ h \in [Minutes -> Int]
  BY <1>1
<1>6. k \in [Minutes -> Nat] /\ (\A m \in Minutes : k[m] = rows2[m].all) /\ k \in [Minutes -> Int]
  BY <1>4 DEF MinuteRows
<1> HIDE DEF h, k
<1>7. IsSum(h, Minutes, AllOf(rows)) /\ AllOf(rows) \in Nat
  BY <1>5, AllIsSum
<1>8. IsSum(k, Minutes, AllOf(rows2)) /\ AllOf(rows2) \in Nat
  BY <1>6, AllIsSum
<1>9. \A m \in Minutes \ {x} : h[m] = k[m]
  BY <1>2, <1>5, <1>6
<1>10. AllOf(rows2) = AllOf(rows) + (k[x] - h[x])
  BY <1>5, <1>6, <1>7, <1>8, <1>9, SumMoves, TicksAreFinite
<1>11. k[x] = h[x] + delta /\ h[x] \in Nat
  BY <1>2, <1>5, <1>6
<1>12. AllOf(rows2) = AllOf(rows) + delta
  BY <1>7, <1>10, <1>11
<1>13. \A m \in Minutes : rows2[m].covered <= rows2[m].all
  BY <1>2, <1>3 DEF TokensOK
<1> QED
  BY <1>4, <1>7, <1>12, <1>13 DEF TokensOK

LEMMA PendingIs ==
  ASSUME NEW base \in CountTypes, NEW again \in BOOLEAN, NEW totals \in [Sources -> Nat]
  PROVE  Pending(base, again, totals) \in Nat
<1>1. base.source # Never => base.source \in Sources
  BY DEF CountTypes
<1>2. base.total \in Nat
  BY EnergyAssumption DEF CountTypes
<1> QED
  BY <1>1, <1>2 DEF Pending

LEMMA RecordTokens ==
  ASSUME ClockOK, CountsOK, NEW fresh, NEW source \in Sources \union {Never}, Record(fresh, source)
  PROVE  CountsOK'
<1> DEFINE back == lastRecord # Never /\ clock < lastRecord
           fleet == IF Whole(fresh) THEN Unaccounted(IF back THEN Never ELSE fleetBase) ELSE {}
           obs == [source |-> source, total |-> engine[source], at |-> clock]
           resets == rebase \/ back
           delta == IF back \/ Rebases(obs) THEN 0 ELSE obs.total - tokenBase.total
           x == Start(clock)
           cov == IF fleet = {} THEN tokens[x].covered ELSE tokens[x].covered + delta
           counted == CountedRow(tokens, x, delta, cov)
<1>1. /\ IF source = Never THEN tokens' = Retained(tokens, clock, NoTokens) /\ tokenBase' = tokenBase /\ rebase' = resets
         ELSE tokens' = Retained(counted, clock, NoTokens) /\ tokenBase' = obs /\ rebase' = FALSE
      /\ engine' = engine /\ produced' = produced
  BY DEF Record, CountedRow
<1>2. /\ produced \in Nat /\ produced \in 0..MaxProduced /\ MaxProduced \in Nat
      /\ engine \in [Sources -> Nat] /\ (\A s \in Sources : engine[s] <= produced)
      /\ tokenBase \in CountTypes /\ rebase \in BOOLEAN /\ TokensOK(tokens, produced)
      /\ AllOf(tokens) + Pending(tokenBase, rebase, engine) <= produced
  BY EnergyAssumption DEF CountsOK
<1>3. clock \in Ticks /\ x \in Minutes
  BY StartIs DEF ClockOK
<1>4. AllOf(tokens) \in Nat
  BY <1>2, AllIsNat DEF TokensOK
<1>5. CASE source = Never
  <2>1. TokensOK(tokens', produced) /\ AllOf(tokens') <= AllOf(tokens)
    BY <1>1, <1>2, <1>5, RetainedTokens
  <2>2. tokenBase' = tokenBase /\ rebase' = (rebase \/ back)
    BY <1>1, <1>5
  <2>3. rebase' \in BOOLEAN
    BY <2>2
  <2>4. Pending(tokenBase, rebase', engine) <= Pending(tokenBase, rebase, engine)
    <3>1. CASE rebase' = rebase
      BY <1>2, <3>1, PendingIs
    <3>2. CASE rebase' # rebase
      <4>1. rebase' = TRUE
        BY <1>2, <2>2, <3>2
      <4>2. Pending(tokenBase, rebase', engine) = 0
        BY <4>1 DEF Pending
      <4>3. Pending(tokenBase, rebase, engine) \in Nat
        BY <1>2, PendingIs
      <4> QED
        BY <4>2, <4>3
    <3> QED
      BY <3>1, <3>2
  <2>5. Pending(tokenBase, rebase', engine) \in Nat /\ Pending(tokenBase, rebase, engine) \in Nat /\ AllOf(tokens') \in Nat
    BY <1>2, <2>1, <2>3, PendingIs, AllIsNat DEF TokensOK
  <2>6. AllOf(tokens') + Pending(tokenBase', rebase', engine') <= produced'
    BY <1>1, <1>2, <1>4, <2>1, <2>2, <2>4, <2>5
  <2> QED
    BY <1>1, <1>2, <2>1, <2>2, <2>3, <2>6 DEF CountsOK
<1>6. CASE source # Never
  <2>1. source \in Sources /\ engine[source] \in Nat /\ engine[source] <= produced
    BY <1>2, <1>6
  <2>2. obs \in CountTypes /\ obs.source = source /\ obs.total = engine[source]
    BY <1>2, <1>3, <2>1 DEF CountTypes
  <2>3. tokenBase.total \in Nat
    BY <1>2 DEF CountTypes
  <2>4. delta \in Nat /\ delta <= Pending(tokenBase, rebase, engine)
    <3>1. CASE back \/ Rebases(obs)
      BY <1>2, <3>1, PendingIs
    <3>2. CASE ~(back \/ Rebases(obs))
      <4>1. ~rebase /\ tokenBase.source = source /\ engine[source] >= tokenBase.total
        BY <2>1, <2>2, <2>3, <3>2 DEF Rebases
      <4>2. delta = engine[source] - tokenBase.total
        BY <2>2, <3>2
      <4> HIDE DEF delta
      <4>3. Pending(tokenBase, rebase, engine) = engine[source] - tokenBase.total
        BY <1>6, <2>1, <2>3, <4>1 DEF Pending
      <4> QED
        BY <2>1, <2>3, <4>1, <4>2, <4>3
    <3> QED
      BY <3>1, <3>2
  <2>5. cov \in {tokens[x].covered, tokens[x].covered + delta}
    OBVIOUS
  <2> HIDE DEF delta, cov, x, obs
  <2>6. /\ AllOf(counted) = AllOf(tokens) + delta
        /\ \A lim \in Nat : AllOf(counted) <= lim => TokensOK(counted, lim)
    BY <1>2, <1>3, <2>4, <2>5, CountedTokens
  <2> HIDE DEF counted
  <2>7. Pending(tokenBase, rebase, engine) \in Nat
    BY <1>2, PendingIs
  <2>8. AllOf(counted) <= produced
    BY <1>2, <1>4, <2>4, <2>6, <2>7
  <2>9. TokensOK(counted, produced)
    BY <1>2, <2>6, <2>8
  <2>10. tokens' = Retained(counted, clock, NoTokens) /\ tokenBase' = obs /\ rebase' = FALSE
    BY <1>1, <1>6
  <2>11. TokensOK(tokens', produced) /\ AllOf(tokens') <= AllOf(counted)
    BY <1>2, <2>9, <2>10, RetainedTokens
  <2>12. Pending(tokenBase', rebase', engine') = 0
    <3>1. Pending(obs, FALSE, engine) = 0
      BY <2>1, <2>2 DEF Pending
    <3> QED
      BY <1>1, <2>10, <3>1
  <2>13. AllOf(tokens') + Pending(tokenBase', rebase', engine') <= produced'
    <3>1. AllOf(tokens') \in Nat /\ AllOf(tokens') <= produced
      BY <2>11, AllIsNat DEF TokensOK
    <3> QED
      BY <1>1, <2>12, <3>1
  <2> QED
    BY <1>1, <1>2, <2>2, <2>10, <2>11, <2>13 DEF CountsOK
<1> QED
  BY <1>5, <1>6

-----------------------------------------------------------------------------
(* FleetEnergy: the steps *)

LEMMA NoCountIs == NoCount \in CountTypes /\ NoCount.source = Never
<1>1. 0 \in 0..MaxProduced /\ 0 \in Ticks
  BY EnergyAssumption DEF Ticks
<1> QED
  BY <1>1 DEF NoCount, CountTypes

LEMMA OldFileIs ==
  ASSUME NEW first \in {0, 1}
  PROVE  /\ OldFile(first) \in FileType /\ TimeOK(OldFile(first).node, OldFile(first).fleet)
         /\ OldFile(first).high = Never /\ TokensOK(OldFile(first).tokens, 0)
         /\ AllOf(OldFile(first).tokens) = 0
<1> DEFINE ticks == [t \in Ticks |-> IF t < first THEN 1 ELSE 0]
           node == [n \in Nodes |-> ticks]
           rows == [m \in Minutes |-> NoTokens]
<1>1. ticks \in Credits /\ None0 \in Credits /\ NoTokens \in MinuteRows
  BY DEF Credits, None0, NoTokens, MinuteRows
<1>2. \A t \in Ticks : ticks[t] \in {0, 1} /\ None0[t] = 0
  BY DEF None0
<1> HIDE DEF ticks
<1>3. node \in [Nodes -> Credits] /\ rows \in [Minutes -> MinuteRows]
  BY <1>1
<1>4. \A n \in Nodes : node[n] = ticks
  OBVIOUS
<1> HIDE DEF node
<1>5. TimeOK(node, None0)
  BY <1>1, <1>2, <1>3, <1>4 DEF TimeOK
<1>6. AllOf(rows) = 0
  <2> DEFINE h == [m \in Minutes |-> 0]
  <2>1. h \in [Minutes -> Nat] /\ (\A m \in Minutes : h[m] = rows[m].all) /\ h \in [Minutes -> Int] /\ \A m \in Minutes : h[m] = 0
    BY DEF NoTokens
  <2> HIDE DEF h
  <2>2. IsSum(h, Minutes, AllOf(rows))
    BY <2>1, AllIsSum
  <2> QED
    BY <2>1, <2>2, SumOfZeros, TicksAreFinite
<1>7. \A m \in Minutes : rows[m].covered <= rows[m].all
  BY DEF NoTokens
<1> HIDE DEF rows
<1>8. TokensOK(rows, 0)
  BY <1>3, <1>6, <1>7 DEF TokensOK
<1>9. OldFile(first) = [node |-> node, fleet |-> None0, high |-> Never, count |-> NoCount, tokens |-> rows]
  BY DEF OldFile, node, ticks, rows
<1>10. Never \in HighTypes
  BY DEF HighTypes, Times
<1>11. OldFile(first) \in FileType
  BY <1>1, <1>3, <1>9, <1>10, NoCountIs DEF FileType
<1> QED
  BY <1>5, <1>6, <1>8, <1>9, <1>11

LEMMA EnergyStarts == EnergyInit => EnergyInv
<1> SUFFICES ASSUME EnergyInit PROVE EnergyInv
  OBVIOUS
<1>1. /\ clock = 0 /\ upsets = 0 /\ produced = 0 /\ engine = [s \in Sources |-> 0]
      /\ nodeTicks = disk.node /\ fleetTicks = disk.fleet /\ tokens = disk.tokens
      /\ highWater = HighWaterOf(disk) /\ tokenBase = NoCount /\ rebase = FALSE
      /\ nodeBase = [n \in Nodes |-> Never] /\ fleetBase = Never /\ lastRecord = Never
  BY DEF EnergyInit
<1>2. /\ disk \in FileType /\ TimeOK(disk.node, disk.fleet) /\ disk.high = Never
      /\ TokensOK(disk.tokens, 0) /\ AllOf(disk.tokens) = 0
  BY OldFileIs DEF EnergyInit
<1>3. ClockOK
  BY <1>1, EnergyAssumption DEF ClockOK, Ticks
<1>4. BaseOK
  BY <1>1 DEF BaseOK, Times
<1>5. MemoryOK
  BY <1>1, <1>2, HighIs DEF MemoryOK
<1>6. FileOK
  BY <1>1, <1>2 DEF FileOK
<1>7. Pending(tokenBase, rebase, engine) = 0
  BY <1>1, NoCountIs DEF Pending
<1>8. engine \in [Sources -> Nat] /\ (\A s \in Sources : engine[s] <= produced) /\ produced \in 0..MaxProduced
  BY <1>1, EnergyAssumption
<1>9. CountsOK
  <2>1. TokensOK(tokens, produced) /\ AllOf(tokens) = 0 /\ produced = 0
    BY <1>1, <1>2
  <2>2. tokenBase \in CountTypes /\ rebase \in BOOLEAN
    BY <1>1, NoCountIs
  <2>3. AllOf(tokens) + Pending(tokenBase, rebase, engine) <= produced
    BY <1>7, <2>1
  <2> QED
    BY <1>8, <2>1, <2>2, <2>3 DEF CountsOK
<1> QED
  BY <1>3, <1>4, <1>5, <1>6, <1>9 DEF EnergyInv

LEMMA RecordStep ==
  EnergyInv /\ (\E fresh \in FreshSets, source \in Sources \union {Never} : Record(fresh, source)) => EnergyInv'
<1> SUFFICES ASSUME EnergyInv, NEW fresh \in FreshSets, NEW source \in Sources \union {Never}, Record(fresh, source)
             PROVE  EnergyInv'
  OBVIOUS
<1>1. fresh \in SUBSET Nodes
  BY EnergyAssumption
<1>2. BaseOK' /\ MemoryOK'
  BY <1>1, RecordTime DEF EnergyInv
<1>3. CountsOK'
  BY RecordTokens DEF EnergyInv
<1>4. ClockOK' /\ FileOK'
  BY DEF EnergyInv, Record, ClockOK, FileOK
<1> QED
  BY <1>2, <1>3, <1>4 DEF EnergyInv

LEMMA FlushStep == EnergyInv /\ EnergyFlush => EnergyInv'
<1> SUFFICES ASSUME EnergyInv, EnergyFlush PROVE EnergyInv'
  OBVIOUS
<1> DEFINE node2 == [n \in Nodes |-> Retained(nodeTicks[n], clock, 0)]
           fleet2 == Retained(fleetTicks, clock, 0)
           rows2 == Retained(tokens, clock, NoTokens)
<1>1. /\ disk' = [node |-> node2, fleet |-> fleet2, high |-> highWater, count |-> tokenBase, tokens |-> rows2]
      /\ nodeTicks' = disk'.node /\ fleetTicks' = disk'.fleet /\ tokens' = disk'.tokens
      /\ UNCHANGED <<clock, highWater, tokenBase, nodeBase, fleetBase, lastRecord, rebase, engine, produced, upsets>>
  BY DEF EnergyFlush, File, baselines
<1>2. TimeOK(nodeTicks, fleetTicks) /\ Behind(highWater, nodeTicks, fleetTicks) /\ highWater \in HighTypes
  BY DEF EnergyInv, MemoryOK
<1>3. TimeOK(node2, fleet2) /\ Behind(highWater, node2, fleet2)
  <2>1. \A v, w : v = node2 /\ w = fleet2 => TimeOK(v, w) /\ Behind(highWater, v, w)
    BY <1>2, RetainedTime
  <2> HIDE DEF node2, fleet2
  <2> QED
    BY <2>1
<1>4. /\ produced \in Nat /\ TokensOK(tokens, produced) /\ tokenBase \in CountTypes /\ rebase \in BOOLEAN
      /\ engine \in [Sources -> Nat] /\ AllOf(tokens) + Pending(tokenBase, rebase, engine) <= produced
  BY DEF EnergyInv, CountsOK
<1>5. TokensOK(rows2, produced) /\ AllOf(rows2) <= AllOf(tokens)
  BY <1>4, RetainedTokens
<1> HIDE DEF node2, fleet2, rows2
<1>6. disk' \in FileType
  BY <1>1, <1>2, <1>3, <1>4, <1>5 DEF FileType, TimeOK, TokensOK
<1>7. FileOK'
  BY <1>1, <1>3, <1>5, <1>6 DEF FileOK
<1>8. MemoryOK'
  BY <1>1, <1>2, <1>3 DEF MemoryOK
<1>9. CountsOK'
  <2>1. AllOf(rows2) \in Nat /\ AllOf(tokens) \in Nat
    BY <1>4, <1>5, AllIsNat DEF TokensOK
  <2>2. Pending(tokenBase, rebase, engine) \in Nat
    BY <1>4, PendingIs
  <2>3. AllOf(rows2) + Pending(tokenBase, rebase, engine) <= produced
    BY <1>4, <1>5, <2>1, <2>2
  <2>4. tokens' = rows2
    BY <1>1
  <2>5. AllOf(tokens') + Pending(tokenBase', rebase', engine') <= produced'
    BY <1>1, <2>3, <2>4
  <2> QED
    BY <1>1, <1>5, <2>4, <2>5 DEF EnergyInv, CountsOK
<1>10. BaseOK' /\ ClockOK'
  BY <1>1 DEF EnergyInv, BaseOK, ClockOK
<1> QED
  BY <1>7, <1>8, <1>9, <1>10 DEF EnergyInv

LEMMA BootStep == EnergyInv /\ EnergyBoot => EnergyInv'
<1> SUFFICES ASSUME EnergyInv, EnergyBoot PROVE EnergyInv'
  OBVIOUS
<1>1. /\ upsets < MaxUpsets /\ upsets' = upsets + 1
      /\ nodeTicks' = [n \in Nodes |-> Retained(disk.node[n], clock, 0)]
      /\ fleetTicks' = Retained(disk.fleet, clock, 0)
      /\ tokens' = Retained(disk.tokens, clock, NoTokens)
      /\ highWater' = HighWaterOf(disk)
      /\ tokenBase' = disk.count /\ rebase' = (disk.count # NoCount)
      /\ nodeBase' = [n \in Nodes |-> Never] /\ fleetBase' = Never /\ lastRecord' = Never
      /\ UNCHANGED <<clock, engine, disk, produced>>
  BY DEF EnergyBoot
<1>2. FileOK /\ disk \in FileType /\ disk.count \in CountTypes
  BY DEF EnergyInv, FileOK, FileType
<1>3. HighWaterOf(disk) \in HighTypes /\ Behind(HighWaterOf(disk), disk.node, disk.fleet)
  BY <1>2, HighIs DEF FileOK
<1>4. MemoryOK'
  <2>1. TimeOK(nodeTicks', fleetTicks') /\ Behind(HighWaterOf(disk), nodeTicks', fleetTicks')
    BY <1>1, <1>2, <1>3, RetainedTime DEF FileOK
  <2> QED
    BY <1>1, <1>3, <2>1 DEF MemoryOK
<1>5. CountsOK'
  <2>1. produced \in Nat /\ produced \in 0..MaxProduced /\ engine \in [Sources -> Nat] /\ \A s \in Sources : engine[s] <= produced
    BY DEF EnergyInv, CountsOK
  <2>2. TokensOK(tokens', produced)
    BY <1>1, <1>2, <2>1, RetainedTokens DEF FileOK
  <2>3. AllOf(tokens') \in Nat /\ AllOf(tokens') <= produced
    BY <2>2, AllIsNat DEF TokensOK
  <2>4. rebase' \in BOOLEAN /\ (~rebase' => tokenBase' = NoCount)
    BY <1>1
  <2>5. Pending(tokenBase', rebase', engine') = 0
    BY <2>4, NoCountIs DEF Pending
  <2>6. AllOf(tokens') + Pending(tokenBase', rebase', engine') <= produced'
    BY <1>1, <2>1, <2>3, <2>5
  <2> QED
    BY <1>1, <1>2, <2>1, <2>2, <2>4, <2>6 DEF CountsOK
<1>6. BaseOK' /\ FileOK'
  BY <1>1, <1>2 DEF BaseOK, FileOK, Times
<1>7. ClockOK'
  BY <1>1, EnergyAssumption DEF EnergyInv, ClockOK
<1> QED
  BY <1>4, <1>5, <1>6, <1>7 DEF EnergyInv

LEMMA ClockStep == EnergyInv /\ (Tick \/ \E t \in Ticks : ClockSetBack(t)) => EnergyInv'
<1> SUFFICES ASSUME EnergyInv, Tick \/ \E t \in Ticks : ClockSetBack(t) PROVE EnergyInv'
  OBVIOUS
<1>1. UNCHANGED <<accounts, baselines, engine, disk, produced>>
  BY DEF Tick, ClockSetBack
<1>2. ClockOK'
  BY EnergyAssumption DEF EnergyInv, ClockOK, Tick, ClockSetBack, Ticks
<1>3. BaseOK' /\ MemoryOK' /\ FileOK' /\ CountsOK'
  BY <1>1 DEF EnergyInv, BaseOK, MemoryOK, FileOK, CountsOK, accounts, baselines
<1> QED
  BY <1>2, <1>3 DEF EnergyInv

LEMMA EngineStep == EnergyInv /\ (\E s \in Sources : EngineMakes(s) \/ CountersReset(s)) => EnergyInv'
<1> SUFFICES ASSUME EnergyInv, NEW s \in Sources, EngineMakes(s) \/ CountersReset(s) PROVE EnergyInv'
  OBVIOUS
<1>1. /\ UNCHANGED <<clock, accounts, baselines, disk>>
      /\ \/ produced < MaxProduced /\ produced' = produced + 1 /\ engine' = [engine EXCEPT ![s] = @ + 1] /\ upsets' = upsets
         \/ upsets < MaxUpsets /\ upsets' = upsets + 1 /\ engine' = [engine EXCEPT ![s] = 0] /\ produced' = produced
  BY DEF EngineMakes, CountersReset
<1>2. ClockOK' /\ BaseOK' /\ MemoryOK'
  BY <1>1, EnergyAssumption DEF EnergyInv, ClockOK, BaseOK, MemoryOK, accounts, baselines
<1>3. /\ produced \in Nat /\ produced \in 0..MaxProduced /\ MaxProduced \in Nat /\ engine \in [Sources -> Nat]
      /\ \A r \in Sources : engine[r] <= produced
  BY EnergyAssumption DEF EnergyInv, CountsOK
<1>4. produced' \in 0..MaxProduced /\ produced <= produced' /\ produced' \in Nat
  BY <1>1, <1>3
<1>5. engine' \in [Sources -> Nat] /\ \A r \in Sources : engine'[r] <= produced'
  <2>1. engine' \in [Sources -> Nat]
    BY <1>1, <1>3
  <2>2. \A r \in Sources : engine'[r] <= produced'
    BY <1>1, <1>3
  <2> QED
    BY <2>1, <2>2
<1>6. \A rows : TokensOK(rows, produced) => TokensOK(rows, produced')
  BY <1>3, <1>4, AllIsNat DEF TokensOK
<1>7. FileOK'
  BY <1>1, <1>6 DEF EnergyInv, FileOK
<1>8. tokenBase \in CountTypes /\ rebase \in BOOLEAN /\ tokens' = tokens /\ tokenBase' = tokenBase /\ rebase' = rebase
  BY <1>1 DEF EnergyInv, CountsOK, accounts, baselines
<1>9. AllOf(tokens') + Pending(tokenBase', rebase', engine') <= produced'
  <2>1. AllOf(tokens) \in Nat /\ AllOf(tokens) + Pending(tokenBase, rebase, engine) <= produced
    BY AllIsNat DEF EnergyInv, CountsOK, TokensOK
  <2>2. Pending(tokenBase, rebase, engine) \in Nat /\ Pending(tokenBase, rebase, engine') \in Nat
    BY <1>3, <1>5, <1>8, PendingIs
  <2>3. tokenBase.source # Never => tokenBase.source \in Sources /\ engine[tokenBase.source] \in Nat
    BY <1>3, <1>8 DEF CountTypes
  <2>4. tokenBase.total \in Nat
    BY <1>3, <1>8 DEF CountTypes
  <2>5. Pending(tokenBase, rebase, engine') <= Pending(tokenBase, rebase, engine) + (produced' - produced)
    <3>1. CASE rebase \/ tokenBase.source = Never
      BY <1>3, <1>4, <2>2, <3>1 DEF Pending
    <3>2. CASE ~(rebase \/ tokenBase.source = Never)
      <4> DEFINE r == tokenBase.source
      <4>1. r \in Sources /\ engine[r] \in Nat /\ engine'[r] \in Nat
        BY <1>5, <2>3, <3>2
      <4>2. engine'[r] <= engine[r] + (produced' - produced)
        BY <1>1, <1>3, <4>1
      <4>3. /\ Pending(tokenBase, rebase, engine') = IF engine'[r] < tokenBase.total THEN 0 ELSE engine'[r] - tokenBase.total
            /\ Pending(tokenBase, rebase, engine) = IF engine[r] < tokenBase.total THEN 0 ELSE engine[r] - tokenBase.total
        BY <3>2 DEF Pending
      <4> HIDE DEF r
      <4> QED
        BY <1>3, <1>4, <2>4, <4>1, <4>2, <4>3
    <3> QED
      BY <3>1, <3>2
  <2>6. AllOf(tokens) + Pending(tokenBase, rebase, engine') <= produced'
    BY <1>3, <1>4, <2>1, <2>2, <2>5
  <2> QED
    BY <1>8, <2>6
<1>10. TokensOK(tokens', produced')
  BY <1>6, <1>8 DEF EnergyInv, CountsOK
<1>11. CountsOK'
  BY <1>4, <1>5, <1>8, <1>9, <1>10 DEF CountsOK
<1> QED
  BY <1>2, <1>7, <1>11 DEF EnergyInv

LEMMA EnergyStep == EnergyInv /\ [EnergyNext]_energyVars => EnergyInv'
<1>1. EnergyInv /\ UNCHANGED energyVars => EnergyInv'
  BY DEF EnergyInv, ClockOK, BaseOK, MemoryOK, FileOK, CountsOK, energyVars, accounts, baselines
<1> QED
  BY <1>1, RecordStep, FlushStep, BootStep, ClockStep, EngineStep DEF EnergyNext

LEMMA RowsAreFew ==
  ASSUME NEW rows, TokensOK(rows, produced), produced \in 0..MaxProduced
  PROVE  rows \in [Minutes -> TokenRow]
<1>1. rows \in [Minutes -> MinuteRows] /\ AllOf(rows) \in Nat /\ AllOf(rows) <= produced /\ MaxProduced \in Nat
  BY AllIsNat, EnergyAssumption DEF TokensOK
<1>2. ASSUME NEW m \in Minutes PROVE rows[m] \in TokenRow
  <2>1. rows[m].all <= AllOf(rows) /\ rows[m].covered <= rows[m].all
    BY <1>1, EachIsPart DEF TokensOK
  <2>2. rows[m] \in MinuteRows /\ rows[m].all \in Nat /\ rows[m].covered \in Nat
    BY <1>1 DEF MinuteRows
  <2>3. rows[m].all \in 0..MaxProduced /\ rows[m].covered \in 0..MaxProduced
    BY <1>1, <2>1, <2>2
  <2> QED
    BY <2>2, <2>3 DEF MinuteRows, TokenRow
<1> QED
  BY <1>1, <1>2

LEMMA EnergyInvImplies == EnergyInv => EnergyTypeOK /\ TimeCountsOnce /\ FleetIsCovered /\ TokensCountOnce
<1> SUFFICES ASSUME EnergyInv PROVE EnergyTypeOK /\ TimeCountsOnce /\ FleetIsCovered /\ TokensCountOnce
  OBVIOUS
<1>1. TimeCountsOnce /\ FleetIsCovered
  BY DEF EnergyInv, MemoryOK, TimeOK, TimeCountsOnce, FleetIsCovered
<1>2. TokensCountOnce
  BY DEF EnergyInv, CountsOK, TokensOK, AllOf, TokensCountOnce
<1>3. tokens \in [Minutes -> TokenRow] /\ disk.tokens \in [Minutes -> TokenRow]
  BY RowsAreFew DEF EnergyInv, CountsOK, FileOK
<1>4. disk \in [node : [Nodes -> [Ticks -> Nat]], fleet : [Ticks -> Nat],
                high : Times \union 0..(MaxClock + MinuteLen), count : [source : Sources \union {Never}, total : 0..MaxProduced, at : Ticks],
                tokens : [Minutes -> TokenRow]]
  BY <1>3 DEF EnergyInv, FileOK, FileType, Credits, HighTypes, CountTypes
<1>5. engine \in [Sources -> 0..MaxProduced]
  <2>1. produced \in 0..MaxProduced /\ engine \in [Sources -> Nat] /\ \A s \in Sources : engine[s] <= produced
    BY DEF EnergyInv, CountsOK
  <2>2. \A s \in Sources : engine[s] \in 0..MaxProduced
    BY <2>1, EnergyAssumption
  <2> QED
    BY <2>1, <2>2
<1>6. /\ nodeTicks \in [Nodes -> [Ticks -> Nat]] /\ fleetTicks \in [Ticks -> Nat]
      /\ highWater \in Times \union 0..(MaxClock + MinuteLen)
  BY DEF EnergyInv, MemoryOK, TimeOK, Credits, HighTypes
<1>7. /\ clock \in Ticks /\ upsets \in 0..MaxUpsets
      /\ nodeBase \in [Nodes -> Times] /\ fleetBase \in Times /\ lastRecord \in Times
  BY DEF EnergyInv, ClockOK, BaseOK
<1>8. /\ tokenBase \in [source : Sources \union {Never}, total : 0..MaxProduced, at : Ticks]
      /\ rebase \in BOOLEAN /\ produced \in 0..MaxProduced
  BY DEF EnergyInv, CountsOK, CountTypes
<1>9. EnergyTypeOK
  BY <1>3, <1>4, <1>5, <1>6, <1>7, <1>8 DEF EnergyTypeOK
<1> QED
  BY <1>1, <1>2, <1>9

-----------------------------------------------------------------------------
(* The three side by side *)

MetersInv == StoreInv /\ LedgerInv /\ EnergyInv

LEMMA MetersParts ==
  ASSUME [Next]_vars
  PROVE  [StoreNext]_storeVars /\ [LedgerNext]_ledgerVars /\ [EnergyNext]_energyVars
  BY DEF Next, vars

\* The invariants of the registry, the ledger and the energy accounts are
\* inductive: each step is a step of one of them.
THEOREM MetersInvariance == Spec => []MetersInv
<1>1. Init => MetersInv
  BY StoreStarts, LedgerStarts, EnergyStarts DEF Init, MetersInv
<1>2. MetersInv /\ [Next]_vars => MetersInv'
  <2> SUFFICES ASSUME MetersInv, [Next]_vars PROVE MetersInv'
    OBVIOUS
  <2>1. [StoreNext]_storeVars /\ [LedgerNext]_ledgerVars /\ [EnergyNext]_energyVars
    BY MetersParts
  <2> QED
    BY <2>1, StoreStep, LedgerStep, EnergyStep DEF MetersInv
<1> QED
  BY <1>1, <1>2, PTL DEF Spec

\* Type correctness of the three; a ledger never keeps more days than it may.
THEOREM MetersTypes == Spec => []MeterTypesOK
<1>1. MetersInv => MeterTypesOK
  BY LedgerInvImplies, EnergyInvImplies DEF MetersInv, MeterTypesOK, StoreInv
<1> QED
  BY <1>1, MetersInvariance, PTL

\* No token and no time is counted twice, for any number of models, engines,
\* nodes, requests, days and minutes (server/llmtokens, server/energy).
THEOREM TheMetersAddUp == Spec => []MetersAddUp
<1>1. MetersInv => MetersAddUp
  BY LedgerInvImplies, EnergyInvImplies DEF MetersInv, MetersAddUp
<1> QED
  BY <1>1, MetersInvariance, PTL

\* Crashes, boots and failed writes cost no spark, key or token, and memory and
\* disk agree between operations (registry.js, secretsStore.js).
THEOREM TheStoreHolds == Spec => StoreHolds
<1>1. MetersInv => MemoryOnDisk /\ NoInheritedSecret
  BY StoreInvImplies DEF MetersInv
<1>2. MetersInv /\ [Next]_vars =>
        [phase = "down" /\ phase' # "down" =>
          /\ "sparks" \in damaged \/ memS' \in {memS, op.s}
          /\ "secrets" \in damaged \/ memX' = memX \/ (op.writes # <<>> /\ memX' = Head(op.writes))]_storeVars
  BY MetersParts, CrashStep DEF MetersInv
<1>3. MetersInv /\ [Next]_vars =>
        [op.loading /\ phase = "secrets" /\ phase' = "idle" =>
          \A i \in Ids : Cardinality(KeysOf(memX', i)) = Cardinality(KeysOf(memX, i))]_storeVars
  BY MetersParts, LoadStep DEF MetersInv
<1>4. MetersInv /\ [Next]_vars =>
        [diskX.token # 0 /\ diskX'.token # diskX.token
          => phase = "token" \/ "secrets" \in damaged']_storeVars
  BY MetersParts, TokenStep DEF MetersInv
<1> QED
  BY <1>1, <1>2, <1>3, <1>4, MetersInvariance, PTL DEF Spec, StoreHolds, CrashIsAtomic, LoadKeepsKeys, TokenKept
=============================================================================
