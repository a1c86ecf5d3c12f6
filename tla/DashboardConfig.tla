--------------------------- MODULE DashboardConfig --------------------------
(***************************************************************************)
(* What the dashboard reads when it starts (the end of server/index.js):   *)
(* settings.json (server/settings.js), the key of the secrets and the      *)
(* encrypted file (server/secretsStore.js), and the preflight              *)
(* (server/startupPreflight.js); and what is written to them later.        *)
(*                                                                         *)
(* Everything is synchronous: no two operations interleave, but a process  *)
(* may die between the files that one of them writes, and a throw at boot  *)
(* ends it.  SparkStore models the two files of the registry from the      *)
(* side of the sparks; here it is what the key can open.                   *)
(***************************************************************************)
EXTENDS Naturals, FiniteSets

CONSTANTS
    Owners,       \* sparks with a password
    EnvKeys,      \* values of SPARKDASH_SECRETS_KEY, below Torn; 0 is unset
    MaxBoots, MaxValues, MaxMishaps   \* bounds

ASSUME ConfigAssumption == EnvKeys \subseteq 0..8 /\ {MaxBoots, MaxValues, MaxMishaps} \subseteq Nat

VARIABLES
    envKey, writable,    \* of the environment: the variable, and the folder of the files
    keyFile,             \* .secrets-key: 0 is missing, else a generated key, Torn
    vault,               \* sparks-secrets.json
    life,                \* the process: "down", "loaded", "keyed" or "up"
    cachedKey,           \* _cachedKey, 0 before
    passwords,           \* _passwords of the registry, 0 is none
    settings,            \* _settings
    settingsFile,
    cadence,             \* the interval of the broadcast timer
    boots, values, mishaps,
    issued, entered,     \* history: the token and the passwords that are in use
    lost,                \* history: tokens and passwords whose key was not at hand
    behind,              \* history: the settings could not be saved
    skewed               \* history: the timer was not restarted, the interval is another

envVars    == <<envKey, writable>>
secretVars == <<keyFile, vault, cachedKey, passwords, values, issued, entered, lost>>
settingVars == <<settings, settingsFile, cadence, behind, skewed>>
configVars == <<envVars, secretVars, settingVars, life, boots, mishaps>>

\* Keys: those of the environment, a file that is no key, and the generated
\* ones, random bytes that equal none of these.
Generated(n) == 10 + n
Torn == 9

\* A ciphertext is its key and its plaintext; 0 is nothing.
Blob == [key |-> 0, val |-> 0]
NoVault == [token |-> Blob, pw |-> [u \in Owners |-> Blob]]
Seal(k, v) == [key |-> k, val |-> v]
Opens(k, b) == b.val # 0 /\ b.key = k
Blobs == {vault.token} \cup {vault.pw[u] : u \in Owners}
Exists == \E b \in Blobs : b.val # 0

\* Settings: the poll interval (a valid one is 1 or 2, in seconds), and two keys
\* of modelctl, 0 being the default.
Defaults == [poll |-> 2, root |-> 0, bin |-> 0]

\* A file that is missing, one that does not parse, and one that a hand has edited.
Missing  == [Defaults EXCEPT !.poll = 98]
Unparsed == [Defaults EXCEPT !.poll = 99]
Edited   == [poll |-> 0, root |-> 1, bin |-> 1]

\* _clampSettings: an interval that is too small, or no number, becomes 1; the
\* keys of modelctl that a patch does not have become their defaults.
Clamped(s) == [s EXCEPT !.poll = IF @ >= 1 THEN @ ELSE 1]

ConfigInit ==
    /\ envKey \in EnvKeys /\ writable = TRUE
    /\ keyFile = 0 /\ vault = NoVault
    /\ life = "down" /\ cachedKey = 0 /\ passwords = [u \in Owners |-> 0]
    /\ settings = Defaults /\ settingsFile \in {Missing, Unparsed, Edited} /\ cadence = 0
    /\ boots = 0 /\ values = 0 /\ mishaps = 0
    /\ issued = 0 /\ entered = [u \in Owners |-> 0]
    /\ lost = FALSE /\ behind = FALSE /\ skewed = FALSE

-----------------------------------------------------------------------------
(* The key *)

\* resolveKey: what it finds.  A key is generated only if nothing is encrypted.
KeyWith(cached) ==
    IF cached # 0 THEN cached
    ELSE IF envKey # 0 THEN envKey
    ELSE IF keyFile \notin {0, Torn} THEN keyFile
    ELSE 0
FoundKey == KeyWith(cachedKey)

MayGenerateBug == TRUE
MayGenerate == keyFile = 0 /\ ~Exists

KeyThrows == FoundKey = 0 /\ ~(MayGenerate /\ writable)

\* The key is at hand from here on; the new file is a write of its own.
KeyResolved ==
    IF FoundKey # 0 THEN cachedKey' = FoundKey /\ UNCHANGED keyFile
    ELSE keyFile' = Generated(boots) /\ cachedKey' = Generated(boots)

-----------------------------------------------------------------------------
(* The secrets *)

\* setAppSecret and saveSecrets: each writes its own bucket, the other one stays
\* as it was found.  Passwords that memory does not have are not written.
WithToken(k, v) == [vault EXCEPT !.token = Seal(k, v)]

WithPasswords(k, pws) ==
    [vault EXCEPT !.pw = [u \in Owners |-> IF pws[u] = 0 THEN Blob ELSE Seal(k, pws[u])]]

\* A ciphertext in the file that memory could not read.
Unread == \E u \in Owners : vault.pw[u].val # 0 /\ passwords[u] = 0

\* setPassword; the registry keeps its memory if the save throws.
SetPassword(u) ==
    /\ life = "up" /\ values < MaxValues /\ values' = values + 1
    /\ IF KeyThrows \/ ~writable
       THEN UNCHANGED <<keyFile, vault, cachedKey, passwords, entered, lost>>
       ELSE /\ KeyResolved
            /\ passwords' = [passwords EXCEPT ![u] = values + 1]
            /\ vault' = WithPasswords(cachedKey', passwords')
            /\ entered' = [entered EXCEPT ![u] = values + 1]
            /\ lost' = (lost \/ Unread)
    /\ UNCHANGED <<envVars, settingVars, life, boots, mishaps, issued>>

\* POST /api/agent/token/rotate
Rotate ==
    /\ life = "up" /\ values < MaxValues /\ values' = values + 1
    /\ IF KeyThrows \/ ~writable THEN UNCHANGED <<keyFile, vault, cachedKey, issued>>
       ELSE /\ KeyResolved
            /\ vault' = WithToken(cachedKey', values + 1)
            /\ issued' = values + 1
    /\ UNCHANGED <<envVars, settingVars, life, boots, mishaps, passwords, entered, lost>>

-----------------------------------------------------------------------------
(* Settings *)

Patches == {[poll |-> n, root |-> 0, bin |-> 0] : n \in {0, 1, 2}} \cup {[Defaults EXCEPT !.root = 1]}

\* PUT /api/settings: updateSettings, and a new timer if the patch has an
\* interval.  A patch {pollIntervalMs: null} (0) has none, and is clamped.
RestartsTimer(patch) == patch.poll # 0

PutSettings(patch, of) ==
    LET next == Clamped(IF of = "poll" THEN [settings EXCEPT !.poll = patch.poll]
                        ELSE [settings EXCEPT !.root = patch.root, !.bin = patch.bin])
    IN
    /\ life = "up" /\ next # settings /\ settings' = next
    /\ settingsFile' = IF writable THEN next ELSE settingsFile
    /\ behind' = ~writable
    /\ IF of = "poll" /\ RestartsTimer(patch)
       THEN cadence' = next.poll /\ skewed' = FALSE
       ELSE /\ UNCHANGED cadence
            /\ skewed' = (skewed \/ (of = "poll" /\ patch.poll = 0))
    /\ UNCHANGED <<envVars, secretVars, life, boots, mishaps>>

-----------------------------------------------------------------------------
(* Boot *)

\* The registry loads the passwords that the key opens, loadSettings the file;
\* a file that is missing is written, one that does not parse is left.
Boot ==
    /\ life = "down" /\ boots < MaxBoots /\ boots' = boots + 1
    /\ cachedKey' = IF Exists THEN KeyWith(0) ELSE 0
    /\ passwords' = [u \in Owners |-> IF Opens(KeyWith(0), vault.pw[u]) THEN vault.pw[u].val ELSE 0]
    /\ settings' = Clamped(IF settingsFile \in {Missing, Unparsed} THEN Defaults ELSE settingsFile)
    /\ settingsFile' = IF settingsFile = Missing /\ writable THEN settings' ELSE settingsFile
    /\ behind' = (settingsFile' # settings')
    /\ lost' = (lost \/ \E u \in Owners : vault.pw[u].val # 0 /\ passwords'[u] = 0)
    /\ life' = "loaded"
    /\ UNCHANGED <<envVars, keyFile, vault, values, issued, entered, cadence, skewed, mishaps>>

\* ensureAgentToken: the token that is there, or a new one; the preflight, and
\* the timer of the broadcasts.
Listens ==
    /\ life' = "up" /\ cadence' = settings.poll /\ skewed' = FALSE
    /\ UNCHANGED <<envVars, settings, settingsFile, behind, boots, mishaps>>

TokenIsThere ==
    /\ life = "loaded" /\ Opens(FoundKey, vault.token)
    /\ IF writable THEN Listens
       ELSE life' = "down" /\ UNCHANGED <<envVars, settingVars, boots, mishaps>>   \* fatal
    /\ cachedKey' = FoundKey
    /\ UNCHANGED <<keyFile, vault, passwords, values, issued, entered, lost>>

\* A token that is missing, or that the key does not open, needs a key ...
TokenNeedsKey ==
    /\ life = "loaded" /\ ~Opens(FoundKey, vault.token)
    /\ IF KeyThrows THEN life' = "down" /\ UNCHANGED <<keyFile, cachedKey>>
       ELSE life' = "keyed" /\ KeyResolved
    /\ UNCHANGED <<envVars, settingVars, vault, passwords, values, issued, entered, lost, boots, mishaps>>

\* ... and a write; what throws here ends the process.
TokenIsNew ==
    /\ life = "keyed"
    /\ IF writable
       THEN /\ vault' = WithToken(cachedKey, MaxValues + boots)
            /\ lost' = (lost \/ vault.token.val # 0)
            /\ issued' = IF lost' \/ issued = 0 THEN MaxValues + boots ELSE issued
            /\ Listens
       ELSE /\ life' = "down"
            /\ UNCHANGED <<envVars, settingVars, boots, mishaps, vault, lost, issued>>
    /\ UNCHANGED <<keyFile, cachedKey, passwords, values, entered>>

-----------------------------------------------------------------------------
(* Mishaps, of the process and of who installs it *)

Mishap == mishaps < MaxMishaps /\ mishaps' = mishaps + 1

Dies ==
    /\ life # "down" /\ life' = "down" /\ Mishap
    /\ UNCHANGED <<envVars, secretVars, settingVars, boots>>

\* Within the write of the key, which is no atomicWrite.
DiesInKeyWrite ==
    /\ life = "loaded" /\ FoundKey = 0 /\ ~KeyThrows /\ Mishap
    /\ keyFile' = Torn /\ life' = "down"
    /\ UNCHANGED <<envVars, settingVars, vault, cachedKey, passwords, values, issued, entered, lost, boots>>

Reinstalled ==
    /\ life = "down" /\ Mishap
    /\ \/ envKey' \in EnvKeys \ {envKey} /\ UNCHANGED <<writable, keyFile>>
       \/ writable' = ~writable /\ UNCHANGED <<envKey, keyFile>>
       \/ keyFile # 0 /\ keyFile' = 0 /\ UNCHANGED envVars
    /\ UNCHANGED <<vault, cachedKey, passwords, values, issued, entered, lost, settingVars, life, boots>>

-----------------------------------------------------------------------------
ConfigNext ==
    \/ Boot \/ TokenIsThere \/ TokenNeedsKey \/ TokenIsNew
    \/ \E u \in Owners : SetPassword(u)
    \/ Rotate
    \/ \E patch \in Patches, of \in {"poll", "modelctl"} : PutSettings(patch, of)
    \/ Dies \/ DiesInKeyWrite \/ Reinstalled

-----------------------------------------------------------------------------
ConfigTypeOK ==
    /\ envKey \in EnvKeys /\ writable \in BOOLEAN /\ keyFile \in Nat /\ cachedKey \in Nat
    /\ life \in {"down", "loaded", "keyed", "up"}
    /\ settings.poll \in 1..2 /\ cadence \in 0..2
    /\ \A b \in Blobs : b.val = 0 <=> b.key = 0

\* While the dashboard runs, the token that the agents were given and the
\* passwords that were entered are what it would read again with its key,
\* through saves, rotations, crashes and boots, unless a key was not at hand.
SecretsStay ==
    life = "up" /\ ~lost =>
        /\ Opens(FoundKey, vault.token) /\ vault.token.val = issued
        /\ \A u \in Owners :
            /\ passwords[u] = entered[u]
            /\ entered[u] # 0 => Opens(FoundKey, vault.pw[u]) /\ vault.pw[u].val = entered[u]

\* The program puts no ciphertext out of reach: what a generated key has written
\* is written by the one key that was ever generated.
OneKeyIsMade ==
    \A b, c \in Blobs :
        b.key >= Generated(0) /\ c.key >= Generated(0) => b.key = c.key

\* The settings in memory are those on file, and the snapshots are broadcast at
\* their interval, unless a save failed or an interval was given as null.
SettingsAreKept ==
    life = "up" => /\ ~behind => settingsFile = settings
                   /\ ~skewed => cadence = settings.poll
=============================================================================
