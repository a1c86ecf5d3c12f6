------------------------------ MODULE MCProbes ------------------------------
(***************************************************************************)
(* Instances of LlmCounters, SystemMeters and ComfyWatch, side by side:    *)
(* part says what this behaviour is about, the others rest.  CPU and       *)
(* network are run one after the other, SGLang, whose builds are many,     *)
(* without restarts, ComfyUI without cancels ("comfy") or without polls    *)
(* ("cancel").                                                             *)
(***************************************************************************)
EXTENDS LlmCounters, SystemMeters, ComfyWatch, TLC

CONSTANTS s1, s2, x1, x2, y1, d1, d2

VARIABLE part

\* Two partitions of one device, one of another.
Partitions == x1 :> d1 @@ x2 :> d1 @@ y1 :> d2

meterVars == <<remote, counterVars, ratesVars, diskVars, vramVars>>
vars == <<part, meterVars, comfyVars>>

Init ==
    /\ part \in {"llm", "cpu", "net", "disks", "vram", "comfy", "cancel"}
    /\ CountersInit /\ RatesInit /\ DisksInit /\ VramInit /\ ComfyInit
    /\ part # "llm" => eng = Engine([kind |-> "vllm", totals |-> TRUE, modes |-> TRUE])
    /\ part \in {"llm", "disks", "comfy", "cancel"} => ~remote

Next ==
    \/ part = "llm" /\ CountersNext
       /\ (faults' = faults \/ "sglang" \notin {eng.kind, eng'.kind})
       /\ UNCHANGED <<part, remote, ratesVars, diskVars, vramVars, comfyVars>>
    \/ part = "cpu" /\ RatesNext /\ net' <= 1
       /\ UNCHANGED <<part, counterVars, diskVars, vramVars, comfyVars>>
    \/ part = "net" /\ RatesNext /\ cpu'.total <= 1
       /\ UNCHANGED <<part, counterVars, diskVars, vramVars, comfyVars>>
    \/ part = "disks" /\ DisksNext
       /\ UNCHANGED <<part, remote, counterVars, ratesVars, vramVars, comfyVars>>
    \/ part = "vram" /\ VramNext
       /\ UNCHANGED <<part, counterVars, ratesVars, diskVars, comfyVars>>
    \/ part = "comfy" /\ ComfyNext /\ UNCHANGED <<part, meterVars>> /\ cancel' = cancel
    \/ part = "cancel" /\ ComfyNext /\ UNCHANGED <<part, meterVars>> /\ watch' = watch

OnVram(step) == part = "vram" /\ step /\ UNCHANGED <<part, counterVars, ratesVars, diskVars, comfyVars>>
OnComfy(step) == part = "comfy" /\ step /\ UNCHANGED <<part, meterVars>>

\* VramFairness or ComfyFairness, of the part that runs.
Spec ==
    /\ Init /\ [][Next]_vars
    /\ WF_vars(OnVram(CronRuns))
    /\ WF_vars(OnVram(GpuPolls) \/ OnComfy(ComfyPolls))
    /\ WF_vars(OnVram(UnifiedPolls) \/ OnComfy(ComfySocket))

-----------------------------------------------------------------------------
\* Type correctness of the three.
ProbeTypesOK == CountersTypeOK /\ MetersTypeOK /\ ComfyTypeOK

\* What is shown is so: no token, tick, packet or sector is in two rates, or
\* from an engine that did nothing, nor does a restart count as output; the
\* progress and the history of ComfyUI are of its job and of its server, none
\* is watched after the monitoring ended, and a job that was cancelled is over.
RatesAreHonest ==
    /\ RateIsNew /\ IdleShowsNothing /\ HeartbeatIsHonest /\ ShownOnce
    /\ ProgressIsLive /\ CacheIsOfTarget /\ DisposedIsQuiet /\ CancelTakes

\* What ends is seen: memory freed on the GPU disappears from both panels
\* (ClearedIsSeen), the socket of ComfyUI follows its queue (SocketFollows).
EndsAreSeen ==
    <>[](\/ part = "vram" /\ held = 0
         \/ part = "comfy" /\ ~Follows) => <>[](part = "vram" /\ Cleared)
=============================================================================
