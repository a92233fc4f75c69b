----------------------------- MODULE ClientParts -----------------------------
(***************************************************************************)
(* Six parts of the client that share no state with each other: the        *)
(* telemetry exporter, the control pipe, the capture adapter, the          *)
(* configuration store, the voice activity detector and the pure rules.    *)
(* A behaviour exercises one of them, chosen at the start, while the       *)
(* others rest in an initial state: together the behaviours are those of   *)
(* each part by itself, and the state space is the sum of theirs, not the  *)
(* product, which would show nothing more.                                 *)
(***************************************************************************)
EXTENDS Telemetry, ServicePipe, CaptureSource, ConfigStore, Vad, ClientRules

VARIABLE part  \* the part this behaviour exercises

vars == <<part, telemetryVars, pipeVars, sourceVars, configVars, vadVars, rulesVars>>

\* Where a part's initial state is a choice, one of them for a part at rest.
Init ==
    /\ part \in {"telemetry", "pipe", "source", "config", "vad", "rules"}
    /\ TelemetryInit
    /\ PipeInit /\ (part # "pipe" => \A c \in Client : asks[c] = "GetConfig")
    /\ SourceInit /\ (part # "source" => tier = "B" /\ ~pid /\ dir = "Render")
    /\ ConfigInit /\ (part # "config" => registry = Nothing)
    /\ VadInit
    /\ IF part = "rules" THEN RulesInit
       ELSE item = LengthItem(0) /\ result = <<>>

Next ==
    \/ /\ part = "telemetry" /\ TelemetryNext
       /\ UNCHANGED <<part, pipeVars, sourceVars, configVars, vadVars, rulesVars>>
    \/ /\ part = "pipe" /\ PipeNext
       /\ UNCHANGED <<part, telemetryVars, sourceVars, configVars, vadVars, rulesVars>>
    \/ /\ part = "source" /\ SourceNext
       /\ UNCHANGED <<part, telemetryVars, pipeVars, configVars, vadVars, rulesVars>>
    \/ /\ part = "config" /\ ConfigNext
       /\ UNCHANGED <<part, telemetryVars, pipeVars, sourceVars, vadVars, rulesVars>>
    \/ /\ part = "vad" /\ VadNext
       /\ UNCHANGED <<part, telemetryVars, pipeVars, sourceVars, configVars, rulesVars>>
    \/ /\ part = "rules" /\ RulesNext
       /\ UNCHANGED <<part, telemetryVars, pipeVars, sourceVars, configVars, vadVars>>

Spec == Init /\ [][Next]_vars
=============================================================================
