------------------------- MODULE MCPluginProcessor -------------------------
(***************************************************************************)
(* One on-screen key and two play styles.  In a performance of one source  *)
(* styles are selected on the strip or by the host's keyswitches, never by *)
(* both: on the strip beside on-screen keys, on the strip beside session   *)
(* restores and the KEYS button, or by the host beside all of them.        *)
(***************************************************************************)
EXTENDS PluginProcessor, TLC

CONSTANTS key, sustain, hammer, blank
VARIABLE source

TheKeys == {key}
BothStyles == {sustain, hammer}

Sources == {"strip and keys", "strip and session", "host"}
Restores == {"restoreHold", "restorePanic"}

FromOneSource ==
    CASE source = "host" -> editor'.event \notin Clicks
      [] source = "strip and keys" ->
            /\ host'.latch = Blank
            /\ editor'.pc \notin Restores
            /\ playStyleKeysHold' = playStyleKeysHold
      [] source = "strip and session" -> host'.latch = Blank /\ keysDown' = {}

OneSourceInit == Init /\ source \in Sources

OneSource ==
    /\ OneSourceInit
    /\ [][Next /\ FromOneSource /\ UNCHANGED source]_<<vars, source>>
    /\ Fairness
=============================================================================
