------------------------------ MODULE MCSurfaces ------------------------------
(***************************************************************************)
(* The parts beside the speech backends, for TLC: the OBS text source and  *)
(* hotkeys, the pipe to the plugin, and the settings window.  A behaviour  *)
(* is that of one part; the others keep still.                             *)
(***************************************************************************)
EXTENDS ObsTextSink, ObsHotkey, Wire, MCRunControl, KeyCheck, EngineChoice, Recommendation

VARIABLE part \* the part this behaviour is about

vars == <<part, sinkVars, hotkeyVars, wireVars, runControlVars, keyCheckVars,
          engineVars, recommendVars>>

\* A part that keeps still is in one of its initial states.
Init ==
  /\ part \in {"sink", "hotkey", "wire", "window", "keycheck", "engine", "recommend"}
  /\ SinkInit /\ (part # "sink" => obs.up /\ obs.input)
  /\ HotkeyInit /\ (part # "hotkey" => socket.up /\ ~missed /\ ~stuck)
  /\ WireInit /\ RunControlInit /\ KeyCheckInit
  /\ EngineInit /\ (part # "engine" =>
       /\ engine = "local" /\ provider = [mode |-> "gemini", region |-> FALSE, project |-> FALSE]
       /\ dotenv = NoKey /\ \A v \in Variables : environ[v] = NoKey)
  /\ RecommendInit /\ (part # "recommend" =>
       hardware = [cuda |-> FALSE, vram |-> Unknown, ram |-> Unknown, cpus |-> Unknown])

Moves(p) ==
  /\ part = p /\ UNCHANGED part
  /\ p # "sink" => UNCHANGED sinkVars
  /\ p # "hotkey" => UNCHANGED hotkeyVars
  /\ p # "wire" => UNCHANGED wireVars
  /\ p # "window" => UNCHANGED runControlVars
  /\ p # "keycheck" => UNCHANGED keyCheckVars
  /\ p # "engine" => UNCHANGED engineVars
  /\ p # "recommend" => UNCHANGED recommendVars

Next ==
  \/ Moves("sink") /\ SinkNext
  \/ Moves("hotkey") /\ HotkeyNext
  \/ Moves("wire") /\ WireNext
  \/ Moves("window") /\ RunControlNext
  \/ Moves("keycheck") /\ KeyCheckNext
  \/ Moves("engine") /\ EngineNext
  \/ Moves("recommend") /\ RecommendNext

\* The window polls from the start, so that its fairness is asked of the part
\* that moves only.
Spec ==
  /\ Init /\ [][Next]_vars
  /\ KeyCheckFair /\ WF_vars(Moves("recommend") /\ PollRecommendation)
=============================================================================
