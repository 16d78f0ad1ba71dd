----------------------------- MODULE MCSidecar -----------------------------
(***************************************************************************)
(* The sidecar and the clocks by which the plugin waits for it, for TLC.   *)
(* A behaviour is that of one of them; the other keeps still.              *)
(***************************************************************************)
EXTENDS Sidecar, SessionTiming

VARIABLE part \* the part this behaviour is about

MCInit == part \in {"sidecar", "clocks"} /\ Init /\ ClocksInit

MCNext ==
  /\ UNCHANGED part
  /\ \/ part = "sidecar" /\ Next /\ UNCHANGED clocksVars
     \/ part = "clocks" /\ ClocksNext /\ UNCHANGED vars

\* The coroutines have nothing to do before anything is read, so that this asks
\* nothing of a sidecar that keeps still.
MCSpec == MCInit /\ [][MCNext]_<<part, vars, clocksVars>> /\ CoroutinesFair
=============================================================================
