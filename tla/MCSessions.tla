----------------------------- MODULE MCSessions -----------------------------
(***************************************************************************)
(* What outlives a session of the bridge, for TLC: the threads and the     *)
(* child left when a second start() follows, and the captions on their way *)
(* when the epoch advances.  A behaviour is that of the bridge or of the   *)
(* gate; the other keeps still.                                            *)
(***************************************************************************)
EXTENDS IpcBridge, EpochGate, FiniteSets

VARIABLE part \* the part this behaviour is about

MCInit == part \in {"bridge", "gate"} /\ Init /\ GateInit

MCNext ==
  /\ UNCHANGED part
  /\ \/ part = "bridge" /\ Next /\ UNCHANGED gateVars
     \/ part = "gate" /\ GateNext /\ UNCHANGED vars

\* Of the three threads that the first start may leave behind, two at most meet the
\* second: they share nothing but what each shares with the bridge.
Left == {<<r, s>> \in Roles \X Sessions : Earlier(s) /\ Alive(r, s)}
TwoAreLeft == starts = 2 => Cardinality(Left) <= 2

MCSpec == MCInit /\ [][MCNext]_<<part, vars, gateVars>>
=============================================================================
