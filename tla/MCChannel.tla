------------------------------ MODULE MCChannel ------------------------------
(***************************************************************************)
(* What OBS hands to the plugin on its way to the pipe, for TLC: the ring  *)
(* and the barrier of its owners, and the queue of requests.  The parts    *)
(* share no variable, so that a behaviour is that of one part; the others  *)
(* keep still.                                                             *)
(***************************************************************************)
EXTENDS SeqlockRing, AudioPath, OutQueue, TLC

\* A value is its two header words and one word of samples.
MCWords == {"seq", "marker", "samples"}

\* OBS calls filter_audio on one thread; two callbacks show that the barrier does
\* not depend on it.
CONSTANTS p1, p2
MCProducers == {p1, p2}

\* Two commands that are answered and the heartbeat.
MCCommands == {"start", "flush", "heartbeat"}

VARIABLE part \* the part this behaviour is about

vars == <<part, ringVars, pathVars, queueVars>>

Init == part \in {"ring", "path", "queue"} /\ RingInit /\ PathInit /\ QueueInit

Moves(p) ==
  /\ part = p /\ UNCHANGED part
  /\ p # "ring" => UNCHANGED ringVars
  /\ p # "path" => UNCHANGED pathVars
  /\ p # "queue" => UNCHANGED queueVars

Next ==
  \/ Moves("ring") /\ RingNext
  \/ Moves("path") /\ PathNext
  \/ Moves("queue") /\ QueueNext

\* A push that has begun runs to its end, and the writer thread keeps polling the
\* ring (1 ms sleeps) while the session runs; a part that keeps still has no callback
\* under way and nothing queued, so that the rest asks nothing of it.
Spec ==
  /\ Init /\ [][Next]_vars
  /\ WF_vars(Moves("ring") /\ ppc # "idle" /\ Push) /\ WF_vars(Moves("ring") /\ Pop)
  /\ PathFair /\ QueueFair
=============================================================================
