----------------------------- MODULE AudioPath -----------------------------
(***************************************************************************)
(* The path of an audio callback into the ring, and the barrier that       *)
(* drains it before the ring is released: IpcBridge::push_audio,           *)
(* ProducerQuiesce, and the parts of start and execute_teardown that       *)
(* create, drain and release the two shared objects.                       *)
(*                                                                         *)
(* Each start() makes a new generation of both objects, the barrier and    *)
(* the ring; generation 0 is the bridge constructor's.  push_audio takes   *)
(* its two snapshots at two different moments.                             *)
(***************************************************************************)
EXTENDS Naturals, FiniteSets

CONSTANTS
  Producers,  \* audio callbacks that may be in progress at once
  MaxStarts   \* bound on the number of calls of start()

ASSUME ProducersAssumption == IsFiniteSet(Producers)
ASSUME MaxStartsAssumption == MaxStarts \in Nat

VARIABLES
  gen,            \* generation of the objects quiesce_ and audio_ring_ point to
  acceptingAudio, \* accepting_audio_ of each barrier
  inflightFrames, \* inflight_frames_ of each barrier
  drained,        \* barriers whose drain has succeeded (history)
  released,       \* rings release_audio_ring has reset
  live,           \* running_ and session_running_
  life,           \* where the bridge is in its life
  terminal,       \* terminal_state_
  pc,             \* where each callback is in push_audio
  q,              \* generation of the callback's barrier
  r               \* generation of the callback's ring

shared   == <<gen, acceptingAudio, inflightFrames, drained, released>>
bridge   == <<live, life, terminal>>
callback == <<pc, q, r>>
pathVars == <<shared, bridge, callback>>

Gens == 0 .. MaxStarts

\* Callbacks between the registration and the withdrawal at barrier g.
Registered(g) == {p \in Producers : pc[p] \in {"counted", "admitted", "checked", "pushing"} /\ q[p] = g}

\* Callbacks that barrier g has let in.
Inside(g) == {p \in Producers : pc[p] \in {"admitted", "checked", "pushing"} /\ q[p] = g}

PathInit ==
  /\ gen = 0
  /\ acceptingAudio = [g \in Gens |-> TRUE]
  /\ inflightFrames = [g \in Gens |-> 0]
  /\ drained = {} /\ released = {}
  /\ live = FALSE /\ life = "stopped" /\ terminal = "none"
  /\ pc = [p \in Producers |-> "idle"]
  /\ q = [p \in Producers |-> 0] /\ r = [p \in Producers |-> 0]

----------------------------------------------------------------------------
(* push_audio, on the audio thread.                                        *)

SnapshotBarrier(p) ==
  /\ pc[p] = "idle"
  /\ pc' = [pc EXCEPT ![p] = "has"]
  /\ q' = [q EXCEPT ![p] = gen]
  /\ UNCHANGED <<shared, bridge, r>>

\* producer_enter, first half: count ...
ProducerEnter(p) ==
  /\ pc[p] = "has"
  /\ inflightFrames' = [inflightFrames EXCEPT ![q[p]] = @ + 1]
  /\ pc' = [pc EXCEPT ![p] = "counted"]
  /\ UNCHANGED <<gen, acceptingAudio, drained, released, bridge, q, r>>

\* Mutant: the callback that is let in although the barrier is closed.
ProducerCheckAdmits(p) ==
  /\ pc[p] = "counted"
  /\ pc' = [pc EXCEPT ![p] = "admitted"]
  /\ UNCHANGED <<shared, bridge, q, r>>

\* ... second half: then check, and withdraw if the barrier is closed.
ProducerCheck(p) ==
  /\ pc[p] = "counted"
  /\ IF acceptingAudio[q[p]]
       THEN /\ pc' = [pc EXCEPT ![p] = "admitted"]
            /\ UNCHANGED inflightFrames
       ELSE /\ pc' = [pc EXCEPT ![p] = "idle"]
            /\ inflightFrames' = [inflightFrames EXCEPT ![q[p]] = @ - 1]
  /\ UNCHANGED <<gen, acceptingAudio, drained, released, bridge, q, r>>

\* ~ScopeExit: producer_leave.
ProducerLeave(p) ==
  /\ inflightFrames' = [inflightFrames EXCEPT ![q[p]] = @ - 1]
  /\ pc' = [pc EXCEPT ![p] = "idle"]
  /\ UNCHANGED <<gen, acceptingAudio, drained, released, bridge, q, r>>

CheckRunning(p) ==
  /\ pc[p] = "admitted" /\ live
  /\ pc' = [pc EXCEPT ![p] = "checked"]
  /\ UNCHANGED <<shared, bridge, q, r>>

NotRunning(p) == pc[p] = "admitted" /\ ~live /\ ProducerLeave(p)

SnapshotRing(p) ==
  /\ pc[p] = "checked" /\ gen \notin released
  /\ pc' = [pc EXCEPT ![p] = "pushing"]
  /\ r' = [r EXCEPT ![p] = gen]
  /\ UNCHANGED <<shared, bridge, q>>

NoRing(p) == pc[p] = "checked" /\ gen \in released /\ ProducerLeave(p)

PushDone(p) == pc[p] = "pushing" /\ ProducerLeave(p)

PushAudio(p) ==
  \/ SnapshotBarrier(p) \/ ProducerEnter(p) \/ ProducerCheck(p)
  \/ CheckRunning(p) \/ NotRunning(p) \/ SnapshotRing(p) \/ NoRing(p) \/ PushDone(p)

----------------------------------------------------------------------------
(* The life of the bridge, as far as the audio path sees it.               *)

Start ==
  /\ life = "stopped" /\ gen < MaxStarts
  /\ gen' = gen + 1
  /\ life' = "starting" /\ terminal' = "none"
  /\ UNCHANGED <<acceptingAudio, inflightFrames, drained, released, live, callback>>

\* start_session: the child is up.
SessionUp ==
  /\ life \in {"starting", "backoff"}
  /\ live' = TRUE /\ life' = "up"
  /\ UNCHANGED <<shared, terminal, callback>>

\* execute_teardown for a restart: the ring and the barrier stay as they are.
SessionDown ==
  /\ life = "up"
  /\ live' = FALSE /\ life' = "backoff"
  /\ UNCHANGED <<shared, terminal, callback>>

\* Mutant: the drain starts without closing the barrier.
BeginQuiesceStillOpen ==
  /\ life \in {"starting", "up", "backoff"}
  /\ live' = FALSE /\ life' = "draining"
  /\ UNCHANGED <<shared, terminal, callback>>

\* stop() before the supervisor's last reading of desired_ in a teardown:
\* execute_teardown for a destroy, whose last part is begin_quiesce_and_wait.
BeginQuiesce ==
  /\ life \in {"starting", "up", "backoff"}
  /\ live' = FALSE /\ life' = "draining"
  /\ acceptingAudio' = [acceptingAudio EXCEPT ![gen] = FALSE]
  /\ UNCHANGED <<gen, inflightFrames, drained, released, terminal, callback>>

\* stop() while the supervisor sleeps before a restart, or before its first
\* iteration: run_session_loop ends without a teardown.
StopWithoutTeardown ==
  /\ life \in {"starting", "backoff"}
  /\ live' = FALSE /\ life' = "stopped"
  /\ UNCHANGED <<shared, terminal, callback>>

\* Mutant: the ring is released without waiting.
DrainAtOnce ==
  /\ life = "draining"
  /\ drained' = drained \cup {gen}
  /\ released' = released \cup {gen}
  /\ life' = "stopped" /\ terminal' = "inactive"
  /\ UNCHANGED <<gen, acceptingAudio, inflightFrames, live, callback>>

\* The wait observes no callback in flight: release_audio_ring, INACTIVE.
Drain ==
  /\ life = "draining" /\ inflightFrames[gen] = 0
  /\ drained' = drained \cup {gen}
  /\ released' = released \cup {gen}
  /\ life' = "stopped" /\ terminal' = "inactive"
  /\ UNCHANGED <<gen, acceptingAudio, inflightFrames, live, callback>>

\* The wait reaches its deadline: the ring is kept, mark_degraded.
DrainTimeout ==
  /\ life = "draining" /\ inflightFrames[gen] # 0
  /\ life' = "stopped" /\ terminal' = "degraded"
  /\ UNCHANGED <<shared, live, callback>>

Lifecycle ==
  Start \/ SessionUp \/ SessionDown \/ BeginQuiesce \/ StopWithoutTeardown \/ Drain \/ DrainTimeout

PathNext == (\E p \in Producers : PushAudio(p)) \/ Lifecycle

PathSpec == PathInit /\ [][PathNext]_pathVars

\* A callback that has begun runs to its end: nothing in push_audio blocks.
PathFair == \A p \in Producers : WF_pathVars(pc[p] # "idle" /\ PushAudio(p))

----------------------------------------------------------------------------
\* Barriers and rings exist per generation, and no count of callbacks underflows.
PathTypeOK ==
  /\ gen \in Gens
  /\ acceptingAudio \in [Gens -> BOOLEAN] /\ inflightFrames \in [Gens -> Nat]
  /\ drained \subseteq Gens /\ released \subseteq Gens
  /\ live \in BOOLEAN
  /\ life \in {"stopped", "starting", "up", "backoff", "draining"}
  /\ terminal \in {"none", "inactive", "degraded"}
  /\ pc \in [Producers -> {"idle", "has", "counted", "admitted", "checked", "pushing"}]
  /\ q \in [Producers -> Gens] /\ r \in [Producers -> Gens]

\* Every return path of push_audio withdraws exactly what it registered: a
\* leaked count would make every later drain time out, a missing one would let
\* the ring go under a callback.
InflightExact == \A g \in Gens : inflightFrames[g] = Cardinality(Registered(g))

\* Count-then-check closes the race of a callback with the drain: no callback is
\* inside a barrier that has drained, not even one that read accepting_audio_
\* before it was cleared, and none gets in later.
DrainedIsEmpty == \A g \in drained : Inside(g) = {}

\* The drain may go by the count, and by a single look at it: the count is that of
\* the callbacks, and what was once found drained stays empty.
BarrierIsExact == InflightExact /\ DrainedIsEmpty

\* A callback pushes into the ring that belongs to its barrier only while the ring
\* is there: release_audio_ring waits for it, in whatever step the drain finds it.
OwnRingIsHeld ==
  \A p \in Producers : pc[p] = "pushing" /\ r[p] = q[p] => r[p] \notin released

\* docs/OBS_PLUGIN_IPC.md:205: the ring is released only once no callback is in
\* flight, so no callback pushes into a ring that has been released.
NoPushIntoReleasedRing ==
  \A p \in Producers : pc[p] = "pushing" => r[p] \notin released

\* Once a barrier is closed it empties for good, as long as the callbacks already
\* begun run to their ends: the drain waits for a finite number of them, however
\* often new callbacks arrive.
ClosedBarrierEmpties ==
  \A g \in Gens : ~acceptingAudio[g] ~> [](Inside(g) = {})
=============================================================================
