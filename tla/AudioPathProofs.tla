-------------------------- MODULE AudioPathProofs --------------------------
(***************************************************************************)
(* The quiesce barrier, for every set of callbacks and any number of       *)
(* starts.  The counter of a barrier is the number of callbacks registered *)
(* at it; a barrier that is being drained, or has been, is closed for      *)
(* good; a drain succeeds at a count of 0, when nobody is inside, and      *)
(* after that nobody gets in.                                              *)
(***************************************************************************)
EXTENDS AudioPath, FiniteSetTheorems, TLAPS

\* A barrier is closed before it is drained and stays closed.
DrainedIsClosed ==
  /\ \A g \in drained : ~acceptingAudio[g]
  /\ life = "draining" => ~acceptingAudio[gen]

IInv == PathTypeOK /\ InflightExact /\ DrainedIsClosed /\ DrainedIsEmpty

\* A ring is released when its barrier has drained, and not before.
ReleasedIsDrained == released = drained

LEMMA RegisteredFinite ==
  \A g \in Gens : IsFiniteSet(Registered(g)) /\ Cardinality(Registered(g)) \in Nat
<1>1. ASSUME NEW g \in Gens PROVE Registered(g) \subseteq Producers
  BY DEF Registered
<1> QED BY <1>1, ProducersAssumption, FS_Subset, FS_CardinalityType

\* A callback that was not registered is counted.
LEMMA CountUp ==
  ASSUME PathTypeOK, InflightExact, NEW b \in Gens, NEW p \in Producers,
         p \notin Registered(b), Registered(b)' = Registered(b) \cup {p},
         \A g \in Gens : g # b => Registered(g)' = Registered(g),
         inflightFrames' = [inflightFrames EXCEPT ![b] = @ + 1]
  PROVE  InflightExact' /\ inflightFrames' \in [Gens -> Nat]
<1>1. inflightFrames \in [Gens -> Nat]
  BY DEF PathTypeOK
<1>2. ASSUME NEW g \in Gens PROVE inflightFrames'[g] = Cardinality(Registered(g)')
  <2>1. CASE g = b
    <3>1. Cardinality(Registered(b) \cup {p}) = Cardinality(Registered(b)) + 1
      BY RegisteredFinite, FS_AddElement
    <3> QED BY <1>1, <2>1, <3>1 DEF InflightExact
  <2>2. CASE g # b
    BY <1>1, <2>2 DEF InflightExact
  <2> QED BY <2>1, <2>2
<1>3. InflightExact'
  BY <1>2 DEF InflightExact, Gens
<1> QED BY <1>1, <1>3

\* A registered callback is withdrawn; the count was at least 1.
LEMMA CountDown ==
  ASSUME PathTypeOK, InflightExact, NEW b \in Gens, NEW p \in Producers,
         p \in Registered(b), Registered(b)' = Registered(b) \ {p},
         \A g \in Gens : g # b => Registered(g)' = Registered(g),
         inflightFrames' = [inflightFrames EXCEPT ![b] = @ - 1]
  PROVE  InflightExact' /\ inflightFrames' \in [Gens -> Nat]
<1>1. inflightFrames \in [Gens -> Nat]
  BY DEF PathTypeOK
<1>2. Cardinality(Registered(b) \ {p}) = Cardinality(Registered(b)) - 1
  BY RegisteredFinite, FS_RemoveElement
<1>3. Cardinality(Registered(b)) > 0
  BY RegisteredFinite, FS_EmptySet
<1>4. ASSUME NEW g \in Gens PROVE inflightFrames'[g] = Cardinality(Registered(g)')
  <2>1. CASE g = b
    BY <1>1, <1>2, <2>1 DEF InflightExact
  <2>2. CASE g # b
    BY <1>1, <2>2 DEF InflightExact
  <2> QED BY <2>1, <2>2
<1>5. InflightExact'
  BY <1>4 DEF InflightExact, Gens
<1>6. inflightFrames[b] - 1 \in Nat
  BY <1>1, <1>3 DEF InflightExact
<1> QED BY <1>1, <1>5, <1>6

\* Nobody is registered differently, and no count changes.
LEMMA CountSame ==
  ASSUME PathTypeOK, InflightExact, inflightFrames' = inflightFrames,
         \A g \in Gens : Registered(g)' = Registered(g)
  PROVE  InflightExact' /\ inflightFrames' \in [Gens -> Nat]
BY DEF PathTypeOK, InflightExact, Gens

LEMMA InitIInv == PathInit => IInv
<1> SUFFICES ASSUME PathInit PROVE IInv
  OBVIOUS
<1>1. PathTypeOK
  <2>1. 0 \in Gens
    BY MaxStartsAssumption DEF Gens
  <2>2. gen \in Gens /\ q \in [Producers -> Gens] /\ r \in [Producers -> Gens]
    BY <2>1 DEF PathInit
  <2>3. acceptingAudio \in [Gens -> BOOLEAN] /\ inflightFrames \in [Gens -> Nat]
    BY DEF PathInit
  <2>4. drained \subseteq Gens /\ released \subseteq Gens /\ live \in BOOLEAN
    BY DEF PathInit
  <2>5. pc \in [Producers -> {"idle", "has", "counted", "admitted", "checked", "pushing"}]
    BY DEF PathInit
  <2> QED BY <2>2, <2>3, <2>4, <2>5 DEF PathInit, PathTypeOK
<1>2. InflightExact
  <2>1. \A g \in Gens : Registered(g) = {}
    BY DEF PathInit, Registered
  <2> QED BY <2>1, FS_EmptySet DEF PathInit, InflightExact
<1>3. DrainedIsClosed /\ DrainedIsEmpty
  BY DEF PathInit, DrainedIsClosed, DrainedIsEmpty
<1> QED BY <1>1, <1>2, <1>3 DEF IInv

\* A step of a callback that leaves the counters alone.
LEMMA QuietStep ==
  ASSUME IInv, NEW p \in Producers,
         SnapshotBarrier(p) \/ CheckRunning(p) \/ SnapshotRing(p)
  PROVE  IInv'
<1> USE DEF IInv
<1>1. PathTypeOK'
  <2>1. CASE SnapshotBarrier(p)
    BY <2>1 DEF SnapshotBarrier, PathTypeOK, shared, bridge
  <2>2. CASE CheckRunning(p)
    BY <2>2 DEF CheckRunning, PathTypeOK, shared, bridge
  <2>3. CASE SnapshotRing(p)
    BY <2>3 DEF SnapshotRing, PathTypeOK, shared, bridge
  <2> QED BY <2>1, <2>2, <2>3
<1>2. inflightFrames' = inflightFrames /\ drained' = drained /\ acceptingAudio' = acceptingAudio
      /\ gen' = gen /\ life' = life
  BY DEF SnapshotBarrier, CheckRunning, SnapshotRing, shared, bridge
<1>3. \A g \in Gens : Registered(g)' = Registered(g) /\ Inside(g)' = Inside(g)
  <2>1. CASE SnapshotBarrier(p)
    BY <2>1 DEF SnapshotBarrier, PathTypeOK, Registered, Inside
  <2>2. CASE CheckRunning(p)
    BY <2>2 DEF CheckRunning, PathTypeOK, Registered, Inside
  <2>3. CASE SnapshotRing(p)
    BY <2>3 DEF SnapshotRing, PathTypeOK, Registered, Inside
  <2> QED BY <2>1, <2>2, <2>3
<1>4. InflightExact'
  BY <1>2, <1>3, CountSame
<1>5. DrainedIsClosed' /\ DrainedIsEmpty'
  BY <1>2, <1>3 DEF DrainedIsClosed, DrainedIsEmpty, PathTypeOK
<1> QED BY <1>1, <1>4, <1>5

\* producer_enter counts the callback before it looks at accepting_audio_.
LEMMA EnterStep ==
  ASSUME IInv, NEW p \in Producers, ProducerEnter(p) PROVE IInv'
<1> USE DEF IInv
<1>1. q[p] \in Gens /\ pc[p] = "has"
  BY DEF PathTypeOK, ProducerEnter
<1>2. p \notin Registered(q[p]) /\ Registered(q[p])' = Registered(q[p]) \cup {p}
  BY DEF PathTypeOK, ProducerEnter, Registered
<1>3. \A g \in Gens : g # q[p] => Registered(g)' = Registered(g)
  BY DEF PathTypeOK, ProducerEnter, Registered
<1>4. InflightExact' /\ inflightFrames' \in [Gens -> Nat]
  BY <1>1, <1>2, <1>3, CountUp DEF ProducerEnter
<1>5. PathTypeOK'
  BY <1>4 DEF ProducerEnter, PathTypeOK, bridge
<1>6. \A g \in Gens : Inside(g)' = Inside(g)
  BY DEF PathTypeOK, ProducerEnter, Inside
<1>7. DrainedIsClosed' /\ DrainedIsEmpty'
  BY <1>6 DEF DrainedIsClosed, DrainedIsEmpty, PathTypeOK, ProducerEnter, bridge
<1> QED BY <1>4, <1>5, <1>7

\* A callback that leaves, from wherever it is registered.
LEMMA LeaveStep ==
  ASSUME IInv, NEW p \in Producers,
         pc[p] \in {"counted", "admitted", "checked", "pushing"}, ProducerLeave(p)
  PROVE  IInv'
<1> USE DEF IInv
<1>1. q[p] \in Gens
  BY DEF PathTypeOK
<1>2. p \in Registered(q[p]) /\ Registered(q[p])' = Registered(q[p]) \ {p}
  BY DEF PathTypeOK, ProducerLeave, Registered
<1>3. \A g \in Gens : g # q[p] => Registered(g)' = Registered(g)
  BY DEF PathTypeOK, ProducerLeave, Registered
<1>4. InflightExact' /\ inflightFrames' \in [Gens -> Nat]
  BY <1>1, <1>2, <1>3, CountDown DEF ProducerLeave
<1>5. PathTypeOK'
  BY <1>4 DEF ProducerLeave, PathTypeOK, bridge
<1>6. \A g \in Gens : Inside(g)' \subseteq Inside(g)
  BY DEF PathTypeOK, ProducerLeave, Inside
<1>7. DrainedIsClosed' /\ DrainedIsEmpty'
  BY <1>6 DEF DrainedIsClosed, DrainedIsEmpty, PathTypeOK, ProducerLeave, bridge
<1> QED BY <1>4, <1>5, <1>7

\* The check lets a callback in only through an open barrier, and an open barrier
\* has not been drained.
LEMMA CheckStep ==
  ASSUME IInv, NEW p \in Producers, ProducerCheck(p) PROVE IInv'
<1> USE DEF IInv
<1>1. CASE ~acceptingAudio[q[p]]
  BY <1>1, LeaveStep DEF ProducerCheck, ProducerLeave
<1>2. CASE acceptingAudio[q[p]]
  <2>1. PathTypeOK'
    BY <1>2 DEF ProducerCheck, PathTypeOK, bridge
  <2>2. \A g \in Gens : Registered(g)' = Registered(g)
    BY <1>2 DEF ProducerCheck, PathTypeOK, Registered
  <2>3. InflightExact'
    BY <1>2, <2>2, CountSame DEF ProducerCheck
  <2>4. \A g \in Gens : g # q[p] => Inside(g)' = Inside(g)
    BY <1>2 DEF ProducerCheck, PathTypeOK, Inside
  <2>5. q[p] \notin drained
    BY <1>2 DEF DrainedIsClosed
  <2>6. DrainedIsClosed' /\ DrainedIsEmpty'
    BY <2>4, <2>5 DEF DrainedIsClosed, DrainedIsEmpty, PathTypeOK, ProducerCheck, bridge
  <2> QED BY <2>1, <2>3, <2>6
<1> QED BY <1>1, <1>2

LEMMA PushAudioStep ==
  ASSUME IInv, NEW p \in Producers, PushAudio(p) PROVE IInv'
<1>1. CASE SnapshotBarrier(p) \/ CheckRunning(p) \/ SnapshotRing(p)
  BY <1>1, QuietStep
<1>2. CASE ProducerEnter(p)
  BY <1>2, EnterStep
<1>3. CASE ProducerCheck(p)
  BY <1>3, CheckStep
<1>4. CASE NotRunning(p) \/ NoRing(p) \/ PushDone(p)
  BY <1>4, LeaveStep DEF NotRunning, NoRing, PushDone
<1> QED BY <1>1, <1>2, <1>3, <1>4 DEF PushAudio

\* A step of the bridge: no callback moves.
LEMMA LifecycleStep ==
  ASSUME IInv, Lifecycle PROVE IInv'
<1> USE DEF IInv
<1>1. PathTypeOK'
  <2>1. CASE Start
    BY <2>1, MaxStartsAssumption DEF Start, PathTypeOK, callback, Gens
  <2>2. CASE SessionUp \/ SessionDown \/ StopWithoutTeardown
    BY <2>2 DEF SessionUp, SessionDown, StopWithoutTeardown, PathTypeOK, shared, callback
  <2>3. CASE BeginQuiesce
    BY <2>3 DEF BeginQuiesce, PathTypeOK, callback
  <2>4. CASE Drain
    BY <2>4 DEF Drain, PathTypeOK, callback
  <2>5. CASE DrainTimeout
    BY <2>5 DEF DrainTimeout, PathTypeOK, shared, callback
  <2> QED BY <2>1, <2>2, <2>3, <2>4, <2>5 DEF Lifecycle
<1>2. inflightFrames' = inflightFrames /\ pc' = pc /\ q' = q
  BY DEF Lifecycle, Start, SessionUp, SessionDown, BeginQuiesce, StopWithoutTeardown,
         Drain, DrainTimeout, shared, callback
<1>3. \A g \in Gens : Registered(g)' = Registered(g) /\ Inside(g)' = Inside(g)
  BY <1>2 DEF Registered, Inside
<1>4. InflightExact'
  BY <1>2, <1>3, CountSame
<1>5. DrainedIsClosed'
  <2>1. CASE Start
    BY <2>1 DEF Start, DrainedIsClosed
  <2>2. CASE SessionUp \/ SessionDown \/ StopWithoutTeardown \/ DrainTimeout
    BY <2>2 DEF SessionUp, SessionDown, StopWithoutTeardown, DrainTimeout,
                DrainedIsClosed, shared
  <2>3. CASE BeginQuiesce
    BY <2>3 DEF BeginQuiesce, DrainedIsClosed, PathTypeOK
  <2>4. CASE Drain
    BY <2>4 DEF Drain, DrainedIsClosed
  <2> QED BY <2>1, <2>2, <2>3, <2>4 DEF Lifecycle
<1>6. DrainedIsEmpty'
  <2>1. CASE Drain
    <3>1. Registered(gen) = {}
      BY <2>1, RegisteredFinite, FS_EmptySet DEF Drain, InflightExact, PathTypeOK
    <3>2. Inside(gen) \subseteq Registered(gen)
      BY DEF Inside, Registered
    <3> QED BY <1>3, <2>1, <3>1, <3>2 DEF Drain, DrainedIsEmpty, PathTypeOK
  <2>2. CASE ~Drain
    <3>1. drained' = drained
      BY <2>2 DEF Lifecycle, Start, SessionUp, SessionDown, BeginQuiesce,
                  StopWithoutTeardown, DrainTimeout, shared
    <3> QED BY <1>3, <3>1 DEF DrainedIsEmpty, PathTypeOK
  <2> QED BY <2>1, <2>2
<1> QED BY <1>1, <1>4, <1>5, <1>6

LEMMA NextIInv == IInv /\ [PathNext]_pathVars => IInv'
<1> SUFFICES ASSUME IInv, [PathNext]_pathVars PROVE IInv'
  OBVIOUS
<1>1. ASSUME NEW p \in Producers, PushAudio(p) PROVE IInv'
  BY <1>1, PushAudioStep
<1>2. CASE Lifecycle
  BY <1>2, LifecycleStep
<1>3. CASE UNCHANGED pathVars
  BY <1>3 DEF pathVars, shared, bridge, callback, IInv, PathTypeOK, InflightExact,
              DrainedIsClosed, DrainedIsEmpty, Registered, Inside
<1> QED BY <1>1, <1>2, <1>3 DEF PathNext

\* However many callbacks there are and however often the bridge is started, every
\* return path of push_audio withdraws what it registered, so that the count the drain
\* waits for is the number of callbacks.  One that was between the count and the check
\* when the barrier was closed is either waited for or turned away: once the drain has
\* succeeded nobody is inside, and nobody comes in.
THEOREM DrainIsFinal == PathSpec => [](PathTypeOK /\ BarrierIsExact)
<1>1. IInv => PathTypeOK /\ BarrierIsExact
  BY DEF IInv, BarrierIsExact
<1> QED BY <1>1, InitIInv, NextIInv, PTL DEF PathSpec

LEMMA ReleasedInit == PathInit => ReleasedIsDrained
BY DEF PathInit, ReleasedIsDrained

LEMMA ReleasedNext == ReleasedIsDrained /\ [PathNext]_pathVars => ReleasedIsDrained'
<1> SUFFICES ASSUME ReleasedIsDrained, [PathNext]_pathVars PROVE ReleasedIsDrained'
  OBVIOUS
<1> USE DEF ReleasedIsDrained
<1>1. ASSUME NEW p \in Producers, PushAudio(p) PROVE ReleasedIsDrained'
  BY <1>1 DEF PushAudio, SnapshotBarrier, ProducerEnter, ProducerCheck, CheckRunning,
              NotRunning, SnapshotRing, NoRing, PushDone, ProducerLeave, shared
<1>2. CASE Start \/ Drain
  BY <1>2 DEF Start, Drain
<1>3. CASE SessionUp \/ SessionDown \/ BeginQuiesce \/ StopWithoutTeardown \/ DrainTimeout
  BY <1>3 DEF SessionUp, SessionDown, BeginQuiesce, StopWithoutTeardown, DrainTimeout, shared
<1>4. CASE UNCHANGED pathVars
  BY <1>4 DEF pathVars, shared
<1> QED BY <1>1, <1>2, <1>3, <1>4 DEF PathNext, Lifecycle

\* A callback inside the barrier of the ring it pushes into keeps release_audio_ring
\* waiting, however the bridge is started and stopped around it.  A callback that took
\* its two snapshots on both sides of a start() is not such a callback, and may push into
\* a ring that has been released (NoPushIntoReleasedRing does not hold).
THEOREM RingIsHeld == PathSpec => []OwnRingIsHeld
<1>1. PathInit => IInv /\ ReleasedIsDrained
  BY InitIInv, ReleasedInit
<1>2. IInv /\ ReleasedIsDrained /\ [PathNext]_pathVars => (IInv /\ ReleasedIsDrained)'
  BY NextIInv, ReleasedNext
<1>3. IInv /\ ReleasedIsDrained => OwnRingIsHeld
  <2> SUFFICES ASSUME IInv, ReleasedIsDrained,
                      NEW p \in Producers, pc[p] = "pushing", r[p] = q[p], r[p] \in released
               PROVE  FALSE
    BY DEF OwnRingIsHeld
  <2>1. p \in Inside(q[p])
    BY DEF Inside
  <2>2. q[p] \in drained
    BY DEF ReleasedIsDrained
  <2> QED BY <2>1, <2>2 DEF IInv, DrainedIsEmpty
<1> QED BY <1>1, <1>2, <1>3, PTL DEF PathSpec
=============================================================================
