--------------------------- MODULE IpcBridgeProofs ---------------------------
(***************************************************************************)
(* The bridge's life cycle for every number of starts, sessions and        *)
(* teardowns: sessions keep apart, stop() leaves nothing behind, a destroy *)
(* is final and a degraded bridge spawns nothing until start() is called.  *)
(*                                                                         *)
(* The argument is about ownership.  A thread that runs is held by its     *)
(* handle, unless the bridge is degraded or was when start() was called; a *)
(* handle is of the session spawned last; and where the supervisor spawns, *)
(* no handle is held.  So whatever thread acts on a session that is up is  *)
(* that session's own, or was left behind before the last start().         *)
(***************************************************************************)
EXTENDS IpcBridge, TLAPS

\* Where the supervisor holds no thread, where a degraded one can be, where a
\* session may serve, where the active epoch is not yet torn down.
Free     == {"off", "loop", "try", "spawn", "final", "rearm", "rearmed", "backoff", "finish", "lastjoin", "done"}
Ended    == {"off", "join", "final", "finish", "lastjoin", "done"}
ServingPlaces == {"hello", "await", "giveup", "failed", "check", "waiting", "dozing", "blocked", "teardown"}
EpochPlaces   == ServingPlaces \cup {"try", "spawn", "announce"}

\* The session spawned last is up and nothing has given up on it: in "check" the
\* supervisor is also without a session, but then desired_ is not Run.
Current ==
  \/ sup \in {"announce", "hello", "await", "waiting", "dozing", "blocked"}
  \/ sup = "check" /\ desired = "run"

\* Zero is a number of starts, sessions and epochs.
LEMMA Zeros ==
  /\ 0 \in 0 .. MaxStarts /\ 0 \in 0 .. MaxEpoch + 1 /\ 0 \in 0 .. MaxSessions
  /\ \A n \in 0 .. MaxSessions : 0 \in 0 .. n
  BY StartsAssumption, SessionsAssumption, EpochAssumption

\* TypeOK, with handle as a function.
Typed ==
  /\ desired \in {"run", "restart", "destroy"}
  /\ terminal \in {"none", "inactive", "degraded"}
  /\ noRespawn \in BOOLEAN /\ running \in BOOLEAN /\ serving \in BOOLEAN
  /\ ready \in BOOLEAN /\ greeted \in BOOLEAN
  /\ unheard \in BOOLEAN
  /\ session \in 0 .. MaxSessions /\ starts \in 0 .. MaxStarts /\ before \in 0 .. session
  /\ child \in 0 .. session /\ readyBy \in 0 .. session
  /\ handle \in [Roles -> 0 .. MaxSessions]
  /\ epoch \in 0 .. MaxEpoch + 1
  /\ readerEpoch \in [Sessions -> 0 .. MaxEpoch + 1]
  /\ exited \in [Roles -> BOOLEAN]
  /\ worker \in [Roles -> [Sessions -> WorkerPlaces]]
  /\ \A r \in Roles, s \in Sessions : s > session => worker[r][s] = "none"
  /\ sup \in SupervisorPlaces /\ host \in HostPlaces

HandlesFit ==
  /\ sup \in Free => AllJoined
  /\ \A r \in Roles : handle[r] \in {NoSession, session}

OwnedOrLeft ==
  \A r \in Roles, s \in Sessions :
    Alive(r, s) => handle[r] = s \/ terminal = "degraded" \/ Earlier(s)

PlacesFit ==
  /\ terminal = "degraded" => noRespawn /\ sup \in Ended
  /\ serving => sup \in ServingPlaces
  /\ host = "idle" <=> sup = "off"
  /\ sup \in {"lastjoin", "done", "off"} => child = NoSession

EpochFits ==
  /\ sup \in EpochPlaces => epoch <= MaxEpoch
  /\ sup = "loop" => epoch <= MaxEpoch \/ desired = "destroy"

ReadyFits ==
  /\ sup = "spawn" /\ ready => Earlier(readyBy)
  /\ Current =>
       /\ ready /\ ~Earlier(readyBy) => readyBy = session /\ readerEpoch[session] = epoch
       /\ worker["reader"][session] \notin {"none", "new"} => readerEpoch[session] = epoch

IInv == Typed /\ HandlesFit /\ OwnedOrLeft /\ PlacesFit /\ EpochFits /\ ReadyFits

LEMMA InitIInv == Init => IInv
<1> SUFFICES ASSUME Init PROVE IInv
  OBVIOUS
<1> USE Zeros DEF Init
<1>1. Typed
  <2>1. /\ session \in 0 .. MaxSessions /\ starts \in 0 .. MaxStarts /\ before \in 0 .. session
        /\ child \in 0 .. session /\ readyBy \in 0 .. session /\ epoch \in 0 .. MaxEpoch + 1
    BY DEF NoSession
  <2>2. /\ handle \in [Roles -> 0 .. MaxSessions]
        /\ readerEpoch \in [Sessions -> 0 .. MaxEpoch + 1]
    BY DEF NoSession
  <2>3. /\ exited \in [Roles -> BOOLEAN]
        /\ worker \in [Roles -> [Sessions -> WorkerPlaces]]
        /\ \A r \in Roles, s \in Sessions : s > session => worker[r][s] = "none"
    BY DEF WorkerPlaces
  <2> QED
    BY <2>1, <2>2, <2>3 DEF Typed, SupervisorPlaces, HostPlaces
<1>2. HandlesFit /\ OwnedOrLeft
  BY DEF HandlesFit, OwnedOrLeft, Earlier, AllJoined, Alive, NoSession
<1>4. PlacesFit
  BY DEF PlacesFit
<1>3. EpochFits /\ ReadyFits
  BY DEF EpochFits, ReadyFits, Current, EpochPlaces, ServingPlaces
<1> QED
  BY <1>1, <1>2, <1>3, <1>4 DEF IInv

LEMMA InvariantTypes == IInv => TypeOK
<1> SUFFICES ASSUME IInv PROVE TypeOK
  OBVIOUS
<1>1. Typed /\ \A r \in Roles : handle[r] \in 0 .. session
  BY SessionsAssumption DEF IInv, HandlesFit, Typed, NoSession
<1>2. {child, readyBy} \cup {handle[r] : r \in Roles} \subseteq 0 .. session
  BY <1>1 DEF Typed
<1>3. {noRespawn, running, serving, ready, greeted, unheard} \subseteq BOOLEAN
  BY <1>1 DEF Typed
<1> QED
  BY <1>1, <1>2, <1>3 DEF Typed, TypeOK

----------------------------------------------------------------------------
(* The threads of a session.                                               *)

\* What a step of a thread may do.  Only a reader's first step stamps its epoch,
\* and only a reader that holds a READY sets the session ready.
ThreadStep(r, s) ==
  /\ Alive(r, s)
  /\ \E pc \in WorkerPlaces \ {"none", "new"} : At(r, s, pc)
  /\ IF worker[r][s] = "new" THEN r = "reader" /\ readerEpoch' = [readerEpoch EXCEPT ![s] = epoch]
                             ELSE UNCHANGED readerEpoch
  /\ \/ UNCHANGED <<ready, readyBy>>
     \/ ready' = TRUE /\ readyBy' = s /\ r = "reader" /\ worker[r][s] = "ready"
  /\ \/ UNCHANGED desired
     \/ desired # "destroy" /\ desired' = "restart"
  /\ sup' = sup \/ (sup = "blocked" /\ sup' = "waiting")
  /\ exited' \in [Roles -> BOOLEAN] /\ unheard' \in BOOLEAN
  /\ UNCHANGED <<noRespawn, terminal, running, serving, epoch, process, handle, host, starts, before>>

LEMMA WorkerIsThreadStep ==
  ASSUME Typed, NEW r \in Roles, NEW s \in Sessions, Worker(r, s)
  PROVE  ThreadStep(r, s)
<1> USE DEF Typed, ThreadStep, Alive, At, WorkerPlaces, intent, state, process, calls, Roles
<1>1. CASE Loop(r, s)
  BY <1>1 DEF Loop
<1>2. CASE IoDone(r, s)
  BY <1>2 DEF IoDone
<1>3. CASE IoFails(r, s)
  BY <1>3 DEF IoFails, RequestRestart, Notify, Woken
<1>4. CASE Exit(r, s)
  BY <1>4 DEF Exit, Notify, Woken
<1>5. CASE r = "reader" /\ ReaderBegin(s)
  BY <1>5 DEF ReaderBegin
<1>6. CASE r = "reader" /\ GatePass(s)
  BY <1>6 DEF GatePass
<1>7. CASE r = "reader" /\ ApplyReady(s)
  BY <1>7 DEF ApplyReady
<1>8. CASE r = "reader" /\ ApplyStatus(s)
  BY <1>8 DEF ApplyStatus, RequestRestart, Notify, Woken
<1> QED
  BY <1>1, <1>2, <1>3, <1>4, <1>5, <1>6, <1>7, <1>8 DEF Worker

\* A thread of this start() that runs where the bridge is not degraded is the
\* current session's.
LEMMA RunningIsCurrent ==
  ASSUME IInv, NEW r \in Roles, NEW s \in Sessions, Alive(r, s), terminal # "degraded", ~Earlier(s)
  PROVE  handle[r] = s /\ s = session /\ sup \notin Free
<1>1. handle[r] = s
  BY DEF IInv, OwnedOrLeft
<1>2. handle[r] # NoSession
  BY <1>1 DEF Sessions, NoSession
<1> QED
  BY <1>1, <1>2 DEF IInv, HandlesFit, AllJoined

LEMMA ThreadKeepsIInv ==
  ASSUME IInv, NEW r \in Roles, NEW s \in Sessions, ThreadStep(r, s)
  PROVE  IInv'
<1> USE DEF IInv
<1>1. PICK pc \in WorkerPlaces \ {"none", "new"} : At(r, s, pc)
  BY DEF ThreadStep
<1>2. /\ worker' \in [Roles -> [Sessions -> WorkerPlaces]]
      /\ \A q \in Roles, t \in Sessions :
           worker'[q][t] = IF q = r /\ t = s THEN pc ELSE worker[q][t]
  BY <1>1 DEF At, Typed
<1>3. s <= session
  <2>1. worker[r][s] # "none"
    BY DEF ThreadStep, Alive
  <2> QED
    BY <2>1 DEF Typed, Sessions
<1>12. session \in Sessions
  BY <1>3, SessionsAssumption DEF Typed, Sessions
<1>4. UNCHANGED <<noRespawn, terminal, running, serving, epoch, session, child, greeted, handle, host, starts, before>>
  BY DEF ThreadStep, process
<1>5. Typed'
  <2>1. readerEpoch' \in [Sessions -> 0 .. MaxEpoch + 1] /\ exited' \in [Roles -> BOOLEAN]
    BY DEF ThreadStep, Typed
  <2>2. ready' \in BOOLEAN /\ readyBy' \in 0 .. session
    <3>1. s \in 0 .. session
      BY <1>3, SessionsAssumption DEF Typed, Sessions
    <3> QED
      BY <3>1 DEF ThreadStep, Typed
  <2>3. desired' \in {"run", "restart", "destroy"} /\ sup' \in SupervisorPlaces /\ unheard' \in BOOLEAN
    BY DEF ThreadStep, Typed, SupervisorPlaces
  <2>4. \A q \in Roles, t \in Sessions : t > session => worker'[q][t] = "none"
    BY <1>2, <1>3 DEF Typed, Sessions
  <2> QED
    BY <1>2, <1>4, <2>1, <2>2, <2>3, <2>4 DEF Typed
<1>6. sup' = sup \/ (sup = "blocked" /\ sup' = "waiting")
  BY DEF ThreadStep
<1>7. HandlesFit'
  BY <1>4, <1>6 DEF HandlesFit, AllJoined, Free
<1>8. OwnedOrLeft'
  <2> SUFFICES ASSUME NEW q \in Roles, NEW t \in Sessions, Alive(q, t)'
               PROVE  handle'[q] = t \/ terminal' = "degraded" \/ Earlier(t)'
    BY DEF OwnedOrLeft
  <2>1. Alive(q, t)
    BY <1>2 DEF Alive, ThreadStep
  <2> QED
    BY <1>4, <2>1 DEF OwnedOrLeft, Earlier
<1>9. PlacesFit'
  BY <1>4, <1>6 DEF PlacesFit, Ended, ServingPlaces
<1>10. EpochFits'
  BY <1>4, <1>6 DEF EpochFits, EpochPlaces, ServingPlaces, ThreadStep
<1>11. ReadyFits'
  <2>1. CASE terminal = "degraded"
    BY <2>1, <1>6 DEF PlacesFit, Ended, ReadyFits, Current
  <2>2. CASE terminal # "degraded"
    <3>1. Earlier(s) \/ (s = session /\ sup \notin Free)
      BY <2>2, RunningIsCurrent DEF ThreadStep
    <3>3. sup' = "spawn" /\ ready' => Earlier(readyBy)'
      BY <1>4, <1>6, <3>1 DEF ThreadStep, Earlier, ReadyFits, Free
    <3>4. Current' => Current
      BY <1>6 DEF Current, ThreadStep
    <3>5. ASSUME Current, worker'["reader"][session] \notin {"none", "new"}
          PROVE  readerEpoch'[session] = epoch
      <4>1. CASE r = "reader" /\ s = session
        BY <3>5, <4>1 DEF ThreadStep, ReadyFits, Typed, Alive
      <4>2. CASE ~(r = "reader" /\ s = session)
        <5>1. worker'["reader"][session] = worker["reader"][session]
          BY <4>2, <1>2, <1>12 DEF Roles
        <5>2. readerEpoch'[session] = readerEpoch[session]
          <6>1. CASE worker[r][s] = "new"
            BY <4>2, <6>1, <1>12 DEF ThreadStep, Typed
          <6>2. CASE worker[r][s] # "new"
            BY <6>2 DEF ThreadStep
          <6> QED
            BY <6>1, <6>2
        <5> QED
          BY <3>5, <5>1, <5>2 DEF ReadyFits
      <4> QED
        BY <4>1, <4>2
    <3>6. ASSUME Current, ready', ~Earlier(readyBy)'
          PROVE  readyBy' = session /\ readerEpoch'[session] = epoch
      <4>1. CASE UNCHANGED <<ready, readyBy>>
        <5>1. readyBy = session /\ readerEpoch[session] = epoch
          BY <3>6, <4>1, <1>4 DEF ReadyFits, Earlier
        <5>2. readerEpoch'[session] = readerEpoch[session] \/ readerEpoch'[session] = epoch
          <6>1. CASE worker[r][s] = "new"
            BY <6>1, <1>12 DEF ThreadStep, Typed
          <6>2. CASE worker[r][s] # "new"
            BY <6>2 DEF ThreadStep
          <6> QED
            BY <6>1, <6>2
        <5> QED
          BY <4>1, <5>1, <5>2
      <4>2. CASE ready' = TRUE /\ readyBy' = s /\ r = "reader" /\ worker[r][s] = "ready"
        <5>1. ~Earlier(s)
          BY <3>6, <4>2, <1>4 DEF Earlier
        <5>2. s = session
          BY <3>1, <5>1
        <5>3. readerEpoch[session] = epoch /\ UNCHANGED readerEpoch
          BY <3>6, <4>2, <5>2 DEF ReadyFits, ThreadStep
        <5> QED
          BY <4>2, <5>2, <5>3
      <4> QED
        BY <4>1, <4>2 DEF ThreadStep
    <3> QED
      BY <1>4, <3>3, <3>4, <3>5, <3>6 DEF ReadyFits
  <2> QED
    BY <2>1, <2>2
<1> QED
  BY <1>5, <1>7, <1>8, <1>9, <1>10, <1>11

----------------------------------------------------------------------------
(* The supervisor.                                                         *)

\* Steps that move the supervisor alone, or it and desired_.
SupervisorMoves ==
  \/ LoopTest \/ SkipSession \/ SpawnFails \/ HelloFails \/ NotReady \/ GiveUp \/ SessionFailed
  \/ CheckRun \/ WaitTest \/ WaitBlock \/ Decide \/ Rearm \/ AfterTeardown \/ Backoff \/ SupervisorEnds

LEMMA MoveKeepsIInv ==
  ASSUME IInv, SupervisorMoves
  PROVE  IInv'
<1> USE DEF IInv
<1>1. /\ desired' \in {"run", "restart", "destroy"} /\ sup' \in SupervisorPlaces
      /\ UNCHANGED <<noRespawn, terminal, running, serving, ready, readyBy, epoch, session, child,
                     greeted, exited, handle, worker, readerEpoch, unheard, host, starts, before>>
  BY DEF SupervisorMoves, LoopTest, SkipSession, SpawnFails, HelloFails, NotReady, GiveUp, SessionFailed, CheckRun,
         WaitTest, WaitBlock, Decide, Rearm, AfterTeardown, Backoff, SupervisorEnds, Typed, SupervisorPlaces,
         intent, state, process, threads, calls
<1>2. Typed'
  BY <1>1 DEF Typed
<1>3. HandlesFit'
  <2>1. sup' \in Free => AllJoined
    BY DEF SupervisorMoves, LoopTest, SkipSession, SpawnFails, HelloFails, NotReady, GiveUp, SessionFailed, CheckRun,
           WaitTest, WaitBlock, Decide, Rearm, AfterTeardown, Backoff, SupervisorEnds, HandlesFit, Free
  <2> QED
    BY <1>1, <2>1 DEF HandlesFit, AllJoined
<1>4. OwnedOrLeft'
  BY <1>1 DEF OwnedOrLeft, Alive, Earlier
<1>5. PlacesFit'
  <2>1. /\ terminal = "degraded" => sup' \in Ended
        /\ serving => sup' \in ServingPlaces
        /\ host = "idle" <=> sup' = "off"
        /\ sup' \in {"lastjoin", "done", "off"} => child = NoSession
    BY DEF SupervisorMoves, LoopTest, SkipSession, SpawnFails, HelloFails, NotReady, GiveUp, SessionFailed, CheckRun,
           WaitTest, WaitBlock, Decide, Rearm, AfterTeardown, Backoff, SupervisorEnds, PlacesFit, Ended, ServingPlaces
  <2> QED
    BY <1>1, <2>1 DEF PlacesFit
<1>6. EpochFits'
  <2>1. /\ sup' \in EpochPlaces => epoch <= MaxEpoch
        /\ sup' = "loop" => epoch <= MaxEpoch \/ desired' = "destroy"
    BY EpochAssumption
    DEF SupervisorMoves, LoopTest, SkipSession, SpawnFails, HelloFails, NotReady, GiveUp, SessionFailed, CheckRun,
        WaitTest, WaitBlock, Decide, Rearm, AfterTeardown, Backoff, SupervisorEnds, EpochFits, EpochPlaces,
        ServingPlaces, Typed, intent
  <2> QED
    BY <1>1, <2>1 DEF EpochFits
<1>7. ReadyFits'
  <2>1. sup' # "spawn" /\ (Current' => Current)
    BY DEF SupervisorMoves, LoopTest, SkipSession, SpawnFails, HelloFails, NotReady, GiveUp, SessionFailed, CheckRun,
           WaitTest, WaitBlock, Decide, Rearm, AfterTeardown, Backoff, SupervisorEnds, Current, intent
  <2> QED
    BY <1>1, <2>1 DEF ReadyFits, Earlier
<1> QED
  BY <1>2, <1>3, <1>4, <1>5, <1>6, <1>7

\* Where no handle is held and the bridge is not degraded, no thread of this
\* start() runs.
LEMMA NobodyRuns ==
  ASSUME IInv, sup \in Free, terminal # "degraded", NEW r \in Roles, NEW s \in Sessions, ~Earlier(s)
  PROVE  ~Alive(r, s)
  BY RunningIsCurrent

LEMMA BeginKeepsIInv ==
  ASSUME IInv, BeginSession
  PROVE  IInv'
<1> USE DEF IInv
<1>1. CASE noRespawn
  BY <1>1 DEF BeginSession, Typed, HandlesFit, OwnedOrLeft, Earlier, PlacesFit, EpochFits, ReadyFits, Current, AllJoined, Alive,
              Free, Ended, ServingPlaces, EpochPlaces, SupervisorPlaces, intent, state, process, threads, calls
<1>2. CASE ~noRespawn
  <2>1. /\ sup = "try" /\ sup' = "spawn" /\ serving' = FALSE /\ ready' = FALSE
        /\ epoch' = (IF epoch = 0 THEN 1 ELSE epoch)
        /\ UNCHANGED <<desired, noRespawn, terminal, running, readyBy, session, child, greeted,
                       exited, handle, worker, readerEpoch, unheard, host, starts, before>>
    BY <1>2 DEF BeginSession, intent, process, threads, calls
  <2>2. epoch' \in 0 .. MaxEpoch + 1 /\ epoch' <= MaxEpoch
    BY <2>1, EpochAssumption DEF Typed, EpochFits, EpochPlaces
  <2>3. Typed'
    BY <2>1, <2>2 DEF Typed, SupervisorPlaces
  <2>4. HandlesFit' /\ OwnedOrLeft'
    BY <2>1 DEF HandlesFit, OwnedOrLeft, Earlier, AllJoined, Alive, Free
  <2>5. PlacesFit' /\ ReadyFits'
    BY <2>1 DEF PlacesFit, ReadyFits, Current, Ended, ServingPlaces
  <2> QED
    BY <2>1, <2>2, <2>3, <2>4, <2>5 DEF EpochFits
<1> QED
  BY <1>1, <1>2

LEMMA SpawnKeepsIInv ==
  ASSUME IInv, Spawn
  PROVE  IInv'
<1> USE DEF IInv
<1> DEFINE new == session + 1
<1>1. /\ sup = "spawn" /\ sup' = "announce" /\ session' = new /\ child' = new /\ greeted' = FALSE
      /\ exited' = [exited EXCEPT !["reader"] = FALSE]
      /\ handle' = [handle EXCEPT !["reader"] = new]
      /\ worker' = [worker EXCEPT !["reader"][new] = "new"]
      /\ UNCHANGED <<desired, noRespawn, terminal, running, serving, ready, readyBy, epoch, readerEpoch, unheard,
                     host, starts, before>>
  BY DEF Spawn, At, intent, state, calls
<1>2. new \in Sessions /\ new \in 0 .. MaxSessions /\ new # NoSession /\ session \in 0 .. new
  BY SessionsAssumption DEF Spawn, Typed, Sessions, NoSession
<1>3. terminal # "degraded" /\ AllJoined /\ (ready => Earlier(readyBy)) /\ ~serving
  BY <1>1 DEF PlacesFit, HandlesFit, ReadyFits, Ended, Free, ServingPlaces
<1>4. /\ worker' \in [Roles -> [Sessions -> WorkerPlaces]] /\ worker'["reader"][new] = "new"
      /\ \A r \in Roles, s \in Sessions : r # "reader" \/ s # new => worker'[r][s] = worker[r][s]
  BY <1>1, <1>2 DEF Typed, WorkerPlaces, Roles
<1>5. /\ handle' \in [Roles -> 0 .. MaxSessions] /\ handle'["reader"] = new
      /\ \A r \in Roles : r # "reader" => handle'[r] = NoSession
  BY <1>1, <1>2, <1>3 DEF Typed, Roles, AllJoined
<1>6. Typed'
  <2>1. child' \in 0 .. session' /\ readyBy' \in 0 .. session'
    BY <1>1, <1>2 DEF Typed
  <2>4. before' \in 0 .. session'
    BY <1>1, SessionsAssumption DEF Typed
  <2>2. \A r \in Roles, s \in Sessions : s > session' => worker'[r][s] = "none"
    BY <1>1, <1>2, <1>4 DEF Typed, Sessions
  <2>3. exited' \in [Roles -> BOOLEAN]
    BY <1>1 DEF Typed
  <2> QED
    BY <1>1, <1>2, <1>4, <1>5, <2>1, <2>2, <2>3, <2>4 DEF Typed, SupervisorPlaces
<1>7. HandlesFit'
  BY <1>1, <1>5 DEF HandlesFit, Free
<1>8. OwnedOrLeft'
  <2> SUFFICES ASSUME NEW r \in Roles, NEW s \in Sessions, Alive(r, s)', ~Earlier(s)
               PROVE  handle'[r] = s
    BY <1>1 DEF OwnedOrLeft, Earlier
  <2>1. ~Alive(r, s)
    BY <1>1, <1>3, NobodyRuns DEF Free
  <2>2. r = "reader" /\ s = new
    BY <1>4, <2>1 DEF Alive
  <2> QED
    BY <1>5, <2>2
<1>9. PlacesFit' /\ EpochFits'
  BY <1>1, <1>3 DEF PlacesFit, EpochFits, Ended, EpochPlaces
<1>10. ReadyFits'
  BY <1>1, <1>3, <1>4 DEF ReadyFits, Earlier
<1> QED
  BY <1>6, <1>7, <1>8, <1>9, <1>10

LEMMA LaunchKeepsIInv ==
  ASSUME IInv, Launch
  PROVE  IInv'
<1> USE DEF IInv
<1>1. /\ sup = "await" /\ sup' = "check"
      /\ handle' = [handle EXCEPT !["writer"] = session, !["heartbeat"] = session]
      /\ worker' = [worker EXCEPT !["writer"][session] = "top", !["heartbeat"][session] = "top"]
      /\ exited' = [exited EXCEPT !["writer"] = FALSE, !["heartbeat"] = FALSE]
      /\ UNCHANGED <<desired, noRespawn, terminal, running, serving, ready, readyBy, epoch,
                     session, child, greeted, readerEpoch, unheard, host, starts, before>>
  BY DEF Launch, intent, state, process, calls
<1>2. terminal # "degraded"
  BY <1>1 DEF PlacesFit, Ended
<1>3. /\ worker' \in [Roles -> [Sessions -> WorkerPlaces]] /\ worker'["reader"] = worker["reader"]
      /\ \A r \in Roles, s \in Sessions : s # session => worker'[r][s] = worker[r][s]
  BY <1>1 DEF Typed, WorkerPlaces, Roles
<1>4. /\ handle' \in [Roles -> 0 .. MaxSessions] /\ handle'["reader"] = handle["reader"]
      /\ \A r \in Roles : r # "reader" => handle'[r] = session
  BY <1>1 DEF Typed, Roles
<1>5. Typed'
  <2>1. exited' \in [Roles -> BOOLEAN]
    BY <1>1 DEF Typed
  <2>2. \A r \in Roles, s \in Sessions : s > session => worker'[r][s] = "none"
    BY <1>3 DEF Typed, Sessions
  <2> QED
    BY <1>1, <1>3, <1>4, <2>1, <2>2, ZenonT(30) DEF Typed, SupervisorPlaces
<1>6. HandlesFit'
  BY <1>1, <1>4 DEF HandlesFit, Free
<1>7. OwnedOrLeft'
  <2> SUFFICES ASSUME NEW r \in Roles, NEW s \in Sessions, Alive(r, s)', ~Earlier(s)
               PROVE  handle'[r] = s
    BY <1>1 DEF OwnedOrLeft, Earlier
  <2>1. CASE s = session /\ r # "reader"
    BY <2>1, <1>4
  <2>2. CASE s # session \/ r = "reader"
    <3>1. Alive(r, s)
      BY <2>2, <1>3 DEF Alive
    <3>2. handle[r] = s /\ s = session
      BY <3>1, <1>2, RunningIsCurrent
    <3> QED
      BY <3>2, <1>4
  <2> QED
    BY <2>1, <2>2
<1>8. PlacesFit' /\ EpochFits'
  BY <1>1 DEF PlacesFit, EpochFits, Ended, EpochPlaces, ServingPlaces
<1>9. ReadyFits'
  BY <1>1, <1>3 DEF ReadyFits, Current, Earlier
<1> QED
  BY <1>5, <1>6, <1>7, <1>8, <1>9

LEMMA JoinKeepsIInv ==
  ASSUME IInv, TeardownJoin
  PROVE  IInv'
<1> USE DEF IInv
<1>1. /\ sup \in {"join", "lastjoin"}
      /\ UNCHANGED <<sup, host, desired, serving, ready, readyBy, epoch, session, child, greeted,
                     exited, worker, readerEpoch, unheard, starts, before>>
  BY DEF TeardownJoin, JoinThreads, state, process, calls
<1>2. PICK r \in Roles :
        /\ NextToJoin(r)
        /\ handle' = [handle EXCEPT ![r] = NoSession]
        /\ \/ /\ exited[r] /\ worker[r][handle[r]] = "gone"
              /\ UNCHANGED <<noRespawn, terminal, running>>
           \/ ~exited[r] /\ MarkDegraded
  BY DEF TeardownJoin, JoinThreads
<1>3. /\ handle' \in [Roles -> 0 .. MaxSessions] /\ handle'[r] = NoSession
      /\ \A q \in Roles : q # r => handle'[q] = handle[q]
  BY <1>2, SessionsAssumption DEF Typed, NoSession
<1>4. \/ worker[r][handle[r]] = "gone" /\ UNCHANGED <<noRespawn, terminal, running>>
      \/ noRespawn' = TRUE /\ terminal' = "degraded" /\ running' = FALSE
  BY <1>2 DEF MarkDegraded
<1>5. Typed'
  BY <1>1, <1>3, <1>4 DEF Typed
<1>6. HandlesFit'
  BY <1>1, <1>3 DEF HandlesFit, AllJoined
<1>7. OwnedOrLeft'
  <2> SUFFICES ASSUME NEW q \in Roles, NEW s \in Sessions, Alive(q, s)', terminal' # "degraded", ~Earlier(s)
               PROVE  handle'[q] = s
    BY <1>1 DEF OwnedOrLeft, Earlier
  <2>1. Alive(q, s) /\ terminal # "degraded" /\ worker[r][handle[r]] = "gone"
    BY <1>1, <1>4 DEF Alive
  <2>2. handle[q] = s
    BY <2>1 DEF OwnedOrLeft
  <2>3. q # r
    BY <2>1, <2>2 DEF Alive
  <2> QED
    BY <1>3, <2>2, <2>3
<1>8. PlacesFit'
  BY <1>1, <1>4 DEF PlacesFit, Ended
<1>9. EpochFits' /\ ReadyFits'
  BY <1>1 DEF EpochFits, ReadyFits, Earlier, Current, EpochPlaces, ServingPlaces
<1> QED
  BY <1>5, <1>6, <1>7, <1>8, <1>9

\* The steps of the supervisor that change flags beside its place.
LEMMA FlagsKeepIInv ==
  ASSUME IInv, Announce \/ SendHello \/ Teardown \/ CancelChild \/ Final \/ Finish
  PROVE  IInv'
<1> USE EpochAssumption
        DEF IInv, intent, state, process, threads, calls, SupervisorPlaces
<1>1. CASE Announce
  BY <1>1 DEF Announce, Typed, HandlesFit, OwnedOrLeft, Earlier, PlacesFit, EpochFits, ReadyFits, Current, AllJoined, Alive,
              Free, Ended, ServingPlaces, EpochPlaces
<1>2. CASE SendHello
  BY <1>2 DEF SendHello, Typed, HandlesFit, OwnedOrLeft, Earlier, PlacesFit, EpochFits, ReadyFits, Current, AllJoined, Alive,
              Free, Ended, ServingPlaces, EpochPlaces
<1>3. CASE Teardown
  <2>1. epoch' \in 0 .. MaxEpoch + 1
    BY <1>3 DEF Teardown, Typed, EpochFits, EpochPlaces, ServingPlaces
  <2> QED
    BY <1>3, <2>1 DEF Teardown, Typed, HandlesFit, OwnedOrLeft, Earlier, PlacesFit, EpochFits, ReadyFits, Current,
                      AllJoined, Alive, Free, Ended, ServingPlaces, EpochPlaces
<1>4. CASE CancelChild
  BY <1>4, Zeros DEF CancelChild, Typed, HandlesFit, OwnedOrLeft, Earlier, PlacesFit, EpochFits, ReadyFits, Current, AllJoined, Alive,
              Free, Ended, ServingPlaces, EpochPlaces, NoSession
<1>5. CASE Final
  BY <1>5 DEF Final, MarkDegraded, Typed, HandlesFit, OwnedOrLeft, Earlier, PlacesFit, EpochFits, ReadyFits, Current,
              AllJoined, Alive, Free, Ended, ServingPlaces, EpochPlaces
<1>6. CASE Finish
  BY <1>6, Zeros DEF Finish, Typed, HandlesFit, OwnedOrLeft, Earlier, PlacesFit, EpochFits, ReadyFits, Current, AllJoined, Alive,
              Free, Ended, ServingPlaces, EpochPlaces, NoSession
<1> QED
  BY <1>1, <1>2, <1>3, <1>4, <1>5, <1>6

----------------------------------------------------------------------------
(* The host.                                                               *)

LEMMA HostKeepsIInv ==
  ASSUME IInv, Host
  PROVE  IInv'
<1> USE DEF IInv, intent, state, process, threads, calls
<1>1. CASE Start
  <2>1. /\ host = "idle" /\ sup = "off" /\ starts + 1 \in 0 .. MaxStarts
        /\ sup' = "loop" /\ host' = "starting" /\ starts' = starts + 1
        /\ before' = session /\ session \in 0 .. session
        /\ desired' = "run" /\ noRespawn' = FALSE /\ terminal' = "none" /\ running' = TRUE
        /\ serving' = FALSE /\ ready' = FALSE /\ epoch' = 0
        /\ UNCHANGED <<readyBy, session, child, greeted, exited, handle, worker, readerEpoch, unheard>>
    BY <1>1, StartsAssumption, SessionsAssumption DEF Start, Typed, PlacesFit
  <2>2. Typed'
    BY <2>1, Zeros DEF Typed, SupervisorPlaces, HostPlaces
  <2>3. HandlesFit'
    BY <2>1 DEF HandlesFit, AllJoined, Free
  <2>5. OwnedOrLeft'
    <3> SUFFICES ASSUME NEW r \in Roles, NEW s \in Sessions, Alive(r, s)'
                 PROVE  Earlier(s)'
      BY DEF OwnedOrLeft
    <3>1. ~(s > session)
      BY <2>1 DEF Alive, Typed
    <3> QED
      BY <2>1, <3>1, SessionsAssumption DEF Earlier, Typed, Sessions
  <2>4. PlacesFit' /\ EpochFits' /\ ReadyFits'
    BY <2>1, EpochAssumption DEF PlacesFit, EpochFits, ReadyFits, Current, EpochPlaces, ServingPlaces
  <2> QED
    BY <2>2, <2>3, <2>4, <2>5
<1>2. CASE StartReturns \/ StartFails \/ Stop \/ Forbid \/ LatchDestroy \/ JoinSupervisor
  <2>1. /\ noRespawn' \in BOOLEAN /\ running' \in BOOLEAN /\ host' \in HostPlaces
        /\ (desired' = desired \/ desired' = "destroy") /\ (noRespawn => noRespawn')
        /\ (host' = "idle" <=> sup' = "off")
        /\ (sup' = sup \/ (sup = "done" /\ sup' = "off"))
        /\ UNCHANGED <<terminal, serving, ready, readyBy, epoch, session, child, greeted,
                       exited, handle, worker, readerEpoch, unheard, starts, before>>
    BY <1>2 DEF StartReturns, StartFails, Stop, Forbid, LatchDestroy, JoinSupervisor, Typed, HostPlaces, PlacesFit
  <2>2. Typed'
    BY <2>1 DEF Typed, SupervisorPlaces
  <2>3. HandlesFit' /\ OwnedOrLeft'
    BY <2>1 DEF HandlesFit, OwnedOrLeft, Earlier, AllJoined, Alive, Free
  <2>4. PlacesFit' /\ EpochFits'
    BY <2>1 DEF PlacesFit, EpochFits, Ended, ServingPlaces, EpochPlaces
  <2>5. ReadyFits'
    BY <2>1 DEF ReadyFits, Current, Earlier
  <2> QED
    BY <2>2, <2>3, <2>4, <2>5
<1>3. CASE KillChild
  <2>1. /\ child' = NoSession /\ greeted' = FALSE /\ host = "kill" /\ host' = "joinsup"
        /\ (sup' = sup \/ (sup = "blocked" /\ sup' = "waiting")) /\ unheard' \in BOOLEAN
        /\ UNCHANGED <<desired, noRespawn, terminal, running, serving, ready, readyBy, epoch, session,
                       exited, handle, worker, readerEpoch, starts, before>>
    BY <1>3 DEF KillChild, Notify, Woken
  <2>2. Typed'
    <3>1. child' \in 0 .. session' /\ greeted' \in BOOLEAN /\ host' \in HostPlaces
      BY <2>1, Zeros DEF Typed, NoSession, HostPlaces
    <3>2. sup' \in SupervisorPlaces
      BY <2>1 DEF Typed, SupervisorPlaces
    <3> QED
      BY <2>1, <3>1, <3>2 DEF Typed
  <2>3. HandlesFit' /\ OwnedOrLeft'
    BY <2>1 DEF HandlesFit, OwnedOrLeft, Earlier, AllJoined, Alive, Free
  <2>4. PlacesFit' /\ EpochFits'
    BY <2>1 DEF PlacesFit, EpochFits, Ended, ServingPlaces, EpochPlaces
  <2>5. ReadyFits'
    BY <2>1 DEF ReadyFits, Current, Earlier
  <2> QED
    BY <2>2, <2>3, <2>4, <2>5
<1> QED
  BY <1>1, <1>2, <1>3 DEF Host, HostWaits

----------------------------------------------------------------------------
LEMMA IInvHolds == Spec => []IInv
<1>1. IInv /\ [Next]_vars => IInv'
  <2> SUFFICES ASSUME IInv, [Next]_vars PROVE IInv'
    OBVIOUS
  <2>1. CASE Supervisor
    BY <2>1, MoveKeepsIInv, BeginKeepsIInv, SpawnKeepsIInv, LaunchKeepsIInv, JoinKeepsIInv, FlagsKeepIInv
    DEF Supervisor, SessionStep, TeardownStep, SupervisorMoves
  <2>2. CASE Host
    BY <2>2, HostKeepsIInv
  <2>3. ASSUME NEW r \in Roles, NEW s \in Sessions, Worker(r, s)
        PROVE  IInv'
    BY <2>3, WorkerIsThreadStep, ThreadKeepsIInv DEF IInv
  <2>4. CASE UNCHANGED vars
    BY <2>4 DEF vars, intent, state, process, threads, calls, Earlier, IInv, Typed, HandlesFit, OwnedOrLeft, PlacesFit, EpochFits,
                ReadyFits, Current, AllJoined, Alive
  <2> QED
    BY <2>1, <2>2, <2>3, <2>4 DEF Next
<1> QED
  BY <1>1, InitIInv, PTL DEF Spec

\* While a session serves no thread of an earlier one of the same start() runs, and
\* the READY it acts on is its own, however late the threads of earlier sessions
\* left their blocking calls; what a degraded stop() left behind is the exception.
THEOREM SessionsKeepApart == Spec => []SessionsAreSeparate
<1>1. IInv => SessionsAreSeparate
  <2> SUFFICES ASSUME IInv PROVE SessionsAreSeparate
    OBVIOUS
  <2>1. TypeOK
    BY InvariantTypes
  <2>2. SessionsDoNotOverlap
    <3>1. serving => terminal # "degraded"
      BY DEF IInv, PlacesFit, Ended, ServingPlaces
    <3> QED
      BY <3>1, RunningIsCurrent DEF SessionsDoNotOverlap
  <2>3. ReadyIsCurrent
    BY DEF IInv, ReadyFits, Current, ReadyIsCurrent
  <2> QED
    BY <2>1, <2>2, <2>3 DEF SessionsAreSeparate
<1> QED
  BY <1>1, IInvHolds, PTL

\* When stop() has returned, no child, no handle and, unless the bridge is degraded,
\* no thread of a session since the last start() is left.
THEOREM StopLeavesNothing == Spec => []StopIsComplete
<1>1. IInv => StopIsComplete
  <2> SUFFICES ASSUME IInv, host = "idle"
               PROVE  /\ sup = "off" /\ child = NoSession /\ AllJoined
                      /\ \/ terminal = "degraded"
                         \/ \A r \in Roles, s \in Sessions : Alive(r, s) => Earlier(s)
    BY DEF StopIsComplete
  <2>1. sup = "off" /\ child = NoSession /\ AllJoined
    BY DEF IInv, PlacesFit, HandlesFit, Free
  <2> QED
    BY <2>1, NobodyRuns DEF Free
<1> QED
  BY <1>1, IInvHolds, PTL

\* Whatever the other threads do, a destroy is not undone and a degraded bridge
\* spawns nothing, until start() is called again.
THEOREM IntentsAreKept == Spec => IntentsHold
<1>1. IInv /\ [Next]_vars => [desired = "destroy" /\ starts' = starts => desired' = "destroy"]_vars
  <2> SUFFICES ASSUME IInv, Next, desired = "destroy", starts' = starts
               PROVE  desired' = "destroy"
    OBVIOUS
  <2>1. CASE Supervisor
    BY <2>1 DEF Supervisor, SessionStep, TeardownStep, LoopTest, BeginSession, SkipSession, SpawnFails, Spawn, Announce,
                SendHello, HelloFails, Launch, NotReady, GiveUp, SessionFailed, CheckRun, WaitTest, WaitBlock,
                Teardown, CancelChild, TeardownJoin, JoinThreads, Decide, Final, Rearm, AfterTeardown, Backoff,
                Finish, SupervisorEnds, intent
  <2>2. CASE Host
    BY <2>2 DEF Host, HostWaits, Start, StartReturns, StartFails, Stop, Forbid, LatchDestroy, KillChild,
                JoinSupervisor, intent, IInv, Typed
  <2>3. ASSUME NEW r \in Roles, NEW s \in Sessions, Worker(r, s)
        PROVE  desired' = "destroy"
    BY <2>3, WorkerIsThreadStep DEF IInv, ThreadStep
  <2> QED
    BY <2>1, <2>2, <2>3 DEF Next
<1>2. IInv /\ [Next]_vars => [terminal = "degraded" /\ starts' = starts => session' = session]_vars
  <2> SUFFICES ASSUME IInv, Next, terminal = "degraded"
               PROVE  session' = session
    OBVIOUS
  <2>1. ~Spawn
    BY DEF Spawn, IInv, PlacesFit, Ended
  <2>2. CASE Supervisor
    BY <2>1, <2>2 DEF Supervisor, SessionStep, TeardownStep, LoopTest, BeginSession, SkipSession, SpawnFails, Announce,
                      SendHello, HelloFails, Launch, NotReady, GiveUp, SessionFailed, CheckRun, WaitTest, WaitBlock,
                      Teardown, CancelChild, TeardownJoin, JoinThreads, Decide, Final, Rearm, AfterTeardown, Backoff,
                      Finish, SupervisorEnds, process
  <2>3. CASE Host
    BY <2>3 DEF Host, HostWaits, Start, StartReturns, StartFails, Stop, Forbid, LatchDestroy, KillChild,
                JoinSupervisor, process
  <2>4. ASSUME NEW r \in Roles, NEW s \in Sessions, Worker(r, s)
        PROVE  session' = session
    BY <2>4, WorkerIsThreadStep DEF IInv, ThreadStep, process
  <2> QED
    BY <2>2, <2>3, <2>4 DEF Next
<1> QED
  BY <1>1, <1>2, IInvHolds, PTL DEF Spec, IntentsHold, DestroySticks, DegradedNoRespawn
=============================================================================
