------------------------------ MODULE IpcBridge ------------------------------
(***************************************************************************)
(* The life of the bridge (native-plugin/src/ipc-bridge*.cpp): the host    *)
(* thread that starts and stops it, the supervisor thread that runs one    *)
(* session after another, and the reader, writer and heartbeat threads of  *)
(* each session.  They share atomics and two condition variables and run   *)
(* in any interleaving; the timeouts of the waits may pass at any moment.  *)
(*                                                                         *)
(* The threads of a session are named by the session's number.  A thread   *)
(* that misses the join deadline is detached and keeps running.  What the  *)
(* session carries is modelled elsewhere: the queue in OutQueue, the ring  *)
(* in SeqlockRing, the drain in AudioPath.                                 *)
(***************************************************************************)
EXTENDS Naturals, Sequences

CONSTANTS
  MaxStarts,     \* bound on the calls of start()
  MaxSessions,   \* bound on the sessions spawned
  MaxEpoch       \* bound on the teardowns of one start()

ASSUME StartsAssumption == MaxStarts \in Nat
ASSUME SessionsAssumption == MaxSessions \in Nat
ASSUME EpochAssumption == MaxEpoch \in Nat \ {0}

VARIABLES
  desired,     \* desired_: "run" < "restart" < "destroy"
  noRespawn,   \* no_respawn_
  terminal,    \* terminal_state_
  running,     \* running_
  serving,     \* session_running_
  ready,       \* session_ready_
  readyBy,     \* the session whose reader set it last (history)
  epoch,       \* active epoch of the gate, and session_epoch_
  session,     \* number of sessions spawned
  child,       \* session whose child process is up, NoSession if none
  greeted,     \* that child has been sent HELLO
  exited,      \* writer_exited_, reader_exited_, heartbeat_exited_
  handle,      \* session of the thread each handle holds, NoSession if not joinable
  worker,      \* where each session's threads are
  readerEpoch, \* the epoch each session's reader is stamped with
  sup,         \* where the supervisor is
  unheard,     \* a notification fell between its test and its block (history)
  host,        \* where the host is
  starts,      \* number of calls of start()
  before       \* sessions spawned before the last call of start() (history)

intent  == <<desired, noRespawn, terminal, running>>
state   == <<serving, ready, readyBy, epoch>>
process == <<session, child, greeted>>
threads == <<exited, handle, worker, readerEpoch>>
calls   == <<starts, before>>
vars    == <<intent, state, process, threads, sup, unheard, host, calls>>

NoSession == 0
Sessions  == 1 .. MaxSessions
Roles     == {"writer", "reader", "heartbeat"}

Init ==
  /\ desired = "run" /\ noRespawn = FALSE /\ terminal = "none" /\ running = FALSE
  /\ serving = FALSE /\ ready = FALSE /\ readyBy = NoSession
  /\ epoch = 0
  /\ session = 0 /\ child = NoSession /\ greeted = FALSE
  /\ exited = [r \in Roles |-> TRUE]
  /\ handle = [r \in Roles |-> NoSession]
  /\ worker = [r \in Roles |-> [s \in Sessions |-> "none"]]
  /\ readerEpoch = [s \in Sessions |-> 0]
  /\ sup = "off" /\ unheard = FALSE /\ host = "idle" /\ starts = 0 /\ before = 0

----------------------------------------------------------------------------
(* Shared operations.                                                      *)

\* state_cv_.notify_all without state_mutex_: a supervisor that blocks in
\* run_session_loop's wait tests again; one between its test and its block does
\* not hear of it.
Woken == IF sup = "blocked" THEN "waiting" ELSE sup
Notify == sup' = Woken /\ unheard' = (sup = "dozing")

\* Mutant: request_restart without the notification.
RequestRestartSilent ==
  IF running /\ ~noRespawn /\ desired # "destroy"
    THEN desired' = "restart" /\ UNCHANGED <<sup, unheard>>
    ELSE UNCHANGED <<desired, sup, unheard>>

\* request_restart: refused when the bridge is shutting down.
RequestRestart ==
  IF running /\ ~noRespawn /\ desired # "destroy"
    THEN desired' = "restart" /\ Notify
    ELSE UNCHANGED <<desired, sup, unheard>>

\* mark_degraded.
MarkDegraded ==
  /\ noRespawn' = TRUE /\ terminal' = "degraded" /\ running' = FALSE

----------------------------------------------------------------------------
(* The reader, writer and heartbeat threads.                               *)

\* The loop condition all three share.
Serve == running /\ desired = "run" /\ serving

At(r, s, pc) == worker' = [worker EXCEPT ![r][s] = pc]

\* run_reader's first statement.
ReaderBegin(s) ==
  /\ worker["reader"][s] = "new"
  /\ At("reader", s, "top")
  /\ readerEpoch' = [readerEpoch EXCEPT ![s] = epoch]
  /\ UNCHANGED <<intent, state, process, exited, handle, sup, unheard, host, calls>>

Loop(r, s) ==
  /\ worker[r][s] = "top"
  /\ At(r, s, IF Serve THEN "io" ELSE "ending")
  /\ UNCHANGED <<intent, state, process, exited, handle, readerEpoch, sup, unheard, host, calls>>

\* A frame written or read that changes nothing here, or the heartbeat interval
\* slept through.
IoDone(r, s) ==
  /\ worker[r][s] = "io"
  /\ At(r, s, "top")
  /\ UNCHANGED <<intent, state, process, exited, handle, readerEpoch, sup, unheard, host, calls>>

\* End of file, a frame that does not decode, a failed write, or no heartbeat
\* from the sidecar in time.
IoFails(r, s) ==
  /\ worker[r][s] = "io"
  /\ At(r, s, "ending")
  /\ RequestRestart
  /\ UNCHANGED <<noRespawn, terminal, running, state, process, exited, handle, readerEpoch, host, calls>>

\* process_payload lets a READY or an error STATUS of the sidecar pass the gate.
GatePass(s) ==
  /\ worker["reader"][s] = "io" /\ readerEpoch[s] = epoch
  /\ child = s /\ greeted
  /\ \E pc \in {"ready", "status"} : At("reader", s, pc)
  /\ UNCHANGED <<intent, state, process, exited, handle, readerEpoch, sup, unheard, host, calls>>

\* set_ready_state(true).
ApplyReady(s) ==
  /\ worker["reader"][s] = "ready" /\ sup # "dozing"
  /\ ready' = TRUE /\ readyBy' = s
  /\ At("reader", s, "top")
  /\ UNCHANGED <<intent, serving, epoch, process,
                 exited, handle, readerEpoch, sup, unheard, host, calls>>

\* apply_status with an error code.
ApplyStatus(s) ==
  /\ worker["reader"][s] = "status"
  /\ RequestRestart
  /\ At("reader", s, "top")
  /\ UNCHANGED <<noRespawn, terminal, running, state, process, exited, handle, readerEpoch, host, calls>>

\* The thread's ScopeExit: the shared flag, then notify_thread_exit.
Exit(r, s) ==
  /\ worker[r][s] = "ending"
  /\ At(r, s, "gone")
  /\ exited' = [exited EXCEPT ![r] = TRUE]
  /\ Notify
  /\ UNCHANGED <<intent, state, process, handle, readerEpoch, host, calls>>

Worker(r, s) ==
  \/ Loop(r, s) \/ IoDone(r, s) \/ IoFails(r, s) \/ Exit(r, s)
  \/ r = "reader" /\ (ReaderBegin(s) \/ GatePass(s) \/ ApplyReady(s) \/ ApplyStatus(s))

----------------------------------------------------------------------------
(* The supervisor: run_session_loop and start_session.                     *)

\* The while condition.
LoopTest ==
  /\ sup = "loop"
  /\ sup' = IF desired # "destroy" /\ ~noRespawn THEN "try" ELSE "finish"
  /\ UNCHANGED <<intent, state, process, threads, unheard, host, calls>>

\* Mutant: The session starts without clearing session_ready_.
BeginSessionKeepsReady ==
  /\ sup = "try" /\ desired = "run"
  /\ IF noRespawn
       THEN sup' = "failed" /\ UNCHANGED state
       ELSE /\ sup' = "spawn" /\ serving' = FALSE
            /\ epoch' = IF epoch = 0 THEN 1 ELSE epoch
            /\ UNCHANGED <<ready, readyBy>>
  /\ UNCHANGED <<intent, process, threads, unheard, host, calls>>

BeginSession ==
  /\ sup = "try" /\ desired = "run"
  /\ IF noRespawn
       THEN sup' = "failed" /\ UNCHANGED state
       ELSE /\ sup' = "spawn"
            /\ serving' = FALSE /\ ready' = FALSE
            /\ epoch' = IF epoch = 0 THEN 1 ELSE epoch
            /\ UNCHANGED <<readyBy>>
  /\ UNCHANGED <<intent, process, threads, unheard, host, calls>>

\* Not asked to run any more: no session is started.
SkipSession ==
  /\ sup = "try" /\ desired # "run"
  /\ sup' = "check"
  /\ UNCHANGED <<intent, state, process, threads, unheard, host, calls>>

SpawnFails ==
  /\ sup = "spawn"
  /\ sup' = "failed"
  /\ UNCHANGED <<intent, state, process, threads, unheard, host, calls>>

\* The child is up and its reader thread starts; session_running_ is set only
\* afterwards, by Announce.
Spawn ==
  /\ sup = "spawn" /\ session < MaxSessions
  /\ session' = session + 1
  /\ child' = session + 1 /\ greeted' = FALSE
  /\ exited' = [exited EXCEPT !["reader"] = FALSE]
  /\ handle' = [handle EXCEPT !["reader"] = session + 1]
  /\ At("reader", session + 1, "new")
  /\ sup' = "announce"
  /\ UNCHANGED <<intent, state, readerEpoch, unheard, host, calls>>

Announce ==
  /\ sup = "announce"
  /\ serving' = TRUE
  /\ sup' = "hello"
  /\ UNCHANGED <<intent, ready, readyBy, epoch, process, threads, unheard, host, calls>>

SendHello ==
  /\ sup = "hello" /\ child = session
  /\ greeted' = TRUE
  /\ sup' = "await"
  /\ UNCHANGED <<intent, state, session, child, threads, unheard, host, calls>>

HelloFails ==
  /\ sup = "hello"
  /\ sup' = "giveup"
  /\ UNCHANGED <<intent, state, process, threads, unheard, host, calls>>

\* wait_for_ready succeeds: the Start control is queued, writer and heartbeat run.
Launch ==
  /\ sup = "await" /\ ready /\ running /\ desired = "run"
  /\ sup' = "check"
  /\ exited' = [exited EXCEPT !["writer"] = FALSE, !["heartbeat"] = FALSE]
  /\ handle' = [handle EXCEPT !["writer"] = session, !["heartbeat"] = session]
  /\ worker' = [worker EXCEPT !["writer"][session] = "top", !["heartbeat"][session] = "top"]
  /\ UNCHANGED <<intent, state, process, readerEpoch, unheard, host, calls>>

\* wait_for_ready fails: its deadline passes, or the bridge is to stop or restart.
NotReady ==
  /\ sup = "await"
  /\ sup' = "giveup"
  /\ UNCHANGED <<intent, state, process, threads, unheard, host, calls>>

GiveUp ==
  /\ sup = "giveup"
  /\ sup' = "failed"
  /\ desired' = IF running /\ ~noRespawn /\ desired # "destroy" THEN "restart" ELSE desired
  /\ UNCHANGED <<noRespawn, terminal, running, state, process, threads, unheard, host, calls>>

\* start_session returned false.
SessionFailed ==
  /\ sup = "failed"
  /\ desired' = IF desired = "run" THEN "restart" ELSE desired
  /\ sup' = "check"
  /\ UNCHANGED <<noRespawn, terminal, running, state, process, threads, unheard, host, calls>>

CheckRun ==
  /\ sup = "check"
  /\ sup' = IF desired = "run" THEN "waiting" ELSE "teardown"
  /\ UNCHANGED <<intent, state, process, threads, unheard, host, calls>>

\* state_cv_.wait, which has no deadline: the test of desired_ and the block are
\* two steps, and the notifiers do not hold the mutex.
WaitTest ==
  /\ sup = "waiting"
  /\ sup' = IF desired = "run" THEN "dozing" ELSE "teardown"
  /\ UNCHANGED <<intent, state, process, threads, unheard, host, calls>>

WaitBlock ==
  /\ sup = "dozing"
  /\ sup' = "blocked"
  /\ UNCHANGED <<intent, state, process, threads, unheard, host, calls>>

----------------------------------------------------------------------------
(* join_threads: the handles in the order writer, reader, heartbeat.  A      *)
(* thread whose flag is not set by the deadline is detached.                 *)

JoinOrder == <<"writer", "reader", "heartbeat">>
NextToJoin(r) ==
  \E i \in 1 .. 3 :
    /\ JoinOrder[i] = r /\ handle[r] # NoSession
    /\ \A j \in 1 .. i - 1 : handle[JoinOrder[j]] = NoSession

\* Mutant: The thread that missed the deadline is detached and the bridge not
\* marked degraded.
DetachUnmarked ==
  /\ \E r \in Roles :
       /\ NextToJoin(r) /\ (exited[r] => worker[r][handle[r]] = "gone")
       /\ handle' = [handle EXCEPT ![r] = NoSession]
  /\ UNCHANGED <<intent, state, process, exited, worker, readerEpoch, calls>>

JoinThreads ==
  /\ \E r \in Roles :
       /\ NextToJoin(r)
       /\ handle' = [handle EXCEPT ![r] = NoSession]
       /\ \/ /\ exited[r] /\ worker[r][handle[r]] = "gone"
             /\ UNCHANGED <<noRespawn, terminal, running>>
          \/ ~exited[r] /\ MarkDegraded
  /\ UNCHANGED <<desired, state, process, exited, worker, readerEpoch, calls>>

AllJoined == \A r \in Roles : handle[r] = NoSession

----------------------------------------------------------------------------
(* The supervisor: execute_teardown, backoff_sleep and the end of the loop.  *)
(* Only the supervisor runs execute_teardown, so teardown_owner_ is free.    *)

Teardown ==
  /\ sup = "teardown"
  /\ epoch' = epoch + 1
  /\ ready' = FALSE /\ serving' = FALSE
  /\ sup' = "cancel"
  /\ UNCHANGED <<intent, readyBy, process, threads, unheard, host, calls>>

\* transport_.cancel and reap: the child is gone for certain.
CancelChild ==
  /\ sup = "cancel"
  /\ child' = NoSession /\ greeted' = FALSE
  /\ sup' = "join"
  /\ UNCHANGED <<intent, state, session, threads, unheard, host, calls>>

TeardownJoin ==
  /\ sup \in {"join", "lastjoin"}
  /\ JoinThreads
  /\ UNCHANGED <<sup, unheard, host>>

\* The final reading of desired_ after the joins.
Decide ==
  /\ sup = "join" /\ AllJoined
  /\ sup' = IF desired = "destroy" \/ noRespawn THEN "final" ELSE "rearm"
  /\ UNCHANGED <<intent, state, process, threads, unheard, host, calls>>

\* The terminal branch: a bridge that is not degraded waits for the producers to
\* drain, and ends INACTIVE, or degraded when they do not in time.
Final ==
  /\ sup = "final"
  /\ \/ /\ terminal # "degraded" /\ terminal' = "inactive"
        /\ UNCHANGED <<noRespawn, running>>
     \/ terminal # "degraded" /\ MarkDegraded
     \/ terminal = "degraded" /\ UNCHANGED <<noRespawn, terminal, running>>
  /\ desired' = "destroy"
  /\ sup' = "finish"
  /\ UNCHANGED <<serving, ready, readyBy, epoch, process, threads, unheard, host, calls>>

\* Mutant: A plain store of Run instead of the compare-and-swap.
RearmByStore ==
  /\ sup = "rearm"
  /\ desired' = "run" /\ sup' = "rearmed"
  /\ UNCHANGED <<noRespawn, terminal, running, state, process, threads, unheard, host, calls>>

\* The compare-and-swap of desired_ from Restart to Run.
Rearm ==
  /\ sup = "rearm"
  /\ IF desired = "restart"
       THEN desired' = "run" /\ sup' = "rearmed"
       ELSE sup' = "final" /\ UNCHANGED desired
  /\ UNCHANGED <<noRespawn, terminal, running, state, process, threads, unheard, host, calls>>

\* Back in run_session_loop with Restart.
AfterTeardown ==
  /\ sup = "rearmed"
  /\ sup' = IF noRespawn THEN "finish" ELSE "backoff"
  /\ UNCHANGED <<intent, state, process, threads, unheard, host, calls>>

\* backoff_sleep ends on its deadline or on Destroy; the bounds stop it here.
Backoff ==
  /\ sup = "backoff"
  /\ desired = "destroy" \/ (session < MaxSessions /\ epoch < MaxEpoch)
  /\ sup' = "loop"
  /\ UNCHANGED <<intent, state, process, threads, unheard, host, calls>>

\* After the loop, up to the last join_threads.
Finish ==
  /\ sup = "finish"
  /\ ready' = FALSE /\ serving' = FALSE /\ running' = FALSE
  /\ child' = NoSession /\ greeted' = FALSE
  /\ sup' = "lastjoin"
  /\ UNCHANGED <<desired, noRespawn, terminal, readyBy, epoch, 
                 session, threads, unheard, host, calls>>

SupervisorEnds ==
  /\ sup = "lastjoin" /\ AllJoined
  /\ sup' = "done"
  /\ UNCHANGED <<intent, state, process, threads, unheard, host, calls>>

SessionStep ==
  \/ LoopTest \/ BeginSession \/ SkipSession \/ SpawnFails \/ Spawn \/ Announce
  \/ SendHello \/ HelloFails \/ Launch \/ NotReady \/ GiveUp \/ SessionFailed
  \/ CheckRun \/ WaitTest \/ WaitBlock
TeardownStep ==
  \/ Teardown \/ CancelChild \/ TeardownJoin \/ Decide \/ Final
  \/ Rearm \/ AfterTeardown \/ Backoff \/ Finish \/ SupervisorEnds
Supervisor == SessionStep \/ TeardownStep

----------------------------------------------------------------------------
(* The host: start() and stop().  The filter calls stop() before every       *)
(* start(), so start() finds the supervisor joined, but it starts a degraded *)
(* bridge too: what that one left behind then runs beside the new sessions.  *)

Start ==
  /\ host = "idle" /\ ~running
  /\ starts < MaxStarts /\ session < MaxSessions
  /\ starts' = starts + 1 /\ before' = session
  /\ desired' = "run" /\ noRespawn' = FALSE /\ terminal' = "none" /\ running' = TRUE
  /\ serving' = FALSE /\ ready' = FALSE
  /\ epoch' = 0
  /\ sup' = "loop" /\ host' = "starting"
  /\ UNCHANGED <<readyBy, process, threads, unheard>>

Serving == desired = "run" /\ ready /\ serving /\ running

StartReturns ==
  /\ host = "starting" /\ Serving
  /\ host' = "up"
  /\ UNCHANGED <<intent, state, process, threads, sup, unheard, calls>>

\* hello_timeout passed, or the supervisor gave up: start() calls stop().
StartFails ==
  /\ host = "starting" /\ ~Serving
  /\ host' = "forbid"
  /\ UNCHANGED <<intent, state, process, threads, sup, unheard, calls>>

Stop ==
  /\ host = "up"
  /\ host' = "forbid"
  /\ UNCHANGED <<intent, state, process, threads, sup, unheard, calls>>

\* request_destroy, in the order of its stores.
Forbid ==
  /\ host = "forbid"
  /\ noRespawn' = TRUE
  /\ host' = "latch"
  /\ UNCHANGED <<desired, terminal, running, state, process, threads, sup, unheard, calls>>

LatchDestroy ==
  /\ host = "latch"
  /\ desired' = "destroy" /\ running' = FALSE
  /\ host' = "kill"
  /\ UNCHANGED <<noRespawn, terminal, state, process, threads, sup, unheard, calls>>

KillChild ==
  /\ host = "kill"
  /\ child' = NoSession /\ greeted' = FALSE
  /\ Notify
  /\ host' = "joinsup"
  /\ UNCHANGED <<intent, state, session, threads, calls>>

\* The supervisor is joined; it has left no handle to the join_threads that follows.
JoinSupervisor ==
  /\ host = "joinsup" /\ sup = "done"
  /\ sup' = "off" /\ host' = "idle"
  /\ UNCHANGED <<intent, state, process, threads, unheard, calls>>

HostWaits ==
  \/ StartReturns \/ StartFails \/ Forbid \/ LatchDestroy \/ KillChild
  \/ JoinSupervisor
Host == Start \/ Stop \/ HostWaits

----------------------------------------------------------------------------
Next == Supervisor \/ Host \/ \E r \in Roles, s \in Sessions : Worker(r, s)

Spec == Init /\ [][Next]_vars

\* A thread without its child does not stay in a read, a write or a sleep; the
\* waits of the supervisor and of the host for another thread are in their guards.
Orphan(r, s) == child # s /\ Worker(r, s)

FairSpec ==
  /\ Spec
  /\ WF_vars(Supervisor)
  /\ WF_vars(HostWaits)
  /\ \A r \in Roles, s \in Sessions : WF_vars(Orphan(r, s))

----------------------------------------------------------------------------
(* Properties.                                                             *)

SupervisorPlaces ==
  {"off", "loop", "try", "spawn", "announce", "hello", "await", "giveup", "failed",
   "check", "waiting", "dozing", "blocked", "teardown", "cancel", "join", "decide",
   "final", "rearm", "rearmed", "backoff", "finish", "lastjoin", "done"}
HostPlaces == {"idle", "starting", "up", "forbid", "latch", "kill", "joinsup"}
WorkerPlaces == {"none", "new", "top", "io", "ready", "status", "ending", "gone"}

\* Every variable stays within its type: intents and terminal states are those of
\* the code's enums, and no thread or process belongs to a session not yet spawned.
TypeOK ==
  /\ desired \in {"run", "restart", "destroy"}
  /\ terminal \in {"none", "inactive", "degraded"}
  /\ {noRespawn, running, serving, ready, greeted, unheard} \subseteq BOOLEAN
  /\ session \in 0 .. MaxSessions /\ starts \in 0 .. MaxStarts /\ before \in 0 .. session
  /\ {child, readyBy} \cup {handle[r] : r \in Roles} \subseteq 0 .. session
  /\ epoch \in 0 .. MaxEpoch + 1
  /\ readerEpoch \in [Sessions -> 0 .. MaxEpoch + 1]
  /\ exited \in [Roles -> BOOLEAN]
  /\ worker \in [Roles -> [Sessions -> WorkerPlaces]]
  /\ \A r \in Roles, s \in Sessions : s > session => worker[r][s] = "none"
  /\ sup \in SupervisorPlaces /\ host \in HostPlaces

Alive(r, s) == worker[r][s] \notin {"none", "gone"}

\* A session of an earlier start(): what is left of it was left by a stop() that
\* ended degraded.
Earlier(s) == s <= before

\* When stop() has returned, the supervisor has ended, no child process is left and
\* every handle was joined or detached (the join_threads that stop() itself calls,
\* which the model leaves out, would find none).  Unless the bridge is degraded no
\* thread of any session since the last start() is left either.  All this whatever
\* the supervisor was doing when stop() cancelled its child.
StopIsComplete ==
  host = "idle" =>
    /\ sup = "off" /\ child = NoSession /\ AllJoined
    /\ \/ terminal = "degraded"
       \/ \A r \in Roles, s \in Sessions : Alive(r, s) => Earlier(s)

\* While a session serves, no thread of an earlier session of the same start() is
\* still running: a restart hands the ring and the queue over only after the old
\* writer was joined.
SessionsDoNotOverlap ==
  serving => \A r \in Roles, s \in Sessions : Alive(r, s) => s = session \/ Earlier(s)

\* The handshake the supervisor acts on is that of its own session: a READY that an
\* earlier session's reader applied late never stands for the new child's.  Only a
\* reader that a degraded stop() left between its gate and set_ready_state can lend
\* its READY to a session of the next start().
ReadyIsCurrent ==
  sup \in {"waiting", "dozing", "blocked"} /\ ready /\ ~Earlier(readyBy) =>
    readyBy = session /\ readerEpoch[session] = epoch

\* At most one thread pops the audio ring, which is built for one consumer.
SingleConsumer ==
  \A s, t \in Sessions :
    worker["writer"][s] \in {"top", "io"} /\ worker["writer"][t] \in {"top", "io"} => s = t

\* Once stop() is asked for, no step but the next start() takes the bridge back to
\* running: destroy wins over every restart, the one being rearmed included.
DestroySticks ==
  [][desired = "destroy" /\ starts' = starts => desired' = "destroy"]_vars

\* A bridge that left a thread behind spawns no further child until start().
DegradedNoRespawn ==
  [][terminal = "degraded" /\ starts' = starts => session' = session]_vars

\* The supervisor sleeps although desired_ is no longer Run: it blocked after the
\* last notification had come.
SleepsOn == sup = "blocked" /\ desired # "run" /\ unheard

\* stop() returns, wherever the supervisor and the threads of the session are.
StopReturns == host = "forbid" ~> host = "idle"

\* Every latched restart is carried out, or gives way to a stop, and every stop()
\* returns, unless the supervisor missed each notification there was and sleeps for
\* good: the one thing that can hold up a restart or a stop, whatever the threads of
\* the session, the child and their deadlines do.
IntentsServed ==
  /\ desired = "restart" ~> (desired # "restart" \/ []SleepsOn)
  /\ host = "forbid" ~> (host = "idle" \/ []SleepsOn)

\* Sessions keep apart: neither a thread nor a READY of an earlier one is taken
\* for the current one's, however late it left its blocking call.
SessionsAreSeparate == TypeOK /\ SessionsDoNotOverlap /\ ReadyIsCurrent

\* What was decided is not undone: a destroy is not turned into a restart, and a
\* bridge that left a thread behind spawns nothing beside it.
IntentsHold == DestroySticks /\ DegradedNoRespawn
=============================================================================
