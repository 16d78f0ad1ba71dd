------------------------------ MODULE Sidecar ------------------------------
(***************************************************************************)
(* The Python end of the pipe: src/obs_captions/ipc/sidecar.py and         *)
(* control_dispatcher.py.  A thread reads frames from stdin while an event *)
(* loop runs four coroutines: one starts sessions and carries out control  *)
(* requests, one feeds audio to the backend, one writes the answers, and   *)
(* one waits for the end of the work.                                      *)
(*                                                                         *)
(* The coroutines change places only where the first of them awaits; the   *)
(* reader thread interleaves with every step.  A request is named by its   *)
(* sequence number; whatever the status that answers it, it is an answer.  *)
(***************************************************************************)
EXTENDS Naturals, Sequences, FiniteSets

CONSTANTS
  MaxSeq,      \* bound on the requests
  MaxReceipts, \* bound on the times one request is received
  MaxHello,    \* bound on the HELLO frames
  MaxAudio,    \* capacity of the audio queue, max_audio_queue
  MaxOut       \* capacity of the out queue, max_out_queue

ASSUME SeqAssumption == MaxSeq \in Nat
ASSUME ReceiptsAssumption == MaxReceipts \in Nat
ASSUME HelloAssumption == MaxHello \in Nat
ASSUME AudioAssumption == MaxAudio \in Nat \ {0}
ASSUME OutAssumption == MaxOut \in Nat \ {0}

VARIABLES
  reader,   \* where the reader thread is; "eof" and "failed" are _reader_done
  stamp,    \* epoch the reader has given to the audio in its hands
  greeted,  \* HELLO frames received
  command,  \* the command of each request received
  receipts, \* times each request was received (history)
  answers,  \* answers put into the out queue for each request (history)
  runs,     \* times each request was carried out (history)
  active,   \* _session_active
  context,  \* _session_has_context
  pending,  \* _pending_hello_epoch
  epoch,    \* _session_epoch
  backend,  \* epoch the backend in use was started for
  hellos,   \* _hello_queue
  slot,     \* slots: a request of each command waits here
  inflight, \* inflight: the request of each command being carried out
  lastSeq,  \* last_seq: the request of each command carried out last
  at,       \* where the control coroutine is
  turn,     \* the command drain_once looks at
  current,  \* the request drain_once carries out
  target,   \* epoch of the session being started
  audio,    \* _audio_queue, by epoch
  feeding,  \* the audio's and the backend's epochs while feed_audio runs
  out       \* number of frames in _out_queue

input   == <<reader, stamp, greeted, command, receipts>>
session == <<active, context, pending, epoch, backend>>
control == <<slot, inflight, lastSeq>>
drain   == <<at, turn, current, target>>
answer  == <<answers, out>>
media   == <<audio, feeding>>
vars    == <<input, runs, session, hellos, control, drain, answer, media>>

None     == 0
Seqs     == 1 .. MaxSeq
Order    == <<"start", "stop", "flush", "reconfigure">>
Commands == {Order[i] : i \in DOMAIN Order}
Idle     == [c \in Commands |-> None]

Init ==
  /\ reader = "reading" /\ stamp = None /\ greeted = 0
  /\ command = [s \in Seqs |-> "none"]
  /\ receipts = [s \in Seqs |-> 0] /\ answers = receipts /\ runs = receipts
  /\ active = FALSE /\ context = FALSE /\ pending = None
  /\ epoch = 0 /\ backend = None /\ hellos = <<>>
  /\ slot = Idle /\ inflight = Idle /\ lastSeq = Idle
  /\ at = "sleep" /\ turn = 1 /\ current = None /\ target = None
  /\ audio = <<>> /\ feeding = <<>> /\ out = 0

----------------------------------------------------------------------------
(* _enqueue_out: a full queue drops its oldest frame.                        *)

Full(n) == IF n > MaxOut THEN MaxOut ELSE n

\* n frames, among them an answer to each request of S.
Emit(n, S) ==
  /\ out' = Full(out + n)
  /\ answers' = [s \in Seqs |-> IF s \in S THEN answers[s] + 1 ELSE answers[s]]

Answer(s) == Emit(1, {s})

----------------------------------------------------------------------------
(* The reader thread.                                                        *)

ReadHello ==
  /\ reader = "reading" /\ greeted < MaxHello
  /\ greeted' = greeted + 1
  /\ hellos' = Append(hellos, greeted')
  /\ pending' = greeted' /\ context' = TRUE
  /\ UNCHANGED <<reader, stamp, command, receipts, runs, active, epoch, backend,
                 control, drain, answer, media>>

\* Mutant: the request a newer one replaces in its slot is not answered.
EnqueueSilently(c, s) ==
  IF ~context \/ inflight[c] # None \/ s <= lastSeq[c]
    THEN Answer(s) /\ UNCHANGED slot
    ELSE /\ slot' = [slot EXCEPT ![c] = s]
         /\ UNCHANGED answer

\* ControlDispatcher.enqueue: a request without a session, or not newer than the one
\* of its command that runs or ran last, is answered at once; a newer one takes the
\* slot, and the request it finds there is answered.
Enqueue(c, s) ==
  IF ~context \/ inflight[c] # None \/ s <= lastSeq[c]
    THEN Answer(s) /\ UNCHANGED slot
    ELSE /\ slot' = [slot EXCEPT ![c] = s]
         /\ IF slot[c] = None THEN UNCHANGED answer ELSE Answer(slot[c])

\* The next request of the bridge, or one it has sent before.
ReadControl ==
  /\ reader = "reading"
  /\ \E s \in Seqs, c \in Commands :
       /\ \/ command[s] = "none" /\ \A t \in 1 .. s - 1 : command[t] # "none"
          \/ command[s] = c /\ receipts[s] < MaxReceipts
       /\ command' = [command EXCEPT ![s] = c]
       /\ receipts' = [receipts EXCEPT ![s] = @ + 1]
       /\ Enqueue(c, s)
  /\ UNCHANGED <<reader, stamp, greeted, runs, session, hellos, inflight, lastSeq,
                 drain, media>>

\* _enqueue_audio reads the session's state without a lock ...
StampAudio ==
  /\ reader = "reading" /\ (active \/ pending # None)
  /\ stamp' = IF active THEN epoch ELSE pending
  /\ reader' = "stamped"
  /\ UNCHANGED <<greeted, command, receipts, runs, session, hellos, control, drain,
                 answer, media>>

\* ... and then puts the audio into the queue, over the oldest if it is full.
PutAudio ==
  /\ reader = "stamped"
  /\ audio' = Append(IF Len(audio) = MaxAudio THEN Tail(audio) ELSE audio, stamp)
  /\ reader' = "reading" /\ stamp' = None
  /\ UNCHANGED <<greeted, command, receipts, runs, session, hellos, control, drain,
                 answer, feeding>>

\* The end of stdin, or bytes that are no frame.
ReadEnd ==
  /\ reader = "reading"
  /\ \/ reader' = "eof" /\ UNCHANGED answer
     \/ reader' = "failed" /\ Emit(1, {})
  /\ UNCHANGED <<stamp, greeted, command, receipts, runs, session, hellos, control,
                 drain, media>>

Reader == ReadHello \/ ReadControl \/ StampAudio \/ PutAudio \/ ReadEnd

----------------------------------------------------------------------------
(* Starting a session: _start_session, for a HELLO (current = None) or for   *)
(* a RECONFIGURE.                                                            *)

\* Up to its first await: the old backend is out of use before the new one exists,
\* and of the audio that waits only that of the new session stays.
BeginStart(e) ==
  /\ active' = FALSE /\ context' = TRUE /\ pending' = e /\ backend' = None
  /\ audio' = [i \in 1 .. Cardinality({j \in DOMAIN audio : audio[j] = e}) |-> e]
  /\ target' = e
  /\ at' = IF backend # None THEN "replacing" ELSE "starting"

\* The old backend's stop_stream has returned, or raised.
OldStopped ==
  /\ at = "replacing"
  /\ at' = "starting"
  /\ UNCHANGED <<input, runs, session, hellos, control, turn, current, target,
                 answer, media>>

\* Where a start goes on, and a clear_pending that is not _handle_stop's.
AfterStart == IF current = None THEN "hello" ELSE "finish"

\* start_stream has returned: READY, STATUS and the answer to the RECONFIGURE.
Started ==
  /\ at = "starting"
  /\ backend' = target /\ epoch' = target
  /\ active' = TRUE /\ pending' = None
  /\ at' = AfterStart /\ target' = None
  /\ IF current = None THEN Emit(2, {}) ELSE Emit(3, {current})
  /\ UNCHANGED <<input, runs, context, hellos, control, turn, current, media>>

\* load_config, create_backend or start_stream has raised: an error is the answer.
StartFails ==
  /\ at = "starting"
  /\ context' = FALSE
  /\ at' = "clear" /\ target' = None
  /\ Emit(1, {current})
  /\ UNCHANGED <<input, runs, active, pending, epoch, backend, hellos, control, turn,
                 current, media>>

\* Mutant: the request being carried out is cancelled with those that wait.
ClearPendingAll ==
  /\ at = "clear"
  /\ LET waiting == ({slot[c] : c \in Commands} \cup {inflight[c] : c \in Commands}) \ {None}
     IN Emit(Cardinality(waiting), waiting)
  /\ slot' = Idle /\ inflight' = Idle
  /\ at' = IF current # None /\ command[current] = "stop" THEN "stopped" ELSE AfterStart
  /\ UNCHANGED <<input, runs, session, hellos, lastSeq, turn, current, target, media>>

\* ControlDispatcher.clear_pending: what waits is cancelled.  The request being
\* carried out leaves inflight as well, and is answered by whoever called this.
ClearPending ==
  /\ at = "clear"
  /\ LET waiting == {slot[c] : c \in Commands} \ {None}
     IN Emit(Cardinality(waiting), waiting)
  /\ slot' = Idle /\ inflight' = Idle
  /\ at' = IF current # None /\ command[current] = "stop" THEN "stopped" ELSE AfterStart
  /\ UNCHANGED <<input, runs, session, hellos, lastSeq, turn, current, target, media>>

----------------------------------------------------------------------------
(* The control coroutine: _control_and_hello_loop and drain_once.            *)

\* _drain_hello_once starts a session for each HELLO before any request is looked at.
DrainHello ==
  /\ at \in {"sleep", "hello"} /\ hellos # <<>>
  /\ hellos' = Tail(hellos)
  /\ BeginStart(Head(hellos))
  /\ UNCHANGED <<input, runs, epoch, control, turn, current, answer, feeding>>

HellosDone ==
  /\ at \in {"sleep", "hello"} /\ hellos = <<>>
  /\ at' = "drain" /\ turn' = 1
  /\ UNCHANGED <<input, runs, session, hellos, control, current, target, answer, media>>

\* The command whose turn it is has no request waiting.
Pass ==
  /\ at = "drain" /\ turn <= Len(Order)
  /\ inflight[Order[turn]] # None \/ slot[Order[turn]] = None
  /\ turn' = turn + 1
  /\ UNCHANGED <<input, runs, session, hellos, control, at, current, target, answer,
                 media>>

Take ==
  /\ at = "drain" /\ turn <= Len(Order)
  /\ LET c == Order[turn] IN
       /\ inflight[c] = None /\ slot[c] # None
       /\ slot' = [slot EXCEPT ![c] = None]
       /\ inflight' = [inflight EXCEPT ![c] = slot[c]]
       /\ current' = slot[c]
  /\ at' = "run"
  /\ UNCHANGED <<input, runs, session, hellos, lastSeq, turn, target, answer, media>>

Running(c) == at = "run" /\ command[current] = c

\* FLUSH and RECONFIGURE find no backend: they wait for the session that a HELLO
\* has announced, after a sleep.  Without one they would be refused; but a request
\* gets into its slot in a session only, and leaves it when the session ends.
PutBack ==
  /\ Running("flush") \/ Running("reconfigure")
  /\ backend = None
  /\ inflight' = [inflight EXCEPT ![command[current]] = None]
  /\ current' = None
  /\ IF context /\ ~active
       THEN /\ slot' = [slot EXCEPT ![command[current]] = current]
            /\ at' = "resting" /\ UNCHANGED <<turn, answer>>
       ELSE /\ Answer(current)
            /\ at' = "drain" /\ turn' = turn + 1 /\ UNCHANGED slot
  /\ UNCHANGED <<input, runs, session, hellos, lastSeq, target, media>>

Rested ==
  /\ at = "resting"
  /\ at' = "drain" /\ turn' = turn + 1
  /\ UNCHANGED <<input, runs, session, hellos, control, current, target, answer, media>>

\* _handle_start only reports whether there is a backend.  A RECONFIGURE without a
\* path is answered as fast.
RunAtOnce ==
  /\ Running("start") \/ (Running("reconfigure") /\ backend # None)
  /\ Answer(current)
  /\ at' = "finish"
  /\ UNCHANGED <<input, runs, session, hellos, control, turn, current, target, media>>

RunFlush ==
  /\ Running("flush") /\ backend # None
  /\ at' = "flushing"
  /\ UNCHANGED <<input, runs, session, hellos, control, turn, current, target, answer,
                 media>>

\* FLUSH_DONE, or RUNTIME_ERROR if flush raised.
Flushed ==
  /\ at = "flushing"
  /\ Answer(current)
  /\ at' = "finish"
  /\ UNCHANGED <<input, runs, session, hellos, control, turn, current, target, media>>

RunReconfigure ==
  /\ Running("reconfigure") /\ backend # None
  /\ BeginStart(epoch + 1)
  /\ UNCHANGED <<input, runs, epoch, hellos, control, turn, current, answer, feeding>>

RunStop ==
  /\ Running("stop") /\ backend # None
  /\ at' = "stopping"
  /\ UNCHANGED <<input, runs, session, hellos, control, turn, current, target, answer,
                 media>>

\* _handle_stop once the backend has stopped; clear_pending comes next.
EndSession ==
  /\ at = "stopping" \/ (Running("stop") /\ backend = None)
  /\ backend' = None /\ active' = FALSE /\ context' = FALSE /\ pending' = None
  /\ at' = "clear"
  /\ UNCHANGED <<input, runs, epoch, hellos, control, turn, current, target, answer,
                 media>>

Stopped ==
  /\ at = "stopped"
  /\ Answer(current)
  /\ at' = "finish"
  /\ UNCHANGED <<input, runs, session, hellos, control, turn, current, target, media>>

\* The finally clause of drain_once.
Finish ==
  /\ at = "finish"
  /\ lastSeq' = [lastSeq EXCEPT ![command[current]] = current]
  /\ inflight' = [inflight EXCEPT ![command[current]] = None]
  /\ runs' = [runs EXCEPT ![current] = @ + 1]
  /\ at' = "drain" /\ turn' = turn + 1 /\ current' = None
  /\ UNCHANGED <<input, session, hellos, slot, target, answer, media>>

\* Mutant: has_pending looks at the slots only.
HasPendingSlot == \E c \in Commands : slot[c] # None

\* ControlDispatcher.has_pending.
HasPending == \E c \in Commands : slot[c] # None \/ inflight[c] # None

\* _should_stop: at once when the reader failed, else when nothing is left to do.
ShouldStop ==
  \/ reader = "failed"
  \/ /\ reader = "eof"
     /\ audio = <<>> /\ feeding = <<>> /\ hellos = <<>> /\ ~HasPending /\ out = 0

EndTurn ==
  /\ at = "drain" /\ turn > Len(Order)
  /\ at' = IF ShouldStop THEN "returned" ELSE "sleep"
  /\ turn' = 1
  /\ UNCHANGED <<input, runs, session, hellos, control, current, target, answer, media>>

Control ==
  \/ DrainHello \/ HellosDone \/ OldStopped \/ Started \/ StartFails \/ ClearPending
  \/ Pass \/ Take \/ PutBack \/ Rested \/ RunAtOnce \/ RunFlush \/ Flushed
  \/ RunReconfigure \/ RunStop \/ EndSession \/ Stopped \/ Finish \/ EndTurn

----------------------------------------------------------------------------
(* The other coroutines run while the control coroutine awaits.              *)

Awaiting ==
  at \in {"sleep", "resting", "replacing", "starting", "flushing", "stopping", "returned"}

\* _audio_loop takes the oldest audio; that of another session is thrown away, and
\* so is audio without a backend.
Feed ==
  /\ Awaiting /\ feeding = <<>> /\ audio # <<>>
  /\ audio' = Tail(audio)
  /\ feeding' = IF Head(audio) = epoch /\ backend # None
                  THEN <<Head(audio), backend>> ELSE <<>>
  /\ UNCHANGED <<input, runs, session, hellos, control, drain, answer>>

\* feed_audio has returned, or raised: RUNTIME_ERROR.
Fed ==
  /\ Awaiting /\ feeding # <<>>
  /\ feeding' = <<>>
  /\ UNCHANGED answer \/ Emit(1, {})
  /\ UNCHANGED <<input, runs, session, hellos, control, drain, audio>>

\* _drain_outbound.
Write ==
  /\ Awaiting /\ out > 0
  /\ out' = out - 1
  /\ UNCHANGED <<input, runs, session, hellos, control, drain, answers, media>>

\* _await_end_of_work returns and run cancels the coroutines where they are.
Exit ==
  /\ Awaiting /\ ShouldStop
  /\ at' = "exited"
  /\ UNCHANGED <<input, runs, session, hellos, control, turn, current, target, answer,
                 media>>

Audio == Feed \/ Fed
Loop  == Control \/ Audio \/ Write \/ Exit
Next  == Reader \/ Loop

Spec == Init /\ [][Next]_vars

\* Every coroutine gets its turn, and what the backend is asked to do it does in the
\* end.  Nothing is assumed of what arrives on stdin.
CoroutinesFair == WF_vars(Control) /\ WF_vars(Audio) /\ WF_vars(Write) /\ WF_vars(Exit)

----------------------------------------------------------------------------
(* Properties.                                                               *)

Epochs == 0 .. MaxHello + MaxSeq

\* Every variable stays within its type; an idle control coroutine carries out
\* nothing, and what it carries out has been received.
TypeOK ==
  /\ reader \in {"reading", "stamped", "eof", "failed"}
  /\ {stamp, pending, epoch, backend, target} \subseteq Epochs
  /\ {active, context} \subseteq BOOLEAN
  /\ command \in [Seqs -> Commands \cup {"none"}]
  /\ {slot, inflight, lastSeq} \subseteq [Commands -> 0 .. MaxSeq]
  /\ turn \in 1 .. Len(Order) + 1
  /\ current # None => command[current] = Order[turn]
  /\ at \in {"sleep", "hello", "drain"} => current = None
  /\ Len(audio) <= MaxAudio /\ out <= MaxOut /\ Len(hellos) <= MaxHello

\* No request is answered more often than it was received, whichever of the reader
\* thread, drain_once, clear_pending and the handlers gives the answer.
AnsweredOnce == \A s \in Seqs : answers[s] <= receipts[s]

\* A request that is received again is not carried out again.
RunsOnce == \A s \in Seqs : runs[s] <= 1

\* Audio is fed to the backend of the session it was received for, although the
\* reader puts it into the queue some time after it looked at the session.
FedItsOwn == feeding # <<>> => feeding[1] = feeding[2]

\* The sidecar leaves at the end of stdin only when every request has been answered
\* and no answer waits to be written.
CleanExit == at = "exited" /\ reader = "eof" => answers = receipts /\ out = 0

\* Every request is answered in the end, unless the stream breaks.
RequestsAnswered ==
  \A s \in Seqs :
    answers[s] < receipts[s] ~> (answers[s] = receipts[s] \/ reader = "failed")

\* A request that arrives twice counts twice for the answers and once for the work.
RequestsCounted == AnsweredOnce /\ RunsOnce

\* Sessions and the end of stdin: audio goes to the session it was meant for, and
\* the end leaves neither a request nor an answer behind.
NothingMisplaced == TypeOK /\ FedItsOwn /\ CleanExit
=============================================================================
