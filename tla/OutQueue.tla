------------------------------ MODULE OutQueue ------------------------------
(***************************************************************************)
(* The bridge's outbound queue: native-plugin/src/out_queue.cpp.           *)
(*                                                                         *)
(* For each control command it keeps the request the sidecar has not       *)
(* answered yet (in flight) and the one that waits behind it (queued), and *)
(* a schedule of the commands whose queued request may be sent.  Audio     *)
(* frames wait in a bounded queue of their own and go out when no control  *)
(* is due.  Each operation holds mutex_ throughout and is one step.        *)
(*                                                                         *)
(* Requests are numbered in the order they are enqueued; the number stands *)
(* for the request's waiter and for its sequence number, which the bridge  *)
(* draws from a counter.                                                   *)
(***************************************************************************)
EXTENDS Naturals, Sequences

CONSTANTS
  Commands,       \* control commands, heartbeat among them
  Heartbeat,      \* the one that expects no reply
  MaxRequests,    \* bound on the requests enqueued
  AudioCapacity,  \* audio_capacity_
  MaxAudio,       \* bound on the audio frames enqueued
  AnswerReasons   \* the reasons status_reason makes of the sidecar's status codes

Reasons == {"complete", "timeout", "cancelled", "superseded", "no_session"}

ASSUME HeartbeatAssumption == Heartbeat \in Commands
ASSUME RequestsAssumption == MaxRequests \in Nat
ASSUME AudioAssumption == AudioCapacity \in Nat \ {0} /\ MaxAudio \in Nat
ASSUME ReasonsAssumption == AnswerReasons \subseteq Reasons

VARIABLES
  issued,       \* number of requests enqueued
  command,      \* command of each request
  result,       \* result_ of each request's waiter
  queued,       \* queued request of each command, NoRequest if none
  inflight,     \* its request in flight
  inSchedule,   \* queued_in_schedule
  schedule,     \* scheduled_controls_
  accepting,    \* accepting_
  audio,        \* audio_queue_, frames by their number
  captured,     \* number of audio frames enqueued (history)
  droppedAudio, \* dropped_audio_
  sentAudio,    \* audio frames handed to the writer (history)
  transmitted,  \* requests handed to the writer (history)
  answered      \* requests the sidecar has sent an answer to (history)

requests  == <<issued, command>>
controls  == <<queued, inflight, inSchedule, schedule, accepting>>
sound     == <<audio, captured, droppedAudio, sentAudio>>
wire      == <<transmitted, answered>>
queueVars == <<requests, result, controls, sound, wire>>

NoRequest == 0
Requests  == 1 .. MaxRequests
Replied   == Commands \ {Heartbeat}
QueueInit ==
  /\ issued = 0
  /\ command = [r \in Requests |-> Heartbeat]
  /\ result = [r \in Requests |-> "none"]
  /\ queued = [c \in Commands |-> NoRequest]
  /\ inflight = [c \in Commands |-> NoRequest]
  /\ inSchedule = [c \in Commands |-> FALSE]
  /\ schedule = <<>>
  /\ accepting = TRUE
  /\ audio = <<>> /\ captured = 0 /\ droppedAudio = 0 /\ sentAudio = <<>>
  /\ transmitted = {} /\ answered = {}

\* Waiter::complete of every waiter in R: the first reason stays.
Complete(R, reason) ==
  [r \in Requests |-> IF r \in R /\ result[r] = "none" THEN reason ELSE result[r]]

----------------------------------------------------------------------------
\* A request gets the next number and its waiter.
Issue(c) ==
  /\ issued < MaxRequests
  /\ issued' = issued + 1
  /\ command' = [command EXCEPT ![issued + 1] = c]

\* enqueue_control after begin_teardown.
EnqueueRefused(c) ==
  /\ ~accepting /\ Issue(c)
  /\ result' = Complete({issued + 1}, "no_session")
  /\ UNCHANGED <<controls, sound, wire>>

Schedule(c) ==
  /\ schedule' = Append(schedule, c)
  /\ inSchedule' = [inSchedule EXCEPT ![c] = TRUE]

\* Mutant: the command is scheduled although a request of it is in flight.
EnqueueControlTwice(c) ==
  /\ accepting /\ Issue(c)
  /\ result' = Complete({queued[c]}, "superseded")
  /\ queued' = [queued EXCEPT ![c] = issued + 1]
  /\ IF ~inSchedule[c] THEN Schedule(c) ELSE UNCHANGED <<schedule, inSchedule>>
  /\ UNCHANGED <<inflight, accepting, sound, wire>>

\* enqueue_control and enqueue_heartbeat: the newest request replaces the one
\* that waits, and is scheduled unless one is in flight.
EnqueueControl(c) ==
  /\ accepting /\ Issue(c)
  /\ result' = Complete({queued[c]}, "superseded")
  /\ queued' = [queued EXCEPT ![c] = issued + 1]
  /\ IF ~inSchedule[c] /\ inflight[c] = NoRequest
       THEN Schedule(c)
       ELSE UNCHANGED <<schedule, inSchedule>>
  /\ UNCHANGED <<inflight, accepting, sound, wire>>

\* enqueue_audio: drop-oldest.
EnqueueAudio ==
  /\ captured < MaxAudio
  /\ captured' = captured + 1
  /\ IF Len(audio) >= AudioCapacity
       THEN /\ audio' = Append(Tail(audio), captured + 1)
            /\ droppedAudio' = droppedAudio + 1
       ELSE /\ audio' = Append(audio, captured + 1)
            /\ UNCHANGED droppedAudio
  /\ UNCHANGED <<requests, result, controls, sentAudio, wire>>

----------------------------------------------------------------------------
\* remove_stale_controls: what is left of the schedule from the first command
\* that still has a queued request, and the commands taken off its front.
Live(i)  == queued[schedule[i]] # NoRequest
StaleTo  == CHOOSE n \in 0 .. Len(schedule) :
              /\ \A i \in 1 .. n : ~Live(i)
              /\ n < Len(schedule) => Live(n + 1)
Fresh    == SubSeq(schedule, StaleTo + 1, Len(schedule))
Removed  == {schedule[i] : i \in 1 .. StaleTo}

\* pop_next returns a control or a heartbeat; a heartbeat is not kept in flight
\* and its waiter is let go.
PopControl ==
  /\ Fresh # <<>>
  /\ LET c == Head(Fresh) IN
       /\ schedule' = Tail(Fresh)
       /\ inSchedule' = [d \in Commands |-> inSchedule[d] /\ d \notin Removed \cup {c}]
       /\ inflight' = [inflight EXCEPT ![c] = IF c = Heartbeat THEN NoRequest ELSE queued[c]]
       /\ queued' = [queued EXCEPT ![c] = NoRequest]
       /\ transmitted' = transmitted \cup {queued[c]}
  /\ UNCHANGED <<requests, result, accepting, sound, answered>>

\* Mutant: audio goes before what is scheduled.
PopAudioFirst ==
  /\ audio # <<>>
  /\ audio' = Tail(audio)
  /\ sentAudio' = Append(sentAudio, Head(audio))
  /\ UNCHANGED <<requests, result, controls, captured, droppedAudio, wire>>

\* pop_next finds no control due and returns the oldest audio frame.
PopAudio ==
  /\ Fresh = <<>> /\ audio # <<>>
  /\ schedule' = <<>>
  /\ inSchedule' = [d \in Commands |-> inSchedule[d] /\ d \notin Removed]
  /\ audio' = Tail(audio)
  /\ sentAudio' = Append(sentAudio, Head(audio))
  /\ UNCHANGED <<requests, result, queued, inflight, accepting, captured, droppedAudio, wire>>

PopNext == PopControl \/ PopAudio

----------------------------------------------------------------------------
\* Mutants: the sequence number of the answer is ignored; the request that waits
\* is not scheduled.
NotifyAnySeq(c, r, reason) ==
  /\ inflight[c] # NoRequest
  /\ result' = Complete({inflight[c]}, reason)
  /\ inflight' = [inflight EXCEPT ![c] = NoRequest]
  /\ IF queued[c] # NoRequest /\ ~inSchedule[c]
       THEN Schedule(c)
       ELSE UNCHANGED <<schedule, inSchedule>>
  /\ UNCHANGED <<requests, queued, accepting, sound>>
NotifyForgets(c, r, reason) ==
  /\ inflight[c] # NoRequest /\ inflight[c] = r
  /\ result' = Complete({inflight[c]}, reason)
  /\ inflight' = [inflight EXCEPT ![c] = NoRequest]
  /\ UNCHANGED <<requests, queued, schedule, inSchedule, accepting, sound>>

\* notify: settle the request in flight if it is the one meant, and schedule the
\* one that waits behind it.
Notify(c, r, reason) ==
  /\ inflight[c] # NoRequest /\ inflight[c] = r
  /\ result' = Complete({inflight[c]}, reason)
  /\ inflight' = [inflight EXCEPT ![c] = NoRequest]
  /\ IF queued[c] # NoRequest /\ ~inSchedule[c]
       THEN Schedule(c)
       ELSE UNCHANGED <<schedule, inSchedule>>
  /\ UNCHANGED <<requests, queued, accepting, sound>>

\* apply_status or apply_flush_done: the sidecar answers a request it was sent,
\* possibly once more, possibly after the deadline.
Answer(r, reason) ==
  /\ r \in transmitted
  /\ answered' = answered \cup {r}
  /\ \/ \E c \in Replied : Notify(c, r, reason)
     \/ /\ \A c \in Replied : inflight[c] # r
        /\ UNCHANGED <<requests, result, controls, sound>>
  /\ UNCHANGED transmitted

\* timeout() of a request in flight, with the reason its caller names.
Timeout(c) ==
  /\ \E reason \in {"timeout", "cancelled"} : Notify(c, inflight[c], reason)
  /\ UNCHANGED wire

\* Mutant: only the request in flight is settled.
BeginTeardownStrands ==
  /\ accepting' = FALSE
  /\ result' = Complete({inflight[c] : c \in Commands}, "cancelled")
  /\ queued' = [c \in Commands |-> NoRequest]
  /\ inflight' = [c \in Commands |-> NoRequest]
  /\ inSchedule' = [c \in Commands |-> FALSE]
  /\ schedule' = <<>>
  /\ UNCHANGED <<requests, sound, wire>>

\* begin_teardown.
BeginTeardown ==
  /\ accepting' = FALSE
  /\ LET Outstanding == {inflight[c] : c \in Commands}
         Waiting     == {queued[c] : c \in Commands}
     IN  result' = [r \in Requests |->
                      IF r \in Outstanding THEN Complete(Outstanding, "cancelled")[r]
                                           ELSE Complete(Waiting, "no_session")[r]]
  /\ queued' = [c \in Commands |-> NoRequest]
  /\ inflight' = [c \in Commands |-> NoRequest]
  /\ inSchedule' = [c \in Commands |-> FALSE]
  /\ schedule' = <<>>
  /\ UNCHANGED <<requests, sound, wire>>

QueueNext ==
  \/ \E c \in Commands : EnqueueRefused(c) \/ EnqueueControl(c)
  \/ EnqueueAudio
  \/ PopNext
  \/ \E r \in Requests : \E reason \in AnswerReasons : Answer(r, reason)
  \/ \E c \in Replied : Timeout(c)
  \/ BeginTeardown

QueueSpec == QueueInit /\ [][QueueNext]_queueVars

\* The writer thread calls pop_next in its loop.
QueueFair == WF_queueVars(PopNext)

----------------------------------------------------------------------------
QueueTypeOK ==
  /\ issued \in 0 .. MaxRequests
  /\ command \in [Requests -> Commands]
  /\ result \in [Requests -> Reasons \cup {"none"}]
  /\ queued \in [Commands -> 0 .. MaxRequests]
  /\ inflight \in [Commands -> 0 .. MaxRequests]
  /\ inSchedule \in [Commands -> BOOLEAN]
  /\ schedule \in Seq(Commands)
  /\ accepting \in BOOLEAN
  /\ audio \in Seq(1 .. MaxAudio) /\ Len(audio) <= AudioCapacity
  /\ sentAudio \in Seq(1 .. MaxAudio)
  /\ captured \in 0 .. MaxAudio /\ droppedAudio \in 0 .. MaxAudio
  /\ transmitted \subseteq Requests /\ answered \subseteq transmitted

\* A command is scheduled, once, exactly when its queued request may go out:
\* every enqueue, answer and timeout in between keeps the flag, the schedule and
\* the two request slots in step, so no request is forgotten or sent twice.
ScheduleExact ==
  /\ \A c \in Commands : inSchedule[c] <=> queued[c] # NoRequest /\ inflight[c] = NoRequest
  /\ \A c \in Commands : inSchedule[c] <=> \E i \in DOMAIN schedule : schedule[i] = c
  /\ \A i, j \in DOMAIN schedule : schedule[i] = schedule[j] => i = j

\* docs/OBS_PLUGIN_IPC.md:176-182: the queue is a mailbox per command.  No
\* request is left open without being queued or in flight, of each command at
\* most one is outstanding, each is settled once, and all are at teardown.
OpenOf(c) == {r \in 1 .. issued : command[r] = c /\ result[r] = "none"}
Mailbox == INSTANCE ControlMailbox WITH
  Kinds       <- Replied,
  open        <- [c \in Replied |-> OpenOf(c)],
  outstanding <- [c \in Replied |-> {inflight[c]} \ {NoRequest}],
  settled     <- {r \in 1 .. issued : command[r] \in Replied /\ result[r] # "none"},
  closed      <- ~accepting
IsMailbox == Mailbox!Spec

\* A waiter is told "complete" only by an answer to its own request, never by a
\* late or repeated answer to an earlier one of the same command.
CompleteMeansAnswered ==
  \A r \in Requests : result[r] = "complete" => r \in answered

\* docs/OBS_PLUGIN_IPC.md:172: an audio frame goes out only when no request may.
ControlFirst ==
  [][sentAudio' # sentAudio =>
       \A c \in Commands : queued[c] = NoRequest \/ inflight[c] # NoRequest]_queueVars

\* Audio leaves in order, and what is neither sent nor queued has been counted
\* as dropped.
AudioAccounted ==
  /\ Len(sentAudio) + Len(audio) + droppedAudio = captured
  /\ \A i, j \in DOMAIN (sentAudio \o audio) :
       i < j => (sentAudio \o audio)[i] < (sentAudio \o audio)[j]

\* A request whose turn it is gets to the writer, or is settled without:
\* commands are served first come, first served, and none starves.
TurnComes ==
  \A c \in Commands : \A r \in Requests :
    queued[c] = r /\ inflight[c] = NoRequest ~> queued[c] # r

\* The order of pop_next: a request that may go out goes before any audio, and
\* no command waits behind the others for ever.
ControlGoesFirst == ControlFirst /\ TurnComes

\* Nothing is settled or lost in silence: "complete" stands for an answer to this
\* very request, and each audio frame is sent, queued or counted as dropped.
BooksBalance == CompleteMeansAnswered /\ AudioAccounted
=============================================================================
