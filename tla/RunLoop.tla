------------------------------- MODULE RunLoop -------------------------------
(***************************************************************************)
(* `run`: what it starts and stops again, the capture whose device thread  *)
(* fills a bounded queue, the audio task that segments what it reads and   *)
(* feeds the backend, and the pause flag of the hotkeys.  The backend is   *)
(* what it may do to its caller: a streaming one raises from feed_audio    *)
(* when its socket breaks, one that transcribes whole utterances raises    *)
(* from flush() when its request fails.                                    *)
(***************************************************************************)
EXTENDS Naturals, Sequences

CONSTANTS
  QueueMaxsize, \* of MicCapture
  MinSilenceFrames,
  MaxFrames,    \* bound on the frames the device delivers
  MaxPauses     \* bound on the uses of the pause key

ASSUME RunLoopAssumption ==
  QueueMaxsize \in Nat \ {0} /\ MinSilenceFrames \in Nat \ {0} /\ MaxFrames \in Nat /\ MaxPauses \in Nat

VARIABLES
  engine,   \* "streaming" or "utterance"
  options,  \* which of "browser", "export" and "hotkeys" the user asked for
  held,     \* what _run has started and not stopped: "obs", "export", "hotkeys", "backend"
  stage,    \* of _run: "off", "setup", "listen", "run", "cancel", "stop_capture",
            \* "stop_backend", "stop_hotkeys", "stop_sink", "over"; "raised" out of it
  task,     \* audio task: "none", "start", "read", "feed", "flush", "leave" (its finally
            \* clause) or "done"
  fell,     \* the task ended with an exception of its own
  device,   \* the input stream: "none", "on" or "closed"
  queue,    \* frames and at last the end of the capture
  landing,  \* frames the device thread handed to call_soon_threadsafe
  frames,   \* frames delivered so far
  segment,  \* UtteranceSegmenter: an utterance is open, and the silent frames in it
  paused, pauses,
  heard,    \* what the segmenter was given and when it ended an utterance (history)
  leaked    \* frames captured in the last pause and fed after it (history)

runLoopVars == <<engine, options, held, stage, task, fell, device, queue, landing, frames, segment,
                 paused, pauses, heard, leaked>>

Eof == [n |-> 0, speech |-> FALSE, muted |-> FALSE]
Closed == [open |-> FALSE, silent |-> 0]

RunLoopInit ==
  /\ engine \in {"streaming", "utterance"}
  /\ options \in SUBSET {"browser", "export", "hotkeys"}
  /\ held = {} /\ stage = "off" /\ task = "none" /\ fell = FALSE
  /\ device = "none" /\ queue = <<>> /\ landing = <<>> /\ frames = 0
  /\ segment = Closed /\ paused = FALSE /\ pauses = 0
  /\ heard = <<>> /\ leaked = 0

----------------------------------------------------------------------------
(* _run up to its wait.                                                    *)

setupFrame == <<engine, options, fell, device, queue, landing, frames, segment, paused, pauses, heard, leaked>>

\* The overlay server is built with an argument create_app does not take; the
\* OBS sink is connected, or start() raises.
SinksStart ==
  /\ stage = "off"
  /\ IF "browser" \in options THEN stage' = "raised" /\ UNCHANGED held
     ELSE \/ stage' = "setup" /\ held' = {"obs"}
          \/ stage' = "raised" /\ UNCHANGED held
  /\ UNCHANGED <<task, setupFrame>>

\* The transcript file is opened, then the backend, the capture and the
\* detector are built; an exception closes the file, and only the file.
PartsBuilt ==
  /\ stage = "setup"
  /\ \/ stage' = "listen" /\ held' = held \cup (options \cap {"export"})
     \/ stage' = "raised" /\ UNCHANGED held
  /\ UNCHANGED <<task, setupFrame>>

\* ExitStack: the file is closed however _run is left.
FileClosed == held \ {"export"}

\* The listener starts even if OBS does not answer; an interrupt may end the wait.
HotkeysListen ==
  /\ stage = "listen"
  /\ \/ stage' = "run" /\ task' = "start" /\ held' = held \cup (options \cap {"hotkeys"})
     \/ "hotkeys" \in options /\ stage' = "raised" /\ held' = FileClosed /\ UNCHANGED task
  /\ UNCHANGED setupFrame

----------------------------------------------------------------------------
(* MicCapture.                                                             *)

\* _callback, in the thread of the device.
DeviceDelivers(speech) ==
  /\ device = "on" /\ frames < MaxFrames
  /\ frames' = frames + 1
  /\ landing' = Append(landing, [n |-> frames + 1, speech |-> speech, muted |-> paused])
  /\ UNCHANGED <<engine, options, held, stage, task, fell, device, queue, segment, paused, pauses, heard, leaked>>

\* _put_nowait_drop_oldest
PutDropOldest(frame) ==
  IF Len(queue) = QueueMaxsize THEN Append(Tail(queue), frame) ELSE Append(queue, frame)

FrameLands ==
  /\ landing # <<>> /\ landing' = Tail(landing)
  /\ queue' = PutDropOldest(Head(landing))
  /\ UNCHANGED <<engine, options, held, stage, task, fell, device, frames, segment, paused, pauses, heard, leaked>>

\* set_paused, by the hotkey listener, in a step of the loop: what the device
\* handed over before it has landed by then.
PauseKey ==
  /\ stage = "run" /\ "hotkeys" \in held /\ landing = <<>> /\ pauses < MaxPauses /\ pauses' = pauses + 1
  /\ paused' = ~paused
  /\ leaked' = 0
  /\ UNCHANGED <<engine, options, held, stage, task, fell, device, queue, landing, frames, segment, heard>>

----------------------------------------------------------------------------
(* UtteranceSegmenter.process.                                             *)

\* Mutant: speech does not end the count of silent frames.
SegmentedKeepingCount(speech) ==
  IF speech THEN [open |-> TRUE, silent |-> segment.silent]
  ELSE IF segment.open THEN [segment EXCEPT !.silent = @ + 1] ELSE Closed

Segmented(speech) ==
  IF speech THEN [open |-> TRUE, silent |-> 0]
  ELSE IF segment.open THEN [segment EXCEPT !.silent = @ + 1] ELSE Closed

----------------------------------------------------------------------------
(* _capture_to_backend.                                                    *)

\* start_stream and capture.start; either may raise.
TaskStarts ==
  /\ task = "start"
  /\ \/ /\ stage = "run" /\ device' = "on" /\ task' = "read" /\ UNCHANGED fell
        /\ held' = held \cup {"backend"}
     \/ /\ task' = "leave" /\ fell' = (stage = "run") /\ UNCHANGED device
        /\ held' \in {held, held \cup {"backend"}}
  /\ UNCHANGED <<engine, options, stage, queue, landing, frames, segment, paused, pauses, heard, leaked>>

TaskReads ==
  /\ task = "read" /\ stage = "run" /\ queue # <<>> /\ queue' = Tail(queue)
  /\ LET f == Head(queue) IN
     IF f = Eof \/ paused
       THEN /\ task' = IF f = Eof THEN "leave" ELSE task
            /\ UNCHANGED <<segment, heard, leaked>>
       ELSE LET s == Segmented(f.speech)
                ends == s.open /\ s.silent >= MinSilenceFrames IN
            /\ segment' = IF ends THEN Closed ELSE s
            /\ task' = IF f.speech THEN "feed" ELSE IF ends THEN "flush" ELSE "read"
            /\ heard' = heard \o <<IF f.speech THEN "speech" ELSE "silence">>
                              \o (IF ends THEN <<"end">> ELSE <<>>)
            /\ leaked' = IF f.muted THEN leaked + 1 ELSE leaked
  /\ UNCHANGED <<engine, options, held, stage, fell, device, landing, frames, paused, pauses>>

\* The call of the backend returns, is cancelled by the teardown, or raises:
\* nothing in the loop catches what it raises.
TaskReturns ==
  /\ task \in {"feed", "flush"} /\ stage = "run"
  /\ \/ task' = "read" /\ UNCHANGED fell
     \/ /\ engine = IF task = "feed" THEN "streaming" ELSE "utterance"
        /\ task' = "leave" /\ fell' = TRUE
  /\ UNCHANGED <<engine, options, held, stage, device, queue, landing, frames, segment, paused, pauses, heard, leaked>>

TaskCancelled ==
  /\ task \in {"read", "feed", "flush"} /\ stage = "cancel"
  /\ task' = "leave"
  /\ UNCHANGED <<engine, options, held, stage, fell, device, queue, landing, frames, segment, paused, pauses, heard, leaked>>

\* The finally clause: an utterance still open is flushed.
TaskLeaves ==
  /\ task = "leave" /\ task' = "done"
  /\ segment' = Closed
  /\ heard' = IF segment.open THEN Append(heard, "end") ELSE heard
  /\ UNCHANGED <<engine, options, held, stage, fell, device, queue, landing, frames, paused, pauses, leaked>>

----------------------------------------------------------------------------
(* The finally clause of _run.                                             *)

RunEnds ==
  /\ stage = "run" /\ stage' = "cancel"
  /\ UNCHANGED <<engine, options, held, task, fell, device, queue, landing, frames, segment, paused, pauses, heard, leaked>>

\* Mutant: what the task raised is raised again by awaiting it.
TaskAwaitedRaising ==
  /\ stage = "cancel" /\ task = "done" /\ ~fell /\ stage' = "stop_capture"
  /\ UNCHANGED <<engine, options, held, task, fell, device, queue, landing, frames, segment, paused, pauses, heard, leaked>>

TaskAwaited ==
  /\ stage = "cancel" /\ task = "done" /\ stage' = "stop_capture"
  /\ UNCHANGED <<engine, options, held, task, fell, device, queue, landing, frames, segment, paused, pauses, heard, leaked>>

\* A device that fails to stop, and a backend whose farewell or last request
\* fails, end the clause: what comes after them is not stopped.
CaptureStops ==
  /\ stage = "stop_capture"
  /\ \/ /\ stage' = "stop_backend" /\ UNCHANGED held
        /\ IF device = "on"
             THEN device' = "closed" /\ queue' = PutDropOldest(Eof)
             ELSE UNCHANGED <<device, queue>>
     \/ /\ device = "on" /\ stage' = "raised" /\ held' = FileClosed
        /\ UNCHANGED <<device, queue>>
  /\ UNCHANGED <<engine, options, task, fell, landing, frames, segment, paused, pauses, heard, leaked>>

BackendStops ==
  /\ stage = "stop_backend"
  /\ \/ stage' = "stop_hotkeys" /\ held' = held \ {"backend"}
     \/ "backend" \in held /\ stage' = "raised" /\ held' = FileClosed
  /\ UNCHANGED <<task, setupFrame>>

HotkeysStop ==
  /\ stage = "stop_hotkeys" /\ stage' = "stop_sink" /\ held' = held \ {"hotkeys"}
  /\ UNCHANGED <<task, setupFrame>>

SinkStops ==
  /\ stage = "stop_sink" /\ stage' = "over" /\ held' = FileClosed \ {"obs"}
  /\ UNCHANGED <<task, setupFrame>>

RunLoopNext ==
  \/ SinksStart \/ PartsBuilt \/ HotkeysListen
  \/ \E speech \in BOOLEAN : DeviceDelivers(speech)
  \/ FrameLands \/ PauseKey
  \/ TaskStarts \/ TaskReads \/ TaskReturns \/ TaskCancelled \/ TaskLeaves
  \/ RunEnds \/ TaskAwaited \/ CaptureStops \/ BackendStops \/ HotkeysStop \/ SinkStops

RunLoopFair ==
  /\ WF_runLoopVars(TaskStarts) /\ WF_runLoopVars(TaskReturns)
  /\ WF_runLoopVars(TaskCancelled) /\ WF_runLoopVars(TaskLeaves)
  /\ WF_runLoopVars(TaskAwaited \/ CaptureStops \/ BackendStops \/ HotkeysStop \/ SinkStops)

RunLoopSpec == RunLoopInit /\ [][RunLoopNext]_runLoopVars /\ RunLoopFair

----------------------------------------------------------------------------
(* Properties.                                                             *)

\* An utterance ends exactly when MinSilenceFrames silent frames follow its
\* last speech, however its frames were queued, dropped or separated by a
\* pause; only the end of the task ends it early, and nothing is left open.
UtterancesExact ==
  /\ \A i \in DOMAIN heard : heard[i] = "end" /\ ~(i = Len(heard) /\ task = "done") =>
       /\ i > MinSilenceFrames + 1
       /\ heard[i - MinSilenceFrames - 1] = "speech"
       /\ \A j \in (i - MinSilenceFrames)..(i - 1) : heard[j] = "silence"
  /\ \A i \in DOMAIN heard : heard[i] = "speech" =>
       LET cut == i + MinSilenceFrames + 1 IN
       \/ \E j \in i + 1..cut - 1 : j > Len(heard) \/ heard[j] # "silence"
       \/ cut <= Len(heard) /\ heard[cut] = "end"
  /\ task = "done" => \A i \in DOMAIN heard :
       heard[i] = "speech" => \E j \in i..Len(heard) : heard[j] = "end"

\* A frame captured during a pause can be fed after it, because the flag is
\* read when a frame is taken from the queue: never more of them than the
\* queue holds.
PauseLeakBounded == leaked <= QueueMaxsize

\* The backend is not stopped under the audio task: when stop_stream runs,
\* the task and the device are gone.  A run that ends of itself has stopped
\* all it started; one that raises has at least closed the transcript file,
\* and its audio task is over.
BackendOutlivesTask ==
  /\ stage \in {"stop_backend", "stop_hotkeys", "stop_sink", "over"} => task = "done" /\ device # "on"
  /\ stage = "over" => held = {}
  /\ stage = "raised" => "export" \notin held /\ task \in {"none", "done"}

\* What the segmenter makes of the audio, and what a teardown leaves behind.
RunIsExact == UtterancesExact /\ PauseLeakBounded /\ BackendOutlivesTask

\* The teardown comes to its end, at the last step or at one that raises,
\* wherever it finds the audio task, one that already fell included.
RunReturns == stage = "cancel" ~> stage \in {"over", "raised"}
=============================================================================
