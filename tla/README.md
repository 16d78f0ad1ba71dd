# OBS Captions: models and proofs

OBS Captions puts live captions on an OBS scene. An OBS audio filter (C++, `native-plugin/`)
hands the audio of a source to a child process (Python, `src/obs_captions/`) over a pipe and
shows the captions it gets back. The Python package also runs alone, with a microphone, an
overlay server or an obs-websocket text source. This directory holds TLA+ models of the parts
where threads, processes and time meet, TLC runs that check them on small instances, and
proofs for TLAPS. Paths below are relative to the repository; `docs/OBS_PLUGIN_IPC.md` is the
design document of the plugin and is quoted by line.

## 1. The system

### 1.1 The parts

| part | code | state it keeps | operations |
| --- | --- | --- | --- |
| audio ring | `native-plugin/src/ring.hpp` | head, tail, a version and a value per slot, drop counter | `push` (audio callback), `pop` (writer thread) |
| producer barrier | `quiesce.cpp`, `push_audio` in `ipc-bridge-core.cpp` | accepting flag, count of callbacks inside; the bridge's current barrier and ring | enter, leave, drain, reset and release of the ring |
| out queue | `out_queue.cpp` | two request slots per command, schedule, audio deque, waiters | enqueue, pop, notify, timeout, teardown |
| bridge | `ipc-bridge*.cpp` | intent (`desired_`), `no_respawn_`, terminal state, session flags, epoch, four threads, child process | `start`, `stop`, `request_restart`, `request_destroy`; a supervisor that runs sessions; reader, writer and heartbeat of each session |
| caption gate | `epoch_gate.cpp`, `process_payload`, `apply_caption` | active epoch, last accepted caption | evaluate, advance |
| child transport | `ipc-transport.cpp` | process and pipe handles | spawn, read, write, cancel, reap |
| frame codec | `framing.cpp`, `ipc/framing/` | bytes of an incomplete frame | encode, feed |
| filter, properties | `obs-captions-filter.cpp`, ... | one bridge per filter | create, update (stop then start), destroy, filter_audio |
| sidecar | `ipc/sidecar.py`, `ipc/control_dispatcher.py` | session (epoch, backend, active), pending HELLOs, a slot per command, audio queue, out queue | a reader thread; coroutines for control, audio, output and the end of work |
| streaming backends | `stt/streaming.py` and a file per provider; `stt/azure.py` | socket, receive task, text put together so far | start, feed, stop; receive, reconnect |
| Google Speech V2 | `stt/google_speech_v2.py` | a queue with sentinels, drive task, timer, client | start, feed, stop; open, restart, back off |
| local Whisper | `stt/local_whisper.py`, `stt/hardware.py` | rolling window, last hypothesis, count of its confirmed tokens | feed, flush; recommend a model |
| utterance backends, registry | `stt/utterance.py`, `groq.py`, `openrouter.py`, `replicate.py`, `registry.py`, `validate.py` | the audio of an utterance, an HTTP client | feed, flush, stop; create a backend, test a key |
| capture and segmenter | `audio/`, `vad.py` | queue between callback and event loop, device handles; run of silence | start, stop, read; process |
| caption state, export | `pipeline.py`, `text.py`, `export_sink.py` | current partial, committed lines, last cue | on_partial, on_final, clear |
| overlay server and page | `server/`, `web/overlay/overlay.js` | clients, last message; the page's socket | connect, broadcast, disconnect, render |
| obs-websocket sink | `obs_sink.py` | connection, pending snapshot, debounce and reconnect tasks | start, publish, send, reconnect, stop |
| obs-websocket hotkeys | `obs_hotkey.py` | connection, keep-alive, re-arm task; the pause flag | start, handle an event, reconnect, stop |
| run loop | `app_runner.py` | what was started, the audio task | set up, run, tear down |
| settings window | `gui/` | the form, two files, one child process, two pollers | save, start, stop, close, test a key, apply a recommendation |
| command line, configuration | `cli.py`, `config.py`, `settings_*.py` | configuration | load, validate |

### 1.2 How they interact

The audio callback enters the barrier and pushes a frame into the ring, and must never block.
The writer thread of the session takes the next frame of the out queue and writes it to the child's
stdin; when the queue has none, it pops a frame of audio from the ring instead. (The queue has a place
for audio of its own, `enqueue_audio`, which the bridge does not use.) The child's
reader thread sorts frames into HELLO, CONTROL and AUDIO; its coroutines start a backend,
carry out requests, feed audio and write READY, STATUS, FLUSH_DONE and captions to stdout. The
session's reader thread in the plugin takes them: READY lets the supervisor finish the
handshake, STATUS and FLUSH_DONE settle waiters, captions pass the gate and are shown.

The supervisor owns the session: it spawns the child, sends HELLO, waits for READY, starts the
writer and the heartbeat, and then sleeps on `state_cv_`. End of file, a bad frame, an error
status, a failed write or a missing heartbeat latch `restart`; `stop()` latches `destroy`. The
teardown advances the epoch, cancels the child, joins the threads with a deadline and either
rearms for the next session, after a backoff, or drains the barrier and releases the ring. A
thread that misses its deadline is detached and the bridge becomes degraded.

`run` wires the stand-alone program: the device's callback hands frames to a bounded queue of the
event loop; the audio task takes them, asks the segmenter, feeds the backend and flushes it at the
end of an utterance. The backend calls `on_partial` and `on_final`, which filter the text and change
the caption state; its listeners are the hub (a broadcast per change to the sockets of the overlay
page), the OBS sink and, for finals, the transcript file. The hotkey listener sets the pause flag
that the audio task reads, and clears the state. The settings window writes `config.toml` and `.env`
and starts `run` as a child.

### 1.3 What is hard

* **Lock-free sharing**: the ring is overwritten while it is read; the callback takes barrier
  and ring in two steps while `stop()` and `start()` replace both.
* **Ownership at the end**: destroy races restart, rearming, backoff, spawn and READY; threads
  that cannot be joined live on in an object that is used again.
* **Time**: four timeouts run against each other (hello, heartbeat, join, drain).
* **Requests over an unreliable child**: an answer may be late, repeated, or belong to a
  request that was superseded; a request may be received twice.
* **Two notions of a session**: the bridge's epoch and the sidecar's change at different
  moments, and audio and captions are stamped at a distance from where they are used.
* **Coroutines and threads**: the sidecar reads session state in its reader thread and uses it
  after the event loop has moved on; an SDK, the audio device and the Tk thread's helpers hand
  results to a loop that may have gone on to something else.
* **Connections that break**: six speech protocols, OBS and the overlay page each lose their socket
  at any moment and regain it with state left over from before.
* **Cancelled tasks**: a debounce, a request, an audio task are cancelled where they await, and what
  they shared with others goes with them.
* **Text that is revised**: a window of audio is transcribed again and again, and what was committed
  must be found again in the next hypothesis.

`PROJECT.json` lists every such place with its line and the property that covers it, or says
that none does yet.

### 1.4 What makes each part correct

* ring: what `pop` returns is one whole frame, in order, not stale when it is chosen, and the
  newest frame gets through.
* barrier: its count is exact, a drained barrier is empty for good, and no ring is released
  under a callback that pushes into it.
* out queue: each request is settled exactly once and by its own answer, none is forgotten in
  the schedule, control precedes audio, every lost frame is counted.
* bridge: `stop()` returns and leaves nothing running, a destroy is final, sessions do not
  overlap, a restart is served, a READY is not mistaken for another session's.
* gate: captions of an epoch are shown in order and once, and epoch by epoch.
* clocks: a silent child is noticed within a known time, a lively one is left alone.
* sidecar: a request is answered once per receipt and carried out once, audio reaches the
  backend of its own session, and nothing is left undone at the end of stdin.
* streaming backends: each utterance a provider commits becomes final once, whole and in order,
  across reconnects; a broken socket is mended or given up; after a stop nothing comes.
* Speech V2: audio goes to one stream, once and in order, and is not left in the queue.
* local Whisper: each word becomes final once and in order, however often it was transcribed.
* utterance backends: each chunk goes into one request.
* run loop: utterances end where they should, nothing is stopped under the audio task, the teardown
  ends.
* overlay, sink, hotkeys: what is shown is the newest caption; the keys keep their meaning; after a
  stop nothing is held.
* frames: the reader gets what was written, wherever a read ends, and nothing of a damaged frame.
* settings window: it loses no child, loads what it saved, shows the answer to the last question,
  and its tables agree with those of the program it starts.

## 2. The modules

| module | models | kind |
| --- | --- | --- |
| `SeqlockRing` | the ring; every atomic access is a step, the payload is copied word by word | detailed |
| `LossyFeed` | what `push` and `pop` promise: frames in order, some missing, none twice | abstract |
| `AudioPath` | barrier, `push_audio`, ring handover over several `start()` | detailed |
| `OutQueue` | the out queue; every method is one step, as each holds the mutex | detailed |
| `ControlMailbox` | what callers of the queue may rely on: per command at most one request outstanding, each settled once, all at the end | abstract |
| `IpcBridge` | host, supervisor and the three threads of each session | composition |
| `EpochGate` | gate, reader and teardown | detailed |
| `SessionTiming` | hello timeout, heartbeats and backoff, in ticks | detailed |
| `Sidecar` | reader thread, dispatcher and coroutines of the Python process | composition |
| `RunLoop` | `run`: setup, capture queue, audio task with its segmenter, teardown | composition |
| `AudioDevice` | the device a configuration names, and its native handles | detailed |
| `Streaming` | receive loop and reconnects of the websocket backends, and their six protocols | detailed |
| `SpeechV2` | streams over one queue with sentinels, a timer, drops | detailed |
| `Azure` | callbacks of an SDK thread and the loop they are left to | detailed |
| `LocalWhisper` | rolling window, agreement of hypotheses, rebase after a trim | detailed |
| `Utterance` | a request per utterance | detailed |
| `Captions` | caption state, suppression, wrapping, cue times, as operators | pure |
| `Overlay` | caption state, hub, sockets and page | composition of `Captions` with the server |
| `ObsTextSink` | the OBS text source and the tasks that write it | detailed |
| `ObsHotkey` | the listener, its keep-alive and the two sentinel inputs | detailed |
| `Wire` | encoder, decoder and reader thread over a stream cut anywhere | detailed |
| `SettingsFiles` | what is read from and written to both files, as operators | pure |
| `RunControl` | Save, Start, Stop, close, the children and their threads | composition with `SettingsFiles` |
| `KeyCheck` | the key test: threads, a queue of one, bounded polls | detailed |
| `EngineChoice` | the tables of settings, key test and registry | detailed |
| `Recommendation` | probes, the rules, the poll | detailed |
| `Subsequences` | what is left of a sequence: `_write_env` without the dropped lines, a queue without its sentinels | pure |
| `*Proofs` | theorems about the modules they extend | proofs |
| `SequenceLemmas` | induction, `FlattenSeq`, `Among`, `SetToSeq` | lemmas |
| `MC*` | values for set-valued constants; all but `MCRunControl` also put modules side by side | model checking |

**SeqlockRing.** `ppc` and `rpc` are the places of `push` and `pop` between two accesses. A
frame is a function from words to the number of the push that wrote it, so a torn frame is one
with two numbers. `last` is the frame returned last (history). Version numbers wrap at 2^32 in
the code; the model has unbounded ones: to be deceived, `pop` would have to rest in one copy
for 2^31 laps of the ring. `LoadsInOrder` says whether the copy of the payload stays before the
second load of the version. x86 keeps it there; the language does not.

**AudioPath.** Barriers and rings are numbered by the `start()` that created them. The five
returns of `push_audio` are separate steps. A callback may take its barrier before a `start()`
and its ring after it; nothing in the code prevents that. `OwnRingIsHeld` is about the others.

**OutQueue.** A request is a number; `command` and `result` are what was asked and what the
waiter was told. `queued` and `inflight` are the two slots of a command, `schedule` and
`inSchedule` the deque and the flag that guards it. Late, repeated and missing answers are
answers to any request that was transmitted. `timeout()` and `cancel()` may happen at any moment
although only tests call them. The audio half (`BooksBalance`, `ControlGoesFirst`) is about the queue's own
`enqueue_audio`; the product's writer reads the ring, behind `pop_next`, and is not bound by it.

**IpcBridge.** `sup`, `host` and `worker` are the places of the threads; a worker is named by
its role and the session that started it, since a detached one outlives its session. Every
atomic that steers the life cycle is a variable. A restart latch, a destroy latch and the
compare-and-exchange that clears the former are separate steps, and so are the test of
`desired_` and the block on `state_cv_`: a notification is made without the mutex, and one that falls
between the two is not heard (`dozing`, `unheard`). All timeouts (join, hello, drain) may pass at any
moment. `start()` may follow any `stop()`, also one that ended degraded; `before` tells the sessions of
earlier starts, whose detached threads run on beside the new ones.

**EpochGate.** The reader holds one caption between `process_payload`'s early gate and the
callback; the teardown may advance the epoch between any two of its steps, so that a caption may be
shown when its epoch is over. `OneLateAtMost` says which: the last of it, and before any of the next.

**SessionTiming.** One tick is 125 ms. Whoever is due acts before the next tick. A teardown
takes as long as it likes. The order of threads is left to `IpcBridge`.

**Sidecar.** `at` is where the control coroutine awaits; the others are at their queue or in the
backend. Coroutines change only at an await; the reader thread interleaves with everything.
Awaiting the backend is open-ended and may end in failure. A request is its sequence number,
received up to `MaxReceipts` times; an answer is one message whatever its status.

**RunLoop.** `stage` is where `_run` is: setting up, listening, or at one of its teardown steps, each of
which may raise and leave the later ones undone; `held` is what was started and not stopped. `landing`
are frames the device thread gave to `call_soon_threadsafe`, `queue` the bounded queue, with the end of
the capture as its last item. The audio task may be cancelled wherever it awaits. The backend is what it
may do to its caller: a streaming one raises from `feed_audio`, an utterance one from `flush`.

**AudioDevice.** A layout is a sequence of devices that may be exchanged for another at any moment. An
index is looked up once and opened later. A start is a sequence of steps, from the PyAudio object (`players`)
over the stream (`streams`) to its start; each may raise, and the code's handlers then close what there is,
in which a step may raise again. `stranded` counts the stops in which `stop_stream` raised, the one way a
pair of handles is lost.

**Streaming.** The server is external: it hears an utterance word by word (a word is a number) and says
so in the messages of one of six providers; `accum`, `finals` and the reset of each are those of the
provider's `parse_event`. `recv` is the receive task, `ws` the socket, which breaks at any moment, also
under the setup frames of a reconnect. `carried` notes that the text put together is still that of a socket
that broke within an utterance, `mixed` the finals of google that were put together from two sockets;
`TranscriptsExact` excepts, of the providers of deltas, what they note, and nothing else.

**SpeechV2.** The queue holds chunks and the two sentinels. `orphans` counts the request generators whose
stream the server ended while they waited for the queue: each takes the next item into nowhere. The timer may fire
into a stream that has already ended.

**Azure.** What the SDK's thread leaves to `call_soon_threadsafe` is the sequence `calls`; `shownLate` is
a transcript handed on after `stop_stream`. A start that is cancelled during its handshake is left out.

**LocalWhisper.** One frame holds one word. A transcription is the window's words, the last one perhaps
misheard (its negative), or nothing. `feeding` and `flushing` are transcriptions under way: in `run` one
at a time, in the sidecar beside each other (`Offloads`). `unanchored` notes what the code cannot be held to.

**Utterance.** A request is the sequence of chunks it was made for; it ends, fails, is asked for again
(Replicate) or is cancelled with its task. What becomes of its text is in `Overlay`.

**Captions, Overlay.** `Captions` has suppression, wrapping, `CaptionState` and cue times as operators.
`Overlay` leads a transcript through the state to the hub, over sockets that are cut, closed and opened again, to
what the page renders, and to the transcript file. Texts are sequences of symbols.

**ObsTextSink.** `deb` and `rec` are the debounce task and the reconnect task it shares with any other
sender; a newer caption cancels the former where it waits. `unsent` notes that the one re-send of a
reconnect failed. The debounce is not zero, which is the default.

**ObsHotkey.** `sentinel` is OBS's mute state of two inputs; a press flips one. `missed` and `stuck` note presses
nobody heard and re-arms that failed. `due` and `late` are re-arm tasks from before and during `stop()`.

**Wire.** A frame is a header and a payload, of which the model keeps the length, the lengths its strings
claim and whether they are UTF-8. A read returns the block that was asked for (`ReadSize`, 65536 in the
code) or, when the plugin has hung up, the rest, which may end inside a header or a payload; until then it
waits, whatever is in the pipe. Blocks cut frames anywhere. Frames may be damaged on the way.

**SettingsFiles, RunControl.** A configuration is a function from paths to values, `.env` a sequence
of lines. `callback` and `draft` are the Tk thread in the middle of a save; a write may be cut short
(`torn`). Children live beside it, each with a thread that reads its output and asks the Tk thread to
show its end. `saved` is the form last written to the end. A child is launched in the same callback that
tested for a running one, so that the second test, in `CaptionRunner.start`, never fails and is left out;
the mutant of `NoOrphan` stands for code without either.

**KeyCheck, EngineChoice, Recommendation.** A click is numbered; a late probe may fill the queue of one
place; after an answer of its own the poll shows a message box, and the button comes back when the user has
closed it. `EngineChoice` follows a key from the field through the key test, `.env` and the variables of a
shell to `run --config` and the registry, for all engines; a variable of the shell goes before `.env`. The
window's own child uses no key, since it runs with the defaults (`child_settings`); what it would inherit is
in `RunControl`. `Recommendation` has the probes, the rules and the hundred polls.

**MCChannel, MCSessions, MCSidecar, MCSpeech, MCSurfaces** put modules that share no state side by side;
`part` says which of them a behaviour is about, the others rest in an initial state. The checks are those of
each part alone.

## 3. The runs

| run | instance | distinct states | shows |
| --- | --- | --- | --- |
| `channel` | ring: 2 slots, 3 words, 4 pushes; barrier: 2 callbacks, 2 starts; queue: 3 requests of start, flush, heartbeat, an audio queue of 1 | 117,020 | ring `DeliveredIntact`, `DeliversInOrder` (refinement of `LossyFeed`), `FreshestComesOut`; barrier `BarrierIsExact`, `OwnRingIsHeld`, `ClosedBarrierEmpties`; queue `ScheduleExact`, `IsMailbox` (refinement of `ControlMailbox`), `BooksBalance`, `ControlGoesFirst` |
| `bridge` | 1 start, 2 sessions, epochs to 3 | 63,991 | `SessionsAreSeparate`, `IntentsHold`, `IntentsServed` |
| `sessions` | bridge: 2 starts, 2 sessions, epochs to 2, 2 threads left behind; gate: 2 times, 2 texts, 2 numbers, 2 epochs | 2.1 million | bridge `StopIsComplete`; gate `ShowsEachOnce`, `OneLateAtMost` |
| `sidecar` | sidecar: 2 requests received twice, a HELLO, queues of 1; clocks: the product's times | 869,264 | sidecar `RequestsCounted`, `NothingMisplaced`, `RequestsAnswered`; clocks `NoticedInTime`, `NoFalseAlarm` |
| `speech` | see below | 374,797 | run loop `RunIsExact`, `RunReturns`; streaming `TranscriptsExact`, `BrokenIsMended`; Speech V2 `AudioIsHeard`; Whisper `WordsCommittedOnce`; utterances `EachChunkOnce`; Azure `NothingShownLate`; device `DeviceIsTheNamed`, `HandlesGivenBack`; overlay `OverlayIsExact` |
| `surfaces` | see below | 344,919 | sink `SinkKeepsUp`; hotkeys `KeysKeepTheirMeaning`; frames `WireIsExact`; window `NoOrphan`, `SavedIsLoaded`, `LastClickIsAnswered`, `TestedKeyBuilds`, `ProbedIsShown` |

Six more runs are expected to fail, see 4.

Why the bounds are enough. In the ring, two slots and four pushes let the producer lap a copy
twice, and three words (one is the sequence number) let a copy tear at either end. Two callbacks
can be on both sides of a drain, and two starts give the straddle. Three requests give one in
flight, one queued and one that supersedes, over two commands and the heartbeat, which is never
answered. Two sessions of one start give every handover within it, and a second start beside what a
degraded one left every handover between starts; more only repeat them. At most two of the three threads
that can be left are followed at once (`TwoAreLeft`, a constraint of the run): they share nothing but what
each shares with the bridge, and the theorem has no such bound. Two
numbers and two epochs let a late caption of an old epoch meet a lower number of a new one, and two
times and two texts a caption that differs from the last in one of them only. Two requests of four commands each with a repetition let one be put back, superseded,
cleared by a HELLO and repeated. A second HELLO is left out on purpose, see 6.

In `speech`: four frames over a queue of two fill it and overflow; two silent frames end an utterance,
so that one in the middle of it does not; two pauses give a frame captured in the first and fed between
them. Three words give two utterances, one of two words; three breaks exhaust two reconnects. Three
chunks with two timers, two drops and two sessions put a sentinel before, between and behind chunks, and
leave two orphans. Whisper's window holds three words of six, so that it is trimmed three times. Four
chunks and two polls give a request under way, one buffered, one answered late. Two captures let handles leak
from the first. Three captions of up to three symbols over two lines of two wrap, scroll and are
suppressed; two sockets give one reconnect with messages on the way over both.

In `surfaces`: three captions and three faults let a caption be cancelled while it waits for a reconnect
that fails again; two attempts are the least that can be repeated. Three presses flip a key and flip it back
beside the other key. Payloads are limited to 31 bytes, where the largest frames sent just fit or
just do not; blocks of 20 bytes end inside headers, inside payloads and between frames, and are longer and
shorter than a frame. Three starts leave an old child's end behind a new one; a click more than the retries
leaves two late probes.

`CHECK_DEADLOCK FALSE` is set where the instance ends because its bound is reached or the
system stops for good (`stop()` without a further `start()`, end of stdin, captions used up, the window closed).

### Fairness

* the ring in `channel`: a push that has begun runs to its end, and the writer keeps polling (it sleeps 1 ms
  between polls while the session runs).
* its barrier: a callback that has begun ends; nothing in `push_audio` blocks. Nothing is assumed
  of the host.
* its queue: the writer takes the next frame as long as there is one. No answer is ever assumed.
* `bridge`: the supervisor and the host run; a thread whose child is gone does not stay in a
  read, write or sleep. A thread with a living child may block for ever, so what unblocks it has
  to be the teardown. A supervisor that blocked after the last notification is assumed to sleep on.
* `sidecar`: each coroutine gets turns, and a call into the backend returns or fails. Nothing is
  assumed of what arrives.
* `speech`: the event loop runs a task that is ready; a teardown step, a connection attempt and an
  HTTP request end or raise (each has a timeout in the code or in its library). That a server speaks or
  a device delivers is never assumed.
* `surfaces`: the callbacks the window leaves with `after()` run. A probe's thread may take for ever.
* `sessions` checks safety only, as do the clocks, the sink, the hotkeys, the overlay, the frames and the
  files. In the clocks a thread that is due blocks the tick, which is how "in time" is a safety property.

## 4. Disagreements with the documents

Six runs are expected to fail; each is one disagreement, with its place in `PROJECT.json`.

* `session_heartbeat`: the document has heartbeats in both directions; the Python sidecar sends none,
  so the plugin restarts a healthy one when its first heartbeat timeout is over.
* `whisper_twice`: a docstring promises that no committed token is emitted again, even for an adversarial
  hypothesis. A last word that is misheard once, twice in a row, is enough: the overlap is looked for as
  a suffix of the whole last hypothesis, whose end is its least certain part.
* `child_settings`: the window saves `config.toml` before it starts the child, but does not tell the
  child of it; the child runs with the defaults.
* `bridge_asleep`: the document bounds `filter_destroy` by about two seconds. `desired_` is changed and
  `state_cv_` notified without `state_mutex_`; if all notifications of a stop fall between the supervisor's
  test and its block, `stop()` hangs. `IntentsServed` says that nothing else holds up a stop or a restart.
* `bridge_degraded`: the document starts nothing beside a detached thread. `start()` does not look whether
  the last `stop()` was degraded, and a change of the filter's settings calls both; the old writer and the
  new one then pop the same ring.
* `hello_waits`: the reader thread asks a buffered stdin for 64 KiB and gets nothing before that many bytes
  or the end have come, while the plugin sends no more than HELLO until it is answered. No session of the
  shipped sidecar comes up over a pipe; what the other modules show of sessions is of a reader that is given
  what is in the pipe, as the tests' readers are.

Two more are told by changing a constant or adding an invariant to a run above:

* `channel` with `LoadsInOrder = FALSE`: with the memory order the source asks for, the copy may be read
  after the second version load, and a torn frame passes the check. It needs a fence; x86 hides it.
* `channel` with the invariant `NoPushIntoReleasedRing`: a callback that is between its two snapshots when
  the filter is updated pushes into the new ring unknown to the new barrier, and the next drain releases
  the ring under it.

Seen while modelling, told by the comment of the property that allows it:

* `EpochGate.OneLateAtMost`: the document refuses all effects of a session from the moment its epoch is over.
  A caption that passed the gate just before is shown just after (`ipc-bridge-internal.cpp:225`): acceptance
  is under the lock, the callback is not. The property bounds this to one caption, its session's last.
* `Streaming.PartialIsHypothesis`: docstrings (`streaming.py:57`, `base.py:21`) promise that `on_partial` always
  gets the full current hypothesis. The text put together from deltas is not dropped with its socket
  (`streaming.py:193`), and the next socket's deltas are appended to it, in google's case up to the next final
  and including it. The property excepts a provider of deltas after such a reconnect, up to that final.
* `RunControl.SavedIsLoaded`: the help of the field says that a blank language is detected
  (`settings_fields.py:24`); saved blank, it comes back as Korean (`config_io.py:99`, `config.py:183`). The
  property says "at its default", as the code does.

Seen while reading, with no run:

* `app_runner.py:148` and `:211` call `create_app(config_path=...)`; `create_app(hub, overlay_dir, config)`
  has no such parameter, so the browser and both sinks and `serve` end in a TypeError. The tests
  replace `create_app`. `Overlay` and `RunLoop` model the server as it would be started.
* A streaming start that fails leaves `_running` set (`streaming.py:104`). Deepgram's close frame is
  not guarded, so `stop_stream` on a broken socket raises. A Gemini message that carries a transcription
  and `turnComplete` is dispatched as the former only.
* `feed_audio` on a broken socket ends the audio task for good (`app_runner.py:286`), though
  `streaming.py:54-55` says the receive loop reconnects.
* The OBS sink is never stopped when the setup after it fails or an earlier teardown step raises; its start
  raises when OBS is unreachable and so ends the run. A sink whose reconnect was cancelled with the
  debounce task, or ran out of attempts, stays disconnected for the rest of the run: a caption that finds
  it disconnected is kept (`obs_sink.py:262`), and nothing starts another reconnect.
* `obs_hotkey.py:207-209` is false for an event handled while `stop()` waits. `local_whisper.py:160` says
  that audio is lost for good where it is still in the window.
* `MicCapture` says a loopback is downmixed, `_as_mono_float32` (`capture.py:132-138`) takes channel 0. It
  cannot be started again after a stop. Its device is found with one PyAudio and opened with another.
* Azure's region is not passed to the key test of the window, which therefore always asks for it;
  `validate-key` reads it from the environment only. `DOCS.md` names `GOOGLE_API_KEY` where the code
  reads `GEMINI_API_KEY`.
* `recommend_model` recommends a large model from video memory even when CUDA is unavailable, and a worse
  one for a small CUDA device than for none. After a hundred polls its label says for ever that it computes.
* The end of an old child, shown late, enables Start and disables Stop while a new child runs; `_pump`
  reads `_process` late. A failed write truncates `config.toml`; what cannot be parsed blocks later saves.
* Text that is not UTF-8 raises out of the sidecar's reader thread, which dies without setting
  `_reader_done`; frames decoded before a bad one in the same read are lost.
* A request of an utterance that fails or is cancelled loses its audio; a `stop_stream` whose flush
  raises leaves the HTTP client open.

## 5. The proofs

`tlapm` checks the following for every value of the constants that meets the named assumptions. Every
safety property of a passing run but `NoFalseAlarm` is a theorem, and so is the safety half of most
properties that are in part about what must happen in the end.

**The plugin**

* `SeqlockRingProofs`: `DeliveryIsIntact` and `RingImplementsFeed`. The inductive invariant says of
  every slot what its version means: an even version names a complete frame; an odd one, a slot
  being written by the frame after the last. A copy whose version has not changed since it began
  agrees with its slot in every word copied so far, which the plain property cannot tell. Both
  need `LoadsInOrder`, see 4.
* `AudioPathProofs`: `DrainIsFinal`, `RingIsHeld`. They need that a
  barrier is closed before it is drained and that exactly the rings of drained barriers are released.
* `SessionProofs`, the out queue: `ScheduleStaysExact`, `QueueImplementsMailbox`, `BooksStayBalanced`,
  `AudioGivesWay`. The open requests of a command are the waiters without a result, wherever they
  are; the invariant says that each is in one of the two slots of its command and that the slots hold
  nothing else. It also shows that `remove_stale_controls` never finds anything to remove. The order of
  the audio is not inductive over the whole line: its invariant keeps the frames sent and the frames
  queued apart, orders one before the other, and bounds both by the number captured.
* `SessionProofs`, the clocks: `SilenceIsNoticed` for all times. The invariant relates the age of the last
  heartbeat to the nap left and to the heartbeat under way. That an answering child is left alone
  (`NoFalseAlarm`) is only checked, with the product's times: the shipped sidecar never answers.
* `SessionProofs`, the gate: `CaptionsShownOnce`, `LateIsTheLast`. The gate compares a caption with the
  last one only; that this is enough needs three facts: the reader holds a number that was not shown in
  its epoch, nothing was shown in an epoch its reader has not reached, and a gate that remembers nothing
  has shown nothing in the active epoch. A caption is shown late only by a reader that had accepted it,
  and that reader ends before the next session's begins.
* `IpcBridgeProofs`: `SessionsKeepApart`, `StopLeavesNothing`, `IntentsAreKept`, with starts after degraded
  stops. The argument is ownership: every live thread has a handle, or the bridge is degraded and will
  spawn no other, or it is of an earlier start; at each place of the supervisor the invariant says which
  handles, child and session can exist there.

**The child**

* `SidecarProofs`: `RequestsAreCounted`, `NothingIsMisplaced`, if a child is greeted once (see 6). The
  argument is a count: before the exit a request has been answered as often as it was received, less one
  if it waits in its slot or is being carried out unanswered, and it is never both. It also shows that
  every session's epoch is paid for by a HELLO or by a RECONFIGURE carried out.

**From the microphone to the page** (`SpeechProofs`)

* `NamedDeviceIsRecorded`: the index that was looked up still means the device that was found, and the
  stream is open on that one, until the layout is exchanged.
* `HandlesAreGivenBack`: at each step of a start the invariant counts the handles it has got so far, and a
  stream that runs keeps a reference by which it can be closed.
* `RunsAreExact`: the segmenter's run of silence is tied to the history of what it was given. A frame
  captured in a pause that still waits after it stands so near the front of the queue that, with those
  already fed, no more than a queue of them is fed.
* `TranscriptsAreExact`: between a commit and its dispatch the finals lag behind. The invariant lets the
  messages still in the socket run, by the accumulator and the finals they would leave: when the socket
  is empty the client has heard all that was committed. One lemma for a message received, one for a
  message sent, for all six protocols. Excepted is what a broken socket left in the text of a provider of
  deltas, up to the next final (google's included), see 4.
* `NoTranscriptIsLate`: the calls the SDK's thread left to the loop carry the segments that come after
  those shown, and after a stop there is no call that shows anything.
* `AudioIsCarriedOver`: what is sent, followed by the chunks that wait, is what was fed without what
  orphans took. An orphan takes a chunk out of both sides, because no chunk is twice in either.
* `UtterancesAreWhole`: a chunk is in the buffer, in the request or settled, in this order. A `stop_stream`
  whose flush raises is excepted: it leaves its client open.
* `WordsAreCommittedOnce`: the window is a run of consecutive words and the last hypothesis a run of those
  it was transcribed from, of which only the last may be misheard; the finals are the words from the first
  of the utterance to the last confirmed one. After a trim the overlap of the last hypothesis with the new
  one is all of it but its first word, so that what was confirmed is found again where it is. What the
  theorem excepts is what `unanchored` notes: a trim after which nothing of the last hypothesis can be
  found again, an empty transcription, a flush beside a feed.
* `PagesShowTheState`: the last message of the hub, or of its queue of broadcasts, shows the caption
  state; the last on its way to an open page, or else the page, shows the last of the hub. That wrapping
  keeps the text is a lemma about the recursive functions, by induction over what is left to wrap.

**The surfaces** (`SurfacesProofs`)

* `FramesArriveWhole`: what was encoded is decoded, as the strings claim exactly the bytes the encoder
  counted; what was damaged is not; a frame begins where the one before it ends. The invariant then places
  the bytes read so far among the frames, for every size of the blocks.
* `SinkShowsNewest`: the invariant follows the newest caption. While the sink is
  connected it is the last call left to the loop or, when none is left, the pending snapshot; during an
  outage it is the pending snapshot, unless a call was left when the send failed, and then that call
  cancels the reconnect before it can succeed.
* `KeysAreKept`: unless an event was missed, the events on their way make of the pause flag what OBS has;
  unless a re-arm failed, a sentinel of the clear key that is set is followed by an event on its way or by
  a re-arm task.
* `ChildrenAreKept`: a child that is not the runner's last one has ended or was killed; while the Tk thread
  is about to start one, none runs.
* `SettingsAreKept`: what `_write_env` writes is taken apart into the lines left and the lines added. From
  this follows what `_read_env` finds for a secret (the last line of its key, and there is one unless it is
  blank) and that the other lines are as they were. The invariant keeps the form and the configuration at
  hand while a file is open. After a write that was cut short only the managed fields are claimed.
* `TestAgreesWithBackend`: for each verdict and each refusal, what it says of key, region and options, save
  for google in the mode without a key.
* `AnswerIsTheLastClicks`: the safety half of `LastClickIsAnswered`.

`SequenceLemmas` has what the other proofs need of sequences. The library's theorems on induction take an
operator as a parameter, which the provers cannot instantiate; there induction is stated for a set
(`SetInduction`, `SeqInduction`, from the well-foundedness of the order on numbers), and a recursive
function is shown to satisfy its recursion first. `SelectSeq` takes an operator too: what the models leave
out of a sequence they leave out with `Among` (`Subsequences`), whose lemmas are here.

**Only model-checked.** Liveness under fairness (`FreshestComesOut`, `ClosedBarrierEmpties`, `IntentsServed`,
`RequestsAnswered`, `RunReturns`, `BrokenIsMended`, and the second halves of `ControlGoesFirst`, `AudioIsHeard`,
`LastClickIsAnswered`, `ProbedIsShown`) stays with TLC because TLAPS does not reason about ENABLED. For the
properties of section 4 that fail there is nothing to prove. Where a theorem has a hypothesis
(`LoadsInOrder`, one HELLO), the run has the constant that meets it.

## 6. What the models do not show

Seen while modelling, with no property of its own:

* The ring's drop counter misses the frames of a catch-up and may count one frame twice.
* A destroy during the backoff ends the supervisor without drain or terminal state
  (`ipc-bridge-core.cpp:177`). The reader is started before `session_running_` is set (`:217`).
* A terminal teardown leaves the out queue open (it constructs a new one, `ipc-bridge.cpp:48`).
* `OutQueue::timeout` is called by tests only, so a lost answer is settled at the next teardown.
* `hello_timeout` is 1 s in the code and 10 s in the document (`:148`); the heartbeat is 250/750 ms
  against 5 s. A backend that needs longer than a second to load makes `start()` give up.
* The first backoff is twice the base, and the restart count is reset by every session that came up.
* A running child whose answer takes a whole interval may be restarted in its first second, if its
  READY was late: the age of the last heartbeat counts from before the spawn. The run therefore
  has `ReplyDelay = 1`, half an interval.
* In the sidecar two HELLOs in a row clear the dispatcher twice, and a request repeated between
  them is carried out twice; `RequestsCounted` is checked with one HELLO, which is what the bridge sends.
* RECONFIGURE makes the sidecar count its epoch up by itself; the bridge, which never sends it,
  would drop every caption after it.
* The sidecar's out queue drops its oldest message when it is full, a FINAL or an answer too
  (`sidecar.py:528`): the plugin has then to live with a lost answer, which `OutQueue` covers on its side.
* A key in a shell's variables goes before the one the window saved, whatever the key test said of the latter;
  a key changed in the window reaches the variables of its own process only when it is opened again.
* A payload has no checksum: `Wire` is about headers and lengths that are damaged.

Assumed: the `.env` that `load_dotenv` finds is the one the window writes; a session of OBS or of a
provider ends with its socket.

Left out of the models: bytes, text and formatting; logging and counters; partial writes and
pipe back pressure; construction and destruction of the bridge object; the captions of a
backend inside the sidecar; the C++ side of the framing; the filter glue and the plugin's settings; the
choice of a compute device (`stt/device.py`); text substitutions by regular expression; the style
endpoint; widgets and the log of the window; the commands other than `run`; scripts and packaging.

## 7. Plan

Done: both ends of the pipe, the plugin's threads and the sidecar's coroutines; the OBS sink; the
stand-alone program from the device to the overlay page, OBS and the settings window; a proof for the
safety of each.

Next, in this order:

1. `CaptionSession`: bridge and sidecar composed over `Wire` (HELLO, READY, START, captions), to relate
   the two epochs, and the sidecar's captions with its offloaded feed.
2. An abstract `LatestCaption` (what is shown in the end is the newest caption), refined by `ObsTextSink`
   and by `Overlay`: the invariants of `SinkShowsNewest` and `PagesShowTheState` give the mapping.
3. Theorems about what is only model-checked for lack of ENABLED, where a rank can replace it: that each
   step of a teardown brings it nearer to its end.
