------------------------------- MODULE SpeechV2 -------------------------------
(***************************************************************************)
(* The Google Speech V2 backend: a drive task that runs one bidirectional  *)
(* stream after another over a queue of audio chunks, a timer that asks    *)
(* for a planned restart by a sentinel in that queue, and a stop that ends *)
(* the session by another.  A stream reads its requests from a generator;  *)
(* when the server ends the stream, the generator may still wait for an    *)
(* item of the queue, and takes the next one into nowhere.                 *)
(***************************************************************************)
EXTENDS Naturals, Subsequences

CONSTANTS
  MaxChunks, \* bound on the audio chunks fed
  MaxTimers, \* bound on the planned restarts
  MaxDrops,  \* bound on the streams the server ends or refuses
  MaxStarts  \* bound on the sessions

ASSUME SpeechAssumption ==
  MaxChunks \in Nat /\ MaxTimers \in Nat /\ MaxDrops \in Nat /\ MaxStarts \in Nat

RESTART == 0
STOP    == MaxChunks + 1
Chunks  == 1..MaxChunks

VARIABLES
  live,     \* _running
  drive,    \* the drive task: "none", "open", "stream" or "backoff"
  orphans,  \* generators of ended streams that wait for the queue
  items,    \* _queue: chunks and sentinels
  timer,    \* the restart timer of the stream is set
  client,   \* the client it owns: "none", "open" or "closed"
  flag,     \* restart_flag of the stream under way
  fed, sent, lost, \* chunks fed, sent to a stream, taken by an orphan
  timers, drops, starts

speechVars == <<live, drive, orphans, items, timer, client, flag, fed, sent, lost,
                timers, drops, starts>>

SpeechInit ==
  /\ live = FALSE /\ drive = "none" /\ orphans = 0 /\ items = <<>>
  /\ timer = FALSE /\ client = "none" /\ flag = FALSE
  /\ fed = <<>> /\ sent = <<>> /\ lost = <<>>
  /\ timers = 0 /\ drops = 0 /\ starts = 0

\* _build_client, when there is none.
BuiltClient == IF client = "none" THEN "open" ELSE client

\* start_stream: a fresh queue; an orphan of the last session waits on the old one.
SpeechStarts ==
  /\ ~live /\ drive = "none" /\ starts < MaxStarts /\ starts' = starts + 1
  /\ live' = TRUE /\ client' = BuiltClient /\ drive' = "open"
  /\ items' = <<>> /\ orphans' = 0
  /\ fed' = <<>> /\ sent' = <<>> /\ lost' = <<>>
  /\ UNCHANGED <<timer, flag, timers, drops>>

\* feed_audio: what is longer than one message is split.
SpeechFed ==
  /\ live /\ Len(fed) < MaxChunks
  /\ \E n \in 1..2 :
       /\ Len(fed) + n <= MaxChunks
       /\ LET more == [i \in 1..n |-> Len(fed) + i] IN
            fed' = fed \o more /\ items' = items \o more
  /\ UNCHANGED <<live, drive, orphans, timer, client, flag, sent, lost, timers, drops, starts>>

\* _run_one_stream up to its response loop; the call may fail at once.
StreamOpens ==
  /\ drive = "open"
  /\ flag' = FALSE
  /\ \/ client = "open" /\ drive' = "stream" /\ timer' = TRUE /\ UNCHANGED drops
     \/ drops < MaxDrops /\ drops' = drops + 1 /\ drive' = "backoff" /\ UNCHANGED timer
  /\ UNCHANGED <<live, orphans, items, client, fed, sent, lost, timers, starts>>

\* Mutant: a planned restart throws away what waits behind it.
GeneratorTakesDroppingRest ==
  /\ drive = "stream" /\ orphans = 0 /\ items # <<>>
  /\ IF Head(items) = RESTART
       THEN items' = <<>> /\ flag' = TRUE /\ drive' = "open" /\ timer' = FALSE /\ UNCHANGED sent
       ELSE items' = Tail(items) /\ sent' = Append(sent, Head(items)) /\ UNCHANGED <<flag, drive, timer>>
  /\ UNCHANGED <<live, orphans, client, fed, lost, timers, drops, starts>>

\* The generator's next item.  Its end half-closes the stream, whose responses
\* then run out: after a RESTART the drive reopens without a pause.
GeneratorTakes ==
  /\ drive = "stream" /\ orphans = 0 /\ items # <<>> /\ items' = Tail(items)
  /\ CASE Head(items) = RESTART -> flag' = TRUE /\ drive' = "open" /\ timer' = FALSE /\ UNCHANGED sent
       [] Head(items) = STOP    -> drive' = "backoff" /\ timer' = FALSE /\ UNCHANGED <<flag, sent>>
       [] OTHER -> sent' = Append(sent, Head(items)) /\ UNCHANGED <<flag, drive, timer>>
  /\ UNCHANGED <<live, orphans, client, fed, lost, timers, drops, starts>>

\* Getters of a queue are served in order: the orphans come first.
OrphanTakes ==
  /\ orphans > 0 /\ items # <<>> /\ items' = Tail(items) /\ orphans' = orphans - 1
  /\ lost' = IF Head(items) \in Chunks THEN Append(lost, Head(items)) ELSE lost
  /\ UNCHANGED <<live, drive, timer, client, flag, fed, sent, timers, drops, starts>>

\* The server ends the stream, or the stream breaks; its generator may be
\* left waiting.
StreamDrops ==
  /\ drive = "stream" /\ drops < MaxDrops /\ drops' = drops + 1
  /\ drive' = "backoff" /\ timer' = FALSE
  /\ orphans' = orphans \/ (orphans' = orphans + 1 /\ (items = <<>> \/ orphans > 0))
  /\ UNCHANGED <<live, items, client, flag, fed, sent, lost, timers, starts>>

BackoffEnds ==
  /\ drive = "backoff" /\ live /\ drive' = "open"
  /\ UNCHANGED <<live, orphans, items, timer, client, flag, fed, sent, lost, timers, drops, starts>>

\* _restart_timer; the sentinel queues behind the audio, and outlives the
\* stream it was meant for when that one ends first.
TimerFires ==
  /\ timer /\ live /\ timers < MaxTimers /\ timers' = timers + 1
  /\ timer' = FALSE /\ items' = Append(items, RESTART)
  /\ UNCHANGED <<live, drive, orphans, client, flag, fed, sent, lost, drops, starts>>

\* _close_client: a closed channel serves no stream, so that it is dropped.
CloseSpeech == client' = "none"

\* stop_stream: the sentinel, the cancelled drive, and the client it owns.
SpeechStops ==
  /\ live /\ live' = FALSE
  /\ items' = Append(items, STOP)
  /\ drive' = "none" /\ timer' = FALSE /\ CloseSpeech
  /\ UNCHANGED <<orphans, flag, fed, sent, lost, timers, drops, starts>>

SpeechNext ==
  \/ SpeechStarts \/ SpeechFed \/ SpeechStops
  \/ StreamOpens \/ GeneratorTakes \/ OrphanTakes \/ StreamDrops \/ BackoffEnds \/ TimerFires

SpeechFair == WF_speechVars(StreamOpens \/ GeneratorTakes \/ OrphanTakes \/ BackoffEnds)

SpeechSpec == SpeechInit /\ [][SpeechNext]_speechVars /\ SpeechFair

----------------------------------------------------------------------------
(* Properties.                                                             *)

\* Across planned restarts and dropped streams the chunks go out once and in
\* order, and none is lost but to the orphan a dropped stream leaves: at most
\* one for each.
AudioCarriesOver ==
  live => /\ sent \o Among(items, Chunks) = Among(fed, Chunks \ ToSet(lost))
          /\ Len(lost) <= drops

\* A session has nothing left of the one before: no STOP in its queue, which
\* would end each new stream as soon as it is opened, and no closed client,
\* on which none could be opened.
SessionIsFresh == live => ~Contains(items, STOP) /\ client = "open"

\* Audio fed is in the end taken from the queue, however often the streams
\* are restarted, unless the session is stopped.
FedIsTaken == live /\ items # <<>> ~> items = <<>> \/ ~live

\* What is fed is heard: sent once and in order over all the streams of a session,
\* of this session only, and not left in the queue.
AudioIsHeard == [](AudioCarriesOver /\ SessionIsFresh) /\ FedIsTaken
=============================================================================
