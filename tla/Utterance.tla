------------------------------ MODULE Utterance ------------------------------
(***************************************************************************)
(* The utterance backends: audio is collected while somebody speaks and    *)
(* sent to an HTTP service when the speaker falls silent.  Groq and        *)
(* OpenRouter answer the request, Replicate is asked for its answer again  *)
(* and again.  While flush waits, feed_audio goes on collecting; the task  *)
(* that waits may be cancelled, and stop_stream flushes what is left.      *)
(***************************************************************************)
EXTENDS Integers, Sequences

CONSTANTS
  MaxFed, \* bound on the chunks fed
  MaxPolls   \* _MAX_POLLS: how often Replicate is asked

ASSUME UtteranceAssumption == MaxFed \in Nat /\ MaxPolls \in Nat

VARIABLES
  buffer,  \* _buffer: the chunks it holds, numbered
  request, \* the chunks a request under way was made for
  polls,   \* times its answer was asked for
  http,    \* an owned HTTP client is open
  ending,  \* "live", "stopping", "stopped", "raised": how far stop_stream is
  chunks,  \* chunks fed so far
  settled  \* the chunks of the requests that ended, in order (history)

utteranceVars == <<buffer, request, polls, http, ending, chunks, settled>>

UtteranceInit ==
  /\ buffer = <<>> /\ request = <<>> /\ polls = 0 /\ http = FALSE
  /\ ending = "live" /\ chunks = 0 /\ settled = <<>>

\* feed_audio, called while the backend is in use: also while it stops.
FeedChunk ==
  /\ ending \in {"live", "stopping"} /\ chunks < MaxFed
  /\ chunks' = chunks + 1
  /\ buffer' = Append(buffer, chunks + 1)
  /\ UNCHANGED <<request, polls, http, ending, settled>>

\* Mutant: the buffer is not emptied and goes into the next request again.
AskServiceKeeping ==
  /\ request = <<>> /\ buffer # <<>> /\ polls' = 0 /\ http' = TRUE
  /\ request' = buffer /\ UNCHANGED <<buffer, chunks, settled>>

\* flush, up to the request: the buffer is taken before anything is awaited.
AskService ==
  /\ request = <<>> /\ buffer # <<>> /\ polls' = 0 /\ http' = TRUE
  /\ request' = buffer /\ buffer' = <<>>
  /\ UNCHANGED <<chunks, settled>>

FlushUtterance == ending = "live" /\ AskService /\ UNCHANGED ending

Settle ==
  /\ request # <<>> /\ settled' = settled \o request /\ request' = <<>>
  /\ polls' = 0

\* The end of stop_stream: whatever was fed meanwhile is dropped.
CloseClient == buffer' = <<>> /\ http' = FALSE /\ ending' = "stopped"

StillWorking ==
  /\ request # <<>> /\ polls < MaxPolls
  /\ polls' = polls + 1
  /\ UNCHANGED <<buffer, request, http, ending, chunks, settled>>

\* The text came; stop_stream closes the client behind it.
ServiceAnswers ==
  /\ Settle
  /\ IF ending = "stopping" THEN CloseClient ELSE UNCHANGED <<buffer, http, ending>>
  /\ UNCHANGED chunks

\* An HTTP error, a failed prediction, or one that is not done after the last
\* poll: flush raises, and stop_stream with it, the client still open.
ServiceFails ==
  /\ Settle
  /\ ending' = IF ending = "stopping" THEN "raised" ELSE ending
  /\ UNCHANGED <<buffer, http, chunks>>

\* The task that waits in flush is cancelled, when `run` ends.
FlushCancelled ==
  /\ ending = "live" /\ Settle
  /\ UNCHANGED <<buffer, http, ending, chunks>>

StopUtterance ==
  /\ ending = "live" /\ request = <<>>
  /\ IF buffer # <<>> THEN AskService /\ ending' = "stopping"
     ELSE CloseClient /\ UNCHANGED <<request, polls, chunks, settled>>

UtteranceNext ==
  FeedChunk \/ FlushUtterance \/ StillWorking \/ ServiceAnswers \/ ServiceFails
  \/ FlushCancelled \/ StopUtterance

\* Every HTTP call has a timeout, so that each of them ends.
UtteranceFair ==
  WF_utteranceVars(StillWorking \/ ServiceAnswers \/ ServiceFails)

UtteranceSpec == UtteranceInit /\ [][UtteranceNext]_utteranceVars /\ UtteranceFair

----------------------------------------------------------------------------
(* Properties.                                                             *)

FedSoFar == [i \in 1..chunks |-> i]

\* Whatever is fed while a request is awaited or gives up, every chunk goes
\* into one request, in the order it was fed; after stop_stream the owned
\* client is closed unless the last flush raised.
EachChunkOnce ==
  /\ ending \in {"live", "stopping"} => settled \o request \o buffer = FedSoFar
  /\ ending = "stopped" => ~http /\ request = <<>>
=============================================================================
