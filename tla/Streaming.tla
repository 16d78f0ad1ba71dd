------------------------------ MODULE Streaming ------------------------------
(***************************************************************************)
(* A websocket speech backend: the stream its caller starts, feeds and     *)
(* stops, the receive loop that dispatches what the provider sends and     *)
(* reopens the socket when it breaks, and the protocols of the providers.  *)
(* The server is external: it hears an utterance word by word and tells    *)
(* the client in the provider's own messages.  A word is a number.         *)
(***************************************************************************)
EXTENDS Naturals, Sequences, SequencesExt

CONSTANTS
  MaxReconnects, \* max_reconnects
  MaxWords,      \* bound on the words spoken
  MaxBreaks      \* bound on the sockets and connects that fail

ASSUME StreamingAssumption == MaxReconnects \in Nat /\ MaxWords \in Nat /\ MaxBreaks \in Nat

Providers == {"openai", "deepgram", "assemblyai", "elevenlabs", "xai", "google"}

VARIABLES
  provider,
  running,   \* _running
  ws,        \* _ws: "none", "open" or "broken"
  recv,      \* the receive task: "none", "recv", "reopen" or "gave_up"
  attempts,  \* reconnects since the last message
  accum,     \* _partial_accum: the text last given to on_partial
  finals,    \* texts given to on_final
  inbox,     \* messages of the server, not received yet
  hearing,   \* the server's hypothesis of the utterance under way
  said,      \* utterances the server committed
  words, breaks,
  carried,   \* a hypothesis outlived the socket it came from, and no commit followed (history)
  mixed,     \* the commits that came while google's hypothesis was carried so (history)
  caller     \* what the last call of feed_audio or stop_stream did: "ok" or "raised"

streamVars == <<provider, running, ws, recv, attempts, accum, finals,
                inbox, hearing, said, words, breaks, carried, mixed, caller>>
serverVars == <<inbox, hearing, said, words>>

StreamInit ==
  /\ provider \in Providers
  /\ running = FALSE /\ ws = "none" /\ recv = "none" /\ attempts = 0
  /\ accum = <<>> /\ finals = <<>>
  /\ inbox = <<>> /\ hearing = <<>> /\ said = <<>> /\ words = 0 /\ breaks = 0
  /\ carried = FALSE /\ mixed = {} /\ caller = "ok"

----------------------------------------------------------------------------
(* The provider's messages and parse_event.                                *)

SendsDeltas == provider \in {"openai", "google"}

Message(type, text, flag) == [type |-> type, text |-> text, flag |-> flag]

\* What the server sends when it has one more word, or ends the utterance.
Hypothesis(text) ==
  CASE provider = "openai"     -> Message("delta", <<Last(text)>>, FALSE)
    [] provider = "deepgram"   -> Message("Results", text, FALSE)
    [] provider = "assemblyai" -> Message("Turn", text, FALSE)
    [] provider = "elevenlabs" -> Message("partial_transcript", text, FALSE)
    [] provider = "xai"        -> Message("transcript.partial", text, FALSE)
    [] provider = "google"     -> Message("serverContent", <<Last(text)>>, FALSE)

Commits(text) ==
  CASE provider = "openai"     -> {Message("completed", text, FALSE)}
    [] provider = "deepgram"   -> {Message("Results", text, TRUE)}
    [] provider = "assemblyai" -> {Message("Turn", text, TRUE)}
    [] provider = "elevenlabs" -> {Message("committed_transcript", text, FALSE)}
    [] provider = "xai"        -> {Message("transcript.partial", text, TRUE), Message("transcript.done", text, FALSE)}
    [] provider = "google"     -> {Message("serverContent", <<>>, TRUE)}

Event(kind, text, isDelta) == [kind |-> kind, text |-> text, isDelta |-> isDelta]
Ignored == Event("none", <<>>, FALSE)

\* parse_event of each provider; any other message is ignored.

\* A text that may come whole after the deltas it consists of.
ParseOpenai(m) ==
  CASE m.type = "delta"     -> Event("partial", m.text, TRUE)
    [] m.type = "completed" -> Event("final", m.text, FALSE)
    [] OTHER                -> Ignored

\* is_final or speech_final; silence comes as an empty text.
ParseDeepgram(m) ==
  IF m.type = "Results" /\ m.text # <<>>
    THEN Event(IF m.flag THEN "final" ELSE "partial", m.text, FALSE) ELSE Ignored

\* end_of_turn
ParseAssemblyai(m) ==
  IF m.type = "Turn" THEN Event(IF m.flag THEN "final" ELSE "partial", m.text, FALSE) ELSE Ignored

ParseElevenlabs(m) ==
  CASE m.type = "partial_transcript"   -> Event("partial", m.text, FALSE)
    [] m.type = "committed_transcript" -> Event("final", m.text, FALSE)
    [] OTHER                           -> Ignored

\* speech_final, or a message of its own.
ParseXai(m) ==
  CASE m.type = "transcript.partial" -> Event(IF m.flag THEN "final" ELSE "partial", m.text, FALSE)
    [] m.type = "transcript.done"    -> Event("final", m.text, FALSE)
    [] OTHER                         -> Ignored

\* A turn ends without its text: the final is what was accumulated.  A message
\* with a transcription is a partial, even if it ends the turn as well.
ParseGoogle(m) ==
  CASE m.type = "serverContent" /\ m.text # <<>>           -> Event("partial", m.text, TRUE)
    [] m.type = "serverContent" /\ m.text = <<>> /\ m.flag -> Event("final", accum, FALSE)
    [] OTHER                                               -> Ignored

ParseEvent(m) ==
  CASE provider = "openai"     -> ParseOpenai(m)
    [] provider = "deepgram"   -> ParseDeepgram(m)
    [] provider = "assemblyai" -> ParseAssemblyai(m)
    [] provider = "elevenlabs" -> ParseElevenlabs(m)
    [] provider = "xai"        -> ParseXai(m)
    [] provider = "google"     -> ParseGoogle(m)

----------------------------------------------------------------------------
(* The server.                                                             *)

ServerHears ==
  /\ ws = "open" /\ words < MaxWords /\ words' = words + 1
  /\ hearing' = Append(hearing, words + 1)
  /\ inbox' = Append(inbox, Hypothesis(hearing'))
  /\ UNCHANGED <<provider, running, ws, recv, attempts, accum, finals, said, breaks, carried, mixed, caller>>

ServerCommits ==
  /\ ws = "open" /\ hearing # <<>>
  /\ \E m \in Commits(hearing) : inbox' = Append(inbox, m)
  /\ said' = Append(said, hearing) /\ hearing' = <<>>
  /\ carried' = FALSE
  /\ mixed' = mixed \cup {i \in {Len(said')} : carried /\ provider = "google"}
  /\ UNCHANGED <<provider, running, ws, recv, attempts, accum, finals, words, breaks, caller>>

\* A message the client does not know of: a session was created, speech began.
ServerNotes ==
  /\ ws = "open" /\ inbox = <<>> /\ inbox' = <<Message("note", <<>>, FALSE)>>
  /\ UNCHANGED <<provider, running, ws, recv, attempts, accum, finals, hearing, said, words, breaks, carried, mixed, caller>>

SocketBreaks ==
  /\ ws = "open" /\ breaks < MaxBreaks /\ breaks' = breaks + 1
  /\ ws' = "broken" /\ hearing' = <<>>
  /\ carried' = (carried \/ hearing # <<>>)
  /\ UNCHANGED <<provider, running, recv, attempts, accum, finals, inbox, said, words, mixed, caller>>

----------------------------------------------------------------------------
(* The caller: start_stream, feed_audio, stop_stream.                      *)

\* initial_messages: the providers that are sent setup frames on a new socket.
HasSetup == provider \in {"openai", "elevenlabs", "google"}

\* When _open fails, before or after it set the socket, the backend stays
\* "running" and every later start_stream returns at once.
StartStream ==
  /\ ~running /\ recv = "none"
  /\ running' = TRUE /\ accum' = <<>>
  /\ \/ ws' = "open" /\ recv' = "recv" /\ attempts' = 0 /\ caller' = "ok" /\ UNCHANGED breaks
     \/ /\ breaks < MaxBreaks /\ breaks' = breaks + 1
        /\ ws' \in {ws} \cup (IF HasSetup THEN {"broken"} ELSE {})
        /\ caller' = "raised" /\ UNCHANGED <<recv, attempts>>
  /\ UNCHANGED <<provider, finals, inbox, hearing, said, words, carried, mixed>>

FeedAudio ==
  /\ running
  /\ caller' = IF ws = "broken" THEN "raised" ELSE "ok"
  /\ UNCHANGED <<provider, running, ws, recv, attempts, accum, finals, serverVars, breaks, carried, mixed>>

\* The close frame of deepgram is sent first, and not guarded.
CloseFrameFails == provider = "deepgram" /\ ws = "broken"

StopStream ==
  /\ running
  /\ IF CloseFrameFails
       THEN /\ caller' = "raised"
            /\ UNCHANGED <<running, ws, recv, accum, serverVars, carried, mixed>>
       ELSE /\ running' = FALSE /\ ws' = "none" /\ recv' = "none" /\ accum' = <<>>
            /\ inbox' = <<>> /\ hearing' = <<>> /\ said' = finals
            /\ carried' = FALSE /\ mixed' = {} /\ caller' = "ok" /\ UNCHANGED words
  /\ UNCHANGED <<provider, attempts, finals, breaks>>

----------------------------------------------------------------------------
(* _receive_loop.                                                          *)

\* Mutant: a delta replaces the hypothesis.
HypothesisAfterReplacing(e) == e.text

HypothesisAfter(e) == IF e.isDelta THEN accum \o e.text ELSE e.text

\* _dispatch
Dispatch(e) ==
  /\ accum' = CASE e.kind = "partial" -> HypothesisAfter(e) [] e.kind = "final" -> <<>> [] OTHER -> accum
  /\ finals' = IF e.kind = "final" /\ e.text # <<>> THEN Append(finals, e.text) ELSE finals

Receive ==
  /\ recv = "recv" /\ inbox # <<>> /\ inbox' = Tail(inbox)
  /\ attempts' = 0
  /\ Dispatch(ParseEvent(Head(inbox)))
  /\ UNCHANGED <<provider, running, ws, recv, hearing, said, words, breaks, carried, mixed, caller>>

\* What the socket still held is received before recv() raises.
ReceiveFails ==
  /\ recv = "recv" /\ inbox = <<>> /\ ws = "broken"
  /\ ws' = "none" /\ recv' = "reopen"
  /\ UNCHANGED <<provider, running, attempts, accum, finals, serverVars, breaks, carried, mixed, caller>>

GivesUp ==
  /\ recv = "reopen" /\ attempts >= MaxReconnects
  /\ recv' = "gave_up"
  /\ UNCHANGED <<provider, running, ws, attempts, accum, finals, serverVars, breaks, carried, mixed, caller>>

\* Mutant: an attempt that fails ends the receive task.
ReopenOnce ==
  /\ recv = "reopen" /\ attempts < MaxReconnects
  /\ attempts' = attempts + 1
  /\ \/ ws' = "open" /\ recv' = "recv" /\ UNCHANGED breaks
     \/ ws' = "none" /\ recv' = "none" /\ breaks < MaxBreaks /\ breaks' = breaks + 1
  /\ UNCHANGED <<provider, running, accum, finals, serverVars, carried, mixed, caller>>

\* _reconnect: opened; no connection; or a connection that broke under the
\* provider's setup frames, which the loop then takes for an open one.
Reopen ==
  /\ recv = "reopen" /\ attempts < MaxReconnects
  /\ attempts' = attempts + 1
  /\ \/ ws' = "open" /\ recv' = "recv" /\ UNCHANGED breaks
     \/ /\ breaks < MaxBreaks /\ breaks' = breaks + 1
        /\ \/ ws' = "none" /\ recv' = recv
           \/ HasSetup /\ ws' = "broken" /\ recv' = "recv"
  /\ UNCHANGED <<provider, running, accum, finals, serverVars, carried, mixed, caller>>

StreamNext ==
  \/ ServerHears \/ ServerCommits \/ ServerNotes \/ SocketBreaks
  \/ StartStream \/ FeedAudio \/ StopStream
  \/ Receive \/ ReceiveFails \/ GivesUp \/ Reopen

StreamFair == WF_streamVars(Receive \/ ReceiveFails \/ GivesUp \/ Reopen)

StreamSpec == StreamInit /\ [][StreamNext]_streamVars /\ StreamFair

----------------------------------------------------------------------------
(* Properties.                                                             *)

Received == running /\ inbox = <<>>

\* Whatever the provider's protocol, each utterance the server commits
\* reaches on_final once and in order, across reconnects, and whole but for one
\* case: google's client puts the final together itself, and _partial_accum
\* survives a reconnect, so that the first one on a new socket may begin with
\* the hypothesis of the old one.
FinalsExact ==
  /\ Len(finals) <= Len(said) /\ (Received => Len(finals) = Len(said))
  /\ \A i \in 1 .. Len(finals) : i \in mixed \/ finals[i] = said[i]

\* The partial on display is the server's full current hypothesis, never a
\* delta of it.  When a socket broke within an utterance its text stays on
\* display until the new one brings a hypothesis; a provider of deltas then
\* appends to it, up to the next final, although the docstrings promise the
\* full current hypothesis each time (streaming.py:57, base.py:21): _partial_accum
\* is reset by a final only.
PartialIsHypothesis ==
  /\ Received /\ ws = "open"
  /\ carried => hearing # <<>> /\ ~SendsDeltas
  => accum = hearing

\* The receive loop gives up only after max_reconnects attempts with no
\* message between them.
GaveUpLate == recv = "gave_up" => attempts >= MaxReconnects

\* A stopped stream has no socket and no task that could open one.
StoppedIsQuiet == ~running => ws = "none" /\ recv = "none"

\* A broken socket is replaced or given up, unless the stream is stopped.
BrokenIsMended ==
  ws = "broken" /\ recv = "recv" ~> ws = "open" \/ recv = "gave_up" \/ ~running

\* What the caller is told is what the server said, whatever the protocol and
\* however often the socket was replaced, but for the text that a provider of
\* deltas carries over from a socket that broke.
TranscriptsExact == FinalsExact /\ PartialIsHypothesis /\ GaveUpLate /\ StoppedIsQuiet
=============================================================================
