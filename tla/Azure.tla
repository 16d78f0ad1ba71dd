--------------------------------- MODULE Azure ---------------------------------
(***************************************************************************)
(* The Azure backend: a recogniser of the Speech SDK, whose callbacks run  *)
(* in a thread of the SDK and hand each transcript to the event loop.  The *)
(* two slow calls of the SDK, to start and to end a session, run in an     *)
(* executor thread, whose end reaches the loop by the same queue.          *)
(***************************************************************************)
EXTENDS Naturals, Sequences, SequencesExt

CONSTANT MaxPushed \* bound on the chunks of audio

ASSUME AzureAssumption == MaxPushed \in Nat

VARIABLES
  azure,      \* the caller: "off", "starting", "ready", "refused", "stopping" or "stopped"
  azRunning,  \* _running
  session,    \* the recogniser: "none", "begun", "gone", or after a failed end "ending", "closed"
  calls,      \* what call_soon_threadsafe left to the loop, oldest first
  pushed,     \* chunks written to the push stream
  recognized, \* segments the recogniser committed
  shown,      \* segments given to on_final
  shownLate   \* a transcript given to the callbacks after stop_stream (history)

azureVars == <<azure, azRunning, session, calls, pushed, recognized, shown, shownLate>>

AzureInit ==
  /\ azure = "off" /\ azRunning = FALSE /\ session = "none" /\ calls = <<>>
  /\ pushed = 0 /\ recognized = 0 /\ shown = <<>> /\ shownLate = FALSE

Call(what, n) == [what |-> what, n |-> n]

----------------------------------------------------------------------------
(* The SDK.                                                                *)

\* The handshake ends in the executor thread, well or with an error.
SessionBegins ==
  /\ azure = "starting" /\ session = "none"
  /\ \/ session' = "begun" /\ calls' = Append(calls, Call("started", 0))
     \/ session' = "gone" /\ calls' = Append(calls, Call("refused", 0))
  /\ UNCHANGED <<azure, azRunning, pushed, recognized, shown, shownLate>>

\* A hypothesis, or a segment of it committed; an empty text is not passed on.
Recognizes ==
  /\ session \in {"begun", "ending"} /\ recognized < pushed
  /\ \/ recognized' = recognized + 1 /\ calls' = Append(calls, Call("final", recognized + 1))
     \/ UNCHANGED recognized /\ calls' = Append(calls, Call("partial", recognized + 1))
        /\ \A i \in DOMAIN calls : calls[i].what # "partial"
  /\ UNCHANGED <<azure, azRunning, session, pushed, shown, shownLate>>

EndAwaited == \A i \in DOMAIN calls : calls[i].what # "ended"

\* stop_continuous_recognition ends the session, and after that the thread.
\* The call may fail, and be ignored: then closing the stream ends it later.
SessionEnds ==
  /\ azure = "stopping" /\ EndAwaited /\ session # "ending" /\ session' = "gone"
  /\ calls' = Append(calls, Call("ended", 0))
  /\ UNCHANGED <<azure, azRunning, pushed, recognized, shown, shownLate>>

EndFails ==
  /\ azure = "stopping" /\ EndAwaited /\ session = "begun"
  /\ session' = "ending" /\ calls' = Append(calls, Call("ended", 0))
  /\ UNCHANGED <<azure, azRunning, pushed, recognized, shown, shownLate>>

StreamClosed ==
  /\ azure = "stopped" /\ session = "ending" /\ session' = "closed"
  /\ UNCHANGED <<azure, azRunning, calls, pushed, recognized, shown, shownLate>>

----------------------------------------------------------------------------
(* start_stream, feed_audio, stop_stream and the loop.                     *)

\* The callbacks are connected and _running set before the handshake.
AzureStarts ==
  /\ azure = "off" /\ ~azRunning
  /\ azure' = "starting" /\ azRunning' = TRUE
  /\ UNCHANGED <<session, calls, pushed, recognized, shown, shownLate>>

AzureFed ==
  /\ azure = "ready" /\ azRunning /\ pushed < MaxPushed /\ pushed' = pushed + 1
  /\ UNCHANGED <<azure, azRunning, session, calls, recognized, shown, shownLate>>

\* Mutant: stop_stream does not wait for the end of the session.
AzureStopsAtOnce ==
  /\ azure \in {"ready", "refused"} /\ azRunning
  /\ azure' = "stopped" /\ azRunning' = FALSE
  /\ UNCHANGED <<session, calls, pushed, recognized, shown, shownLate>>

AzureStops ==
  /\ azure \in {"ready", "refused"} /\ azRunning
  /\ azure' = "stopping" /\ azRunning' = FALSE
  /\ UNCHANGED <<session, calls, pushed, recognized, shown, shownLate>>

\* One call in the order they were left: a callback of the backend, or the
\* end of what the caller awaits; then stop_stream closes the push stream.
LoopRuns ==
  /\ calls # <<>> /\ calls' = Tail(calls)
  /\ LET call == Head(calls) IN
     /\ azure' = CASE call.what = "started" -> "ready"
                   [] call.what = "refused" -> "refused"
                   [] call.what = "ended"   -> "stopped"
                   [] OTHER                 -> azure
     /\ shown' = IF call.what = "final" THEN Append(shown, call.n) ELSE shown
     /\ shownLate' = (shownLate \/ (azure = "stopped" /\ call.what \in {"partial", "final"}))
  /\ UNCHANGED <<azRunning, session, pushed, recognized>>

AzureNext ==
  \/ AzureStarts \/ AzureFed \/ AzureStops \/ LoopRuns
  \/ SessionBegins \/ Recognizes \/ SessionEnds \/ EndFails \/ StreamClosed

AzureSpec == AzureInit /\ [][AzureNext]_azureVars

----------------------------------------------------------------------------
(* Properties.                                                             *)

\* The segments reach on_final once each, in the order the recogniser
\* committed them. A session that was ended without an error leaves nothing to
\* the loop: the last segment has been shown when stop_stream returns, and no
\* transcript follows it.
NothingShownLate ==
  /\ shown = [i \in 1..Len(shown) |-> i]
  /\ azure = "stopped" /\ session \notin {"ending", "closed"} =>
       calls = <<>> /\ Len(shown) = recognized /\ ~shownLate
=============================================================================
