------------------------------ MODULE ObsHotkey ------------------------------
(***************************************************************************)
(* The listener that turns the mute events of two sentinel inputs of OBS   *)
(* into "pause" and "clear", and the controller it shares with the audio   *)
(* loop.  OBS sends an event when a sentinel's mute state changes, and     *)
(* only to a client that is connected; the client runs each callback as a  *)
(* step of the loop, in order.                                             *)
(***************************************************************************)
EXTENDS Naturals, Sequences

CONSTANTS
  MaxPresses,       \* bound on the keys pressed
  MaxOutages,       \* bound on the connections lost
  MaxHotkeyAttempts \* max_connect_attempts

ASSUME HotkeyAssumption ==
  MaxPresses \in Nat /\ MaxOutages \in Nat /\ MaxHotkeyAttempts \in Nat \ {0}

VARIABLES
  listener, \* "off", "starting", "ping", "reconnect", "gone"; of stop(): "draining", "ending", "stopped"
  failed,   \* failed attempts of _connect_with_retry
  paused,   \* CaptionController._paused
  heard,    \* events sent to this client, not handled yet
  reset,    \* the re-arm task of an event handled in time, and of one handled after
            \* stop() was called: "fresh" before its request, "call" in it
  sentinel, \* OBS: the mute state of the two inputs
  socket,   \* OBS is up; the client's session is open; its callback is registered
  presses, outages,
  missed,   \* pause: a change nobody heard, since the last one heard (history)
  stuck     \* clear: a change nobody heard, or a re-arm that failed or came late (history)

hotkeyVars == <<listener, failed, paused, heard, reset, sentinel, socket,
                presses, outages, missed, stuck>>

HotkeyTypeOK ==
  /\ listener \in {"off", "starting", "ping", "reconnect", "gone", "draining", "ending", "stopped"}
  /\ failed \in 0..MaxHotkeyAttempts /\ paused \in BOOLEAN
  /\ heard \in Seq([key : {"pause", "clear"}, muted : BOOLEAN])
  /\ reset \in [{"due", "late"} -> {"none", "fresh", "call"}]
  /\ sentinel \in [{"pause", "clear"} -> BOOLEAN]
  /\ socket \in [up : BOOLEAN, open : BOOLEAN, registered : BOOLEAN]
  /\ presses \in 0..MaxPresses /\ outages \in 0..MaxOutages
  /\ missed \in BOOLEAN /\ stuck \in BOOLEAN

HotkeyInit ==
  /\ listener = "off" /\ failed = 0 /\ paused = FALSE /\ heard = <<>> 
  /\ reset = [r \in {"due", "late"} |-> "none"]
  /\ sentinel \in [{"pause", "clear"} -> BOOLEAN]
  /\ socket \in [up : BOOLEAN, open : {FALSE}, registered : {FALSE}]
  /\ presses = 0 /\ outages = 0
  /\ missed = sentinel["pause"] /\ stuck = sentinel["clear"]

----------------------------------------------------------------------------
(* OBS: a key toggles the pause sentinel, or mutes the clear sentinel.     *)

Changed(key, muted) ==
  /\ sentinel' = [sentinel EXCEPT ![key] = muted]
  /\ heard' = IF socket.open THEN Append(heard, [key |-> key, muted |-> muted]) ELSE heard

Press ==
  /\ presses < MaxPresses /\ presses' = presses + 1
  /\ \/ /\ Changed("pause", ~sentinel["pause"])
        /\ missed' = ~socket.open /\ UNCHANGED stuck
     \/ /\ ~sentinel["clear"] /\ Changed("clear", TRUE)
        /\ stuck' = ~socket.open /\ UNCHANGED missed
  /\ UNCHANGED <<listener, failed, paused, reset, socket, outages>>

\* What was on its way is lost with the connection.
ConnectionLost ==
  /\ outages < MaxOutages /\ outages' = outages + 1
  /\ socket.up /\ socket' = [socket EXCEPT !.up = FALSE, !.open = FALSE]
  /\ heard' = <<>>
  /\ missed' = (missed \/ \E i \in DOMAIN heard : heard[i].key = "pause")
  /\ stuck' = (stuck \/ \E i \in DOMAIN heard : heard[i].key = "clear")
  /\ UNCHANGED <<listener, failed, paused, reset, sentinel, presses>>

ObsReturns ==
  /\ ~socket.up /\ socket' = [socket EXCEPT !.up = TRUE]
  /\ UNCHANGED <<listener, failed, paused, heard, reset, sentinel, presses, outages, missed, stuck>>

----------------------------------------------------------------------------
(* start() and the keepalive task.                                         *)

StartListening ==
  /\ listener = "off" /\ listener' = "starting" /\ failed' = 0
  /\ UNCHANGED <<paused, heard, reset, sentinel, socket, presses, outages, missed, stuck>>

\* Mutant: a reconnect does not register the callback again.
ListenOnce ==
  /\ listener \in {"starting", "reconnect"} /\ socket.up
  /\ socket' = [socket EXCEPT !.open = TRUE, !.registered = (listener = "starting")]
  /\ listener' = "ping"
  /\ UNCHANGED <<failed, paused, heard, reset, sentinel, presses, outages, missed, stuck>>

\* connect, identify, register_event_callback.
Listen ==
  /\ listener \in {"starting", "reconnect"} /\ socket.up
  /\ socket' = [socket EXCEPT !.open = TRUE, !.registered = TRUE]
  /\ listener' = "ping"
  /\ UNCHANGED <<failed, paused, heard, reset, sentinel, presses, outages, missed, stuck>>

\* After the last attempt there are no hotkeys any more; the app goes on.
AttemptFails ==
  /\ listener \in {"starting", "reconnect"} /\ ~socket.up
  /\ failed' = failed + 1
  /\ listener' = IF failed' < MaxHotkeyAttempts THEN listener ELSE "gone"
  /\ UNCHANGED <<paused, heard, reset, sentinel, socket, presses, outages, missed, stuck>>

\* _ping_until_disconnect returns TRUE, _run_keepalive goes on to reconnect.
PingFails ==
  /\ listener = "ping" /\ ~socket.open
  /\ listener' = "reconnect" /\ failed' = 0
  /\ socket' = [socket EXCEPT !.registered = FALSE]
  /\ UNCHANGED <<paused, heard, reset, sentinel, presses, outages, missed, stuck>>

----------------------------------------------------------------------------
(* _on_event and _reset_clear_sentinel.                                    *)

_stopped == listener \in {"ending", "stopped"}

\* set_paused(input_muted).
PausedAfter(muted) == muted

Timely == IF listener \in {"draining", "ending"} THEN "late" ELSE "due"

\* An event is handled only while the callback is registered.  A new re-arm
\* takes the place of an older one, whose task runs on all the same: both
\* ask for the same thing.
OnEvent ==
  /\ heard # <<>> /\ heard' = Tail(heard)
  /\ LET e == Head(heard) IN
       /\ paused' = IF socket.registered /\ e.key = "pause" THEN PausedAfter(e.muted) ELSE paused
       /\ reset' = IF socket.registered /\ e.key = "clear" /\ e.muted
                    THEN [reset EXCEPT ![Timely] = "fresh"] ELSE reset
  /\ UNCHANGED <<listener, failed, sentinel, socket, presses, outages, missed, stuck>>

\* It asks OBS to unmute the sentinel, unless stop() got in between.
ResetBegins(r) ==
  /\ reset[r] = "fresh"
  /\ reset' = [reset EXCEPT ![r] = IF _stopped THEN "none" ELSE "call"]
  /\ stuck' = (stuck \/ _stopped)
  /\ UNCHANGED <<listener, failed, paused, heard, sentinel, socket, presses, outages, missed>>

ResetAnswered(r) ==
  /\ reset[r] = "call" /\ reset' = [reset EXCEPT ![r] = "none"]
  /\ IF socket.open /\ sentinel["clear"]
       THEN Changed("clear", FALSE) /\ UNCHANGED stuck
       ELSE stuck' = (stuck \/ sentinel["clear"]) /\ UNCHANGED <<heard, sentinel>>
  /\ UNCHANGED <<listener, failed, paused, socket, presses, outages, missed>>

----------------------------------------------------------------------------
(* stop(): it awaits the re-arm, then the listener, then the disconnect.   *)

StopAsked ==
  /\ listener \in {"ping", "reconnect", "gone"}
  /\ listener' = "draining"
  /\ UNCHANGED <<failed, paused, heard, reset, sentinel, socket, presses, outages, missed, stuck>>

MarkStopped ==
  /\ listener = "draining" /\ reset["due"] = "none" /\ listener' = "ending"
  /\ UNCHANGED <<failed, paused, heard, reset, sentinel, socket, presses, outages, missed, stuck>>

\* disconnect(); what was not handled by then is not handled at all.
Disconnect ==
  /\ listener = "ending" /\ listener' = "stopped"
  /\ socket' = [socket EXCEPT !.open = FALSE, !.registered = FALSE]
  /\ heard' = <<>>
  /\ UNCHANGED <<failed, paused, reset, sentinel, presses, outages, missed, stuck>>

HotkeyNext ==
  \/ Press \/ ConnectionLost \/ ObsReturns
  \/ StartListening \/ Listen \/ AttemptFails \/ PingFails
  \/ OnEvent \/ \E r \in {"due", "late"} : ResetBegins(r) \/ ResetAnswered(r)
  \/ StopAsked \/ MarkStopped \/ Disconnect

HotkeySpec == HotkeyInit /\ [][HotkeyNext]_hotkeyVars

----------------------------------------------------------------------------
(* Properties.                                                             *)

Attending == socket.open /\ heard = <<>>

\* With a session open and nothing on its way, captions are paused exactly
\* when the pause sentinel is muted, unless it changed while nobody listened:
\* the state OBS has at connect is never asked for.
PausedIsSentinel == Attending /\ ~missed => paused = sentinel["pause"]

\* The clear key never dies by itself: while a session is open its sentinel
\* is unmuted again after each use, unless a re-arm failed or met a stop().
ClearKeyArmed ==
  Attending /\ reset["due"] = "none" /\ reset["late"] = "none" /\ ~stuck => ~sentinel["clear"]

\* stop() never overtakes the re-arm of a clear key handled before it was
\* called; one handled while it waits may find it stopped, and is not re-armed.
RearmedBeforeStop == _stopped => reset["due"] = "none"

\* Both keys keep their meaning across lost connections and reconnects, and
\* stop() leaves no clear key behind that was handled before it.
KeysKeepTheirMeaning ==
  /\ HotkeyTypeOK
  /\ PausedIsSentinel /\ ClearKeyArmed /\ RearmedBeforeStop
=============================================================================
