----------------------------- MODULE ObsTextSink -----------------------------
(***************************************************************************)
(* The sink that writes captions into an OBS text source over              *)
(* obs-websocket.  Everything runs on one event loop, so a step is what    *)
(* happens between two awaits: the debounce task sleeps, sends, or waits   *)
(* for the reconnect task it shares with any other sender.  A caption is   *)
(* the number of the change that produced it; 0 is the empty text.         *)
(* The sink is built with its default debounce, which is not zero.         *)
(***************************************************************************)
EXTENDS Naturals, Sequences

CONSTANTS
  MaxCaptions, \* bound on the changes of the caption state
  MaxFaults,   \* bound on what goes wrong outside: OBS leaves, a source is removed
  MaxConnectAttempts

ASSUME SinkAssumption ==
  /\ MaxCaptions \in Nat /\ MaxFaults \in Nat
  /\ MaxConnectAttempts \in Nat \ {0}

VARIABLES
  phase,     \* "off", "starting", "on", "failed", "stopping" or "stopped"
  connected, \* _connected
  pending,   \* _pending_snapshot, 0 for None
  soon,      \* calls of _schedule_update left by call_soon_threadsafe
  deb,       \* the debounce task: at "none", "sleep", "send" or "join"; cap: what it sends
  rec,       \* the reconnect task: "none", "connect", "ensure" or "resend"
  tries,     \* failed attempts of _connect_with_retry
  latest,    \* the last caption the caption state published
  obs,       \* OBS: up, whether the source exists, the text shown, the client's session
  faults,
  unsent     \* the re-send after a reconnect failed, and nothing was sent since (history)

sinkVars == <<phase, connected, pending, soon, deb, rec, tries, latest, obs, faults, unsent>>

Idle == [at |-> "none", cap |-> 0]

SinkTypeOK ==
  /\ phase \in {"off", "starting", "on", "failed", "stopping", "stopped"}
  /\ connected \in BOOLEAN /\ unsent \in BOOLEAN
  /\ pending \in 0..MaxCaptions /\ latest \in 0..MaxCaptions
  /\ soon \in Seq(1..MaxCaptions)
  /\ deb \in [at : {"none", "sleep", "send", "join"}, cap : 0..MaxCaptions]
  /\ rec \in {"none", "connect", "ensure", "resend"}
  /\ tries \in 0..MaxConnectAttempts /\ faults \in 0..MaxFaults
  /\ obs \in [up : BOOLEAN, input : BOOLEAN, shown : 0..MaxCaptions, open : BOOLEAN]

SinkInit ==
  /\ phase = "off" /\ connected = FALSE /\ pending = 0 /\ soon = <<>>
  /\ deb = Idle /\ rec = "none" /\ tries = 0 /\ latest = 0
  /\ obs \in [up : BOOLEAN, input : BOOLEAN, shown : {0}, open : {FALSE}]
  /\ faults = 0 /\ unsent = FALSE

----------------------------------------------------------------------------
(* OBS.  A request is served, refused because the source does not exist,   *)
(* or lost with the connection, before or after OBS carried it out.        *)

Serves == obs.open /\ obs.input
CarriedOut(cap) == IF Serves THEN [obs EXCEPT !.shown = cap] ELSE obs

ObsChanges ==
  /\ \/ /\ faults < MaxFaults /\ faults' = faults + 1
        /\ \/ obs.up /\ obs' = [obs EXCEPT !.up = FALSE, !.open = FALSE]
           \/ obs.input /\ obs' = [obs EXCEPT !.input = FALSE]
     \/ ~obs.up /\ obs' = [obs EXCEPT !.up = TRUE] /\ UNCHANGED faults
  /\ UNCHANGED <<phase, connected, pending, soon, deb, rec, tries, latest, unsent>>

\* _ensure_source_exists: a source it creates is empty.
Ensured == IF obs.open /\ ~obs.input
           THEN [obs EXCEPT !.input = TRUE, !.shown = 0] ELSE obs

----------------------------------------------------------------------------
(* start(): the attempts, the source, the subscription.                    *)

StartSink ==
  /\ phase = "off" /\ phase' = "starting" /\ tries' = 0
  /\ UNCHANGED <<connected, pending, soon, deb, rec, latest, obs, faults, unsent>>

StartConnects ==
  /\ phase = "starting" /\ obs.up
  /\ phase' = "on" /\ connected' = TRUE
  /\ obs' = [obs EXCEPT !.open = TRUE, !.input = TRUE]
  /\ UNCHANGED <<pending, soon, deb, rec, tries, latest, faults, unsent>>

\* The last failed attempt makes start() raise ConnectionError.
StartFails ==
  /\ phase = "starting" /\ ~obs.up
  /\ tries' = tries + 1
  /\ phase' = IF tries' < MaxConnectAttempts THEN phase ELSE "failed"
  /\ UNCHANGED <<connected, pending, soon, deb, rec, latest, obs, faults, unsent>>

----------------------------------------------------------------------------
(* A caption arrives.                                                      *)

\* Mutant: a caption that arrives during an outage is dropped.
OnStateChangeDropping(snapshot) ==
  /\ soon' = IF connected THEN Append(soon, snapshot) ELSE soon
  /\ UNCHANGED pending

\* _on_state_change: during an outage the caption is kept for the re-send.
OnStateChange(snapshot) ==
  IF connected
    THEN soon' = Append(soon, snapshot) /\ UNCHANGED pending
    ELSE pending' = snapshot /\ UNCHANGED soon

Publish ==
  /\ phase = "on" /\ latest < MaxCaptions
  /\ latest' = latest + 1
  /\ OnStateChange(latest + 1)
  /\ UNCHANGED <<phase, connected, deb, rec, tries, obs, faults, unsent>>

\* task.cancel() on the debounce task: what it awaits is cancelled with it,
\* and that is the reconnect task when it waits for the shared reconnect.
CancelDebounce ==
  /\ rec' = IF deb.at = "join" THEN "none" ELSE rec
  /\ obs' \in CASE deb.at = "send" -> {obs, CarriedOut(deb.cap)}
                [] deb.at = "join" /\ rec = "ensure" -> {obs, Ensured}
                [] deb.at = "join" /\ rec = "resend" -> {obs, CarriedOut(pending)}
                [] OTHER -> {obs}

\* _schedule_update, run by the loop after the step that called for it.
ScheduleUpdate ==
  /\ soon # <<>>
  /\ soon' = Tail(soon) /\ pending' = Head(soon)
  /\ CancelDebounce
  /\ deb' = [at |-> "sleep", cap |-> 0]
  /\ UNCHANGED <<phase, connected, tries, latest, faults, unsent>>

----------------------------------------------------------------------------
(* The debounce task.  What was handed to call_soon runs before anything   *)
(* that takes another turn of the loop: a timer, an answer of OBS to a     *)
(* request not yet sent.  A failure may be noticed in the same turn.       *)

NextTurn == soon = <<>> /\ phase = "on"

\* _debounce_send after its sleep, up to the request of _send_snapshot.
DebounceElapsed ==
  /\ deb.at = "sleep" /\ soon = <<>> /\ phase # "stopping"
  /\ deb' = IF connected THEN [at |-> "send", cap |-> pending] ELSE Idle
  /\ UNCHANGED <<phase, connected, pending, soon, rec, tries, latest, obs, faults, unsent>>

SendSucceeds ==
  /\ deb.at = "send" /\ NextTurn /\ Serves
  /\ obs' = CarriedOut(deb.cap) /\ unsent' = FALSE
  /\ deb' = Idle
  /\ UNCHANGED <<phase, connected, pending, soon, rec, tries, latest, faults>>

\* The request is refused for want of the source, or fails with the connection,
\* carried out or not: the task goes on to await the reconnect it starts.
SendFails ==
  /\ deb.at = "send" /\ phase = "on" /\ ~Serves
  /\ obs' \in IF obs.input THEN {obs, [obs EXCEPT !.shown = deb.cap]} ELSE {obs}
  /\ connected' = FALSE
  /\ deb' = [deb EXCEPT !.at = "join"]
  /\ rec' = "connect" /\ tries' = 0
  /\ UNCHANGED <<phase, pending, soon, latest, faults, unsent>>

----------------------------------------------------------------------------
(* _run_reconnect.                                                         *)

\* The client may answer connect() on a session still open either way.
ReconnectSucceeds ==
  /\ rec = "connect" /\ NextTurn /\ obs.up
  /\ obs' = [obs EXCEPT !.open = TRUE]
  /\ connected' = TRUE /\ rec' = "ensure"
  /\ UNCHANGED <<phase, pending, soon, deb, tries, latest, faults, unsent>>

ReconnectAttemptFails ==
  /\ rec = "connect" /\ NextTurn /\ (~obs.up \/ obs.open)
  /\ tries' = tries + 1
  /\ IF tries' < MaxConnectAttempts
       THEN UNCHANGED <<rec, deb>>
       ELSE rec' = "none" /\ deb' = Idle
  /\ UNCHANGED <<phase, connected, pending, soon, latest, obs, faults, unsent>>

\* A failure to look for the source or to create it is logged, no more.
ReconnectEnsures ==
  /\ rec = "ensure" /\ NextTurn
  /\ obs' = Ensured
  /\ IF pending # 0
       THEN rec' = "resend" /\ UNCHANGED deb
       ELSE rec' = "none" /\ deb' = Idle
  /\ UNCHANGED <<phase, connected, pending, soon, tries, latest, faults, unsent>>

\* The one re-send of a reconnect; nobody looks at what came of it.
ReconnectResends ==
  /\ rec = "resend" /\ NextTurn
  /\ obs' = CarriedOut(pending)
  /\ unsent' = ~Serves
  /\ rec' = "none" /\ deb' = Idle
  /\ UNCHANGED <<phase, connected, pending, soon, tries, latest, faults>>

----------------------------------------------------------------------------
(* stop(): it yields to the loop while it cancels each of the two tasks.   *)

StopCancels ==
  /\ phase = "on" /\ phase' = "stopping"
  /\ CancelDebounce
  /\ deb' = Idle
  /\ UNCHANGED <<connected, pending, soon, tries, latest, faults, unsent>>

StopCloses ==
  /\ phase = "stopping" /\ phase' = "stopped"
  /\ rec' = "none" /\ connected' = FALSE
  /\ obs' = [obs EXCEPT !.open = FALSE]
  /\ UNCHANGED <<pending, soon, deb, tries, latest, faults, unsent>>

SinkNext ==
  \/ ObsChanges \/ StartSink \/ StartConnects \/ StartFails
  \/ Publish \/ ScheduleUpdate
  \/ DebounceElapsed \/ SendSucceeds \/ SendFails
  \/ ReconnectSucceeds \/ ReconnectAttemptFails \/ ReconnectEnsures \/ ReconnectResends
  \/ StopCancels \/ StopCloses

SinkSpec == SinkInit /\ [][SinkNext]_sinkVars

----------------------------------------------------------------------------
(* Properties.                                                             *)

Quiet == phase = "on" /\ soon = <<>> /\ deb.at = "none" /\ rec = "none"

\* Whenever the sink is connected and has nothing left to do, OBS shows the
\* newest caption, whatever outages, removed sources and cancelled tasks came
\* before; the one exception is a re-send that itself failed, of which the
\* code takes no notice.
CatchesUp ==
  /\ SinkTypeOK
  /\ Quiet /\ connected /\ ~unsent => obs.shown = latest

\* After stop() the sink holds no session, sends nothing and reconnects no
\* more, in whatever state its tasks were.
StoppedIsFinal ==
  phase = "stopped" => rec = "none" /\ ~obs.open /\ deb.at \in {"none", "sleep"}

\* The text source never stays behind the captions, and after stop() the sink has
\* let go of it.
SinkKeepsUp == CatchesUp /\ StoppedIsFinal
=============================================================================
