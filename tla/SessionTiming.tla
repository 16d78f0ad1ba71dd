--------------------------- MODULE SessionTiming ---------------------------
(***************************************************************************)
(* The clocks of a session: how long start() and start_session wait for    *)
(* READY, how the heartbeat thread tells a live child from a dead one, and *)
(* how long the supervisor rests between two sessions.                     *)
(*                                                                         *)
(* Time advances by ticks; whoever is due acts before the next tick.  The  *)
(* order of the threads within a step and the steps of a teardown are in   *)
(* IpcBridge, which lets every timeout pass at any moment.                 *)
(***************************************************************************)
EXTENDS Naturals

CONSTANTS
  HelloTimeout,      \* Config::hello_timeout, in ticks like all that follow
  HeartbeatInterval, \* Config::heartbeat_interval
  HeartbeatTimeout,  \* Config::heartbeat_timeout
  BaseBackoff,       \* Config::restart_base_backoff
  MaxBackoff,        \* Config::restart_max_backoff
  ReplyDelay,        \* bound on the time a running child takes to read a frame
  Replies            \* TRUE: the child answers a HEARTBEAT with one of its own, as
                     \* the child of the bridge's tests does; FALSE: it reads it
                     \* and does nothing, as _reader_loop of the sidecar does

ASSUME TimesAssumption ==
  /\ HelloTimeout \in Nat /\ HeartbeatTimeout \in Nat /\ ReplyDelay \in Nat
  /\ BaseBackoff \in Nat /\ MaxBackoff \in Nat
  /\ HeartbeatInterval \in Nat \ {0}
ASSUME RepliesAssumption == Replies \in BOOLEAN

VARIABLES
  phase,    \* of the session: "off", "starting", "up", "teardown" or "backoff"
  asking,   \* start() waits for the session to come up
  patience, \* time left of that wait
  hello,    \* time wait_for_ready has waited
  nap,      \* time left of the heartbeat thread's sleep
  silence,  \* age of last_heartbeat_ns_
  mute,     \* time since the child was heard, READY included (history)
  child,    \* "none", "loading", "running" or "hung"
  unread,   \* a HEARTBEAT is on its way to the child
  age,      \* time since it was sent
  scale,    \* 1 << min(restart_count, 6)
  rest      \* time left of backoff_sleep

waiting    == <<asking, patience>>
beat       == <<nap, silence, mute>>
mail       == <<unread, age>>
recovery   == <<scale, rest>>
clocksVars == <<phase, waiting, hello, beat, child, mail, recovery>>

MaxScale == 64

\* backoff_sleep; its jitter, at most 10 ms, is shorter than a tick.
Delay(n) == IF BaseBackoff * n > MaxBackoff THEN MaxBackoff ELSE BaseBackoff * n

ClocksInit ==
  /\ phase = "off" /\ child = "none"
  /\ asking = FALSE /\ patience = 0
  /\ hello = 0 /\ nap = 0 /\ silence = 0 /\ mute = 0
  /\ unread = FALSE /\ age = 0
  /\ scale = 1 /\ rest = 0

----------------------------------------------------------------------------
(* The supervisor and the host.                                            *)

\* start_session: last_heartbeat_ns_ is set before the child is spawned.
Spawn ==
  /\ phase' = "starting" /\ child' = "loading"
  /\ hello' = 0 /\ silence' = 0 /\ mute' = 0
  /\ unread' = FALSE /\ age' = 0

Start ==
  /\ phase = "off" /\ ~asking
  /\ asking' = TRUE /\ patience' = HelloTimeout
  /\ scale' = 1
  /\ Spawn
  /\ UNCHANGED <<nap, rest>>

\* Mutant: the heartbeat thread sleeps before it sends the first HEARTBEAT.
ReadySleepsFirst ==
  /\ phase = "starting" /\ child = "loading"
  /\ phase' = "up" /\ child' = "running"
  /\ asking' = FALSE
  /\ mute' = 0 /\ nap' = HeartbeatInterval
  /\ scale' = 1
  /\ UNCHANGED <<patience, hello, silence, mail, rest>>

\* The child's READY: wait_for_ready and start() are satisfied, the heartbeat
\* thread starts, and the first thing it does is to send a HEARTBEAT.
Ready ==
  /\ phase = "starting" /\ child = "loading"
  /\ phase' = "up" /\ child' = "running"
  /\ asking' = FALSE
  /\ mute' = 0 /\ nap' = HeartbeatInterval
  /\ unread' = TRUE /\ age' = 0
  /\ scale' = 1
  /\ UNCHANGED <<patience, hello, silence, rest>>

HelloExpires ==
  /\ phase = "starting" /\ hello = HelloTimeout
  /\ phase' = "teardown"
  /\ UNCHANGED <<waiting, hello, beat, child, mail, recovery>>

\* The reader: end of file, or a STATUS that reports an error.
ChildFails ==
  /\ phase \in {"starting", "up"} /\ child \in {"loading", "running"}
  /\ phase' = "teardown"
  /\ UNCHANGED <<waiting, hello, beat, child, mail, recovery>>

\* execute_teardown for a restart, and the beginning of backoff_sleep.
Teardown ==
  /\ phase = "teardown"
  /\ phase' = "backoff" /\ child' = "none" /\ unread' = FALSE
  /\ scale' = IF scale < MaxScale THEN 2 * scale ELSE scale
  /\ rest' = Delay(scale')
  /\ UNCHANGED <<waiting, hello, beat, age>>

Respawn ==
  /\ phase = "backoff" /\ rest = 0
  /\ Spawn
  /\ UNCHANGED <<waiting, nap, recovery>>

\* stop(), whatever the supervisor is at.
Off ==
  /\ phase' = "off" /\ child' = "none" /\ unread' = FALSE
  /\ asking' = FALSE
  /\ UNCHANGED <<patience, hello, beat, age, recovery>>

\* start() waits in vain, or sees that the session is being restarted.
GiveUp ==
  /\ asking /\ (patience = 0 \/ phase \in {"teardown", "backoff"})
  /\ Off

Stop == ~asking /\ phase # "off" /\ Off

----------------------------------------------------------------------------
(* The heartbeat thread and the child.                                     *)

\* Mutant: a sign of life is taken from what was sent.
BeatForgets ==
  /\ phase = "up" /\ nap = 0
  /\ nap' = HeartbeatInterval /\ silence' = 0
  /\ unread' = TRUE /\ age' = IF unread THEN age ELSE 0
  /\ UNCHANGED <<phase, waiting, hello, mute, child, recovery>>

\* run_heartbeat after its sleep: too long without a heartbeat, or the next one.
\* The queue holds one HEARTBEAT at a time.
Beat ==
  /\ phase = "up" /\ nap = 0
  /\ IF silence > HeartbeatTimeout
       THEN phase' = "teardown" /\ UNCHANGED <<nap, mail>>
       ELSE /\ nap' = HeartbeatInterval
            /\ unread' = TRUE /\ age' = IF unread THEN age ELSE 0
            /\ UNCHANGED phase
  /\ UNCHANGED <<waiting, hello, silence, mute, child, recovery>>

\* The child reads the HEARTBEAT; its answer, if it gives one, reaches the reader.
ChildReads ==
  /\ phase = "up" /\ child = "running" /\ unread
  /\ unread' = FALSE
  /\ IF Replies THEN silence' = 0 /\ mute' = 0 ELSE UNCHANGED <<silence, mute>>
  /\ UNCHANGED <<phase, waiting, hello, nap, child, age, recovery>>

ChildHangs ==
  /\ child \in {"loading", "running"}
  /\ child' = "hung"
  /\ UNCHANGED <<phase, waiting, hello, beat, mail, recovery>>

----------------------------------------------------------------------------
(* Time.                                                                   *)

\* Nobody is due.  A teardown takes what time it takes.
NobodyDue ==
  /\ asking => patience > 0
  /\ phase = "starting" => hello < HelloTimeout
  /\ phase = "up" => nap > 0
  /\ phase = "backoff" => rest > 0
  /\ phase = "up" /\ child = "running" /\ unread => age < ReplyDelay

Tick ==
  /\ phase # "off" /\ NobodyDue
  /\ patience' = IF asking THEN patience - 1 ELSE patience
  /\ hello'    = IF phase = "starting" THEN hello + 1 ELSE hello
  /\ silence'  = IF phase \in {"starting", "up"} THEN silence + 1 ELSE silence
  /\ mute'     = IF phase = "up" THEN mute + 1 ELSE mute
  /\ nap'      = IF phase = "up" THEN nap - 1 ELSE nap
  /\ age'      = IF phase = "up" /\ unread THEN age + 1 ELSE age
  /\ rest'     = IF phase = "backoff" THEN rest - 1 ELSE rest
  /\ UNCHANGED <<phase, asking, child, unread, scale>>

ClocksNext ==
  \/ Start \/ Ready \/ HelloExpires \/ ChildFails \/ Teardown \/ Respawn \/ GiveUp \/ Stop
  \/ Beat \/ ChildReads \/ ChildHangs
  \/ Tick

ClocksSpec == ClocksInit /\ [][ClocksNext]_clocksVars

----------------------------------------------------------------------------
\* Every clock is a number of ticks, and none runs below 0.
ClocksTypeOK ==
  /\ phase \in {"off", "starting", "up", "teardown", "backoff"}
  /\ child \in {"none", "loading", "running", "hung"}
  /\ asking \in BOOLEAN /\ unread \in BOOLEAN
  /\ patience \in Nat /\ hello \in Nat /\ rest \in Nat
  /\ nap \in Nat /\ silence \in Nat /\ mute \in Nat /\ age \in Nat
  /\ scale \in {1, 2, 4, 8, 16, 32, MaxScale}

\* A child that has fallen silent is given up after one timeout and one interval,
\* however late its READY came and whenever the silence began between two beats.
NoticedInTime == phase = "up" => mute <= HeartbeatTimeout + HeartbeatInterval

\* docs/OBS_PLUGIN_IPC.md:266: a session is restarted for want of heartbeats only if
\* its child does not react any more.
NoFalseAlarm ==
  phase = "up" /\ nap = 0 /\ silence > HeartbeatTimeout => child = "hung"
=============================================================================
